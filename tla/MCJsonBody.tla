----------------------------- MODULE MCJsonBody -----------------------------
(***************************************************************************)
(* Small instances of JsonBody and ModelFiles.  A document is a short      *)
(* sequence of lexemes, a list of up to MaxUnits units in brackets, or     *)
(* what operator<< prints for a value.  The types of integers have 2, 4    *)
(* and 8 bits for 8, 32 and 64, and numbers are printed with 2 digits      *)
(* instead of 6.                                                           *)
(***************************************************************************)
EXTENDS ModelFiles, JsonValues

CONSTANTS
  MaxLexemes,    \* length of the sequences of lexemes
  MaxUnits       \* length of what is in the brackets of a list

(* Among them one of three digits, as 1111111111 is one of more than six.  *)
Numerals ==
  {<<"0">>, <<"-", "1", "2">>, <<"1", ".", "2", "0">>, <<"2", "e", "1">>,
   <<"1", "e", "-", "2">>, <<"-", "1", ".", "2", "e", "+", "2">>,
   <<"1", "1", "2">>, <<"1", "2", "e", "-", "2", "2">>, <<"-", "0", ".", "0">>,
   <<"2", "1", ".", "1">>, <<"2", "0">>}

Symbols == {<<p>> : p \in Punctuation}
Scalars == {<<Quote, Quote>>, <<"1">>}
Lexemes == Symbols \cup Scalars \cup {<<" ">>}

Member == <<<<Quote, Quote>>, <<":">>, <<"1">>>>
Units == {<<l>> : l \in Lexemes} \cup {Member}
Lists ==
  {<<b[1]>> \o FlattenSeq(units) \o <<b[2]>> :
     b \in {<<<<"[">>, <<"]">>>>, <<<<"{">>, <<"}">>>>},
     units \in SeqOf(Units, MaxUnits)}

(* Two numbers without anything between them would be one. *)
Sentences ==
  {s \in SeqOf(Lexemes, MaxLexemes) \cup Lists :
     \A i \in 1 .. Len(s) - 1 : {s[i], s[i + 1]} # {<<"1">>}}
  \cup {<<n>> : n \in Numerals}

Strings ==
  {<<>>, <<"t">>, <<"1", " ", "{">>, <<",", "]">>, <<Quote>>, <<Newline>>,
   <<Escape, "t">>}

Atoms ==
  {"num" :> n : n \in Numerals} \cup {"str" :> s : s \in Strings}
    \cup {"bool" :> <<"t">>, "bool" :> <<"f">>, "nil" :> <<"n">>}
Arrays(S) == {"array" :> s : s \in SeqOf(S, 2)}
Objects(S) ==
  {"object" :> f : f \in UNION {[K -> S] : K \in SUBSET {<<>>, <<"t">>}}}

Few == {"num" :> <<"1", "2">>, "str" :> <<",", "]">>, "nil" :> <<"n">>}
MaxDepth == 2    \* of the values

Composites == Arrays(Few) \cup Objects(Few)
Values ==
  Atoms \cup Composites
    \cup {"array" :> <<v>> : v \in Atoms \cup Composites}
    \cup {"object" :> (<<"t">> :> v) : v \in Composites}

MCSources ==
  {[text |-> FlattenSeq(s), lexemes |-> s] : s \in Sentences}
  \cup {[text |-> Printed(v), value |-> v] : v \in Values}
HasLexemes == "lexemes" \in DOMAIN source

-----------------------------------------------------------------------------
(* Properties. *)

(* The grammar, on lexemes without white space. *)
RECURSIVE IsJson(_), IsList(_, _)
IsMember(l) ==
  Len(l) > 2 /\ l[1] = <<Quote, Quote>> /\ l[2] = <<":">>
    /\ IsJson(SubSeq(l, 3, Len(l)))
IsJson(l) ==
  \/ Len(l) = 1 /\ l[1] \in Scalars \cup Numerals
  \/ /\ Len(l) > 1
     /\ LET inner == SubSeq(l, 2, Len(l) - 1)
        IN \/ l[1] = <<"[">> /\ Last(l) = <<"]">>
              /\ (inner = <<>> \/ IsList(inner, "["))
           \/ l[1] = <<"{">> /\ Last(l) = <<"}">>
              /\ (inner = <<>> \/ IsList(inner, "{"))
IsList(l, kind) ==
  \/ kind = "[" /\ IsJson(l)
  \/ kind = "{" /\ IsMember(l)
  \/ \E i \in DOMAIN l :
       l[i] = <<",">> /\ IsList(SubSeq(l, 1, i - 1), kind)
                      /\ IsList(SubSeq(l, i + 1, Len(l)), kind)

(* Of the sentences of lexemes, the parser accepts the JSON texts and no   *)
(* others: commas separate, brackets match, keys are strings, nothing      *)
(* follows.                                                                *)
AcceptsTheGrammar ==
  result # NoResult /\ HasLexemes /\ Undisturbed =>
    (Accepted <=> IsJson(SelectSeq(source.lexemes, LAMBDA l : l # <<" ">>)))

AllParts(v) == UNION {PartsAt(v, n) : n \in 0 .. MaxDepth}
StringsIn(v) ==
  UNION {CASE DOMAIN w = {"str"}    -> {w.str}
           [] DOMAIN w = {"object"} -> DOMAIN w.object
           [] OTHER                 -> {} : w \in AllParts(v)}
PlainStrings(v) ==
  \A s \in StringsIn(v) : ToSet(s) \cap {Quote, Escape, Newline} = {}
ShortNumbers(v) ==
  \A w \in AllParts(v) :
    DOMAIN w = {"num"} => Len(Number(w.num).digits) <= Precision

(* What operator<< prints, Parse reads back as an equal value if and only  *)
(* if no string has a quote, a backslash or a newline in it, which are     *)
(* printed as they are, and no number has more digits than are printed.    *)
(* A number that has lost some is still read back as a number.             *)
PrintedIsReadBack ==
  result # NoResult /\ ~HasLexemes /\ Undisturbed =>
    LET v == source.value
    IN /\ PlainStrings(v) => Accepted
       /\ Accepted /\ Eq(result.val, v) <=> PlainStrings(v) /\ ShortNumbers(v)

(* A value with its numbers instead of numerals. *)
RECURSIVE Meaning(_)
Meaning(v) ==
  CASE DOMAIN v = {"num"} ->
         LET x == Number(v.num)
         IN [num |-> [x EXCEPT !.negative = @ /\ x.digits # <<>>]]
    [] DOMAIN v = {"array"} ->
         [array |-> [i \in DOMAIN v.array |-> Meaning(v.array[i])]]
    [] DOMAIN v = {"object"} ->
         [object |-> [k \in DOMAIN v.object |-> Meaning(v.object[k])]]
    [] OTHER -> v

(* operator== is equality: it looks at all parts of both values, and it    *)
(* does not matter which of them is on the left.                           *)
EqualityTellsValuesApart ==
  ~HasLexemes /\ stream = Unsent =>
    \A v \in Values :
      Eq(source.value, v) <=> Meaning(source.value) = Meaning(v)
=============================================================================

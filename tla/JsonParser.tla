----------------------------- MODULE JsonParser -----------------------------
(***************************************************************************)
(* gabby::json (src/json/parser.{h,cc}): the scanner, the recursive        *)
(* descent parser and Parse, which reads a body of a given size from a     *)
(* stream on which reads may time out or fail.                             *)
(*                                                                         *)
(* An operator on the state s of a Parser stands for a method; what the    *)
(* method returns is in the fields c, tok or val of its result, and an     *)
(* exception is in err, after which nothing happens any more.  A loop is   *)
(* the longest run of characters that it takes, or a recursive function of *)
(* the number of rounds; the recursion of Parser::Value is a stack.        *)
(*                                                                         *)
(* Characters are the ones that the code tells apart.  One letter stands   *)
(* for a word: "t", "f" and "n" for true, false and null.                  *)
(***************************************************************************)
EXTENDS Integers, Sequences, SequencesExt, TLC

Eof == "eof"         \* GetChar's result, and "no character"
Late == "late"       \* in a stream: a read that times out
Reset == "reset"     \* in a stream: a read that fails
Quote == "\""
Escape == "\\"
Newline == "\n"

Punctuation == {"[", "]", "{", "}", ",", ":"}
Digits == {"0", "1", "2"}
Letters == {"t", "f", "n", "e"}
Alnum == Digits \cup Letters
Space == {" ", Newline}
Characters ==
  Punctuation \cup Alnum \cup Space \cup {Quote, Escape, ".", "+", "-"}
Words ==
  [w \in {<<"t">>, <<"f">>, <<"n">>} |-> IF w = <<"n">> THEN "nil" ELSE "bool"]

Ok(s) == s.err = "none"
Fail(s, e) == [s EXCEPT !.err = e]
NoToken == [type |-> "none", text |-> <<>>]

(* What comes after a method that may have thrown. *)
Then(s, Op(_)) == IF Ok(s) THEN Op(s) ELSE s

(* A call of Parser::Value that has not looked at its token yet; later its *)
(* type is the bracket of a list.                                          *)
Call == [type |-> "none", values |-> <<>>, key |-> <<>>]

(* A Scanner and Parser at the beginning of a stream, in Parser::Value.    *)
(* look tells whether the next character of `in` is lookahead_, which has  *)
(* been read from the FILE already; calls are those that have not          *)
(* returned, the innermost first.                                          *)
Start(stream, size) ==
  [in |-> stream, size |-> size, pos |-> 0, look |-> FALSE, ahead |-> NoToken,
   c |-> Eof, fault |-> "none", tok |-> NoToken, calls |-> <<Call>>,
   val |-> <<>>, err |-> "none"]

-----------------------------------------------------------------------------
(* Scanner *)

AtEndByOne(s) == s.pos > s.size                 \* Mutant of AtEnd.
AtEnd(s) == s.pos >= s.size

(* Without the next n characters. *)
Past(s, n) ==
  IF n = 0 THEN s
  ELSE [s EXCEPT !.in = SubSeq(@, n + 1, Len(@)), !.pos = @ + n,
                 !.look = FALSE]

(* clearerr, then the lookahead or fgetc.  A read that times out or fails  *)
(* leaves an error in the FILE: fault.                                     *)
GetChar(s) ==
  CASE ~s.look /\ (AtEnd(s) \/ s.in = <<>>) ->
         [s EXCEPT !.c = Eof, !.fault = "none"]
    [] ~s.look /\ ~AtEnd(s) /\ s.in # <<>> /\ Head(s.in) \in {Late, Reset} ->
         [s EXCEPT !.c = Eof, !.fault = Head(s.in), !.in = Tail(@)]
    [] OTHER ->
         [Past(s, 1) EXCEPT !.c = Head(s.in), !.fault = "none"]

UngetChar(s) ==
  [s EXCEPT !.in = <<s.c>> \o @, !.pos = @ - 1, !.look = TRUE]

(* The next characters of a class, as long as there are any. *)
RunOf(s, class) ==
  CHOOSE n \in 0 .. Len(s.in) :
    /\ \A i \in 1 .. n : s.in[i] \in class /\ ~AtEnd(Past(s, i - 1))
    /\ n = Len(s.in) \/ s.in[n + 1] \notin class \/ AtEnd(Past(s, n))

SkipWhitespace(s) ==
  LET g == GetChar(Past(s, RunOf(s, Space)))
  IN IF g.c = Eof THEN g ELSE UngetChar(g)

(* No character at the end and after a timeout; an error otherwise. *)
PeekChar(s) ==
  LET g == GetChar(s)
  IN CASE g.c # Eof                       -> UngetChar(g)
       [] g.c = Eof /\ g.fault = Reset    -> Fail(g, "system")
       [] OTHER                           -> g

(* A timeout is an error here. *)
Advance(s) ==
  LET g == GetChar(s)
  IN CASE g.c # Eof                       -> g
       [] g.c = Eof /\ g.fault = "none"   -> Fail(g, "parse")
       [] OTHER                           -> Fail(g, "system")

(* s.push_back(Advance()) *)
Pushed(s) == [s EXCEPT !.tok.text = Append(@, s.c)]
Push(s) == Then(Advance(s), Pushed)

(* while (!is_delim(Peek()) && *Peek() is not in stop) push_back *)
PushWord(s, stop) ==
  LET n == RunOf(s, Alnum \ stop)
  IN PeekChar([Past(s, n) EXCEPT !.tok.text = @ \o SubSeq(s.in, 1, n)])

(* The loop of a string; the type of its token is "quoted" in it, and      *)
(* "escaped" after a backslash.                                            *)
StringChar(s) ==
  CASE s.c = Newline -> Fail(s, "parse")
    [] s.c = Quote /\ s.tok.type = "quoted" -> [s EXCEPT !.tok.type = "str"]
    [] s.c = Escape /\ s.tok.type = "quoted" ->
         [s EXCEPT !.tok.type = "escaped"]
    [] OTHER -> [Pushed(s) EXCEPT !.tok.type = "quoted"]

StringRound(s) ==
  IF Ok(s) /\ s.tok.type # "str" THEN Then(Advance(s), StringChar) ELSE s

ScanString(s) ==
  LET rounds == Len(s.in) + 1
      after[n \in 0 .. rounds] ==
        IF n = 0 THEN [s EXCEPT !.tok.type = "quoted"]
        ELSE StringRound(after[n - 1])
  IN after[rounds]

IsDigits(t) == t # <<>> /\ ToSet(t) \subseteq Digits
IsDecimal(t) ==
  IsDigits(t) \/ \E i \in DOMAIN t : t[i] = "." /\ IsDigits(RemoveAt(t, i))
Unsigned(t, signs) == IF t # <<>> /\ Head(t) \in signs THEN Tail(t) ELSE t
IsNumeral(t) ==
  LET u == Unsigned(t, {"-"})
  IN \/ IsDecimal(u)
     \/ \E i \in DOMAIN u :
          /\ u[i] = "e"
          /\ IsDecimal(SubSeq(u, 1, i - 1))
          /\ IsDigits(Unsigned(SubSeq(u, i + 1, Len(u)), {"+", "-"}))

Longest(S) == CHOOSE p \in S : \A q \in S : Len(q) <= Len(p)

StodTrusts(t) == t                              \* Mutants of Stod.
Stoi(t) ==
  Longest({p \in Prefixes(t) : IsDigits(Unsigned(p, {"-"}))} \cup {<<>>})
(* The longest numeral at the beginning, or <<>> if there is none. *)
Stod(t) == Longest({p \in Prefixes(t) : IsNumeral(p)} \cup {<<>>})

(* The parts of a number after its sign. *)
Integral(s) == Then(Push(s), LAMBDA q : PushWord(q, {"e"}))

Fraction(s) ==
  Then(PeekChar(s), LAMBDA p : IF p.c = "." THEN Integral(p) ELSE p)

(* The character after "e" is taken whatever it is. *)
Exponent(s) ==
  Then(PeekChar(s), LAMBDA p :
    IF p.c = "e"
    THEN Then(Then(Then(Push(p), PeekChar), Push), LAMBDA q : PushWord(q, {}))
    ELSE p)

ScanNumber(s) ==
  Then(Then(Then(Then(IF s.c = "-" THEN Push(s) ELSE s,
                      Integral), Fraction), Exponent), LAMBDA n :
    IF Stod(n.tok.text) = <<>> THEN Fail(n, "parse")
    ELSE [n EXCEPT !.tok.type = "num", !.tok.text = Stod(@)])

ScanWord(s) ==
  Then(Then(Push(s), LAMBDA q : PushWord(q, {})), LAMBDA w :
    IF w.tok.text \in DOMAIN Words
    THEN [w EXCEPT !.tok.type = Words[w.tok.text]]
    ELSE Fail(w, "parse"))

Scan(s) ==
  Then(PeekChar(SkipWhitespace([s EXCEPT !.tok = NoToken])), LAMBDA p :
    CASE p.c = Eof                   -> p
      [] p.c \in Punctuation         -> [Advance(p) EXCEPT !.tok.type = p.c]
      [] p.c = Quote                 -> ScanString(Advance(p))
      [] p.c \in Digits \cup {"-"}   -> ScanNumber(p)
      [] p.c \in Letters             -> ScanWord(p)
      [] OTHER                       -> Fail(p, "parse"))

-----------------------------------------------------------------------------
(* Parser *)

(* A token that could not be read is asked for again next time. *)
Peek(s) ==
  IF s.ahead # NoToken THEN s
  ELSE Then(Scan(s), LAMBDA t :
         [SkipWhitespace(t) EXCEPT !.ahead = t.tok])

NextToken(s) ==
  Then(Peek(s), LAMBDA p :
    IF p.ahead = NoToken THEN Fail(p, "parse")
    ELSE [p EXCEPT !.tok = p.ahead, !.ahead = NoToken])

Eat(s, type) ==
  Then(NextToken(s), LAMBDA n :
    IF n.tok.type = type THEN n ELSE Fail(n, "parse"))

CommaIsOptional(s, first) ==                    \* Mutant of Separated.
  IF Peek(s).ahead.type = "," THEN Eat(s, ",") ELSE s
Separated(s, first) == IF first THEN s ELSE Eat(s, ",")

Called(s) == [s EXCEPT !.calls = <<Call>> \o @]

(* A json value of one of the types. *)
Tagged(type, x) == [t \in {type} |-> x]

(* f[key] = v *)
With(f, key, v) ==
  [k \in DOMAIN f \cup {key} |-> IF k = key THEN v ELSE f[k]]

Extended(call, v) ==
  [call EXCEPT !.values = IF call.type = "[" THEN Append(@, v)
                          ELSE With(@, call.key, v)]

(* The innermost call returns v: to Parse, or to the list it is part of. *)
Returns(s, v) ==
  IF Len(s.calls) = 1 THEN [s EXCEPT !.calls = <<>>, !.val = v]
  ELSE [s EXCEPT !.calls = <<Extended(s.calls[2], v)>> \o Tail(Tail(@))]

Value(s) ==
  Then(Peek(s), LAMBDA p :
    CASE p.ahead.type \in {"num", "str", "bool", "nil"} ->
           Returns(NextToken(p), Tagged(p.ahead.type, p.ahead.text))
      [] p.ahead.type \in {"[", "{"} ->
           [NextToken(p) EXCEPT !.calls[1].type = p.ahead.type]
      [] OTHER -> Fail(p, "parse"))

Closing(type) == IF type = "[" THEN "]" ELSE "}"
ListOf(call) ==
  Tagged(IF call.type = "[" THEN "array" ELSE "object", call.values)

Key(s) ==
  Then(Eat(s, "str"), LAMBDA k :
    Eat([k EXCEPT !.calls[1].key = k.tok.text], ":"))

(* A round of the loop over the elements or members of a list. *)
Element(s) ==
  LET list == Head(s.calls)
      close == Closing(list.type)
  IN Then(Peek(s), LAMBDA p :
       IF p.ahead.type \in {"none", close}
       THEN Then(Eat(p, close), LAMBDA q : Returns(q, ListOf(list)))
       ELSE Then(Then(Separated(p, list.values = <<>>),
                      LAMBDA q : IF list.type = "[" THEN q ELSE Key(q)),
                 Called))

Round(s) ==
  CASE ~Ok(s) \/ s.calls = <<>> -> s
    [] Ok(s) /\ s.calls # <<>> /\ Head(s.calls).type = "none" -> Value(s)
    [] OTHER -> Element(s)

IgnoresTheRest(s) == FALSE                      \* Mutant of Trailing.
Trailing(s) == s.pos # s.size

(* Twice as many rounds as there are characters are enough: two rounds in  *)
(* a row take a token.                                                     *)
Parse(stream, size) ==
  LET rounds == 2 * Len(stream) + 1
      after[n \in 0 .. rounds] ==
        IF n = 0 THEN Start(stream, size) ELSE Round(after[n - 1])
  IN Then(after[rounds], LAMBDA v :
       IF Trailing(v) THEN Fail(v, "parse") ELSE v)
=============================================================================

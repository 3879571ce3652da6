----------------------------- MODULE JsonValues -----------------------------
(***************************************************************************)
(* Printing and comparison of gabby::json values (src/json/json.{h,cc}).   *)
(* A value is a record with one field, named for its type.                 *)
(*                                                                         *)
(* A number is a double; what distinguishes doubles here is the decimal    *)
(* number that a short numeral means.                                      *)
(***************************************************************************)
EXTENDS JsonParser

CONSTANT Precision     \* how many digits of a number operator<< prints: 6

ASSUME JsonValuesAssumption == Precision \in Nat \ {0}

-----------------------------------------------------------------------------
(* The number 0.d1d2d3... * 10^point, without zeros at the ends of digits. *)

InOrder == <<"0", "1", "2">>
DigitValue(d) == (CHOOSE i \in DOMAIN InOrder : InOrder[i] = d) - 1
Natural(t) == FoldLeft(LAMBDA n, d : 10 * n + DigitValue(d), 0, t)
Whole(t) ==
  LET n == Natural(Unsigned(t, {"+", "-"}))
  IN IF t # <<>> /\ Head(t) = "-" THEN -n ELSE n

Before(c, t) == Longest({p \in Prefixes(t) : ~Contains(p, c)})
After(c, t) == SubSeq(t, Len(Before(c, t)) + 2, Len(t))
ZerosBefore(t) == Longest({p \in Prefixes(t) : ToSet(p) \subseteq {"0"}})
WithoutZeros(t) ==
  LET u == SubSeq(t, Len(ZerosBefore(t)) + 1, Len(t))
  IN SubSeq(u, 1, Len(u) - Len(ZerosBefore(Reverse(u))))

Number(t) ==
  LET u == Unsigned(t, {"-"})
      mantissa == Before("e", u)
      before == Before(".", mantissa)
      digits == before \o After(".", mantissa)
      point == Len(before) - Len(ZerosBefore(digits)) + Whole(After("e", u))
  IN [negative |-> Head(t) = "-", digits |-> WithoutZeros(digits),
      point |-> IF WithoutZeros(digits) = <<>> THEN 1 ELSE point]

(* == of doubles: zeros are equal. *)
SameNumber(x, y) == x = y \/ {x.digits, y.digits} = {<<>>}

-----------------------------------------------------------------------------
(* operator<< of doubles.  No digit is so large that it would be rounded   *)
(* up, and no exponent has more than two digits.                           *)

Zeros(n) == [i \in 1 .. n |-> "0"]
Digit(n) == InOrder[n + 1]

Significant(digits) ==
  WithoutZeros(SubSeq(digits, 1, Min({Precision, Len(digits)})))

WithFraction(whole, fraction) ==
  whole \o (IF fraction = <<>> THEN <<>> ELSE <<".">>) \o fraction

Fixed(digits, point) ==
  IF point <= 0 THEN WithFraction(<<"0">>, Zeros(-point) \o digits)
  ELSE LET n == Min({point, Len(digits)})
       IN WithFraction(SubSeq(digits, 1, n) \o Zeros(point - n),
                       SubSeq(digits, n + 1, Len(digits)))

Scientific(digits, exponent) ==
  LET n == IF exponent < 0 THEN -exponent ELSE exponent
  IN WithFraction(<<Head(digits)>>, Tail(digits))
     \o <<"e", IF exponent < 0 THEN "-" ELSE "+",
          Digit(n \div 10), Digit(n % 10)>>

PrintedNumber(t) ==
  LET x == Number(t)
      digits == Significant(x.digits)
      exponent == x.point - 1
  IN (IF x.negative THEN <<"-">> ELSE <<>>)
     \o (IF exponent \in -4 .. Precision - 1 THEN Fixed(digits, x.point)
         ELSE Scientific(digits, exponent))

-----------------------------------------------------------------------------
(* operator<< of values.  Strings are printed as they are, and the members *)
(* of an object come in some order.                                        *)

Joined(texts) ==
  FoldLeft(LAMBDA a, b : IF a = <<>> THEN b ELSE a \o <<",", " ">> \o b,
           <<>>, texts)

RECURSIVE Printed(_)
Printed(v) ==
  CASE DOMAIN v = {"str"}    -> <<Quote>> \o v.str \o <<Quote>>
    [] DOMAIN v = {"num"}    -> PrintedNumber(v.num)
    [] DOMAIN v = {"bool"}   -> v.bool
    [] DOMAIN v = {"nil"}    -> v.nil
    [] DOMAIN v = {"array"}  ->
         <<"[">> \o Joined([i \in DOMAIN v.array |-> Printed(v.array[i])])
           \o <<"]">>
    [] DOMAIN v = {"object"} ->
         LET keys == SetToSeq(DOMAIN v.object)
             member(k) ==
               <<Quote>> \o k \o <<Quote, ":", " ">> \o Printed(v.object[k])
         IN <<"{">> \o Joined([i \in DOMAIN keys |-> member(keys[i])])
              \o <<"}">>

-----------------------------------------------------------------------------
(* operator==.  Values of different types differ.  The second of the two   *)
(* calls of eq loops over the parts of rhs, the elements of an array or    *)
(* the members of an object, and looks for them in lhs.                    *)

AnySize(f, g) == TRUE                           \* Mutant of SameSize.
SameSize(f, g) == Cardinality(DOMAIN f) = Cardinality(DOMAIN g)

RECURSIVE Eq(_, _)
EqParts(f, g) ==
  SameSize(g, f) /\ \A k \in DOMAIN g : k \in DOMAIN f /\ Eq(g[k], f[k])
Eq(lhs, rhs) ==
  /\ DOMAIN lhs = DOMAIN rhs
  /\ CASE DOMAIN lhs = {"num"}    -> SameNumber(Number(lhs.num),
                                                Number(rhs.num))
       [] DOMAIN lhs = {"array"}  -> EqParts(lhs.array, rhs.array)
       [] DOMAIN lhs = {"object"} -> EqParts(lhs.object, rhs.object)
       [] OTHER                   -> lhs = rhs
=============================================================================

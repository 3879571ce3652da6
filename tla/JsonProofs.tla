----------------------------- MODULE JsonProofs -----------------------------
(***************************************************************************)
(* Proofs about JsonParser and JsonBody for documents of any length.       *)
(***************************************************************************)
EXTENDS JsonBody, SequenceTheorems, WellFoundedInduction, TLAPS

-----------------------------------------------------------------------------
(***************************************************************************)
(* The scanner.  It never takes more than size characters from the FILE,   *)
(* the one it has looked at included, and leaves the parser alone.         *)
(***************************************************************************)
Fields ==
  {"in", "size", "pos", "look", "ahead", "c", "fault", "tok", "calls", "val",
   "err"}

(* What a stream is made of, and Eof. *)
Sent == Characters \cup {Late, Reset}
Signs == Sent \cup {Eof}

IsToken(t) == DOMAIN t = {"type", "text"} /\ t.text \in Seq(Signs)

IsScanner(s) ==
  /\ DOMAIN s = Fields
  /\ s.in \in Seq(Signs)
  /\ s.size \in Int
  /\ s.pos \in Nat
  /\ s.pos = 0 \/ s.pos <= s.size
  /\ s.look \in BOOLEAN
  /\ s.look => s.pos < s.size /\ s.in # <<>>
  /\ s.c \in Signs
  /\ s.err \in {"none", "parse", "system"}
  /\ IsToken(s.tok)

(* What a method of the scanner may do to s. *)
Moves(s, t) ==
  /\ IsScanner(t)
  /\ t.size = s.size /\ t.ahead = s.ahead /\ t.calls = s.calls /\ t.val = s.val
  /\ Len(t.in) <= Len(s.in)

(* It has taken a character. *)
Takes(s, t) == Moves(s, t) /\ Len(t.in) < Len(s.in)

LEMMA MovesTransitive ==
  ASSUME NEW s, NEW t, NEW u, IsScanner(s), Moves(s, t), Moves(t, u)
  PROVE  /\ Moves(s, u)
         /\ Takes(s, t) \/ Takes(t, u) => Takes(s, u)
<1>1. Len(s.in) \in Nat /\ Len(t.in) \in Nat /\ Len(u.in) \in Nat
  BY LenProperties DEF Moves, IsScanner
<1>. QED  BY <1>1 DEF Moves, Takes

LEMMA MovesNowhere ==
  ASSUME NEW s, IsScanner(s)  PROVE Moves(s, s)
<1>1. Len(s.in) \in Nat
  BY LenProperties DEF IsScanner
<1>. QED  BY <1>1 DEF Moves

LEMMA BeginningOf ==
  ASSUME NEW S, NEW t \in Seq(S), NEW n \in 0 .. Len(t)
  PROVE  SubSeq(t, 1, n) \in Seq(S) /\ Len(SubSeq(t, 1, n)) = n
<1>1. Len(t) \in Nat
  BY LenProperties
<1>2. \A i \in 1 .. n : t[i] \in S
  BY <1>1, ElementOfSeq
<1>. QED  BY <1>1, <1>2, SubSeqProperties

LEMMA LeastOf ==
  ASSUME NEW S \in SUBSET Nat, S # {}
  PROVE  \E n \in S : \A m \in S : n <= m
<1>1. PICK n \in S : \A m \in S : ~(<<m, n>> \in OpToRel(<, Nat))
  BY WFMin, NatLessThanWellFounded, Zenon
<1>2. \A m \in S : ~(m < n)
  BY <1>1 DEF OpToRel
<1>. QED  BY <1>2

LEMMA PastMoves ==
  ASSUME NEW s, IsScanner(s), NEW n \in 0 .. Len(s.in),
         n > 0 => s.pos + n <= s.size
  PROVE  /\ Moves(s, Past(s, n))
         /\ Len(Past(s, n).in) = Len(s.in) - n
         /\ Past(s, n).pos = s.pos + n
<1>1. Len(s.in) \in Nat
  BY LenProperties DEF IsScanner
<1>2. CASE n = 0
  BY <1>1, <1>2, MovesNowhere DEF Past, IsScanner
<1>3. CASE n > 0
  <2>1. /\ SubSeq(s.in, n + 1, Len(s.in)) \in Seq(Signs)
        /\ Len(SubSeq(s.in, n + 1, Len(s.in))) = Len(s.in) - n
    BY <1>1, SubSeqProperties, ElementOfSeq DEF IsScanner
  <2>2. Past(s, n) = [s EXCEPT !.in = SubSeq(s.in, n + 1, Len(s.in)),
                               !.pos = s.pos + n, !.look = FALSE]
    BY <1>3 DEF Past
  <2>. QED  BY <1>1, <1>3, <2>1, <2>2 DEF Moves, IsScanner, Fields
<1>. QED  BY <1>1, <1>2, <1>3

LEMMA AtEndOfPast ==
  ASSUME NEW s, IsScanner(s), NEW n \in 0 .. Len(s.in)
  PROVE  AtEnd(Past(s, n)) <=> s.pos + n >= s.size
<1>1. Past(s, n).pos = s.pos + n /\ Past(s, n).size = s.size
  BY LenProperties DEF Past, IsScanner, Fields
<1>. QED  BY <1>1 DEF AtEnd

(* The run stops at the first character that does not belong to it. *)
StopsAt(s, class, n) ==
  n = Len(s.in) \/ s.in[n + 1] \notin class \/ AtEnd(Past(s, n))

LEMMA RunExists ==
  ASSUME NEW s, IsScanner(s), NEW class
  PROVE  LET n == RunOf(s, class)
         IN /\ n \in 0 .. Len(s.in)
            /\ \A i \in 1 .. n : s.in[i] \in class /\ s.pos + i <= s.size
            /\ StopsAt(s, class, n)
<1> DEFINE stops == {n \in 0 .. Len(s.in) : StopsAt(s, class, n)}
<1>1. Len(s.in) \in Nat
  BY LenProperties DEF IsScanner
<1>2. Len(s.in) \in stops /\ stops \in SUBSET Nat
  BY <1>1 DEF StopsAt
<1>3. PICK n \in stops : \A m \in stops : n <= m
  BY <1>2, LeastOf
<1>4. ASSUME NEW i \in 1 .. n
      PROVE  s.in[i] \in class /\ ~AtEnd(Past(s, i - 1))
  <2>1. i - 1 \in 0 .. Len(s.in) /\ i - 1 \notin stops
    BY <1>1, <1>3
  <2>2. s.in[i - 1 + 1] \in class /\ ~AtEnd(Past(s, i - 1))
    BY <2>1 DEF StopsAt
  <2>. QED  BY <2>2
<1>5. \E k \in 0 .. Len(s.in) :
        /\ \A i \in 1 .. k : s.in[i] \in class /\ ~AtEnd(Past(s, i - 1))
        /\ StopsAt(s, class, k)
  BY <1>3, <1>4
<1> DEFINE run == RunOf(s, class)
<1>6. /\ run \in 0 .. Len(s.in)
      /\ \A i \in 1 .. run : s.in[i] \in class /\ ~AtEnd(Past(s, i - 1))
      /\ StopsAt(s, class, run)
  BY <1>5 DEF RunOf, StopsAt
<1>7. ASSUME NEW i \in 1 .. run  PROVE s.pos + i <= s.size
  <2>1. i - 1 \in 0 .. Len(s.in) /\ ~AtEnd(Past(s, i - 1))
    BY <1>1, <1>6
  <2>2. ~(s.pos + (i - 1) >= s.size)
    BY <2>1, AtEndOfPast
  <2>3. s.pos \in Nat /\ s.size \in Int
    BY DEF IsScanner
  <2>4. i \in Nat
    BY <1>6
  <2>. QED  BY <2>2, <2>3, <2>4
<1>. QED  BY <1>6, <1>7

LEMMA RunMoves ==
  ASSUME NEW s, IsScanner(s), NEW class
  PROVE  Moves(s, Past(s, RunOf(s, class)))
<1>1. Len(s.in) \in Nat
  BY LenProperties DEF IsScanner
<1>2. RunOf(s, class) > 0 => s.pos + RunOf(s, class) <= s.size
  BY <1>1, RunExists
<1>. QED  BY <1>2, RunExists, PastMoves

(* A character has come, or not; Eof is none. *)
LEMMA GetCharMoves ==
  ASSUME NEW s, IsScanner(s)
  PROVE  LET g == GetChar(s)
         IN /\ Moves(s, g)
            /\ g.err = s.err /\ g.tok = s.tok
            /\ s.look => g.c = Head(s.in)
            /\ g.c # Eof \/ s.look =>
                 Takes(s, g) /\ g.pos = s.pos + 1 /\ ~g.look
<1> DEFINE g == GetChar(s)
<1>1. Len(s.in) \in Nat /\ (s.in = <<>> <=> Len(s.in) = 0)
  BY LenProperties, EmptySeq DEF IsScanner
<1>2. CASE ~s.look /\ (AtEnd(s) \/ s.in = <<>>)
  <2>1. g = [s EXCEPT !.c = Eof, !.fault = "none"]
    BY <1>2 DEF GetChar
  <2>2. Eof \in Signs
    BY DEF Signs
  <2>3. Moves(s, g)
    BY <1>1, <2>1, <2>2 DEF Moves, IsScanner, Fields
  <2>4. g.c = Eof /\ g.err = s.err /\ g.tok = s.tok
    BY <2>1 DEF IsScanner, Fields
  <2>. QED  BY <1>2, <2>3, <2>4
<1>3. CASE ~s.look /\ ~AtEnd(s) /\ s.in # <<>> /\ Head(s.in) \in {Late, Reset}
  <2>1. g = [s EXCEPT !.c = Eof, !.fault = Head(s.in), !.in = Tail(s.in)]
    BY <1>3 DEF GetChar
  <2>2. Tail(s.in) \in Seq(Signs) /\ Len(Tail(s.in)) = Len(s.in) - 1
    BY <1>3, HeadTailProperties DEF IsScanner
  <2>3. Eof \in Signs
    BY DEF Signs
  <2>4. Moves(s, g)
    BY <1>1, <1>3, <2>1, <2>2, <2>3 DEF Moves, IsScanner, Fields
  <2>5. g.c = Eof /\ g.err = s.err /\ g.tok = s.tok
    BY <2>1 DEF IsScanner, Fields
  <2>. QED  BY <1>3, <2>4, <2>5
<1>4. CASE \/ s.look
           \/ ~AtEnd(s) /\ s.in # <<>> /\ Head(s.in) \notin {Late, Reset}
  <2>1. g = [Past(s, 1) EXCEPT !.c = Head(s.in), !.fault = "none"]
    BY <1>4 DEF GetChar
  <2>2. 1 \in 0 .. Len(s.in) /\ s.pos + 1 <= s.size
    BY <1>1, <1>4 DEF IsScanner, AtEnd
  <2>3. Head(s.in) \in Signs
    BY <1>4, HeadTailProperties DEF IsScanner
  <2>4. /\ Moves(s, Past(s, 1)) /\ Len(Past(s, 1).in) = Len(s.in) - 1
        /\ Past(s, 1).pos = s.pos + 1
    BY <2>2, PastMoves
  <2>5. Past(s, 1).look = FALSE /\ Past(s, 1).err = s.err
        /\ Past(s, 1).tok = s.tok
    BY DEF Past, IsScanner, Fields
  <2>. QED
    BY <1>1, <2>1, <2>3, <2>4, <2>5 DEF Moves, Takes, IsScanner, Fields
<1>. QED  BY <1>2, <1>3, <1>4 DEF IsScanner

(* Putting back what has just been taken. *)
LEMMA UngetCharMoves ==
  ASSUME NEW s, IsScanner(s), NEW g, IsScanner(g), Moves(s, g),
         Len(g.in) < Len(s.in), g.pos > 0, ~g.look
  PROVE  LET u == UngetChar(g)
         IN /\ Moves(s, u) /\ u.look
            /\ u.c = g.c /\ u.err = g.err /\ u.tok = g.tok
<1>1. /\ <<g.c>> \o g.in \in Seq(Signs)
      /\ Len(<<g.c>> \o g.in) = Len(g.in) + 1
      /\ <<g.c>> \o g.in # <<>>
  <2>1. <<g.c>> \in Seq(Signs) /\ Len(<<g.c>>) = 1
    BY DEF IsScanner
  <2>2. Len(g.in) \in Nat
    BY LenProperties DEF IsScanner
  <2>. QED  BY <2>1, <2>2, ConcatProperties, EmptySeq DEF IsScanner
<1>2. Len(g.in) \in Nat /\ Len(s.in) \in Nat
  BY LenProperties DEF IsScanner
<1>. QED  BY <1>1, <1>2 DEF UngetChar, Moves, IsScanner, Fields

LEMMA SkipWhitespaceMoves ==
  ASSUME NEW s, IsScanner(s)
  PROVE  /\ Moves(s, SkipWhitespace(s))
         /\ SkipWhitespace(s).err = s.err /\ SkipWhitespace(s).tok = s.tok
<1> DEFINE p == Past(s, RunOf(s, Space))
           g == GetChar(p)
<1>1. Moves(s, p) /\ IsScanner(p)
  BY RunMoves DEF Moves
<1>2. p.err = s.err /\ p.tok = s.tok
  BY DEF Past, IsScanner, Fields
<1>3. Moves(p, g) /\ g.err = p.err /\ g.tok = p.tok
  BY <1>1, GetCharMoves
<1>4. CASE g.c = Eof
  BY <1>1, <1>2, <1>3, <1>4, MovesTransitive DEF SkipWhitespace
<1>5. CASE g.c # Eof
  <2>1. Takes(p, g) /\ g.pos = p.pos + 1 /\ ~g.look
    BY <1>1, <1>5, GetCharMoves
  <2>2. Len(g.in) < Len(p.in) /\ g.pos > 0 /\ IsScanner(g)
    BY <1>1, <2>1 DEF Takes, Moves, IsScanner
  <2>3. Moves(p, UngetChar(g)) /\ UngetChar(g).err = g.err
        /\ UngetChar(g).tok = g.tok
    BY <1>1, <1>3, <2>1, <2>2, UngetCharMoves
  <2>. QED  BY <1>1, <1>2, <1>3, <1>5, <2>3, MovesTransitive DEF SkipWhitespace
<1>. QED  BY <1>4, <1>5

(* Throwing an exception, and changing the token. *)
LEMMA FailMoves ==
  ASSUME NEW s, IsScanner(s), NEW e \in {"parse", "system"}
  PROVE  /\ Moves(s, Fail(s, e)) /\ ~Ok(Fail(s, e))
         /\ Fail(s, e).err = e
<1>. QED
  BY MovesNowhere DEF Fail, Ok, Moves, IsScanner, Fields

LEMMA TokenMoves ==
  ASSUME NEW s, IsScanner(s), NEW t, IsToken(t)
  PROVE  LET m == [s EXCEPT !.tok = t]
         IN Moves(s, m) /\ m.err = s.err /\ m.tok = t /\ m.look = s.look
<1>. QED
  BY MovesNowhere DEF Moves, IsScanner, Fields

LEMMA PeekCharMoves ==
  ASSUME NEW s, IsScanner(s)
  PROVE  LET p == PeekChar(s)
         IN /\ Moves(s, p) /\ p.tok = s.tok
            /\ Ok(p) => Ok(s)
            /\ p.c # Eof => p.look /\ p.err = s.err
<1> DEFINE g == GetChar(s)
           p == PeekChar(s)
<1>1. Moves(s, g) /\ g.err = s.err /\ g.tok = s.tok /\ IsScanner(g)
  BY GetCharMoves DEF Moves
<1>2. CASE g.c # Eof
  <2>1. p = UngetChar(g)
    BY <1>2 DEF PeekChar
  <2>2. Takes(s, g) /\ g.pos = s.pos + 1 /\ ~g.look
    BY <1>2, GetCharMoves
  <2>3. Len(g.in) < Len(s.in) /\ g.pos > 0
    BY <2>2 DEF Takes, IsScanner
  <2>4. /\ Moves(s, UngetChar(g)) /\ UngetChar(g).look
        /\ UngetChar(g).err = g.err /\ UngetChar(g).tok = g.tok
    BY <1>1, <2>2, <2>3, UngetCharMoves
  <2>. QED  BY <1>1, <2>1, <2>4 DEF Ok
<1>3. CASE g.c = Eof /\ g.fault = Reset
  <2>1. p = Fail(g, "system")
    BY <1>3 DEF PeekChar
  <2>2. Moves(g, p) /\ ~Ok(p)
    BY <1>1, <2>1, FailMoves
  <2>3. p.c = Eof /\ p.tok = s.tok
    BY <1>1, <1>3, <2>1 DEF Fail, IsScanner, Fields
  <2>. QED  BY <1>1, <2>2, <2>3, MovesTransitive
<1>4. CASE g.c = Eof /\ g.fault # Reset
  <2>1. p = g
    BY <1>4 DEF PeekChar
  <2>. QED  BY <1>1, <1>4, <2>1 DEF Ok
<1>. QED  BY <1>2, <1>3, <1>4

LEMMA AdvanceMoves ==
  ASSUME NEW s, IsScanner(s)
  PROVE  LET a == Advance(s)
         IN /\ Moves(s, a) /\ a.tok = s.tok
            /\ Ok(a) => Ok(s) /\ Takes(s, a)
<1> DEFINE g == GetChar(s)
           a == Advance(s)
<1>1. Moves(s, g) /\ g.err = s.err /\ g.tok = s.tok /\ IsScanner(g)
  BY GetCharMoves DEF Moves
<1>2. CASE g.c # Eof
  <2>1. a = g
    BY <1>2 DEF Advance
  <2>2. Takes(s, g)
    BY <1>2, GetCharMoves
  <2>. QED  BY <1>1, <2>1, <2>2 DEF Ok
<1>3. CASE g.c = Eof
  <2>1. PICK e \in {"parse", "system"} : a = Fail(g, e)
    BY <1>3 DEF Advance
  <2>2. Moves(g, a) /\ ~Ok(a)
    BY <1>1, <2>1, FailMoves
  <2>3. a.tok = s.tok
    BY <1>1, <2>1 DEF Fail, IsScanner, Fields
  <2>. QED  BY <1>1, <2>2, <2>3, MovesTransitive
<1>. QED  BY <1>2, <1>3

LEMMA PushedMoves ==
  ASSUME NEW s, IsScanner(s)
  PROVE  Moves(s, Pushed(s)) /\ Pushed(s).err = s.err
<1>1. IsToken([s.tok EXCEPT !.text = Append(@, s.c)])
  BY DEF IsToken, IsScanner
<1>2. Pushed(s) = [s EXCEPT !.tok = [s.tok EXCEPT !.text = Append(@, s.c)]]
  BY DEF Pushed, IsScanner, IsToken, Fields
<1>. QED  BY <1>1, <1>2, TokenMoves

LEMMA PushMoves ==
  ASSUME NEW s, IsScanner(s)
  PROVE  /\ Moves(s, Push(s))
         /\ Ok(Push(s)) => Ok(s) /\ Takes(s, Push(s))
<1> DEFINE a == Advance(s)
<1>1. Moves(s, a) /\ IsScanner(a) /\ (Ok(a) => Ok(s) /\ Takes(s, a))
  BY AdvanceMoves DEF Moves
<1>2. CASE Ok(a)
  <2>1. Push(s) = Pushed(a)
    BY <1>2 DEF Push, Then
  <2>. QED  BY <1>1, <1>2, <2>1, PushedMoves, MovesTransitive DEF Ok
<1>3. CASE ~Ok(a)
  <2>1. Push(s) = a
    BY <1>3 DEF Push, Then
  <2>. QED  BY <1>1, <1>3, <2>1
<1>. QED  BY <1>2, <1>3

LEMMA PushWordMoves ==
  ASSUME NEW s, IsScanner(s), NEW stop
  PROVE  Moves(s, PushWord(s, stop))
         /\ (Ok(PushWord(s, stop)) => Ok(s))
<1> DEFINE n == RunOf(s, Alnum \ stop)
           text == s.tok.text \o SubSeq(s.in, 1, n)
           t == [s.tok EXCEPT !.text = text]
           p == Past(s, n)
           m == [p EXCEPT !.tok = t]
<1>1. Moves(s, p) /\ IsScanner(p) /\ p.tok = s.tok /\ p.err = s.err
  BY RunMoves DEF Moves, Past, IsScanner, Fields
<1>2. IsToken(t)
  <2>1. n \in 0 .. Len(s.in)
    BY RunExists
  <2>2. SubSeq(s.in, 1, n) \in Seq(Signs)
    BY <2>1, BeginningOf DEF IsScanner
  <2>. QED  BY <2>2, ConcatProperties DEF IsToken, IsScanner
<1>. HIDE DEF p, t, n
<1>3. Moves(p, m) /\ m.err = s.err
  BY <1>1, <1>2, TokenMoves
<1>4. IsScanner(m)
  BY <1>3 DEF Moves
<1>5. m = [p EXCEPT !.tok.text = @ \o SubSeq(s.in, 1, n)]
  BY <1>1 DEF IsScanner, IsToken, Fields, t, n
<1>6. PushWord(s, stop) = PeekChar(m)
  BY <1>5 DEF PushWord, p, n, t
<1>7. Moves(m, PeekChar(m)) /\ (Ok(PeekChar(m)) => Ok(m))
  BY <1>4, PeekCharMoves
<1>. QED  BY <1>1, <1>3, <1>6, <1>7, MovesTransitive DEF Ok

(* What a method does that does not throw, and one that takes a character. *)
Gets(s, t) == Moves(s, t) /\ (Ok(t) => Ok(s))
GetsMore(s, t) == Gets(s, t) /\ (Ok(t) => Takes(s, t))

LEMMA GetsTransitive ==
  ASSUME NEW s, NEW t, NEW u, IsScanner(s), Gets(s, t), Gets(t, u)
  PROVE  /\ Gets(s, u)
         /\ GetsMore(s, t) \/ GetsMore(t, u) => GetsMore(s, u)
<1>. QED  BY MovesTransitive DEF Gets, GetsMore

LEMMA ScannerGets ==
  ASSUME NEW s, IsScanner(s)
  PROVE  /\ Gets(s, s) /\ Gets(s, PeekChar(s)) /\ GetsMore(s, Advance(s))
         /\ GetsMore(s, Push(s)) /\ Gets(s, Pushed(s))
         /\ \A stop : Gets(s, PushWord(s, stop))
         /\ \A e \in {"parse", "system"} : GetsMore(s, Fail(s, e))
         /\ \A t : IsToken(t) => Gets(s, [s EXCEPT !.tok = t])
<1>1. Gets(s, s) /\ Gets(s, PeekChar(s)) /\ GetsMore(s, Advance(s))
  BY MovesNowhere, PeekCharMoves, AdvanceMoves DEF Gets, GetsMore
<1>2. GetsMore(s, Push(s)) /\ Gets(s, Pushed(s))
  BY PushMoves, PushedMoves DEF Gets, GetsMore, Ok
<1>3. \A stop : Gets(s, PushWord(s, stop))
  BY PushWordMoves DEF Gets
<1>4. \A e \in {"parse", "system"} : GetsMore(s, Fail(s, e))
  BY FailMoves DEF Gets, GetsMore
<1>5. \A t : IsToken(t) => Gets(s, [s EXCEPT !.tok = t])
  BY TokenMoves DEF Gets, Ok
<1>. QED  BY <1>1, <1>2, <1>3, <1>4, <1>5

LEMMA StringRoundGets ==
  ASSUME NEW s, IsScanner(s)
  PROVE  /\ Gets(s, StringRound(s))
         /\ \/ GetsMore(s, StringRound(s))
            \/ StringRound(s) = s /\ (Ok(s) => s.tok.type = "str")
<1> DEFINE a == Advance(s)
<1>1. GetsMore(s, a) /\ Gets(s, a) /\ IsScanner(a)
  BY ScannerGets DEF Gets, GetsMore, Moves
<1>. HIDE DEF a
<1>2. Gets(a, StringChar(a))
  <2>1. ASSUME NEW type
        PROVE  Gets(a, [a EXCEPT !.tok.type = type])
    <3>1. IsToken([a.tok EXCEPT !.type = type])
      BY <1>1 DEF IsToken, IsScanner
    <3>2. [a EXCEPT !.tok.type = type]
             = [a EXCEPT !.tok = [a.tok EXCEPT !.type = type]]
      BY <1>1 DEF IsToken, IsScanner, Fields
    <3>. QED  BY <1>1, <3>1, <3>2, ScannerGets
  <2>2. Gets(a, [Pushed(a) EXCEPT !.tok.type = "quoted"])
    <3> DEFINE b == Pushed(a)
               t == [b.tok EXCEPT !.type = "quoted"]
    <3>1. Gets(a, b) /\ IsScanner(b)
      BY <1>1, ScannerGets DEF Gets, Moves
    <3>. HIDE DEF b
    <3>2. IsToken(t)
      BY <3>1 DEF IsToken, IsScanner
    <3>3. [b EXCEPT !.tok.type = "quoted"] = [b EXCEPT !.tok = t]
      BY <3>1 DEF IsToken, IsScanner, Fields
    <3>4. Gets(b, [b EXCEPT !.tok = t])
      BY <3>1, <3>2, ScannerGets
    <3>. QED  BY <1>1, <3>1, <3>3, <3>4, GetsTransitive DEF b
  <2>3. Gets(a, Fail(a, "parse"))
    BY <1>1, ScannerGets DEF GetsMore
  <2>. QED  BY <2>1, <2>2, <2>3 DEF StringChar
<1>3. GetsMore(s, StringChar(a))
  BY <1>1, <1>2, GetsTransitive
<1>4. \/ StringRound(s) \in {a, StringChar(a)}
      \/ StringRound(s) = s /\ (Ok(s) => s.tok.type = "str")
  BY DEF StringRound, Then, a
<1>. QED  BY <1>1, <1>3, <1>4, ScannerGets DEF GetsMore

(* The rounds of a loop; it is defined for any number of them. *)
StringRounds(s, rounds, after) ==
  after = [n \in 0 .. rounds |->
             IF n = 0 THEN [s EXCEPT !.tok.type = "quoted"]
             ELSE StringRound(after[n - 1])]

LEMMA StringRoundsExist ==
  ASSUME NEW s, NEW rounds \in Nat
  PROVE  \E after : StringRounds(s, rounds, after)
<1> DEFINE bad == {n \in Nat : \A after : ~StringRounds(s, n, after)}
<1>1. SUFFICES ASSUME bad # {}  PROVE FALSE
  OBVIOUS
<1>2. PICK n \in bad : \A m \in bad : n <= m
  BY <1>1, LeastOf
<1>3. CASE n = 0
  <2> DEFINE f == [k \in 0 .. 0 |-> [s EXCEPT !.tok.type = "quoted"]]
  <2>1. StringRounds(s, 0, f)
    BY DEF StringRounds
  <2>. QED  BY <1>2, <1>3, <2>1
<1>4. CASE n > 0
  <2>1. n - 1 \in Nat /\ n - 1 \notin bad
    BY <1>2, <1>4
  <2>2. PICK g : StringRounds(s, n - 1, g)
    BY <2>1
  <2> DEFINE f == [k \in 0 .. n |-> IF k < n THEN g[k]
                                    ELSE StringRound(g[n - 1])]
  <2>3. ASSUME NEW k \in 0 .. n
        PROVE  f[k] = IF k = 0 THEN [s EXCEPT !.tok.type = "quoted"]
                      ELSE StringRound(f[k - 1])
    <3>1. CASE k = n
      BY <1>4, <2>1, <3>1
    <3>2. CASE k < n
      <4>1. k \in 0 .. n - 1 /\ f[k] = g[k] /\ (k > 0 => f[k - 1] = g[k - 1])
        BY <3>2
      <4>2. g[k] = IF k = 0 THEN [s EXCEPT !.tok.type = "quoted"]
                   ELSE StringRound(g[k - 1])
        BY <2>1, <2>2, <4>1 DEF StringRounds
      <4>. HIDE DEF f
      <4>. QED  BY <4>1, <4>2
    <3>. QED  BY <3>1, <3>2
  <2>4. StringRounds(s, n, f)
    BY <2>3 DEF StringRounds
  <2>. QED  BY <1>2, <2>4
<1>. QED  BY <1>2, <1>3, <1>4

LEMMA OneLess ==
  ASSUME NEW a \in Nat, NEW b \in Nat, NEW n \in Nat, NEW l \in Nat,
         a < b, b + (n - 1) <= l
  PROVE  a + n <= l
OBVIOUS

(* There are enough rounds, for each of them takes a character. *)
LEMMA ScanStringGets ==
  ASSUME NEW s, IsScanner(s)
  PROVE  /\ Gets(s, ScanString(s))
         /\ Ok(ScanString(s)) => ScanString(s).tok.type = "str"
<1> DEFINE rounds == Len(s.in) + 1
           start == [s EXCEPT !.tok.type = "quoted"]
           after == CHOOSE f : StringRounds(s, rounds, f)
           On(n) == /\ Gets(s, after[n])
                    /\ \/ Len(after[n].in) + n <= Len(s.in)
                       \/ Ok(after[n]) => after[n].tok.type = "str"
           bad == {n \in 0 .. rounds : ~On(n)}
<1>1. Len(s.in) \in Nat /\ rounds \in Nat /\ bad \in SUBSET Nat
  BY LenProperties DEF IsScanner
<1>2. StringRounds(s, rounds, after)
  BY <1>1, StringRoundsExist
<1>3. ScanString(s) = after[rounds]
  BY DEF ScanString, StringRounds
<1>4. Gets(s, start)
  <2>1. IsToken([s.tok EXCEPT !.type = "quoted"])
    BY DEF IsToken, IsScanner
  <2>2. start = [s EXCEPT !.tok = [s.tok EXCEPT !.type = "quoted"]]
    BY DEF IsToken, IsScanner, Fields
  <2>. QED  BY <2>1, <2>2, ScannerGets
<1>5. start.in = s.in
  BY DEF IsScanner, Fields
<1>. HIDE DEF after, start
<1>6. ASSUME NEW n \in 0 .. rounds
      PROVE  after[n] = IF n = 0 THEN start ELSE StringRound(after[n - 1])
  BY <1>2 DEF StringRounds, start
<1>7. bad = {}
  <2>1. SUFFICES ASSUME bad # {}  PROVE FALSE
    OBVIOUS
  <2>2. PICK n \in bad : \A m \in bad : n <= m
    BY <1>1, <2>1, LeastOf
  <2>3. n # 0
    BY <1>1, <1>4, <1>5, <1>6, <2>2
  <2>4. n - 1 \in 0 .. rounds /\ n - 1 \notin bad
    BY <1>1, <2>2, <2>3
  <2> DEFINE before == after[n - 1]
  <2>5. On(n - 1) /\ after[n] = StringRound(before)
    BY <1>6, <2>2, <2>3, <2>4
  <2>6. IsScanner(before) /\ IsScanner(after[n])
    BY <2>5, StringRoundGets DEF Gets, Moves
  <2>7. Len(before.in) \in Nat /\ Len(after[n].in) \in Nat /\ n \in Nat
    BY <1>1, <2>2, <2>6, LenProperties DEF IsScanner
  <2>8. Gets(s, after[n])
    BY <2>5, <2>6, StringRoundGets, GetsTransitive
  <2>9. CASE after[n] = before /\ (Ok(before) => before.tok.type = "str")
    BY <2>2, <2>8, <2>9
  <2>10. CASE GetsMore(before, after[n])
    <3>1. Ok(after[n]) => Ok(before) /\ Len(after[n].in) < Len(before.in)
      BY <2>10 DEF GetsMore, Gets, Takes
    <3>2. CASE Len(before.in) + (n - 1) <= Len(s.in)
      <4>1. Ok(after[n]) => Len(after[n].in) + n <= Len(s.in)
        BY <1>1, <2>7, <3>1, <3>2, OneLess
      <4>. QED  BY <2>2, <2>8, <4>1
    <3>3. CASE Ok(before) => before.tok.type = "str"
      BY <2>2, <2>5, <2>6, <2>8, <3>1, <3>3, StringRoundGets DEF StringRound
    <3>. QED  BY <2>5, <3>2, <3>3
  <2>. QED  BY <2>5, <2>6, <2>9, <2>10, StringRoundGets
<1>8. On(rounds)
  <2>1. rounds \in 0 .. rounds
    BY <1>1
  <2>. QED  BY <1>7, <2>1
<1>9. Len(after[rounds].in) \in Nat
  BY <1>8, LenProperties DEF Gets, Moves, IsScanner
<1>10. ~(Len(after[rounds].in) + rounds <= Len(s.in))
  <2>1. ASSUME NEW k \in Nat  PROVE ~(k + rounds <= Len(s.in))
    BY <1>1
  <2>. QED  BY <1>9, <2>1
<1>. HIDE DEF rounds
<1>. QED  BY <1>3, <1>8, <1>10

LEMMA IntegralGets ==
  ASSUME NEW s, IsScanner(s)
  PROVE  GetsMore(s, Integral(s))
<1> DEFINE a == Push(s)
<1>1. GetsMore(s, a) /\ Gets(s, a) /\ IsScanner(a)
  BY ScannerGets DEF GetsMore, Gets, Moves
<1>. HIDE DEF a
<1>2. Integral(s) = IF Ok(a) THEN PushWord(a, {"e"}) ELSE a
  BY DEF Integral, Then, a
<1>3. GetsMore(s, PushWord(a, {"e"}))
  BY <1>1, ScannerGets, GetsTransitive
<1>. QED  BY <1>1, <1>2, <1>3

LEMMA FractionGets ==
  ASSUME NEW s, IsScanner(s)
  PROVE  Gets(s, Fraction(s))
<1> DEFINE p == PeekChar(s)
<1>1. Gets(s, p) /\ IsScanner(p)
  BY ScannerGets DEF Gets, Moves
<1>. HIDE DEF p
<1>2. Fraction(s) \in {p, Integral(p)}
  BY DEF Fraction, Then, p
<1>3. Gets(s, Integral(p))
  BY <1>1, IntegralGets, GetsTransitive DEF GetsMore
<1>. QED  BY <1>1, <1>2, <1>3

LEMMA ExponentGets ==
  ASSUME NEW s, IsScanner(s)
  PROVE  Gets(s, Exponent(s))
<1> DEFINE p == PeekChar(s)
           a == Push(p)
           b == Then(a, PeekChar)
           d == Then(b, Push)
           w == PushWord(d, {})
<1>1. Gets(s, p) /\ IsScanner(p)
  BY ScannerGets DEF Gets, Moves
<1>. HIDE DEF p
<1>2. Gets(s, a) /\ IsScanner(a)
  <2>1. Gets(p, a)
    BY <1>1, ScannerGets DEF GetsMore
  <2>2. IsScanner(a)
    BY <2>1 DEF Gets, Moves
  <2>. QED  BY <1>1, <2>1, <2>2, GetsTransitive
<1>. HIDE DEF a
<1>3. Gets(s, b) /\ IsScanner(b)
  <2>1. Gets(a, b)
    BY <1>2, ScannerGets DEF Then
  <2>2. IsScanner(b)
    BY <2>1 DEF Gets, Moves
  <2>. QED  BY <1>2, <2>1, <2>2, GetsTransitive
<1>. HIDE DEF b
<1>4. Gets(s, d) /\ IsScanner(d)
  <2>1. Gets(b, d)
    BY <1>3, ScannerGets DEF Then, GetsMore
  <2>2. IsScanner(d)
    BY <2>1 DEF Gets, Moves
  <2>. QED  BY <1>3, <2>1, <2>2, GetsTransitive
<1>. HIDE DEF d
<1>5. Gets(s, w)
  BY <1>4, ScannerGets, GetsTransitive
<1>6. Exponent(s) \in {p, d, w}
  BY DEF Exponent, Then, p, a, b, d
<1>. QED  BY <1>1, <1>4, <1>5, <1>6

(* A longest sequence of a set of prefixes. *)
LEMMA LongestIsOne ==
  ASSUME NEW t, NEW S, t \in Seq(S), NEW P \in SUBSET Prefixes(t), P # {}
  PROVE  Longest(P) \in P
<1> DEFINE rest == {Len(t) - Len(p) : p \in P}
<1>1. \A p \in P : Len(p) \in 0 .. Len(t)
  BY LenProperties DEF Prefixes
<1>2. rest # {} /\ rest \in SUBSET Nat
  BY <1>1, LenProperties
<1>3. PICK n \in rest : \A m \in rest : n <= m
  BY <1>2, LeastOf
<1>4. PICK p \in P : n = Len(t) - Len(p)
  BY <1>3
<1>5. ASSUME NEW q \in P  PROVE Len(q) <= Len(p)
  <2>1. Len(t) - Len(p) <= Len(t) - Len(q)
    BY <1>3, <1>4
  <2>2. Len(t) \in Nat /\ Len(p) \in Nat /\ Len(q) \in Nat
    BY <1>1, LenProperties
  <2>. QED  BY <2>1, <2>2
<1>. QED  BY <1>5 DEF Longest

LEMMA StodIsNumeral ==
  ASSUME NEW t \in Seq(Signs)
  PROVE  /\ Stod(t) \in Seq(Signs)
         /\ Stod(t) # <<>> => IsNumeral(Stod(t))
<1> DEFINE P == {p \in Prefixes(t) : IsNumeral(p)} \cup {<<>>}
<1>1. Len(t) \in Nat
  BY LenProperties
<1>2. <<>> = SubSeq(t, 1, 0)
  <2>1. SubSeq(t, 1, 0) \in Seq(Signs) /\ Len(SubSeq(t, 1, 0)) = 0
    BY <1>1, BeginningOf
  <2>. QED  BY <2>1, EmptySeq
<1>3. P \in SUBSET Prefixes(t)
  <2>1. <<>> \in Prefixes(t)
    <3>1. 0 \in 0 .. Len(t)
      BY <1>1
    <3>. QED  BY <1>2, <3>1, Zenon DEF Prefixes
  <2>. QED  BY <2>1
<1>4. Prefixes(t) \subseteq Seq(Signs)
  <2>1. ASSUME NEW l \in 0 .. Len(t)  PROVE SubSeq(t, 1, l) \in Seq(Signs)
    BY BeginningOf
  <2>. QED  BY <2>1 DEF Prefixes
<1>5. Longest(P) \in P
  BY <1>3, LongestIsOne
<1>. QED  BY <1>3, <1>4, <1>5 DEF Stod

LEMMA ScanNumberGets ==
  ASSUME NEW s, IsScanner(s)
  PROVE  /\ GetsMore(s, ScanNumber(s))
         /\ Ok(ScanNumber(s)) => /\ ScanNumber(s).tok.type = "num"
                                 /\ IsNumeral(ScanNumber(s).tok.text)
<1> DEFINE a == IF s.c = "-" THEN Push(s) ELSE s
           b == Then(a, Integral)
           d == Then(b, Fraction)
           n == Then(d, Exponent)
           text == Stod(n.tok.text)
           t == [n.tok EXCEPT !.type = "num", !.text = text]
           m == [n EXCEPT !.tok = t]
<1>1. Gets(s, a) /\ IsScanner(a) /\ (~Ok(a) => GetsMore(s, a))
  BY ScannerGets DEF GetsMore, Gets, Moves
<1>. HIDE DEF a
<1>2. GetsMore(s, b) /\ Gets(s, b) /\ IsScanner(b)
  BY <1>1, IntegralGets, GetsTransitive DEF Then, GetsMore, Gets, Moves
<1>. HIDE DEF b
<1>3. GetsMore(s, d) /\ Gets(s, d) /\ IsScanner(d)
  BY <1>2, FractionGets, GetsTransitive DEF Then, GetsMore, Gets, Moves
<1>. HIDE DEF d
<1>4. GetsMore(s, n) /\ Gets(s, n) /\ IsScanner(n)
  BY <1>3, ExponentGets, GetsTransitive DEF Then, GetsMore, Gets, Moves
<1>5. ScanNumber(s) =
        IF ~Ok(n) THEN n
        ELSE IF text = <<>> THEN Fail(n, "parse")
        ELSE [n EXCEPT !.tok.type = "num", !.tok.text = text]
  BY DEF ScanNumber, Then, a, b, d
<1>. HIDE DEF n
<1>6. text \in Seq(Signs) /\ (text # <<>> => IsNumeral(text))
  BY <1>4, StodIsNumeral DEF IsScanner, IsToken
<1>. HIDE DEF text
<1>7. IsToken(t) /\ t.text = text /\ t.type = "num"
  BY <1>4, <1>6 DEF IsScanner, IsToken
<1>8. [n EXCEPT !.tok.type = "num", !.tok.text = text] = m /\ m.tok = t
  BY <1>4 DEF IsScanner, IsToken, Fields
<1>9. GetsMore(s, m) /\ GetsMore(s, Fail(n, "parse"))
  BY <1>4, <1>7, ScannerGets, GetsTransitive DEF GetsMore
<1>10. ~Ok(Fail(n, "parse"))
  BY <1>4, FailMoves
<1>. QED  BY <1>4, <1>5, <1>6, <1>7, <1>8, <1>9, <1>10

LEMMA ScanWordGets ==
  ASSUME NEW s, IsScanner(s)
  PROVE  /\ GetsMore(s, ScanWord(s))
         /\ Ok(ScanWord(s)) => ScanWord(s).tok.type \in {"bool", "nil"}
<1> DEFINE a == Push(s)
           w == IF Ok(a) THEN PushWord(a, {}) ELSE a
           type == Words[w.tok.text]
           t == [w.tok EXCEPT !.type = type]
           m == [w EXCEPT !.tok = t]
<1>1. GetsMore(s, a) /\ Gets(s, a) /\ IsScanner(a)
  BY ScannerGets DEF GetsMore, Gets, Moves
<1>. HIDE DEF a
<1>2. Gets(a, PushWord(a, {}))
  BY <1>1, ScannerGets
<1>3. GetsMore(s, w) /\ Gets(s, w) /\ IsScanner(w)
  BY <1>1, <1>2, GetsTransitive DEF GetsMore, Gets, Moves
<1>4. ScanWord(s) =
        IF ~Ok(w) THEN w
        ELSE IF w.tok.text \in DOMAIN Words
        THEN [w EXCEPT !.tok.type = type] ELSE Fail(w, "parse")
  BY DEF ScanWord, Then, a
<1>. HIDE DEF w
<1>5. w.tok.text \in DOMAIN Words => type \in {"bool", "nil"}
  BY DEF Words
<1>. HIDE DEF type
<1>6. IsToken(t) /\ t.type = type
  BY <1>3 DEF IsScanner, IsToken
<1>7. [w EXCEPT !.tok.type = type] = m /\ m.tok = t
  BY <1>3 DEF IsScanner, IsToken, Fields
<1>8. GetsMore(s, m) /\ GetsMore(s, Fail(w, "parse"))
  BY <1>3, <1>6, ScannerGets, GetsTransitive DEF GetsMore
<1>9. ~Ok(Fail(w, "parse"))
  BY <1>3, FailMoves
<1>. QED  BY <1>3, <1>4, <1>5, <1>6, <1>7, <1>8, <1>9

LEMMA NoTokenIsToken == IsToken(NoToken) /\ NoToken.type = "none"
<1>1. <<>> \in Seq(Signs)
  BY EmptySeq
<1>. QED  BY <1>1 DEF IsToken, NoToken

LEMMA ScanGets ==
  ASSUME NEW s, IsScanner(s)
  PROVE  /\ Gets(s, Scan(s))
         /\ \/ GetsMore(s, Scan(s))
            \/ Scan(s).tok = NoToken
         /\ Ok(Scan(s)) /\ Scan(s).tok.type = "num" =>
              IsNumeral(Scan(s).tok.text)
<1> DEFINE n == [s EXCEPT !.tok = NoToken]
           k == SkipWhitespace(n)
           p == PeekChar(k)
           a == Advance(p)
           t == [a.tok EXCEPT !.type = p.c]
<1>1. Gets(s, n) /\ IsScanner(n)
  BY ScannerGets, NoTokenIsToken DEF Gets, Moves
<1>2. n.tok = NoToken
  BY DEF IsScanner, Fields
<1>. HIDE DEF n
<1>3. Gets(n, k) /\ IsScanner(k) /\ k.tok = NoToken
  BY <1>1, <1>2, SkipWhitespaceMoves DEF Gets, Moves, Ok
<1>. HIDE DEF k
<1>4. Gets(k, p) /\ IsScanner(p) /\ p.tok = NoToken
  BY <1>3, PeekCharMoves DEF Gets, Moves
<1>5. Gets(s, p)
  BY <1>1, <1>3, <1>4, GetsTransitive
<1>6. Scan(s) =
        IF ~Ok(p) THEN p
        ELSE CASE p.c = Eof                 -> p
               [] p.c \in Punctuation       -> [a EXCEPT !.tok.type = p.c]
               [] p.c = Quote               -> ScanString(a)
               [] p.c \in Digits \cup {"-"} -> ScanNumber(p)
               [] p.c \in Letters           -> ScanWord(p)
               [] OTHER                     -> Fail(p, "parse")
  BY DEF Scan, Then, n, k
<1>. HIDE DEF p
<1>7. GetsMore(p, a) /\ IsScanner(a)
  BY <1>4, ScannerGets DEF GetsMore, Gets, Moves
<1>8. GetsMore(s, a)
  BY <1>5, <1>7, GetsTransitive DEF GetsMore
<1>. HIDE DEF a
<1>9. CASE ~Ok(p) \/ p.c = Eof
  <2>1. Scan(s) = p
    BY <1>6, <1>9 DEF Eof, Punctuation, Quote, Digits, Letters
  <2>. QED  BY <1>4, <1>5, <2>1, NoTokenIsToken
<1>10. CASE Scan(s) = [a EXCEPT !.tok.type = p.c] /\ p.c \in Punctuation
  <2>1. IsToken(t) /\ t.type # "num"
    BY <1>7, <1>10 DEF IsToken, IsScanner, Punctuation
  <2>2. Scan(s) = [a EXCEPT !.tok = t] /\ Scan(s).tok = t
    BY <1>7, <1>10 DEF IsToken, IsScanner, Fields
  <2>3. Gets(a, Scan(s))
    BY <1>7, <2>1, <2>2, ScannerGets
  <2>. QED  BY <1>8, <2>1, <2>2, <2>3, GetsTransitive DEF GetsMore
<1>11. CASE Scan(s) = ScanString(a)
  <2>1. Gets(a, Scan(s)) /\ (Ok(Scan(s)) => Scan(s).tok.type = "str")
    BY <1>7, <1>11, ScanStringGets
  <2>. QED  BY <1>8, <2>1, GetsTransitive DEF GetsMore
<1>12. CASE Scan(s) = ScanNumber(p)
  BY <1>4, <1>5, <1>12, ScanNumberGets, GetsTransitive DEF GetsMore
<1>13. CASE Scan(s) = ScanWord(p)
  <2>1. GetsMore(p, Scan(s)) /\ (Ok(Scan(s)) => Scan(s).tok.type # "num")
    BY <1>4, <1>13, ScanWordGets
  <2>. QED  BY <1>5, <2>1, GetsTransitive DEF GetsMore
<1>14. CASE Scan(s) = Fail(p, "parse")
  <2>1. GetsMore(p, Scan(s)) /\ ~Ok(Scan(s))
    BY <1>4, <1>14, ScannerGets, FailMoves
  <2>. QED  BY <1>5, <2>1, GetsTransitive DEF GetsMore
<1>. QED  BY <1>6, <1>9, <1>10, <1>11, <1>12, <1>13, <1>14

-----------------------------------------------------------------------------
(***************************************************************************)
(* The tokens of the parser.                                               *)
(***************************************************************************)
HasTokens(s) ==
  /\ IsScanner(s)
  /\ IsToken(s.ahead)
  /\ s.ahead.type = "num" => IsNumeral(s.ahead.text)

(* What there is to read: the token that has been looked at, and the rest. *)
Left(s) == Len(s.in) + (IF s.ahead = NoToken THEN 0 ELSE 1)

Reads(s, t) ==
  /\ HasTokens(t)
  /\ t.size = s.size /\ t.calls = s.calls /\ t.val = s.val
  /\ Left(t) <= Left(s)
  /\ Ok(t) => Ok(s)
ReadsMore(s, t) == Reads(s, t) /\ (Ok(t) => Left(t) < Left(s))

LEMMA LeftIsNat ==
  ASSUME NEW s, IsScanner(s)
  PROVE  /\ Left(s) \in Nat /\ Len(s.in) \in Nat
         /\ s.ahead = NoToken => Left(s) = Len(s.in)
         /\ s.ahead # NoToken => Left(s) = Len(s.in) + 1
<1>1. Len(s.in) \in Nat
  BY LenProperties DEF IsScanner
<1>2. CASE s.ahead = NoToken
  BY <1>1, <1>2 DEF Left
<1>3. CASE s.ahead # NoToken
  BY <1>1, <1>3 DEF Left
<1>. QED  BY <1>1, <1>2, <1>3

LEMMA ReadsTransitive ==
  ASSUME NEW s, NEW t, NEW u, HasTokens(s), Reads(s, t), Reads(t, u)
  PROVE  /\ Reads(s, u)
         /\ ReadsMore(s, t) \/ ReadsMore(t, u) => ReadsMore(s, u)
<1>1. Left(s) \in Nat /\ Left(t) \in Nat /\ Left(u) \in Nat
  BY LeftIsNat DEF Reads, HasTokens
<1>2. Left(u) <= Left(s)
  BY <1>1 DEF Reads
<1>3. Left(t) < Left(s) \/ Left(u) < Left(t) => Left(u) < Left(s)
  BY <1>1 DEF Reads
<1>. QED  BY <1>2, <1>3 DEF Reads, ReadsMore

LEMMA FailReads ==
  ASSUME NEW s, HasTokens(s), NEW e \in {"parse", "system"}
  PROVE  ReadsMore(s, Fail(s, e)) /\ ~Ok(Fail(s, e))
<1>1. IsScanner(s) /\ Left(s) \in Nat
  BY LeftIsNat DEF HasTokens
<1>2. Moves(s, Fail(s, e)) /\ ~Ok(Fail(s, e))
  BY <1>1, FailMoves
<1>3. Left(Fail(s, e)) = Left(s)
  BY <1>1 DEF Fail, IsScanner, Fields, Left
<1>. QED
  BY <1>1, <1>2, <1>3 DEF Moves, Reads, ReadsMore, HasTokens

LEMMA PeekReads ==
  ASSUME NEW s, HasTokens(s)
  PROVE  Reads(s, Peek(s))
<1> DEFINE t == Scan(s)
           k == SkipWhitespace(t)
           p == [k EXCEPT !.ahead = t.tok]
<1>1. IsScanner(s) /\ Left(s) \in Nat
  BY LeftIsNat DEF HasTokens
<1>2. CASE s.ahead # NoToken
  BY <1>1, <1>2 DEF Peek, Reads
<1>3. CASE s.ahead = NoToken /\ ~Ok(t)
  <2>1. Peek(s) = t
    BY <1>3 DEF Peek, Then
  <2>2. Moves(s, t)
    BY <1>1, ScanGets DEF Gets
  <2>3. Len(t.in) \in Nat /\ Len(s.in) \in Nat
    BY <1>1, <2>2, LenProperties DEF Moves, IsScanner
  <2>. QED  BY <1>3, <2>1, <2>2, <2>3 DEF Moves, Reads, HasTokens, Left
<1>4. CASE s.ahead = NoToken /\ Ok(t)
  <2>1. Peek(s) = p
    BY <1>4 DEF Peek, Then
  <2>2. Gets(s, t) /\ IsScanner(t)
    BY <1>1, ScanGets DEF Gets, Moves
  <2>3. /\ t.tok.type = "num" => IsNumeral(t.tok.text)
        /\ GetsMore(s, t) \/ t.tok = NoToken
    BY <1>1, <1>4, ScanGets
  <2>. HIDE DEF t
  <2>4. Moves(t, k) /\ k.err = t.err /\ IsScanner(k)
    BY <2>2, SkipWhitespaceMoves DEF Moves
  <2>. HIDE DEF k
  <2>5. IsScanner(p) /\ p.in = k.in /\ p.ahead = t.tok /\ p.err = k.err
        /\ p.size = k.size /\ p.calls = k.calls /\ p.val = k.val
    BY <2>4 DEF IsScanner, Fields
  <2>6. HasTokens(p)
    BY <2>2, <2>3, <2>5 DEF HasTokens, IsScanner
  <2>7. Len(s.in) \in Nat /\ Len(t.in) \in Nat /\ Len(k.in) \in Nat
    BY <1>1, <2>2, <2>4, LenProperties DEF IsScanner
  <2>8. Left(p) <= Left(s)
    <3>1. Len(k.in) <= Len(t.in) /\ Len(t.in) <= Len(s.in)
      BY <2>2, <2>4 DEF Gets, Moves
    <3>2. t.tok = NoToken \/ Len(t.in) < Len(s.in)
      BY <1>4, <2>3 DEF GetsMore, Takes
    <3>3. Left(s) = Len(s.in)
      BY <1>1, <1>4, LeftIsNat
    <3>. HIDE DEF p
    <3>4. CASE t.tok = NoToken
      <4>1. Left(p) = Len(k.in)
        BY <2>5, <3>4, LeftIsNat
      <4>. QED  BY <2>7, <3>1, <3>3, <4>1
    <3>5. CASE t.tok # NoToken
      <4>1. Left(p) = Len(k.in) + 1
        BY <2>5, <3>5, LeftIsNat
      <4>. QED  BY <2>7, <3>1, <3>2, <3>3, <3>5, <4>1
    <3>. QED  BY <3>4, <3>5
  <2>. QED
    BY <2>1, <2>2, <2>4, <2>5, <2>6, <2>8 DEF Reads, Gets, Moves, Ok
<1>. QED  BY <1>2, <1>3, <1>4

LEMMA NextTokenReads ==
  ASSUME NEW s, HasTokens(s)
  PROVE  ReadsMore(s, NextToken(s))
<1> DEFINE p == Peek(s)
           n == [p EXCEPT !.tok = p.ahead, !.ahead = NoToken]
<1>1. Reads(s, p) /\ HasTokens(p)
  BY PeekReads DEF Reads
<1>2. NextToken(s) = IF ~Ok(p) THEN p
                     ELSE IF p.ahead = NoToken THEN Fail(p, "parse") ELSE n
  BY DEF NextToken, Then
<1>. HIDE DEF p
<1>3. ReadsMore(s, Fail(p, "parse"))
  BY <1>1, FailReads, ReadsTransitive DEF ReadsMore
<1>4. CASE p.ahead # NoToken
  <2>1. IsScanner(n) /\ n.in = p.in /\ n.ahead = NoToken /\ n.err = p.err
        /\ n.size = p.size /\ n.calls = p.calls /\ n.val = p.val
    BY <1>1 DEF HasTokens, IsScanner, Fields
  <2>2. HasTokens(n)
    BY <2>1, NoTokenIsToken DEF HasTokens
  <2>3. Left(n) = Len(p.in) /\ Left(p) = Len(p.in) + 1 /\ Len(p.in) \in Nat
    BY <1>1, <1>4, <2>1, LeftIsNat DEF HasTokens
  <2>. HIDE DEF n
  <2>4. Left(n) <= Left(p) /\ Left(n) < Left(p)
    BY <2>3
  <2>5. ReadsMore(p, n)
    BY <2>1, <2>2, <2>4 DEF ReadsMore, Reads, Ok
  <2>. QED
    BY <1>1, <1>2, <1>4, <2>5, ReadsTransitive DEF ReadsMore
<1>. QED  BY <1>1, <1>2, <1>3, <1>4 DEF ReadsMore

(* After Peek has found a token. *)
LEMMA NextOfPeeked ==
  ASSUME NEW s, HasTokens(s), Ok(s), s.ahead # NoToken
  PROVE  /\ Ok(NextToken(s)) /\ NextToken(s).tok = s.ahead
         /\ Peek(s) = s
<1>1. Peek(s) = s
  BY DEF Peek
<1>2. NextToken(s) = [s EXCEPT !.tok = s.ahead, !.ahead = NoToken]
  BY <1>1 DEF NextToken, Then
<1>. QED  BY <1>1, <1>2 DEF HasTokens, IsScanner, Fields, Ok

LEMMA EatReads ==
  ASSUME NEW s, HasTokens(s), NEW type
  PROVE  ReadsMore(s, Eat(s, type))
<1> DEFINE n == NextToken(s)
<1>1. ReadsMore(s, n) /\ HasTokens(n)
  BY NextTokenReads DEF ReadsMore, Reads
<1>2. Eat(s, type) \in {n, Fail(n, "parse")}
  BY DEF Eat, Then
<1>. HIDE DEF n
<1>3. ReadsMore(s, Fail(n, "parse"))
  BY <1>1, FailReads, ReadsTransitive DEF ReadsMore
<1>. QED  BY <1>1, <1>2, <1>3

LEMMA SeparatedReads ==
  ASSUME NEW s, HasTokens(s), NEW first
  PROVE  Reads(s, Separated(s, first))
<1>1. Reads(s, s)
  BY LeftIsNat DEF Reads, HasTokens
<1>. QED  BY <1>1, EatReads DEF Separated, ReadsMore

-----------------------------------------------------------------------------
(***************************************************************************)
(* Values: a scalar, or a list all whose parts are values, at any depth.   *)
(***************************************************************************)
IsNode(v) == IsScalar(v) \/ DOMAIN v \in {{"array"}, {"object"}}
IsGood(v) == \A n \in Nat : \A w \in PartsAt(v, n) : IsNode(w)

Levels(v, depth, parts) ==
  parts = [n \in 0 .. depth |->
             IF n = 0 THEN {v} ELSE PartsOf(parts[n - 1])]

LEMMA LevelsExist ==
  ASSUME NEW v, NEW depth \in Nat
  PROVE  \E parts : Levels(v, depth, parts)
<1> DEFINE bad == {n \in Nat : \A parts : ~Levels(v, n, parts)}
<1>1. SUFFICES ASSUME bad # {}  PROVE FALSE
  OBVIOUS
<1>2. PICK n \in bad : \A m \in bad : n <= m
  BY <1>1, LeastOf
<1>3. CASE n = 0
  <2> DEFINE f == [k \in 0 .. 0 |-> {v}]
  <2>1. Levels(v, 0, f)
    BY DEF Levels
  <2>. QED  BY <1>2, <1>3, <2>1
<1>4. CASE n > 0
  <2>1. n - 1 \in Nat /\ n - 1 \notin bad
    BY <1>2, <1>4
  <2>2. PICK g : Levels(v, n - 1, g)
    BY <2>1
  <2> DEFINE f == [k \in 0 .. n |->
                     IF k < n THEN g[k] ELSE PartsOf(g[n - 1])]
  <2>3. ASSUME NEW k \in 0 .. n
        PROVE  f[k] = IF k = 0 THEN {v}
                      ELSE PartsOf(f[k - 1])
    <3>1. CASE k = n
      BY <1>4, <2>1, <3>1
    <3>2. CASE k < n
      <4>1. k \in 0 .. n - 1 /\ f[k] = g[k] /\ (k > 0 => f[k - 1] = g[k - 1])
        BY <3>2
      <4>2. g[k] = IF k = 0 THEN {v} ELSE PartsOf(g[k - 1])
        BY <2>1, <2>2, <4>1 DEF Levels
      <4>. HIDE DEF f
      <4>. QED  BY <4>1, <4>2
    <3>. QED  BY <3>1, <3>2
  <2>4. Levels(v, n, f)
    BY <2>3 DEF Levels
  <2>. QED  BY <1>2, <2>4
<1>. QED  BY <1>2, <1>3, <1>4

LEMMA LevelsAgree ==
  ASSUME NEW v, NEW d \in Nat, NEW e \in Nat, NEW f, NEW g,
         Levels(v, d, f), Levels(v, e, g), d <= e
  PROVE  \A n \in 0 .. d : f[n] = g[n]
<1> DEFINE bad == {n \in 0 .. d : f[n] # g[n]}
<1>1. SUFFICES ASSUME bad # {}  PROVE FALSE
  OBVIOUS
<1>2. bad \in SUBSET Nat
  OBVIOUS
<1>3. PICK n \in bad : \A m \in bad : n <= m
  BY <1>1, <1>2, LeastOf
<1>4. f[n] = IF n = 0 THEN {v} ELSE PartsOf(f[n - 1])
  BY <1>3 DEF Levels
<1>5. n \in 0 .. e
  BY <1>3
<1>6. g[n] = IF n = 0 THEN {v} ELSE PartsOf(g[n - 1])
  BY <1>5 DEF Levels
<1>7. CASE n = 0
  BY <1>3, <1>4, <1>6, <1>7
<1>8. CASE n > 0
  <2>1. f[n - 1] = g[n - 1]
    BY <1>3, <1>8
  <2>. QED  BY <1>3, <1>4, <1>6, <1>8, <2>1
<1>. QED  BY <1>3, <1>7, <1>8

LEMMA PartsAtNext ==
  ASSUME NEW v, NEW n \in Nat
  PROVE  /\ PartsAt(v, 0) = {v}
         /\ PartsAt(v, n + 1) = PartsOf(PartsAt(v, n))
<1> DEFINE level(d) == CHOOSE f : Levels(v, d, f)
<1>1. ASSUME NEW d \in Nat
      PROVE  Levels(v, d, level(d)) /\ PartsAt(v, d) = level(d)[d]
  <2>1. Levels(v, d, level(d))
    BY LevelsExist
  <2>2. PartsAt(v, d) = level(d)[d]
    BY DEF PartsAt, Levels
  <2>. QED  BY <2>1, <2>2
<1>. HIDE DEF level
<1>2. level(0)[0] = {v}
  BY <1>1 DEF Levels
<1>3. level(n)[n] = level(n + 1)[n]
  BY <1>1, LevelsAgree
<1>4. level(n + 1)[n + 1] = PartsOf(level(n + 1)[n])
  BY <1>1 DEF Levels
<1>. QED  BY <1>1, <1>2, <1>3, <1>4

(* What is n lists below a part of v is n + 1 lists below v. *)
LEMMA PartsOfParts ==
  ASSUME NEW v, NEW n \in Nat, NEW x \in PartsAt(v, n + 1)
  PROVE  \E w \in Parts(v) : x \in PartsAt(w, n)
<1> DEFINE Reached(k) ==
             \A y \in PartsAt(v, k + 1) :
               \E w \in Parts(v) : y \in PartsAt(w, k)
           bad == {k \in Nat : ~Reached(k)}
<1>1. SUFFICES ASSUME bad # {}  PROVE FALSE
  OBVIOUS
<1>2. PICK k \in bad : \A m \in bad : k <= m
  BY <1>1, LeastOf
<1>3. PICK y \in PartsAt(v, k + 1) : \A w \in Parts(v) : y \notin PartsAt(w, k)
  BY <1>2
<1>4. PICK z \in PartsAt(v, k) : y \in Parts(z)
  BY <1>2, <1>3, PartsAtNext DEF PartsOf
<1>5. CASE k = 0
  <2>1. z = v
    BY <1>4, <1>5, PartsAtNext
  <2>2. y \in PartsAt(y, 0)
    BY PartsAtNext
  <2>. QED  BY <1>3, <1>4, <1>5, <2>1, <2>2
<1>6. CASE k > 0
  <2>1. k - 1 \in Nat /\ Reached(k - 1) /\ k - 1 + 1 = k
    BY <1>2, <1>6
  <2>2. PICK w \in Parts(v) : z \in PartsAt(w, k - 1)
    BY <1>4, <2>1
  <2>3. y \in PartsAt(w, k)
    <3>1. PartsAt(w, k - 1 + 1) = PartsOf(PartsAt(w, k - 1))
      BY <2>1, PartsAtNext
    <3>. QED  BY <1>4, <2>1, <2>2, <3>1 DEF PartsOf
  <2>. QED  BY <1>3, <2>2, <2>3
<1>. QED  BY <1>2, <1>5, <1>6

LEMMA GoodFromParts ==
  ASSUME NEW v, IsNode(v), \A w \in Parts(v) : IsGood(w)
  PROVE  IsGood(v)
<1>1. SUFFICES ASSUME NEW n \in Nat, NEW x \in PartsAt(v, n)  PROVE IsNode(x)
  BY DEF IsGood
<1>2. CASE n = 0
  BY <1>1, <1>2, PartsAtNext
<1>3. CASE n > 0
  <2>1. n - 1 \in Nat /\ n - 1 + 1 = n
    BY <1>3
  <2>2. PICK w \in Parts(v) : x \in PartsAt(w, n - 1)
    BY <1>1, <2>1, PartsOfParts
  <2>. QED  BY <2>1, <2>2 DEF IsGood
<1>. QED  BY <1>2, <1>3

LEMMA TaggedIsGood ==
  ASSUME NEW type, NEW x,
         \/ type \in {"str", "bool", "nil"}
         \/ type = "num" /\ IsNumeral(x)
         \/ type \in {"array", "object"} /\ \A w \in Range(x) : IsGood(w)
  PROVE  IsGood(Tagged(type, x))
<1> DEFINE v == Tagged(type, x)
<1>1. DOMAIN v = {type} /\ v[type] = x
  BY DEF Tagged
<1>. HIDE DEF v
<1>2. CASE type \in {"str", "bool", "nil"}
  <2>1. IsNode(v)
    BY <1>1, <1>2 DEF IsNode, IsScalar
  <2>2. Parts(v) = {}
    BY <1>1, <1>2 DEF Parts
  <2>. QED  BY <2>1, <2>2, GoodFromParts DEF v
<1>3. CASE type = "num" /\ IsNumeral(x)
  <2>1. IsNode(v)
    BY <1>1, <1>3 DEF IsNode, IsScalar
  <2>2. Parts(v) = {}
    BY <1>1, <1>3 DEF Parts
  <2>. QED  BY <2>1, <2>2, GoodFromParts DEF v
<1>4. CASE type \in {"array", "object"} /\ \A w \in Range(x) : IsGood(w)
  <2>1. IsNode(v)
    BY <1>1, <1>4 DEF IsNode
  <2>2. Parts(v) = Range(x)
    BY <1>1, <1>4 DEF Parts
  <2>. QED  BY <1>4, <2>1, <2>2, GoodFromParts DEF v
<1>. QED  BY <1>2, <1>3, <1>4

-----------------------------------------------------------------------------
(***************************************************************************)
(* The calls of Parser::Value: the innermost has perhaps not looked at its *)
(* token yet, all others are those of lists.                               *)
(***************************************************************************)
IsCall(c) ==
  /\ DOMAIN c = {"type", "values", "key"}
  /\ c.type \in {"none", "[", "{"}
  /\ \A w \in Range(c.values) : IsGood(w)
  /\ c.type # "{" => \E S : c.values \in Seq(S)
IsList(c) == IsCall(c) /\ c.type # "none"

IsLists(calls) ==
  /\ \E S : calls \in Seq(S)
  /\ \A i \in 1 .. Len(calls) : IsList(calls[i])

IsStack(calls) ==
  \/ calls = <<>>
  \/ /\ \E S : calls \in Seq(S)
     /\ calls # <<>> /\ IsCall(Head(calls)) /\ IsLists(Tail(calls))

LEMMA HeadAndTail ==
  ASSUME NEW S, NEW c \in S, NEW t \in Seq(S)
  PROVE  LET more == <<c>> \o t
         IN /\ more \in Seq(S) /\ more # <<>> /\ Len(more) = Len(t) + 1
            /\ Head(more) = c /\ Tail(more) = t
<1> DEFINE more == <<c>> \o t
<1>1. <<c>> \in Seq(S) /\ Len(<<c>>) = 1 /\ <<c>>[1] = c
  OBVIOUS
<1>2. Len(t) \in Nat
  BY LenProperties
<1>3. /\ more \in Seq(S) /\ Len(more) = Len(t) + 1
      /\ \A i \in 1 .. Len(t) + 1 : more[i] = IF i <= 1 THEN c ELSE t[i - 1]
  BY <1>1, ConcatProperties
<1>. HIDE DEF more
<1>4. more # <<>>
  BY <1>2, <1>3, EmptySeq
<1>5. Head(more) = c
  <2>1. Head(more) = more[1]
    BY <1>3, <1>4
  <2>. QED  BY <1>2, <1>3, <2>1
<1>6. Tail(more) = t
  <2>1. /\ Tail(more) \in Seq(S) /\ Len(Tail(more)) = Len(more) - 1
        /\ \A i \in 1 .. Len(Tail(more)) : Tail(more)[i] = more[i + 1]
    BY <1>3, <1>4, HeadTailProperties
  <2>2. ASSUME NEW i \in 1 .. Len(t)  PROVE Tail(more)[i] = t[i]
    <3>1. Tail(more)[i] = more[i + 1] /\ i + 1 \in 1 .. Len(t) + 1
      BY <1>2, <1>3, <2>1
    <3>. QED  BY <1>2, <1>3, <3>1
  <2>. QED  BY <1>2, <1>3, <2>1, <2>2, SeqEqual
<1>. QED  BY <1>3, <1>4, <1>5, <1>6 DEF more

LEMMA PushCall ==
  ASSUME NEW calls, IsLists(calls), NEW c, IsCall(c)
  PROVE  LET more == <<c>> \o calls
         IN /\ IsStack(more) /\ more # <<>>
            /\ Head(more) = c /\ Tail(more) = calls
<1> DEFINE more == <<c>> \o calls
<1>1. PICK S : calls \in Seq(S)
  BY DEF IsLists
<1>2. calls \in Seq(S \cup {c})
  BY <1>1
<1>3. more \in Seq(S \cup {c}) /\ more # <<>>
      /\ Head(more) = c /\ Tail(more) = calls
  BY <1>2, HeadAndTail
<1>. QED  BY <1>3 DEF IsStack

LEMMA ListsFromStack ==
  ASSUME NEW calls, IsStack(calls), calls # <<>> => IsList(Head(calls))
  PROVE  IsLists(calls)
<1>1. CASE calls = <<>>
  <2>1. <<>> \in Seq({}) /\ Len(<<>>) = 0
    BY EmptySeq
  <2>. QED  BY <1>1, <2>1 DEF IsLists
<1>2. CASE calls # <<>>
  <2>1. PICK S : calls \in Seq(S)
    BY <1>2 DEF IsStack
  <2>2. /\ Len(calls) \in Nat /\ Len(Tail(calls)) = Len(calls) - 1
        /\ \A i \in 1 .. Len(Tail(calls)) : Tail(calls)[i] = calls[i + 1]
        /\ Head(calls) = calls[1]
    BY <1>2, <2>1, HeadTailProperties, LenProperties
  <2>3. ASSUME NEW i \in 1 .. Len(calls)  PROVE IsList(calls[i])
    <3>1. CASE i = 1
      BY <1>2, <2>2, <3>1
    <3>2. CASE i > 1
      <4>1. i - 1 \in 1 .. Len(Tail(calls)) /\ calls[i - 1 + 1] = calls[i]
        BY <2>2, <3>2
      <4>. QED  BY <1>2, <2>2, <4>1 DEF IsStack, IsLists
    <3>. QED  BY <3>1, <3>2
  <2>. QED  BY <2>1, <2>3 DEF IsLists
<1>. QED  BY <1>1, <1>2

LEMMA StackFromLists ==
  ASSUME NEW calls, IsLists(calls), calls # <<>>
  PROVE  /\ IsStack(calls) /\ IsList(Head(calls)) /\ IsLists(Tail(calls))
         /\ calls[1] = Head(calls)
<1>1. PICK S : calls \in Seq(S)
  BY DEF IsLists
<1>2. /\ Len(calls) \in Nat \ {0} /\ Len(Tail(calls)) = Len(calls) - 1
      /\ \A i \in 1 .. Len(Tail(calls)) : Tail(calls)[i] = calls[i + 1]
      /\ Tail(calls) \in Seq(S) /\ Head(calls) = calls[1]
  BY <1>1, HeadTailProperties, EmptySeq
<1>3. IsList(Head(calls))
  BY <1>2 DEF IsLists
<1>4. ASSUME NEW i \in 1 .. Len(Tail(calls))  PROVE IsList(Tail(calls)[i])
  <2>1. i + 1 \in 1 .. Len(calls)
    BY <1>2
  <2>. QED  BY <1>2, <2>1 DEF IsLists
<1>. QED  BY <1>1, <1>2, <1>3, <1>4 DEF IsStack, IsLists, IsList

(* A change of the innermost call. *)
LEMMA HeadChanged ==
  ASSUME NEW calls, IsStack(calls), calls # <<>>, NEW c, IsList(c)
  PROVE  LET more == [calls EXCEPT ![1] = c]
         IN /\ IsLists(more) /\ more # <<>> /\ Head(more) = c
            /\ calls[1] = Head(calls) /\ 1 \in DOMAIN calls
<1> DEFINE more == [calls EXCEPT ![1] = c]
<1>1. PICK S : calls \in Seq(S)
  BY DEF IsStack
<1>2. calls \in Seq(S \cup {c}) /\ Len(calls) \in Nat \ {0}
  BY <1>1, EmptySeq
<1>3. /\ more \in Seq(S \cup {c}) /\ Len(more) = Len(calls)
      /\ \A j \in 1 .. Len(calls) : more[j] = IF j = 1 THEN c ELSE calls[j]
  BY <1>2, ExceptSeq
<1>4. more # <<>>
  BY <1>2, <1>3, EmptySeq
<1>. HIDE DEF more
<1>5. Head(more) = c
  <2>1. Head(more) = more[1]
    BY <1>3, <1>4
  <2>. QED  BY <1>2, <1>3, <2>1
<1>6. calls[1] = Head(calls) /\ 1 \in DOMAIN calls
  BY <1>2, LenProperties
<1>7. /\ Len(Tail(calls)) = Len(calls) - 1
      /\ \A i \in 1 .. Len(Tail(calls)) : Tail(calls)[i] = calls[i + 1]
  BY <1>2, HeadTailProperties
<1>8. ASSUME NEW i \in 1 .. Len(more)  PROVE IsList(more[i])
  <2>1. CASE i = 1
    BY <1>2, <1>3, <2>1
  <2>2. CASE i > 1
    <3>1. i - 1 \in 1 .. Len(Tail(calls)) /\ calls[i - 1 + 1] = calls[i]
      BY <1>2, <1>3, <1>7, <2>2
    <3>2. more[i] = calls[i]
      BY <1>3, <2>2
    <3>. QED  BY <1>7, <3>1, <3>2 DEF IsStack, IsLists
  <2>. QED  BY <1>3, <2>1, <2>2
<1>. QED  BY <1>3, <1>4, <1>5, <1>6, <1>8 DEF IsLists, more

LEMMA CallIsCall == IsCall(Call) /\ Call.type = "none"
<1>1. <<>> \in Seq({}) /\ Len(<<>>) = 0
  BY EmptySeq
<1>2. Range(<<>>) = {}
  BY <1>1, LenProperties DEF Range
<1>. QED  BY <1>1, <1>2 DEF IsCall, Call

LEMMA ExtendedIsList ==
  ASSUME NEW c, IsList(c), NEW v, IsGood(v)
  PROVE  IsList(Extended(c, v))
<1> DEFINE e == Extended(c, v)
<1>1. DOMAIN e = {"type", "values", "key"} /\ e.type = c.type
  BY DEF Extended, IsList, IsCall
<1>2. CASE c.type = "["
  <2>1. e.values = Append(c.values, v)
    BY <1>2 DEF Extended, IsList, IsCall
  <2>2. PICK S : c.values \in Seq(S)
    BY <1>2 DEF IsList, IsCall
  <2>3. c.values \in Seq(S \cup {v}) /\ v \in S \cup {v}
    BY <2>2
  <2>4. Append(c.values, v) \in Seq(S \cup {v})
    BY <2>3, AppendProperties
  <2>5. ASSUME NEW i \in 1 .. Len(Append(c.values, v))
        PROVE  IsGood(Append(c.values, v)[i])
    <3>1. Len(c.values) \in Nat /\ DOMAIN c.values = 1 .. Len(c.values)
      BY <2>3, LenProperties
    <3>2. CASE i = Len(c.values) + 1
      BY <2>3, <3>2, AppendProperties
    <3>3. CASE i \in 1 .. Len(c.values)
      <4>1. Append(c.values, v)[i] = c.values[i]
        BY <2>3, <3>3, AppendProperties
      <4>. QED  BY <3>1, <3>3, <4>1 DEF IsList, IsCall, Range
    <3>4. Len(Append(c.values, v)) = Len(c.values) + 1
      BY <2>3, AppendProperties
    <3>. QED  BY <3>1, <3>2, <3>3, <3>4
  <2>6. DOMAIN Append(c.values, v) = 1 .. Len(Append(c.values, v))
    BY <2>4, LenProperties
  <2>7. \A w \in Range(e.values) : IsGood(w)
    BY <2>1, <2>5, <2>6 DEF Range
  <2>. QED  BY <1>1, <2>1, <2>4, <2>7 DEF IsList, IsCall
<1>3. CASE c.type = "{"
  <2>1. e.values = With(c.values, c.key, v)
    BY <1>3 DEF Extended, IsList, IsCall
  <2>2. \A w \in Range(With(c.values, c.key, v)) :
          w = v \/ w \in Range(c.values)
    BY DEF With, Range
  <2>3. \A w \in Range(e.values) : IsGood(w)
    BY <2>1, <2>2 DEF IsList, IsCall
  <2>. QED  BY <1>1, <1>3, <2>3 DEF IsList, IsCall
<1>. QED  BY <1>2, <1>3 DEF IsList, IsCall

IsParser(s) ==
  /\ HasTokens(s)
  /\ IsStack(s.calls)
  /\ Ok(s) /\ s.calls = <<>> => IsGood(s.val)

(* What a method of the parser may do to what there is to read. *)
Parses(s, t) ==
  IsParser(t) /\ t.size = s.size /\ Left(t) <= Left(s) /\ (Ok(t) => Ok(s))

LEMMA ReturnsParses ==
  ASSUME NEW s, HasTokens(s), IsStack(s.calls), s.calls # <<>>,
         NEW v, IsGood(v)
  PROVE  LET t == Returns(s, v)
         IN /\ Parses(s, t) /\ Left(t) = Left(s)
            /\ t.calls # <<>> => IsList(Head(t.calls))
<1> DEFINE t == Returns(s, v)
<1>1. PICK S : s.calls \in Seq(S)
  BY DEF IsStack
<1>2. /\ Len(s.calls) \in Nat \ {0} /\ Len(Tail(s.calls)) = Len(s.calls) - 1
      /\ \A i \in 1 .. Len(Tail(s.calls)) : Tail(s.calls)[i] = s.calls[i + 1]
  BY <1>1, HeadTailProperties, EmptySeq
<1>3. Left(s) \in Nat
  BY LeftIsNat DEF HasTokens
<1>4. CASE Len(s.calls) = 1
  <2>1. t = [s EXCEPT !.calls = <<>>, !.val = v]
    BY <1>4 DEF Returns
  <2>2. IsStack(<<>>)
    BY DEF IsStack
  <2>3. /\ HasTokens(t) /\ t.calls = <<>> /\ t.val = v /\ t.size = s.size
        /\ Left(t) = Left(s) /\ (Ok(t) <=> Ok(s))
    BY <2>1 DEF HasTokens, IsScanner, Fields, Left, Ok
  <2>. QED  BY <1>3, <2>2, <2>3 DEF Parses, IsParser
<1>5. CASE Len(s.calls) # 1
  <2> DEFINE lists == Tail(s.calls)
             c == Extended(s.calls[2], v)
             calls == <<c>> \o Tail(lists)
  <2>1. IsLists(lists)
    BY DEF IsStack
  <2>2. lists # <<>> /\ s.calls[2] = lists[1]
    <3>1. Len(lists) \in Nat \ {0}
      BY <1>2, <1>5
    <3>2. Len(<<>>) = 0
      BY EmptySeq
    <3>3. \A k \in Nat \ {0} : 1 \in 1 .. k /\ k # 0
      OBVIOUS
    <3>. HIDE DEF lists
    <3>4. 1 \in 1 .. Len(lists) /\ lists # <<>>
      BY <3>1, <3>2, <3>3
    <3>. USE DEF lists
    <3>5. lists[1] = s.calls[1 + 1]
      BY <1>2, <3>4
    <3>. QED  BY <3>4, <3>5
  <2>3. IsList(Head(lists)) /\ IsLists(Tail(lists)) /\ lists[1] = Head(lists)
    BY <2>1, <2>2, StackFromLists
  <2>4. IsList(c)
    BY <2>2, <2>3, ExtendedIsList
  <2>5. IsStack(calls) /\ calls # <<>> /\ Head(calls) = c
    BY <2>3, <2>4, PushCall DEF IsList
  <2>6. t = [s EXCEPT !.calls = calls]
    BY <1>5 DEF Returns
  <2>. HIDE DEF t, calls, c
  <2>7. /\ HasTokens(t) /\ t.calls = calls /\ t.size = s.size
        /\ Left(t) = Left(s) /\ (Ok(t) <=> Ok(s))
    BY <2>6 DEF HasTokens, IsScanner, Fields, Left, Ok
  <2>. QED  BY <1>3, <2>4, <2>5, <2>7 DEF Parses, IsParser, t
<1>. QED  BY <1>4, <1>5

Lists(s) == s.calls # <<>> /\ IsList(Head(s.calls))

LEMMA ValueParses ==
  ASSUME NEW s, IsParser(s), s.calls # <<>>, Head(s.calls).type = "none"
  PROVE  LET t == Value(s)
         IN /\ Parses(s, t)
            /\ Ok(t) => Left(t) < Left(s) /\ (t.calls # <<>> => Lists(t))
<1> DEFINE p == Peek(s)
           n == NextToken(p)
           type == p.ahead.type
           v == Tagged(type, p.ahead.text)
           c == [Head(s.calls) EXCEPT !.type = type]
           open == [n EXCEPT !.calls[1].type = type]
<1>1. /\ HasTokens(s) /\ IsStack(s.calls)
      /\ Reads(s, p) /\ HasTokens(p) /\ p.calls = s.calls
  BY PeekReads DEF IsParser, Reads
<1>2. Value(s) =
        IF ~Ok(p) THEN p
        ELSE CASE type \in {"num", "str", "bool", "nil"} -> Returns(n, v)
               [] type \in {"[", "{"}                    -> open
               [] OTHER                                  -> Fail(p, "parse")
  BY DEF Value, Then
<1>. HIDE DEF p
<1>3. CASE ~Ok(p)
  BY <1>1, <1>2, <1>3 DEF Parses, IsParser, Reads
<1>4. CASE Value(s) = Fail(p, "parse")
  <2>1. Reads(p, Fail(p, "parse")) /\ ~Ok(Fail(p, "parse"))
    BY <1>1, FailReads DEF ReadsMore
  <2>2. Reads(s, Fail(p, "parse"))
    BY <1>1, <2>1, ReadsTransitive
  <2>. QED  BY <1>1, <1>4, <2>1, <2>2 DEF Parses, IsParser, Reads
<1>5. CASE Ok(p) /\ type \in {"num", "str", "bool", "nil", "[", "{"}
  <2>1. p.ahead # NoToken
    BY <1>5, NoTokenIsToken
  <2>2. ReadsMore(p, n) /\ Ok(n)
    BY <1>1, <1>5, <2>1, NextTokenReads, NextOfPeeked
  <2>3. ReadsMore(s, n)
    BY <1>1, <2>2, ReadsTransitive DEF ReadsMore
  <2>. HIDE DEF n
  <2>4. HasTokens(n) /\ n.calls = s.calls /\ n.size = s.size
        /\ Left(n) < Left(s) /\ Left(n) <= Left(s) /\ (Ok(n) => Ok(s))
    BY <2>2, <2>3 DEF ReadsMore, Reads
  <2>5. CASE Value(s) = Returns(n, v)
             /\ type \in {"num", "str", "bool", "nil"}
    <3>1. IsGood(v)
      BY <1>1, <2>5, TaggedIsGood DEF HasTokens
    <3>2. LET t == Returns(n, v)
          IN /\ Parses(n, t) /\ Left(t) = Left(n)
             /\ t.calls # <<>> => IsList(Head(t.calls))
      BY <1>1, <2>4, <3>1, ReturnsParses
    <3>. QED  BY <2>4, <2>5, <3>2 DEF Parses, Lists
  <2>6. CASE Value(s) = open /\ type \in {"[", "{"}
    <3> DEFINE calls == [s.calls EXCEPT ![1] = c]
    <3>1. IsCall(Head(s.calls))
      BY <1>1 DEF IsStack
    <3>2. IsList(c)
      <4>1. DOMAIN c = {"type", "values", "key"} /\ c.type = type
            /\ c.values = Head(s.calls).values
        BY <3>1 DEF IsCall
      <4>2. Range(c.values) = Range(Head(s.calls).values)
            /\ \E S : c.values \in Seq(S)
        BY <3>1, <4>1 DEF IsCall
      <4>. QED  BY <2>6, <3>1, <4>1, <4>2 DEF IsList, IsCall
    <3>. HIDE DEF c
    <3>3. /\ IsLists(calls) /\ calls # <<>> /\ Head(calls) = c
          /\ s.calls[1] = Head(s.calls) /\ 1 \in DOMAIN s.calls
      BY <1>1, <3>2, HeadChanged
    <3>4. open = [n EXCEPT !.calls = calls]
      BY <2>4, <3>3 DEF c, HasTokens, IsScanner, Fields
    <3>. HIDE DEF calls, open
    <3>5. /\ HasTokens(open) /\ open.calls = calls /\ open.size = n.size
          /\ Left(open) = Left(n) /\ (Ok(open) <=> Ok(n))
      BY <2>4, <3>4 DEF HasTokens, IsScanner, Fields, Left, Ok
    <3>6. IsStack(calls)
      BY <3>3, StackFromLists
    <3>. QED
      BY <2>4, <2>6, <3>2, <3>3, <3>5, <3>6 DEF Parses, IsParser, Lists
  <2>. QED  BY <1>2, <1>5, <2>5, <2>6
<1>. QED  BY <1>2, <1>3, <1>4, <1>5

(* The key of a member; it is kept in the innermost call. *)
LEMMA KeyParses ==
  ASSUME NEW s, HasTokens(s), IsStack(s.calls), Lists(s)
  PROVE  LET k == Key(s)
         IN /\ HasTokens(k) /\ IsStack(k.calls) /\ Lists(k)
            /\ k.size = s.size /\ Left(k) <= Left(s) /\ (Ok(k) => Ok(s))
<1> DEFINE e == Eat(s, "str")
           m == [e EXCEPT !.calls[1].key = e.tok.text]
           k == Eat(m, ":")
           c == [Head(s.calls) EXCEPT !.key = e.tok.text]
           calls == [s.calls EXCEPT ![1] = c]
<1>1. Reads(s, e) /\ HasTokens(e) /\ e.calls = s.calls
  BY EatReads DEF ReadsMore, Reads
<1>2. Key(s) = IF Ok(e) THEN k ELSE e
  BY DEF Key, Then
<1>. HIDE DEF e
<1>3. CASE ~Ok(e)
  BY <1>1, <1>2, <1>3 DEF Reads, Lists
<1>4. CASE Ok(e)
  <2>1. IsList(c)
    BY DEF IsList, IsCall, Lists
  <2>. HIDE DEF c
  <2>2. /\ IsLists(calls) /\ calls # <<>> /\ Head(calls) = c
        /\ s.calls[1] = Head(s.calls) /\ 1 \in DOMAIN s.calls
    BY <2>1, HeadChanged DEF Lists
  <2>3. m = [e EXCEPT !.calls = calls]
    BY <1>1, <2>2 DEF c, HasTokens, IsScanner, Fields
  <2>. HIDE DEF calls, m
  <2>4. /\ HasTokens(m) /\ m.calls = calls /\ m.size = e.size
        /\ Left(m) = Left(e) /\ (Ok(m) <=> Ok(e))
    BY <1>1, <2>3 DEF HasTokens, IsScanner, Fields, Left, Ok
  <2>5. Reads(m, k) /\ HasTokens(k)
    BY <2>4, EatReads DEF ReadsMore, Reads
  <2>6. Left(k) <= Left(s)
    <3>1. Left(k) <= Left(e) /\ Left(e) <= Left(s)
      BY <1>1, <2>4, <2>5 DEF Reads
    <3>2. Left(k) \in Nat /\ Left(e) \in Nat /\ Left(s) \in Nat
      BY <1>1, <2>5, LeftIsNat DEF HasTokens
    <3>. QED  BY <3>1, <3>2
  <2>7. IsStack(k.calls) /\ Lists(k)
    BY <2>1, <2>2, <2>4, <2>5, StackFromLists DEF Reads, Lists
  <2>. QED  BY <1>1, <1>2, <1>4, <2>4, <2>5, <2>6, <2>7 DEF Reads
<1>. QED  BY <1>3, <1>4

LEMMA ListIsGood ==
  ASSUME NEW c, IsList(c)
  PROVE  IsGood(ListOf(c))
<1>1. \A w \in Range(c.values) : IsGood(w)
  BY DEF IsList, IsCall
<1>. QED  BY <1>1, TaggedIsGood DEF ListOf

LEMMA ElementParses ==
  ASSUME NEW s, IsParser(s), Lists(s)
  PROVE  LET t == Element(s)
         IN /\ Parses(s, t)
            /\ Ok(t) => \/ Left(t) < Left(s) /\ (t.calls # <<>> => Lists(t))
                        \/ t.calls # <<>> /\ Head(t.calls).type = "none"
<1> DEFINE list == Head(s.calls)
           close == Closing(list.type)
           p == Peek(s)
           e == Eat(p, close)
           q == Separated(p, list.values = <<>>)
           k == IF ~Ok(q) \/ list.type = "[" THEN q ELSE Key(q)
           done == Returns(e, ListOf(list))
<1>1. /\ HasTokens(s) /\ IsStack(s.calls) /\ Left(s) \in Nat
      /\ Reads(s, p) /\ HasTokens(p) /\ p.calls = s.calls
  BY PeekReads, LeftIsNat DEF IsParser, HasTokens, Reads
<1>2. Element(s) =
        IF ~Ok(p) THEN p
        ELSE IF p.ahead.type \in {"none", close}
        THEN IF Ok(e) THEN done ELSE e
        ELSE IF Ok(k) THEN Called(k) ELSE k
  BY DEF Element, Then
<1>. HIDE DEF p
<1>3. CASE Element(s) = p /\ ~Ok(p)
  BY <1>1, <1>3 DEF Parses, IsParser, Reads
<1>4. CASE Element(s) = IF Ok(e) THEN done ELSE e
  <2>1. ReadsMore(s, e)
    BY <1>1, EatReads, ReadsTransitive DEF ReadsMore
  <2>. HIDE DEF e
  <2>2. /\ HasTokens(e) /\ e.calls = s.calls /\ e.size = s.size
        /\ Left(e) <= Left(s) /\ (Ok(e) => Ok(s) /\ Left(e) < Left(s))
    BY <2>1 DEF ReadsMore, Reads
  <2>3. CASE ~Ok(e)
    BY <1>1, <1>4, <2>2, <2>3 DEF Parses, IsParser
  <2>4. CASE Ok(e)
    <3>1. IsGood(ListOf(list))
      BY ListIsGood DEF Lists
    <3>2. LET t == Returns(e, ListOf(list))
          IN /\ Parses(e, t) /\ Left(t) = Left(e)
             /\ t.calls # <<>> => IsList(Head(t.calls))
      BY <1>1, <2>2, <3>1, ReturnsParses DEF Lists
    <3>. QED  BY <1>4, <2>2, <2>4, <3>2 DEF Parses, Lists
  <2>. QED  BY <2>3, <2>4
<1>5. CASE Element(s) = IF Ok(k) THEN Called(k) ELSE k
  <2>1. Reads(p, q)
    BY <1>1, SeparatedReads
  <2>2. Reads(s, q)
    BY <1>1, <2>1, ReadsTransitive
  <2>. HIDE DEF q
  <2>3. /\ HasTokens(q) /\ q.calls = s.calls /\ q.size = s.size
        /\ Left(q) <= Left(s) /\ (Ok(q) => Ok(s)) /\ Left(q) \in Nat
    BY <2>2, LeftIsNat DEF Reads, HasTokens
  <2>4. Lists(q) /\ IsStack(q.calls)
    BY <1>1, <2>3 DEF Lists
  <2>5. /\ HasTokens(k) /\ IsStack(k.calls) /\ Lists(k)
        /\ k.size = q.size /\ Left(k) <= Left(q) /\ (Ok(k) => Ok(q))
    BY <2>3, <2>4, KeyParses
  <2>. HIDE DEF k
  <2>6. Left(k) <= Left(s)
    <3>1. Left(k) \in Nat
      BY <2>5, LeftIsNat DEF HasTokens
    <3>. QED  BY <1>1, <2>3, <2>5, <3>1
  <2>7. CASE ~Ok(k)
    BY <1>5, <2>3, <2>5, <2>6, <2>7 DEF Parses, IsParser
  <2>8. CASE Ok(k)
    <3> DEFINE calls == <<Call>> \o k.calls
               t == [k EXCEPT !.calls = calls]
    <3>1. IsLists(k.calls)
      BY <2>5, ListsFromStack DEF Lists
    <3>2. IsStack(calls) /\ calls # <<>> /\ Head(calls) = Call
      BY <3>1, PushCall, CallIsCall
    <3>3. Called(k) = t
      BY DEF Called
    <3>. HIDE DEF calls
    <3>4. /\ HasTokens(t) /\ t.calls = calls /\ t.size = k.size
          /\ Left(t) = Left(k) /\ (Ok(t) <=> Ok(k))
      BY <2>5 DEF HasTokens, IsScanner, Fields, Left, Ok
    <3>. HIDE DEF t
    <3>. QED
      BY <1>5, <2>3, <2>5, <2>6, <2>8, <3>2, <3>3, <3>4, CallIsCall
      DEF Parses, IsParser
  <2>. QED  BY <2>7, <2>8
<1>. QED  BY <1>2, <1>3, <1>4, <1>5

LEMMA StackHead ==
  ASSUME NEW s, IsParser(s), s.calls # <<>>
  PROVE  Head(s.calls).type = "none" \/ Lists(s)
<1>. QED  BY DEF IsParser, IsStack, Lists, IsList

(***************************************************************************)
(* A round takes a token, or is followed by one that does: this is how     *)
(* many rounds there may still be.                                         *)
(***************************************************************************)
Rounds(s, n) ==
  /\ n \in Nat
  /\ 2 * Left(s) <= n
  /\ Lists(s) => 2 * Left(s) + 1 <= n

LEMMA RoundParses ==
  ASSUME NEW s, IsParser(s), Ok(s), s.calls # <<>>, NEW n, Rounds(s, n)
  PROVE  LET t == Round(s)
         IN /\ Parses(s, t)
            /\ Ok(t) /\ t.calls # <<>> => Rounds(t, n - 1)
<1> DEFINE t == Round(s)
<1>1. CASE Head(s.calls).type = "none"
  <2>1. t = Value(s)
    BY <1>1 DEF Round
  <2>. HIDE DEF t
  <2>2. Parses(s, t)
        /\ (Ok(t) => Left(t) < Left(s) /\ (t.calls # <<>> => Lists(t)))
    BY <1>1, <2>1, ValueParses
  <2>3. Left(s) \in Nat /\ Left(t) \in Nat
    BY <2>2, LeftIsNat DEF Parses, IsParser, HasTokens
  <2>4. Ok(t) => Rounds(t, n - 1)
    <3>1. Left(t) < Left(s) => n - 1 \in Nat /\ 2 * Left(t) + 1 <= n - 1
                               /\ 2 * Left(t) <= n - 1
      BY <2>3 DEF Rounds
    <3>. QED  BY <2>2, <3>1 DEF Rounds
  <2>. QED  BY <2>2, <2>4 DEF t
<1>2. CASE Lists(s)
  <2>1. t = Element(s)
    BY <1>2 DEF Round, Lists, IsList
  <2>. HIDE DEF t
  <2>2. /\ Parses(s, t)
        /\ Ok(t) => \/ Left(t) < Left(s) /\ (t.calls # <<>> => Lists(t))
                    \/ t.calls # <<>> /\ Head(t.calls).type = "none"
    BY <1>2, <2>1, ElementParses
  <2>3. Left(s) \in Nat /\ Left(t) \in Nat /\ Left(t) <= Left(s)
    BY <2>2, LeftIsNat DEF Parses, IsParser, HasTokens
  <2>4. n \in Nat /\ 2 * Left(s) + 1 <= n
    BY <1>2 DEF Rounds
  <2>5. n - 1 \in Nat /\ 2 * Left(t) <= n - 1
    BY <2>3, <2>4
  <2>6. Left(t) < Left(s) => 2 * Left(t) + 1 <= n - 1
    BY <2>3, <2>4
  <2>7. CASE Ok(t) /\ Left(t) < Left(s)
    BY <2>2, <2>5, <2>6, <2>7 DEF Rounds, t
  <2>8. CASE Ok(t) /\ t.calls # <<>> /\ Head(t.calls).type = "none"
    <3>1. ~Lists(t)
      BY <2>8 DEF Lists, IsList
    <3>. QED  BY <2>2, <2>5, <3>1 DEF Rounds, t
  <2>. QED  BY <2>2, <2>7, <2>8 DEF t
<1>. QED  BY <1>1, <1>2, StackHead

ParseRounds(chars, length, rounds, after) ==
  after = [n \in 0 .. rounds |->
             IF n = 0 THEN Start(chars, length) ELSE Round(after[n - 1])]

LEMMA ParseRoundsExist ==
  ASSUME NEW chars, NEW length, NEW rounds \in Nat
  PROVE  \E after : ParseRounds(chars, length, rounds, after)
<1> DEFINE bad ==
             {n \in Nat : \A after : ~ParseRounds(chars, length, n, after)}
<1>1. SUFFICES ASSUME bad # {}  PROVE FALSE
  OBVIOUS
<1>2. PICK n \in bad : \A m \in bad : n <= m
  BY <1>1, LeastOf
<1>3. CASE n = 0
  <2> DEFINE f == [k \in 0 .. 0 |-> Start(chars, length)]
  <2>1. ParseRounds(chars, length, 0, f)
    BY DEF ParseRounds
  <2>. QED  BY <1>2, <1>3, <2>1
<1>4. CASE n > 0
  <2>1. n - 1 \in Nat /\ n - 1 \notin bad
    BY <1>2, <1>4
  <2>2. PICK g : ParseRounds(chars, length, n - 1, g)
    BY <2>1
  <2> DEFINE f == [k \in 0 .. n |-> IF k < n THEN g[k] ELSE Round(g[n - 1])]
  <2>3. ASSUME NEW k \in 0 .. n
        PROVE  f[k] = IF k = 0 THEN Start(chars, length) ELSE Round(f[k - 1])
    <3>1. CASE k = n
      BY <1>4, <2>1, <3>1
    <3>2. CASE k < n
      <4>1. k \in 0 .. n - 1 /\ f[k] = g[k] /\ (k > 0 => f[k - 1] = g[k - 1])
        BY <3>2
      <4>2. g[k] = IF k = 0 THEN Start(chars, length) ELSE Round(g[k - 1])
        BY <2>1, <2>2, <4>1 DEF ParseRounds
      <4>. HIDE DEF f
      <4>. QED  BY <4>1, <4>2
    <3>. QED  BY <3>1, <3>2
  <2>4. ParseRounds(chars, length, n, f)
    BY <2>3 DEF ParseRounds
  <2>. QED  BY <1>2, <2>4
<1>. QED  BY <1>2, <1>3, <1>4

LEMMA StartParses ==
  ASSUME NEW chars \in Seq(Signs), NEW length \in Int
  PROVE  LET s == Start(chars, length)
         IN IsParser(s) /\ s.size = length /\ Rounds(s, 2 * Len(chars))
<1> DEFINE s == Start(chars, length)
<1>1. Eof \in Signs
  BY DEF Signs
<1>2. IsScanner(s) /\ s.ahead = NoToken /\ s.calls = <<Call>>
      /\ s.in = chars /\ s.size = length /\ Ok(s)
  BY <1>1, NoTokenIsToken DEF Start, IsScanner, Fields, Ok
<1>. HIDE DEF s
<1>3. HasTokens(s)
  BY <1>2, NoTokenIsToken DEF HasTokens
<1>4. IsStack(<<Call>>) /\ <<Call>> # <<>> /\ Head(<<Call>>) = Call
  <2>1. <<Call>> \in Seq({Call}) /\ <<Call>> # <<>> /\ Head(<<Call>>) = Call
        /\ Tail(<<Call>>) = <<>>
    OBVIOUS
  <2>2. IsLists(<<>>)
    BY ListsFromStack DEF IsStack
  <2>. QED  BY <2>1, <2>2, CallIsCall DEF IsStack
<1>5. Left(s) = Len(chars) /\ Len(chars) \in Nat
  BY <1>2, LeftIsNat
<1>6. ~Lists(s)
  BY <1>2, <1>4, CallIsCall DEF Lists, IsList
<1>7. 2 * Len(chars) \in Nat /\ 2 * Left(s) <= 2 * Len(chars)
  BY <1>5
<1>. QED  BY <1>2, <1>3, <1>4, <1>6, <1>7 DEF IsParser, Rounds, s

(***************************************************************************)
(* Parse ends, in no more rounds than the model allows.                    *)
(***************************************************************************)
Run(chars, length, rounds, after) ==
  /\ rounds \in Nat /\ ParseRounds(chars, length, rounds, after)
  /\ \A n \in 0 .. rounds : IsParser(after[n]) /\ after[n].size = length
  /\ Ok(after[rounds]) => after[rounds].calls = <<>>
  /\ Parse(chars, length) =
       IF ~Ok(after[rounds]) THEN after[rounds]
       ELSE IF Trailing(after[rounds]) THEN Fail(after[rounds], "parse")
            ELSE after[rounds]

LEMMA ParseEnds ==
  ASSUME NEW chars \in Seq(Signs), NEW length \in Int
  PROVE  \E rounds, after : Run(chars, length, rounds, after)
<1> DEFINE limit == 2 * Len(chars)
           rounds == limit + 1
           after == CHOOSE f : ParseRounds(chars, length, rounds, f)
           On(n) == /\ IsParser(after[n]) /\ after[n].size = length
                    /\ Ok(after[n]) /\ after[n].calls # <<>> =>
                         Rounds(after[n], limit - n)
           bad == {n \in 0 .. rounds : ~On(n)}
           v == after[rounds]
<1>1. limit \in Nat /\ rounds \in Nat /\ bad \in SUBSET Nat
  BY LenProperties
<1>2. ParseRounds(chars, length, rounds, after)
  BY <1>1, ParseRoundsExist
<1>3. Parse(chars, length) =
        IF ~Ok(v) THEN v ELSE IF Trailing(v) THEN Fail(v, "parse") ELSE v
  BY DEF Parse, ParseRounds, Then
<1>. HIDE DEF after
<1>4. ASSUME NEW n \in 0 .. rounds
      PROVE  after[n] = IF n = 0 THEN Start(chars, length)
                        ELSE Round(after[n - 1])
  BY <1>2 DEF ParseRounds
<1>. HIDE DEF limit, rounds
<1>5. rounds = limit + 1 /\ 0 \in 0 .. rounds /\ rounds \in 0 .. rounds
  BY <1>1 DEF rounds
<1>6. bad = {}
  <2>1. SUFFICES ASSUME bad # {}  PROVE FALSE
    OBVIOUS
  <2>2. PICK n \in bad : \A m \in bad : n <= m
    BY <1>1, <2>1, LeastOf
  <2>3. CASE n = 0
    <3>1. after[0] = Start(chars, length)
      BY <1>4, <1>5
    <3>2. On(0)
      <4>1. limit - 0 = 2 * Len(chars)
        BY <1>1 DEF limit
      <4>. QED  BY <3>1, <4>1, StartParses
    <3>. QED  BY <2>2, <2>3, <3>2
  <2>4. CASE n # 0
    <3> DEFINE u == after[n - 1]
    <3>1. n - 1 \in 0 .. rounds /\ n - 1 \notin bad
      BY <1>1, <2>2, <2>4
    <3>2. On(n - 1) /\ after[n] = Round(u)
      BY <1>4, <2>2, <2>4, <3>1
    <3>3. limit - (n - 1) - 1 = limit - n
      BY <1>1, <2>2
    <3>4. CASE ~Ok(u) \/ u.calls = <<>>
      <4>1. Round(u) = u
        BY <3>4 DEF Round
      <4>. QED  BY <2>2, <3>2, <3>4, <4>1
    <3>5. CASE Ok(u) /\ u.calls # <<>>
      <4>1. /\ Parses(u, Round(u))
            /\ Ok(Round(u)) /\ Round(u).calls # <<>> =>
                 Rounds(Round(u), limit - n)
        BY <3>2, <3>3, <3>5, RoundParses
      <4>. QED  BY <2>2, <3>2, <4>1 DEF Parses
    <3>. QED  BY <3>4, <3>5
  <2>. QED  BY <2>3, <2>4
<1>7. On(rounds)
  BY <1>5, <1>6
<1>8. limit - rounds \notin Nat
  BY <1>1, <1>5
<1>9. Ok(v) => v.calls = <<>>
  BY <1>7, <1>8 DEF Rounds
<1>10. \A n \in 0 .. rounds : IsParser(after[n]) /\ after[n].size = length
  BY <1>6
<1>. QED  BY <1>1, <1>2, <1>3, <1>9, <1>10 DEF Run

(* A document that has been accepted has been read to its end, and its     *)
(* value is one.                                                           *)
LEMMA ParseResult ==
  ASSUME NEW chars \in Seq(Signs), NEW length \in Int
  PROVE  LET s == Parse(chars, length)
         IN /\ IsScanner(s) /\ s.size = length
            /\ Ok(s) => s.calls = <<>> /\ s.pos = length /\ IsGood(s.val)
<1>1. PICK rounds, after : Run(chars, length, rounds, after)
  BY ParseEnds
<1> DEFINE v == after[rounds]
<1>2. IsParser(v) /\ v.size = length
  <2>1. rounds \in 0 .. rounds
    BY <1>1 DEF Run
  <2>. QED  BY <1>1, <2>1 DEF Run
<1>3. IsScanner(v)
  BY <1>2 DEF IsParser, HasTokens
<1>. HIDE DEF v
<1>4. IsScanner(Fail(v, "parse")) /\ ~Ok(Fail(v, "parse"))
      /\ Fail(v, "parse").size = v.size
  BY <1>3, FailMoves DEF Moves
<1>5. /\ Ok(v) => v.calls = <<>>
      /\ Parse(chars, length) =
           IF ~Ok(v) THEN v ELSE IF Trailing(v) THEN Fail(v, "parse") ELSE v
  BY <1>1 DEF Run, v
<1>. QED
  BY <1>2, <1>3, <1>4, <1>5 DEF IsParser, Trailing

-----------------------------------------------------------------------------
(***************************************************************************)
(* The body of a request.                                                  *)
(***************************************************************************)
LEMMA DocumentIsText ==
  ASSUME source \in Sources
  PROVE  document \in Seq(Characters)
<1>. QED  BY JsonBodyAssumption DEF document

LEMMA DisturbedIsSent ==
  ASSUME NEW d \in Seq(Characters), NEW x \in Disturbed(d)
  PROVE  x \in Seq(Sent)
<1>1. d \in Seq(Sent) /\ Len(d) \in Nat
  BY LenProperties DEF Sent
<1>2. \A l \in 0 .. Len(d) : SubSeq(d, 1, l) \in Seq(Sent)
  BY <1>1, BeginningOf
<1>3. ASSUME NEW i \in 0 .. Len(d), NEW pause \in Pauses
      PROVE  PausedAt(d, i, pause) \in Seq(Sent)
  <2>1. pause \in Seq(Sent)
    <3>1. CASE pause = <<Reset>>
      BY <3>1 DEF Sent
    <3>2. CASE \E k \in 1 .. MaxLate : pause = [n \in 1 .. k |-> Late]
      <4>1. PICK k \in Nat : pause = [n \in 1 .. k |-> Late]
        BY <3>2
      <4>2. pause \in [1 .. k -> Sent]
        BY <4>1 DEF Sent
      <4>. QED  BY <4>2, SeqDef
    <3>. QED  BY <3>1, <3>2 DEF Pauses
  <2>2. \A j \in i + 1 .. Len(d) : d[j] \in Sent
    BY <1>1, ElementOfSeq
  <2>3. SubSeq(d, i + 1, Len(d)) \in Seq(Sent)
    BY <1>1, <2>2, SubSeqProperties
  <2>. QED  BY <1>2, <2>1, <2>3, ConcatProperties DEF PausedAt
<1>4. CASE x \in Prefixes(d)
  BY <1>2, <1>4 DEF Prefixes
<1>5. CASE \E i \in 0 .. Len(d), pause \in Pauses : x = PausedAt(d, i, pause)
  BY <1>3, <1>5
<1>. QED  BY <1>4, <1>5 DEF Disturbed

LEMMA SentIsText ==
  /\ \A x \in Seq(Sent) : x \in Seq(Signs) /\ x # Unsent
  /\ Unsent \in Seq(Signs)
<1>1. ASSUME NEW x \in Seq(Sent)  PROVE x \in Seq(Signs) /\ x # Unsent
  <2>1. x \in Seq(Signs)
    BY DEF Signs
  <2>2. Unsent[1] = Eof /\ Len(Unsent) = 1
    BY DEF Unsent
  <2>3. Eof \notin Sent
    BY DEF Eof, Sent, Late, Reset, Characters, Punctuation, Alnum, Digits,
           Letters, Space, Quote, Escape, Newline
  <2>4. ASSUME x = Unsent  PROVE FALSE
    <3>1. 1 \in 1 .. Len(x)
      BY <2>2, <2>4
    <3>. QED  BY <2>2, <2>3, <2>4, <3>1, ElementOfSeq
  <2>. QED  BY <2>1, <2>4
<1>. QED  BY <1>1 DEF Unsent, Signs

Inv ==
  /\ source \in Sources
  /\ \/ stream = Unsent /\ size = Len(document) /\ result = NoResult
     \/ stream \in Seq(Sent) /\ size \in {Len(document), Len(document) - 1}
  /\ result.err \in {"pending", "none", "parse", "system"}
  /\ result.taken = 0 \/ result.taken <= size
  /\ result.taken \in Nat
  /\ Accepted => result.taken = size /\ IsGood(result.val)

THEOREM InvHolds == Spec => []Inv
<1>1. Init => Inv
  <2>1. SUFFICES ASSUME Init  PROVE Inv
    OBVIOUS
  <2>. QED  BY <2>1 DEF Init, Inv, NoResult, Accepted
<1>2. Inv /\ [Next]_vars => Inv'
  <2>1. SUFFICES ASSUME Inv, [Next]_vars  PROVE Inv'
    OBVIOUS
  <2>2. document \in Seq(Characters)
        /\ Len(document) \in Nat
    BY <2>1, DocumentIsText, LenProperties DEF Inv
  <2>3. CASE Send
    <3>1. document' = document /\ result' = result /\ source' = source
      BY <2>3 DEF Send, document
    <3>2. stream' \in Seq(Sent)
      <4>1. CASE stream' \in Disturbed(document)
        BY <2>2, <4>1, DisturbedIsSent
      <4>2. CASE stream' = document \o <<"}">>
        <5>1. <<"}">> \in Seq(Characters)
          BY DEF Characters, Punctuation
        <5>2. stream' \in Seq(Characters)
          BY <2>2, <4>2, <5>1, ConcatProperties
        <5>. QED  BY <5>2 DEF Sent
      <4>3. CASE stream' = document
        BY <2>2, <4>3 DEF Sent
      <4>. QED  BY <2>3, <4>1, <4>2, <4>3 DEF Send
    <3>3. size' \in {Len(document), Len(document) - 1}
      BY <2>1, <2>3, SentIsText DEF Send, Inv
    <3>4. result = NoResult
      BY <2>1, <2>3, SentIsText DEF Send, Inv
    <3>. QED  BY <2>1, <3>1, <3>2, <3>3, <3>4 DEF Inv, Accepted, NoResult
  <2>4. CASE ParseBody
    <3> DEFINE s == Parse(stream, size)
    <3>1. /\ result' = [err |-> s.err, val |-> s.val, taken |-> Taken(s)]
          /\ UNCHANGED <<source, stream, size>> /\ document' = document
      BY <2>4 DEF ParseBody, ResultOf, document
    <3>2. size \in Int
      BY <2>1, <2>2 DEF Inv
    <3>3. /\ IsScanner(s) /\ s.size = size
          /\ Ok(s) => s.pos = size /\ IsGood(s.val)
      BY <2>1, <3>2, SentIsText, ParseResult DEF Inv
    <3>4. stream \in Seq(Sent)
      BY <2>1, <2>4 DEF Inv, ParseBody
    <3>. HIDE DEF s
    <3>5. /\ Taken(s) \in Nat /\ (Taken(s) = 0 \/ Taken(s) <= size)
          /\ Ok(s) => Taken(s) = size
      <4>1. CASE s.look
        BY <3>2, <3>3, <4>1 DEF IsScanner, Taken
      <4>2. CASE ~s.look
        BY <3>2, <3>3, <4>2 DEF IsScanner, Taken
      <4>. QED  BY <4>1, <4>2
    <3>. QED
      BY <2>1, <3>1, <3>3, <3>4, <3>5 DEF Inv, IsScanner, Accepted, Ok
  <2>5. CASE UNCHANGED vars
    BY <2>1, <2>5 DEF Inv, vars, document, Accepted
  <2>. QED  BY <2>1, <2>3, <2>4, <2>5 DEF Next, Answered
<1>. QED  BY <1>1, <1>2, PTL DEF Spec

(***************************************************************************)
(* TypeOK: what Parse accepts is a json value, in which every number is a  *)
(* numeral and every list has values for its parts, however deep.          *)
(***************************************************************************)
THEOREM TypeCorrect == Spec => []TypeOK
<1>1. Inv => TypeOK
  <2>1. SUFFICES ASSUME Inv  PROVE TypeOK
    OBVIOUS
  <2>2. Len(document) \in Nat
    BY <2>1, DocumentIsText, LenProperties DEF Inv
  <2>3. size \in -1 .. Len(document) /\ size \in Int
    BY <2>1, <2>2 DEF Inv
  <2>4. ASSUME result.err = "none", NEW n \in 0 .. size,
               NEW v \in PartsAt(result.val, n)
        PROVE  IsScalar(v) \/ DOMAIN v \in {{"array"}, {"object"}}
    <3>1. n \in Nat
      BY <2>3
    <3>. QED  BY <2>1, <2>4, <3>1 DEF Inv, IsGood, IsNode, Accepted
  <2>. QED  BY <2>1, <2>3, <2>4 DEF TypeOK, Inv
<1>. QED  BY <1>1, InvHolds, PTL

(***************************************************************************)
(* TakesExactlyTheBody: whatever arrives, and whenever, the parser never   *)
(* asks the FILE for more than Content-Length, and a body that it accepts  *)
(* has been read completely.                                               *)
(***************************************************************************)
THEOREM BodyTakenExactly == Spec => []TakesExactlyTheBody
<1>1. Inv => TakesExactlyTheBody
  <2>1. SUFFICES ASSUME Inv  PROVE TakesExactlyTheBody
    OBVIOUS
  <2>2. Len(document) \in Nat
    BY <2>1, DocumentIsText, LenProperties DEF Inv
  <2>3. size \in Int /\ result.taken \in Nat
    BY <2>1, <2>2 DEF Inv
  <2>4. /\ Max({size, 0}) \in {size, 0}
        /\ Max({size, 0}) >= size /\ Max({size, 0}) >= 0
    <3>1. \E x \in {size, 0} : \A y \in {size, 0} : x >= y
      BY <2>3
    <3>. QED  BY <3>1 DEF Max
  <2>5. Max({size, 0}) \in Int
    BY <2>3, <2>4
  <2>6. result.taken <= Max({size, 0})
    BY <2>1, <2>3, <2>4, <2>5 DEF Inv
  <2>. QED  BY <2>1, <2>6 DEF TakesExactlyTheBody, Inv
<1>. QED  BY <1>1, InvHolds, PTL
=============================================================================

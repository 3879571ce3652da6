--------------------------- MODULE JsonBodyProofs ---------------------------
(***************************************************************************)
(* Proof that pauses, resets and a connection closed early never change    *)
(* the value that Parse accepts.  Two runs of the parser are compared: s   *)
(* on the stream as it arrives, u on the document itself.                  *)
(*                                                                         *)
(* While s has not failed, the two are Together inside a token (the same   *)
(* place and the same token), Near between tokens (nothing but white space *)
(* between their places), and Alike as parsers (the same lookahead and the *)
(* same stack), until a gap in the stream ends a number or a word for s.   *)
(* Then s is Cut: its next character would have belonged to that token.    *)
(* No separator can follow, so the parser s is Doomed: it fails, or is     *)
(* left with a rest that Parse does not accept.                            *)
(***************************************************************************)
EXTENDS JsonProofs

-----------------------------------------------------------------------------
(***************************************************************************)
(* A reading: what is in the stream, the text that it should be, and the   *)
(* place in the text that has been reached after k elements of the stream. *)
(***************************************************************************)
Gap == {Late, Reset}

IsReading(x) ==
  /\ x.in \in Seq(Sent) /\ x.text \in Seq(Characters)
  /\ x.place \in [0 .. Len(x.in) -> Nat]
  /\ x.place[0] = 0
  /\ \A k \in 0 .. Len(x.in) - 1 :
       IF x.in[k + 1] \in Gap THEN x.place[k + 1] = x.place[k]
       ELSE /\ x.place[k + 1] = x.place[k] + 1
            /\ x.place[k] < Len(x.text) => x.in[k + 1] = x.text[x.place[k] + 1]

(* The text itself, without a gap. *)
Unbroken(x) ==
  /\ Len(x.in) = Len(x.text)
  /\ \A k \in 0 .. Len(x.in) : x.place[k] = k
  /\ \A k \in 1 .. Len(x.in) : x.in[k] \notin Gap

(* A scanner that has read k elements of the stream. *)
On(x, s, k) ==
  /\ IsScanner(s)
  /\ k \in 0 .. Len(x.in)
  /\ Len(s.in) = Len(x.in) - k
  /\ \A i \in 1 .. Len(s.in) : s.in[i] = x.in[k + i]
  /\ s.size = Len(x.text)
  /\ s.pos = x.place[k]
  /\ s.look => x.in[k + 1] \notin Gap

Follows(x, s) == \E k \in 0 .. Len(x.in) : On(x, s, k)

LEMMA SentIsTextOrGap ==
  /\ \A c \in Characters : c \notin Gap /\ c # Eof
  /\ \A c \in Sent : c \in Gap \/ c \in Characters
  /\ \A c \in Gap : c # Eof
<1>. QED
  BY DEF Characters, Punctuation, Alnum, Digits, Letters, Space, Quote, Escape,
         Newline, Gap, Late, Reset, Eof, Sent

LEMMA OnBounds ==
  ASSUME NEW x, IsReading(x), NEW s, NEW k, On(x, s, k)
  PROVE  /\ Len(x.in) \in Nat /\ Len(x.text) \in Nat /\ Len(s.in) \in Nat
         /\ k \in Nat /\ k <= Len(x.in)
         /\ s.pos \in Nat /\ s.pos <= s.size /\ s.size \in Nat
         /\ s.in = <<>> <=> k = Len(x.in)
         /\ s.in # <<>> => Head(s.in) = x.in[k + 1] /\ x.in[k + 1] \in Sent
<1>1. Len(x.in) \in Nat /\ Len(x.text) \in Nat /\ Len(s.in) \in Nat
  BY LenProperties DEF IsReading, On, IsScanner
<1>2. s.in = <<>> <=> Len(s.in) = 0
  BY EmptySeq DEF On, IsScanner
<1>3. ASSUME s.in # <<>>
      PROVE  Head(s.in) = x.in[k + 1] /\ x.in[k + 1] \in Sent
  <2>1. Head(s.in) = s.in[1] /\ 1 \in 1 .. Len(s.in)
    BY <1>1, <1>2, <1>3 DEF On, IsScanner
  <2>2. k + 1 \in 1 .. Len(x.in)
    BY <1>1, <1>2, <1>3 DEF On
  <2>. QED  BY <2>1, <2>2, ElementOfSeq DEF On, IsReading
<1>. QED  BY <1>1, <1>2, <1>3 DEF On, IsScanner

(* What has been found after s: nothing, or the next character of the      *)
(* text.  In the text itself something is missing only at its end.         *)
Finds(x, s, c) ==
  /\ \/ c = Eof
     \/ s.pos < s.size /\ c = x.text[s.pos + 1] /\ c \in Characters
  /\ Unbroken(x) /\ c = Eof => s.pos = s.size

LEMMA GetCharOn ==
  ASSUME NEW x, IsReading(x), NEW s, NEW k, On(x, s, k)
  PROVE  LET g == GetChar(s)
         IN /\ Finds(x, s, g.c)
            /\ ~g.look
            /\ Unbroken(x) /\ g.c = Eof => g.fault = "none"
            /\ \/ g.c = Eof /\ g.pos = s.pos /\ Follows(x, g)
               \/ /\ k < Len(x.in) /\ x.in[k + 1] \notin Gap
                  /\ g.c = x.in[k + 1] /\ g.c \in Characters
                  /\ g.pos = s.pos + 1 /\ On(x, g, k + 1)
                  /\ s.pos < s.size
<1> DEFINE g == GetChar(s)
<1>1. /\ Len(x.in) \in Nat /\ Len(x.text) \in Nat /\ Len(s.in) \in Nat
      /\ k \in Nat /\ k <= Len(x.in)
      /\ s.pos \in Nat /\ s.pos <= s.size /\ s.size \in Nat
      /\ s.in = <<>> <=> k = Len(x.in)
      /\ s.in # <<>> => Head(s.in) = x.in[k + 1] /\ x.in[k + 1] \in Sent
  BY OnBounds
<1>2. IsScanner(s) /\ Moves(s, g) /\ IsScanner(g)
  BY GetCharMoves DEF On, Moves
<1>3. Unbroken(x) => s.pos = k /\ s.size = Len(x.in)
  BY DEF Unbroken, On
<1>4. CASE ~s.look /\ (AtEnd(s) \/ s.in = <<>>)
  <2>1. g = [s EXCEPT !.c = Eof, !.fault = "none"]
    BY <1>4 DEF GetChar
  <2>2. /\ g.c = Eof /\ g.pos = s.pos /\ g.fault = "none" /\ ~g.look
        /\ g.in = s.in /\ g.size = s.size
    BY <1>2, <1>4, <2>1 DEF IsScanner, Fields
  <2>3. On(x, g, k)
    BY <1>2, <2>2 DEF On
  <2>4. Finds(x, s, g.c)
    BY <1>1, <1>3, <1>4, <2>2 DEF Finds, AtEnd
  <2>. QED  BY <2>2, <2>3, <2>4 DEF Follows, On
<1>5. CASE ~s.look /\ ~AtEnd(s) /\ s.in # <<>> /\ Head(s.in) \in {Late, Reset}
  <2>1. g = [s EXCEPT !.c = Eof, !.fault = Head(s.in), !.in = Tail(s.in)]
    BY <1>5 DEF GetChar
  <2>2. /\ g.c = Eof /\ g.pos = s.pos /\ ~g.look /\ g.in = Tail(s.in)
        /\ g.size = s.size
    BY <1>2, <1>5, <2>1 DEF IsScanner, Fields
  <2>3. /\ Len(Tail(s.in)) = Len(s.in) - 1
        /\ \A i \in 1 .. Len(Tail(s.in)) : Tail(s.in)[i] = s.in[i + 1]
    BY <1>2, <1>5, HeadTailProperties DEF IsScanner
  <2>4. k < Len(x.in) /\ x.in[k + 1] \in Gap
    BY <1>1, <1>5 DEF Gap
  <2>5. x.place[k + 1] = x.place[k]
    BY <1>1, <2>4 DEF IsReading
  <2>6. \A i \in 1 .. Len(g.in) : g.in[i] = x.in[k + 1 + i]
    <3>1. ASSUME NEW i \in 1 .. Len(g.in)  PROVE g.in[i] = x.in[k + 1 + i]
      <4>1. i + 1 \in 1 .. Len(s.in)
        BY <1>1, <2>2, <2>3
      <4>2. s.in[i + 1] = x.in[k + (i + 1)]
        BY <4>1 DEF On
      <4>3. k + (i + 1) = k + 1 + i
        BY <1>1
      <4>. QED  BY <2>2, <2>3, <4>2, <4>3
    <3>. QED  BY <3>1
  <2>7. On(x, g, k + 1)
    <3>1. k + 1 \in 0 .. Len(x.in) /\ Len(g.in) = Len(x.in) - (k + 1)
      BY <1>1, <2>2, <2>3, <2>4 DEF On
    <3>. QED  BY <1>2, <2>2, <2>5, <2>6, <3>1 DEF On
  <2>8. ~Unbroken(x)
    BY <1>1, <2>4 DEF Unbroken
  <2>. QED  BY <2>2, <2>7, <2>8 DEF Follows, Finds, On
<1>6. CASE \/ s.look
           \/ ~AtEnd(s) /\ s.in # <<>> /\ Head(s.in) \notin {Late, Reset}
  <2>1. g = [Past(s, 1) EXCEPT !.c = Head(s.in), !.fault = "none"]
    BY <1>6 DEF GetChar
  <2>2. /\ s.in # <<>> /\ s.pos < s.size /\ k < Len(x.in)
        /\ x.in[k + 1] \notin Gap
    BY <1>1, <1>6 DEF AtEnd, On, IsScanner, Gap
  <2> DEFINE p == Past(s, 1)
  <2>3. /\ DOMAIN p = Fields /\ p.in = SubSeq(s.in, 2, Len(s.in))
        /\ p.pos = s.pos + 1 /\ p.look = FALSE /\ p.size = s.size
    BY <1>2 DEF Past, IsScanner, Fields
  <2>. HIDE DEF p
  <2>4. /\ g.c = x.in[k + 1] /\ g.pos = s.pos + 1 /\ ~g.look
        /\ g.in = SubSeq(s.in, 2, Len(s.in)) /\ g.size = s.size
    BY <1>1, <2>1, <2>2, <2>3 DEF Fields, p
  <2>5. /\ SubSeq(s.in, 2, Len(s.in)) = Tail(s.in)
        /\ Len(Tail(s.in)) = Len(s.in) - 1
        /\ \A i \in 1 .. Len(Tail(s.in)) : Tail(s.in)[i] = s.in[i + 1]
    BY <1>2, <2>2, HeadTailProperties, TailIsSubSeq DEF IsScanner
  <2>6. \A i \in 1 .. Len(g.in) : g.in[i] = x.in[k + 1 + i]
    <3>1. ASSUME NEW i \in 1 .. Len(g.in)  PROVE g.in[i] = x.in[k + 1 + i]
      <4>1. i + 1 \in 1 .. Len(s.in)
        BY <1>1, <2>4, <2>5
      <4>2. s.in[i + 1] = x.in[k + (i + 1)]
        BY <4>1 DEF On
      <4>3. k + (i + 1) = k + 1 + i
        BY <1>1
      <4>. QED  BY <2>4, <2>5, <4>2, <4>3
    <3>. QED  BY <3>1
  <2>7. /\ x.place[k + 1] = s.pos + 1
        /\ x.in[k + 1] = x.text[s.pos + 1]
    BY <1>1, <2>2 DEF IsReading, On
  <2>8. On(x, g, k + 1)
    <3>1. k + 1 \in 0 .. Len(x.in) /\ Len(g.in) = Len(x.in) - (k + 1)
      BY <1>1, <2>2, <2>4, <2>5 DEF On
    <3>. QED  BY <1>2, <2>4, <2>6, <2>7, <3>1 DEF On
  <2>9. g.c \in Characters /\ g.c # Eof
    BY <1>1, <2>2, <2>4, SentIsTextOrGap
  <2>. QED  BY <2>2, <2>4, <2>7, <2>8, <2>9 DEF Finds
<1>. QED  BY <1>2, <1>4, <1>5, <1>6 DEF IsScanner

LEMMA GetUngetOn ==
  ASSUME NEW x, IsReading(x), NEW s, NEW k, On(x, s, k), GetChar(s).c # Eof
  PROVE  LET u == UngetChar(GetChar(s))
         IN /\ On(x, u, k) /\ Moves(s, u) /\ u.c = GetChar(s).c
            /\ u.err = s.err /\ u.tok = s.tok
<1> DEFINE g == GetChar(s)
           u == UngetChar(g)
<1>1. /\ k < Len(x.in) /\ x.in[k + 1] \notin Gap /\ g.c = x.in[k + 1]
      /\ g.pos = s.pos + 1 /\ On(x, g, k + 1) /\ ~g.look
  BY GetCharOn
<1>2. Len(x.in) \in Nat /\ k \in Nat /\ s.pos \in Nat /\ Len(g.in) \in Nat
      /\ IsScanner(s) /\ IsScanner(g)
  BY <1>1, OnBounds DEF On
<1>3. Takes(s, g) /\ g.err = s.err /\ g.tok = s.tok
  BY <1>2, GetCharMoves
<1>. HIDE DEF g
<1>4. Moves(s, u) /\ u.c = g.c /\ u.err = g.err /\ u.tok = g.tok
  BY <1>1, <1>2, <1>3, UngetCharMoves DEF Takes
<1>5. u.in = <<g.c>> \o g.in /\ u.pos = g.pos - 1 /\ u.size = g.size
  BY <1>2 DEF UngetChar, IsScanner, Fields
<1>6. /\ Len(u.in) = Len(g.in) + 1
      /\ \A i \in 1 .. Len(g.in) + 1 :
           u.in[i] = IF i <= 1 THEN g.c ELSE g.in[i - 1]
  <2>1. <<g.c>> \in Seq(Signs) /\ Len(<<g.c>>) = 1 /\ <<g.c>>[1] = g.c
    BY <1>2 DEF IsScanner
  <2>. QED  BY <1>2, <1>5, <2>1, ConcatProperties DEF IsScanner
<1>7. ASSUME NEW i \in 1 .. Len(u.in)  PROVE u.in[i] = x.in[k + i]
  <2>1. CASE i = 1
    BY <1>1, <1>2, <1>6, <2>1
  <2>2. CASE i # 1
    <3>1. i - 1 \in 1 .. Len(g.in) /\ k + 1 + (i - 1) = k + i
      BY <1>2, <1>6, <2>2
    <3>2. g.in[i - 1] = x.in[k + 1 + (i - 1)]
      BY <1>1, <3>1 DEF On
    <3>. QED  BY <1>2, <1>6, <2>2, <3>1, <3>2
  <2>. QED  BY <2>1, <2>2
<1>8. Len(u.in) = Len(x.in) - k /\ k \in 0 .. Len(x.in)
  BY <1>1, <1>2, <1>6 DEF On
<1>9. u.pos = x.place[k] /\ u.size = Len(x.text)
  BY <1>1, <1>2, <1>5 DEF On
<1>10. IsScanner(u)
  BY <1>4 DEF Moves
<1>. HIDE DEF u
<1>11. On(x, u, k)
  BY <1>1, <1>7, <1>8, <1>9, <1>10 DEF On
<1>. QED  BY <1>3, <1>4, <1>11 DEF u, g

(***************************************************************************)
(* The methods that read, for a scanner that follows a reading.            *)
(***************************************************************************)
LEMMA FollowsIsScanner ==
  ASSUME NEW x, IsReading(x), NEW s, Follows(x, s)
  PROVE  /\ IsScanner(s) /\ s.size = Len(x.text) /\ s.size \in Nat
         /\ s.pos \in Nat /\ s.pos <= s.size
<1>. QED  BY OnBounds DEF Follows, On

LEMMA FailFollows ==
  ASSUME NEW x, NEW s, Follows(x, s), NEW e \in {"parse", "system"}
  PROVE  Follows(x, Fail(s, e)) /\ Fail(s, e).pos = s.pos
         /\ Fail(s, e).c = s.c
<1>1. PICK k \in 0 .. Len(x.in) : On(x, s, k)
  BY DEF Follows
<1>2. IsScanner(Fail(s, e))
  BY <1>1, FailMoves DEF On, Moves
<1>3. /\ Fail(s, e).in = s.in /\ Fail(s, e).pos = s.pos
      /\ Fail(s, e).size = s.size /\ Fail(s, e).look = s.look
      /\ Fail(s, e).c = s.c
  BY <1>1 DEF Fail, On, IsScanner, Fields
<1>. QED  BY <1>1, <1>2, <1>3 DEF Follows, On

LEMMA TokenFollows ==
  ASSUME NEW x, NEW s, Follows(x, s), NEW t, IsToken(t)
  PROVE  LET m == [s EXCEPT !.tok = t]
         IN /\ Follows(x, m) /\ m.pos = s.pos /\ m.c = s.c
            /\ m.err = s.err /\ m.tok = t
<1> DEFINE m == [s EXCEPT !.tok = t]
<1>1. PICK k \in 0 .. Len(x.in) : On(x, s, k)
  BY DEF Follows
<1>2. IsScanner(m)
  BY <1>1, TokenMoves DEF On, Moves
<1>3. /\ m.in = s.in /\ m.pos = s.pos /\ m.size = s.size /\ m.look = s.look
      /\ m.c = s.c /\ m.err = s.err /\ m.tok = t
  BY <1>1 DEF On, IsScanner, Fields
<1>. HIDE DEF m
<1>4. On(x, m, k)
  BY <1>1, <1>2, <1>3 DEF On
<1>. QED  BY <1>1, <1>3, <1>4 DEF Follows, m

LEMMA PeekCharFollows ==
  ASSUME NEW x, IsReading(x), NEW s, Follows(x, s)
  PROVE  LET p == PeekChar(s)
         IN /\ Follows(x, p) /\ p.pos = s.pos /\ p.tok = s.tok
            /\ Finds(x, s, p.c)
            /\ Ok(p) => Ok(s)
            /\ Unbroken(x) /\ Ok(s) => Ok(p)
<1> DEFINE g == GetChar(s)
           p == PeekChar(s)
<1>1. PICK k \in 0 .. Len(x.in) : On(x, s, k)
  BY DEF Follows
<1>2. p.tok = s.tok /\ (Ok(p) => Ok(s)) /\ g.err = s.err
  BY <1>1, PeekCharMoves, GetCharMoves DEF On
<1>3. CASE g.c # Eof
  <2>1. p = UngetChar(g)
    BY <1>3 DEF PeekChar
  <2>2. On(x, p, k) /\ p.c = g.c /\ p.err = s.err
    BY <1>1, <1>3, <2>1, GetUngetOn
  <2>3. Finds(x, s, p.c)
    BY <1>1, <2>2, GetCharOn
  <2>. QED  BY <1>1, <1>2, <2>2, <2>3 DEF Follows, On, Ok
<1>4. CASE g.c = Eof
  <2>1. /\ Follows(x, g) /\ g.pos = s.pos /\ Finds(x, s, g.c)
        /\ Unbroken(x) => g.fault = "none"
    BY <1>1, <1>4, GetCharOn, SentIsTextOrGap
  <2>2. p = IF g.fault = Reset THEN Fail(g, "system") ELSE g
    BY <1>4 DEF PeekChar
  <2>3. Follows(x, p) /\ p.pos = g.pos /\ p.c = g.c
    BY <2>1, <2>2, FailFollows
  <2>4. Unbroken(x) => p = g
    BY <2>1, <2>2 DEF Reset
  <2>. QED  BY <1>2, <2>1, <2>3, <2>4 DEF Ok
<1>. QED  BY <1>3, <1>4

LEMMA AdvanceFollows ==
  ASSUME NEW x, IsReading(x), NEW s, Follows(x, s)
  PROVE  LET a == Advance(s)
         IN /\ Ok(a) => /\ Follows(x, a) /\ a.pos = s.pos + 1 /\ a.tok = s.tok
                        /\ s.pos < s.size /\ a.c = x.text[s.pos + 1]
                        /\ a.c \in Characters /\ Ok(s)
            /\ Unbroken(x) /\ Ok(s) /\ s.pos < s.size => Ok(a)
<1> DEFINE g == GetChar(s)
           a == Advance(s)
<1>1. PICK k \in 0 .. Len(x.in) : On(x, s, k)
  BY DEF Follows
<1>2. a.tok = s.tok /\ (Ok(a) => Ok(s)) /\ g.err = s.err /\ IsScanner(g)
  BY <1>1, AdvanceMoves, GetCharMoves DEF On, Moves
<1>3. Finds(x, s, g.c)
  BY <1>1, GetCharOn
<1>4. s.pos \in Nat /\ s.size \in Nat
  BY <1>1, OnBounds
<1>5. CASE g.c # Eof
  <2>1. a = g
    BY <1>5 DEF Advance
  <2>2. On(x, g, k + 1) /\ g.pos = s.pos + 1
    BY <1>1, <1>5, GetCharOn
  <2>3. k + 1 \in 0 .. Len(x.in)
    BY <2>2 DEF On
  <2>. QED  BY <1>2, <1>3, <1>5, <2>1, <2>2, <2>3 DEF Follows, Finds, Ok
<1>6. CASE g.c = Eof
  <2>1. ~Ok(a)
    BY <1>2, <1>6, FailMoves DEF Advance
  <2>2. Unbroken(x) => ~(s.pos < s.size)
    BY <1>3, <1>4, <1>6 DEF Finds
  <2>. QED  BY <2>1, <2>2
<1>. QED  BY <1>5, <1>6

(* A run of characters is the same in the stream and in the text. *)
LEMMA RunIsText ==
  ASSUME NEW x, IsReading(x), NEW s, NEW k, On(x, s, k),
         NEW n \in 0 .. Len(s.in), n > 0 => s.pos + n <= s.size,
         \A i \in 1 .. n : s.in[i] \in Characters
  PROVE  /\ x.place[k + n] = s.pos + n
         /\ \A i \in 1 .. n : s.in[i] = x.text[s.pos + i]
<1> DEFINE bad == {m \in 0 .. n : x.place[k + m] # s.pos + m}
<1>1. /\ Len(x.in) \in Nat /\ Len(x.text) \in Nat /\ Len(s.in) \in Nat
      /\ k \in Nat /\ s.pos \in Nat /\ s.size = Len(x.text) /\ n \in Nat
      /\ k + n <= Len(x.in)
  <2>1. Len(s.in) = Len(x.in) - k /\ s.size = Len(x.text)
    BY DEF On
  <2>2. /\ Len(x.in) \in Nat /\ Len(x.text) \in Nat /\ Len(s.in) \in Nat
        /\ k \in Nat /\ s.pos \in Nat
    BY OnBounds
  <2>. QED  BY <2>1, <2>2
<1>2. ASSUME NEW i \in 1 .. n, x.place[k + i - 1] = s.pos + i - 1
      PROVE  /\ x.place[k + i] = s.pos + i
             /\ s.in[i] = x.text[s.pos + i]
  <2>1. k + i - 1 \in 0 .. Len(x.in) - 1 /\ k + i - 1 + 1 = k + i
        /\ s.pos + i - 1 + 1 = s.pos + i
        /\ s.pos + i - 1 < Len(x.text)
    <3>1. i \in Nat /\ 1 <= i /\ i <= n /\ n > 0
      BY <1>1
    <3>2. s.pos + n <= Len(x.text)
      BY <1>1, <3>1
    <3>3. k + i - 1 \in 0 .. Len(x.in) - 1
      BY <1>1, <3>1
    <3>4. s.pos + i - 1 < Len(x.text)
      BY <1>1, <3>1, <3>2
    <3>5. k + i - 1 + 1 = k + i /\ s.pos + i - 1 + 1 = s.pos + i
      BY <1>1, <3>1
    <3>. QED  BY <3>3, <3>4, <3>5
  <2>2. s.in[i] = x.in[k + i] /\ x.in[k + i] \notin Gap
    <3>1. i \in 1 .. Len(s.in) /\ s.in[i] \in Characters
      BY <1>1
    <3>2. s.in[i] = x.in[k + i]
      BY <3>1 DEF On
    <3>. QED  BY <3>1, <3>2, SentIsTextOrGap
  <2>3. PICK j \in 0 .. Len(x.in) - 1 : j = k + i - 1
    BY <2>1
  <2>4. x.in[j + 1] \notin Gap /\ x.place[j] = s.pos + i - 1
    BY <1>2, <2>1, <2>2, <2>3
  <2>5. /\ x.place[j + 1] = x.place[j] + 1
        /\ x.place[j] < Len(x.text) => x.in[j + 1] = x.text[x.place[j] + 1]
    BY <2>4 DEF IsReading
  <2>. QED  BY <2>1, <2>2, <2>3, <2>4, <2>5
<1>3. bad = {}
  <2>1. SUFFICES ASSUME bad # {}  PROVE FALSE
    OBVIOUS
  <2>2. bad \in SUBSET Nat
    BY <1>1
  <2>3. PICK m \in bad : \A j \in bad : m <= j
    BY <2>1, <2>2, LeastOf
  <2>4. m # 0
    BY <1>1, <2>3 DEF On
  <2>5. m \in 1 .. n /\ m - 1 \in 0 .. n /\ k + m - 1 = k + (m - 1)
        /\ s.pos + m - 1 = s.pos + (m - 1) /\ m - 1 \notin bad
    BY <1>1, <2>3, <2>4
  <2>. QED  BY <1>2, <2>3, <2>5
<1>4. ASSUME NEW i \in 1 .. n  PROVE s.in[i] = x.text[s.pos + i]
  <2>1. i - 1 \in 0 .. n /\ k + i - 1 = k + (i - 1)
        /\ s.pos + i - 1 = s.pos + (i - 1)
    BY <1>1
  <2>. QED  BY <1>2, <1>3, <2>1
<1>5. n \in 0 .. n
  BY <1>1
<1>. QED  BY <1>3, <1>4, <1>5

LEMMA RunFollows ==
  ASSUME NEW x, IsReading(x), NEW s, Follows(x, s), NEW class,
         class \subseteq Characters
  PROVE  LET n == RunOf(s, class)
             r == Past(s, n)
         IN /\ n \in 0 .. Len(s.in) /\ n \in Nat
            /\ Follows(x, r) /\ r.pos = s.pos + n
            /\ r.tok = s.tok /\ r.err = s.err
            /\ \A i \in 1 .. n :
                 s.in[i] = x.text[s.pos + i] /\ x.text[s.pos + i] \in class
            /\ Unbroken(x) =>
                 r.pos = s.size \/ x.text[r.pos + 1] \notin class
<1> DEFINE n == RunOf(s, class)
           r == Past(s, n)
<1>1. PICK k \in 0 .. Len(x.in) : On(x, s, k)
  BY DEF Follows
<1>2. /\ n \in 0 .. Len(s.in)
      /\ \A i \in 1 .. n : s.in[i] \in class /\ s.pos + i <= s.size
      /\ StopsAt(s, class, n)
  BY <1>1, RunExists DEF On
<1>3. /\ Len(x.in) \in Nat /\ Len(x.text) \in Nat /\ Len(s.in) \in Nat
      /\ k \in Nat /\ s.pos \in Nat /\ s.pos <= s.size /\ s.size \in Nat
      /\ n \in Nat /\ IsScanner(s)
  <2>1. IsScanner(s)
    BY <1>1 DEF On
  <2>. QED  BY <1>1, <1>2, <2>1, OnBounds
<1>4. Moves(s, r) /\ IsScanner(r)
  BY <1>3, RunMoves DEF Moves
<1>5. AtEnd(r) <=> s.pos + n >= s.size
  BY <1>2, <1>3, AtEndOfPast
<1>. HIDE DEF n
<1>6. n > 0 => s.pos + n <= s.size
  BY <1>2, <1>3
<1>7. /\ x.place[k + n] = s.pos + n
      /\ \A i \in 1 .. n : s.in[i] = x.text[s.pos + i]
  BY <1>1, <1>2, <1>6, RunIsText
<1>8. /\ Len(r.in) = Len(s.in) - n /\ r.pos = s.pos + n
  BY <1>2, <1>3, <1>6, PastMoves
<1>9. r.tok = s.tok /\ r.err = s.err /\ r.size = s.size
  BY <1>3 DEF Past, IsScanner, Fields
<1>10. On(x, r, k + n)
  <2>1. CASE n = 0
    <3>1. r = s /\ k + n = k
      BY <1>3, <2>1 DEF Past
    <3>. QED  BY <1>1, <3>1
  <2>2. CASE n > 0
    <3>1. r.in = SubSeq(s.in, n + 1, Len(s.in)) /\ ~r.look
      <4>1. r = [s EXCEPT !.in = SubSeq(s.in, n + 1, Len(s.in)),
                          !.pos = s.pos + n, !.look = FALSE]
        BY <1>3, <2>2 DEF Past
      <4>. QED  BY <1>3, <4>1 DEF IsScanner, Fields
    <3>2. \A i \in n + 1 .. Len(s.in) : s.in[i] \in Signs
      BY <1>3, ElementOfSeq DEF IsScanner
    <3>3. ASSUME NEW i \in 1 .. Len(r.in)  PROVE r.in[i] = x.in[k + n + i]
      <4>1. n + 1 + i - 1 \in 1 .. Len(s.in)
            /\ k + (n + 1 + i - 1) = k + n + i
            /\ i \in 1 .. Len(s.in) - (n + 1) + 1
        BY <1>2, <1>3, <1>8
      <4>2. r.in[i] = s.in[n + 1 + i - 1]
        BY <1>3, <3>1, <3>2, <4>1, SubSeqProperties
      <4>3. s.in[n + 1 + i - 1] = x.in[k + (n + 1 + i - 1)]
        BY <1>1, <4>1 DEF On
      <4>. QED  BY <4>1, <4>2, <4>3
    <3>4. k + n \in 0 .. Len(x.in) /\ Len(r.in) = Len(x.in) - (k + n)
      BY <1>1, <1>2, <1>3, <1>8 DEF On
    <3>5. r.size = Len(x.text) /\ r.pos = x.place[k + n]
      BY <1>1, <1>7, <1>8, <1>9 DEF On
    <3>. HIDE DEF r
    <3>. QED  BY <1>4, <3>1, <3>3, <3>4, <3>5 DEF On
  <2>. QED  BY <1>3, <2>1, <2>2
<1>11. ASSUME Unbroken(x)
       PROVE  r.pos = s.size \/ x.text[r.pos + 1] \notin class
  <2>1. k = s.pos /\ s.size = Len(x.in)
    BY <1>1, <1>11 DEF On, Unbroken
  <2>2. Len(s.in) = Len(x.in) - k
    BY <1>1 DEF On
  <2>3. n = Len(s.in) \/ s.in[n + 1] \notin class \/ s.pos + n >= s.size
    BY <1>2, <1>5 DEF StopsAt, n
  <2>4. CASE n = Len(s.in) \/ s.pos + n >= s.size
    BY <1>2, <1>3, <1>6, <1>8, <2>1, <2>2, <2>4
  <2>5. CASE n < Len(s.in) /\ s.in[n + 1] \notin class /\ s.pos + n < s.size
    <3>1. n + 1 \in 1 .. Len(s.in) /\ k + (n + 1) = k + n + 1
          /\ k + n \in 0 .. Len(x.in) - 1 /\ k + n + 1 \in 1 .. Len(x.in)
      BY <1>3, <2>2, <2>5
    <3>2. s.in[n + 1] = x.in[k + n + 1]
      BY <1>1, <3>1 DEF On
    <3>3. x.in[k + n + 1] \notin Gap
      BY <1>11, <3>1 DEF Unbroken
    <3>4. x.place[k + n] < Len(x.text)
      BY <1>1, <1>3, <1>7, <2>5 DEF On
    <3>5. x.in[k + n + 1] = x.text[x.place[k + n] + 1]
      BY <3>1, <3>3, <3>4 DEF IsReading
    <3>. QED  BY <1>7, <1>8, <2>5, <3>2, <3>5
  <2>. QED  BY <1>2, <1>3, <2>3, <2>4, <2>5
<1>12. Follows(x, r)
  <2>1. k + n \in 0 .. Len(x.in)
    BY <1>10 DEF On
  <2>. QED  BY <1>10, <2>1 DEF Follows
<1>13. \A i \in 1 .. n : x.text[s.pos + i] \in class
  BY <1>2, <1>7
<1>. QED
  BY <1>2, <1>3, <1>7, <1>8, <1>9, <1>11, <1>12, <1>13 DEF n

(* Whitespace between two places of the text, and none at the place of s. *)
Blank(x, a, b) == \A i \in a + 1 .. b : x.text[i] \in Space
Settled(x, s) == s.pos = s.size \/ x.text[s.pos + 1] \notin Space

LEMMA SkipFollows ==
  ASSUME NEW x, IsReading(x), NEW s, Follows(x, s)
  PROVE  LET t == SkipWhitespace(s)
         IN /\ Follows(x, t) /\ s.pos <= t.pos /\ Blank(x, s.pos, t.pos)
            /\ t.err = s.err /\ t.tok = s.tok
            /\ Unbroken(x) => Settled(x, t)
<1> DEFINE n == RunOf(s, Space)
           r == Past(s, n)
           g == GetChar(r)
           t == SkipWhitespace(s)
<1>1. Space \subseteq Characters
  BY DEF Characters
<1>2. /\ n \in Nat /\ Follows(x, r) /\ r.pos = s.pos + n
      /\ \A i \in 1 .. n : x.text[s.pos + i] \in Space
      /\ Unbroken(x) => r.pos = s.size \/ x.text[r.pos + 1] \notin Space
  BY <1>1, RunFollows
<1>3. t = IF g.c = Eof THEN g ELSE UngetChar(g)
  BY DEF SkipWhitespace
<1>4. IsScanner(s) /\ s.pos \in Nat /\ s.size = Len(x.text)
  BY FollowsIsScanner
<1>5. t.err = s.err /\ t.tok = s.tok
  BY <1>4, SkipWhitespaceMoves
<1>. HIDE DEF n, r, t
<1>6. PICK k \in 0 .. Len(x.in) : On(x, r, k)
  BY <1>2 DEF Follows
<1>7. Follows(x, t) /\ t.pos = r.pos
  <2>1. CASE g.c = Eof
    BY <1>3, <1>6, <2>1, GetCharOn, SentIsTextOrGap
  <2>2. CASE g.c # Eof
    <3>1. On(x, t, k)
      BY <1>3, <1>6, <2>2, GetUngetOn
    <3>. QED  BY <1>6, <3>1 DEF Follows, On
  <2>. QED  BY <2>1, <2>2
<1>8. t.size = s.size
  BY <1>4, <1>7, FollowsIsScanner
<1>9. ASSUME NEW i \in s.pos + 1 .. t.pos  PROVE x.text[i] \in Space
  <2>1. i - s.pos \in 1 .. n /\ s.pos + (i - s.pos) = i
    BY <1>2, <1>4, <1>7
  <2>. QED  BY <1>2, <2>1
<1>10. s.pos <= t.pos
  BY <1>2, <1>4, <1>7
<1>. QED
  BY <1>2, <1>5, <1>7, <1>8, <1>9, <1>10 DEF Blank, Settled, t

(* The n characters after a. *)
Word(x, a, n) == [i \in 1 .. n |-> x.text[a + i]]

(* p has the next n characters of the text in its token, all of a class. *)
Pushes(x, s, p, n, class) ==
  /\ n \in Nat
  /\ Follows(x, p) /\ p.pos = s.pos + n
  /\ p.tok = [s.tok EXCEPT !.text = @ \o Word(x, s.pos, n)]
  /\ \A i \in 1 .. n : x.text[s.pos + i] \in class
  /\ Unbroken(x) => p.pos = p.size \/ x.text[p.pos + 1] \notin class

LEMMA PushWordFollows ==
  ASSUME NEW x, IsReading(x), NEW s, Follows(x, s), NEW stop
  PROVE  LET p == PushWord(s, stop)
         IN /\ \E n \in Nat : Pushes(x, s, p, n, Alnum \ stop)
            /\ Ok(p) => Ok(s)
            /\ Unbroken(x) /\ Ok(s) => Ok(p)
<1> DEFINE class == Alnum \ stop
           n == RunOf(s, class)
           text == s.tok.text \o SubSeq(s.in, 1, n)
           t == [s.tok EXCEPT !.text = text]
           r == Past(s, n)
           m == [r EXCEPT !.tok = t]
           p == PushWord(s, stop)
<1>1. class \subseteq Characters
  BY DEF Characters
<1>2. /\ n \in 0 .. Len(s.in) /\ n \in Nat
      /\ Follows(x, r) /\ r.pos = s.pos + n /\ r.tok = s.tok /\ r.err = s.err
      /\ \A i \in 1 .. n :
           s.in[i] = x.text[s.pos + i] /\ x.text[s.pos + i] \in class
      /\ Unbroken(x) => r.pos = s.size \/ x.text[r.pos + 1] \notin class
  BY <1>1, RunFollows
<1>3. IsScanner(s) /\ s.pos \in Nat /\ s.size = Len(x.text) /\ IsScanner(r)
  BY <1>2, FollowsIsScanner
<1>4. SubSeq(s.in, 1, n) \in Seq(Signs) /\ Len(SubSeq(s.in, 1, n)) = n
  <2>1. s.in \in Seq(Signs)
    BY <1>3 DEF IsScanner
  <2>2. n \in 0 .. Len(s.in)
    BY <1>2
  <2>. HIDE DEF n
  <2>. QED  BY <2>1, <2>2, BeginningOf
<1>5. IsToken(t)
  <2>1. IsToken(s.tok) /\ s.tok.text \in Seq(Signs)
    BY <1>3 DEF IsScanner, IsToken
  <2>2. text \in Seq(Signs)
    BY <1>4, <2>1, ConcatProperties
  <2>. HIDE DEF text
  <2>. QED  BY <2>1, <2>2 DEF IsToken
<1>6. SubSeq(s.in, 1, n) = Word(x, s.pos, n)
  <2>1. ASSUME NEW i \in 1 .. n  PROVE SubSeq(s.in, 1, n)[i] = s.in[i]
    <3>1. Len(s.in) \in Nat
      BY <1>3, LenProperties DEF IsScanner
    <3>2. \A j \in 1 .. n : s.in[j] \in Signs
      BY <1>2, <1>3, <3>1, ElementOfSeq DEF IsScanner
    <3>3. i \in 1 .. n - 1 + 1 /\ 1 + i - 1 = i
      BY <1>2
    <3>. QED  BY <1>2, <3>1, <3>2, <3>3, SubSeqProperties
  <2> DEFINE w == SubSeq(s.in, 1, n)
  <2>2. w \in [1 .. n -> Signs]
    BY <1>4, LenProperties
  <2>3. \A i \in 1 .. n : w[i] = x.text[s.pos + i]
    BY <1>2, <2>1
  <2>. HIDE DEF w
  <2>4. w = [i \in 1 .. n |-> x.text[s.pos + i]]
    BY <2>2, <2>3
  <2>. QED  BY <2>4 DEF Word, w
<1>7. t = [s.tok EXCEPT !.text = @ \o Word(x, s.pos, n)]
  BY <1>6
<1>8. p = PeekChar(m)
  <2>1. m = [r EXCEPT !.tok.text = @ \o SubSeq(s.in, 1, n)]
    BY <1>2, <1>3 DEF IsScanner, IsToken, Fields
  <2>. QED  BY <2>1 DEF PushWord
<1>. HIDE DEF t, n, r, p
<1>9. Follows(x, m) /\ m.pos = r.pos /\ m.err = r.err /\ m.tok = t
  BY <1>2, <1>5, TokenFollows
<1>. HIDE DEF m
<1>10. /\ Follows(x, p) /\ p.pos = m.pos /\ p.tok = m.tok
       /\ Ok(p) => Ok(m)
       /\ Unbroken(x) /\ Ok(m) => Ok(p)
  BY <1>8, <1>9, PeekCharFollows
<1>11. p.size = s.size
  BY <1>3, <1>10, FollowsIsScanner
<1>12. Pushes(x, s, p, n, class)
  BY <1>2, <1>7, <1>9, <1>10, <1>11 DEF Pushes
<1>. QED  BY <1>2, <1>9, <1>10, <1>12 DEF Ok, p

-----------------------------------------------------------------------------
(***************************************************************************)
(* Two scanners, s on a reading x and u on its text y.  They are together, *)
(* or s has stopped within a token at a character of a class, because of a *)
(* pause or of the end of the stream.                                      *)
(***************************************************************************)
Compare(x, y) ==
  IsReading(x) /\ IsReading(y) /\ Unbroken(y) /\ y.text = x.text

Together(x, y, s, u) ==
  /\ Follows(x, s) /\ Follows(y, u) /\ Ok(s) /\ Ok(u)
  /\ s.pos = u.pos /\ s.tok = u.tok

Cut(x, s, class) ==
  Follows(x, s) /\ Ok(s) /\ s.pos < s.size /\ x.text[s.pos + 1] \in class

Faces(x, s, c) ==
  Follows(x, s) /\ Ok(s) /\ s.pos < s.size /\ x.text[s.pos + 1] = c

(* If s has not failed. *)
Agrees(x, y, s, u, class) == Ok(s) => Together(x, y, s, u) \/ Cut(x, s, class)

LEMMA TogetherBounds ==
  ASSUME NEW x, NEW y, Compare(x, y), NEW s, NEW u, Together(x, y, s, u)
  PROVE  /\ IsScanner(s) /\ IsScanner(u) /\ s.size = u.size
         /\ s.pos \in Nat /\ s.pos = u.pos /\ s.size \in Nat /\ s.pos <= s.size
         /\ s.tok = u.tok /\ s.size = Len(x.text) /\ u.size = Len(y.text)
<1>. QED  BY FollowsIsScanner DEF Compare, Together

(* s may miss a character that u finds. *)
LEMMA PeekCharTogether ==
  ASSUME NEW x, NEW y, Compare(x, y), NEW s, NEW u, Together(x, y, s, u),
         Ok(PeekChar(s))
  PROVE  LET p == PeekChar(s)
             q == PeekChar(u)
         IN /\ Together(x, y, p, q) /\ p.pos = s.pos /\ q.pos = u.pos
            /\ \/ p.c = q.c
               \/ p.c = Eof /\ Faces(x, p, q.c) /\ q.c \in Characters
            /\ p.c # Eof => Faces(x, p, p.c) /\ p.c \in Characters
<1> DEFINE p == PeekChar(s)
           q == PeekChar(u)
<1>1. /\ Follows(x, p) /\ p.pos = s.pos /\ p.tok = s.tok /\ Finds(x, s, p.c)
  BY PeekCharFollows DEF Compare, Together
<1>2. /\ Follows(y, q) /\ q.pos = u.pos /\ q.tok = u.tok /\ Finds(y, u, q.c)
      /\ Ok(q)
  BY PeekCharFollows DEF Compare, Together
<1>. HIDE DEF p, q
<1>3. Together(x, y, p, q) /\ s.size = u.size /\ u.size = q.size
      /\ p.size = s.size /\ s.pos \in Nat /\ s.pos = u.pos /\ s.size \in Nat
  <2>1. Together(x, y, p, q)
    BY <1>1, <1>2 DEF Together, p
  <2>2. s.size = Len(x.text) /\ p.size = Len(x.text) /\ q.size = Len(y.text)
        /\ u.size = Len(y.text) /\ y.text = x.text /\ s.pos \in Nat
        /\ s.pos = u.pos /\ s.size \in Nat
    BY <2>1, TogetherBounds DEF Compare
  <2>. QED  BY <2>1, <2>2
<1>4. \/ p.c = Eof
      \/ s.pos < s.size /\ p.c = x.text[s.pos + 1] /\ p.c \in Characters
  BY <1>1 DEF Finds
<1>5. \/ q.c = Eof /\ u.pos = u.size
      \/ u.pos < u.size /\ q.c = x.text[u.pos + 1] /\ q.c \in Characters
  BY <1>2 DEF Finds, Compare
<1>6. CASE p.c # Eof
  <2>1. p.c = q.c
    BY <1>3, <1>4, <1>5, <1>6
  <2>2. Faces(x, p, p.c)
    BY <1>1, <1>3, <1>4, <1>6 DEF Faces, Together
  <2>. QED  BY <1>1, <1>2, <1>3, <1>4, <1>6, <2>1, <2>2 DEF p, q
<1>7. CASE p.c = Eof
  <2>1. CASE q.c = Eof
    BY <1>1, <1>2, <1>3, <1>7, <2>1 DEF p, q
  <2>2. CASE q.c # Eof
    <3>1. Faces(x, p, q.c) /\ q.c \in Characters
      BY <1>1, <1>3, <1>5, <2>2 DEF Faces, Together
    <3>. QED  BY <1>1, <1>2, <1>3, <1>7, <3>1 DEF p, q
  <2>. QED  BY <2>1, <2>2
<1>. QED  BY <1>6, <1>7

LEMMA AdvanceTogether ==
  ASSUME NEW x, NEW y, Compare(x, y), NEW s, NEW u, Together(x, y, s, u),
         Ok(Advance(s))
  PROVE  /\ Together(x, y, Advance(s), Advance(u))
         /\ Advance(s).c = Advance(u).c /\ Advance(s).c \in Characters
<1> DEFINE a == Advance(s)
           b == Advance(u)
<1>1. /\ Follows(x, a) /\ a.pos = s.pos + 1 /\ a.tok = s.tok
      /\ s.pos < s.size /\ a.c = x.text[s.pos + 1] /\ a.c \in Characters
  BY AdvanceFollows DEF Compare, Together
<1>2. s.size = u.size /\ s.pos = u.pos /\ s.tok = u.tok
  BY TogetherBounds
<1>3. /\ Ok(b) /\ Follows(y, b) /\ b.pos = u.pos + 1 /\ b.tok = u.tok
      /\ b.c = y.text[u.pos + 1]
  BY <1>1, <1>2, AdvanceFollows DEF Compare, Together
<1>. QED  BY <1>1, <1>2, <1>3 DEF Together, Compare

(* A character of the token. *)
LEMMA PushedFollows ==
  ASSUME NEW x, NEW s, Follows(x, s)
  PROVE  LET p == Pushed(s)
         IN /\ Follows(x, p) /\ p.pos = s.pos /\ p.err = s.err /\ p.c = s.c
            /\ p.tok = [s.tok EXCEPT !.text = Append(@, s.c)]
<1> DEFINE t == [s.tok EXCEPT !.text = Append(@, s.c)]
<1>1. PICK k \in 0 .. Len(x.in) : On(x, s, k)
  BY DEF Follows
<1>2. IsScanner(s)
  BY <1>1 DEF On
<1>3. IsToken(t)
  BY <1>2, AppendProperties DEF IsScanner, IsToken
<1>4. Pushed(s) = [s EXCEPT !.tok = t]
  BY <1>2 DEF Pushed, IsScanner, IsToken, Fields
<1>. HIDE DEF t
<1>5. LET m == [s EXCEPT !.tok = t]
      IN Follows(x, m) /\ m.pos = s.pos /\ m.c = s.c /\ m.err = s.err
         /\ m.tok = t
  BY <1>3, TokenFollows
<1>. QED  BY <1>4, <1>5 DEF t

LEMMA PushedTogether ==
  ASSUME NEW x, NEW y, NEW s, NEW u, Together(x, y, s, u), s.c = u.c
  PROVE  Together(x, y, Pushed(s), Pushed(u)) /\ Pushed(s).c = Pushed(u).c
<1>1. Follows(x, s) /\ Follows(y, u) /\ Ok(s) /\ Ok(u)
      /\ s.pos = u.pos /\ s.tok = u.tok
  BY DEF Together
<1> DEFINE p == Pushed(s)
           q == Pushed(u)
<1>2. /\ Follows(x, p) /\ p.pos = s.pos /\ p.err = s.err /\ p.c = s.c
      /\ p.tok = [s.tok EXCEPT !.text = Append(@, s.c)]
  BY <1>1, PushedFollows
<1>3. /\ Follows(y, q) /\ q.pos = u.pos /\ q.err = u.err /\ q.c = u.c
      /\ q.tok = [u.tok EXCEPT !.text = Append(@, u.c)]
  BY <1>1, PushedFollows
<1>. HIDE DEF p, q
<1>4. p.tok = q.tok
  BY <1>1, <1>2, <1>3
<1>5. Together(x, y, p, q)
  BY <1>1, <1>2, <1>3, <1>4 DEF Together, Ok
<1>. QED  BY <1>2, <1>3, <1>5 DEF p, q

LEMMA PushTogether ==
  ASSUME NEW x, NEW y, Compare(x, y), NEW s, NEW u, Together(x, y, s, u),
         Ok(Push(s))
  PROVE  Together(x, y, Push(s), Push(u))
<1>1. Ok(Advance(s))
  BY DEF Push, Then
<1>2. Together(x, y, Advance(s), Advance(u)) /\ Advance(s).c = Advance(u).c
  BY <1>1, AdvanceTogether
<1>3. Push(s) = Pushed(Advance(s)) /\ Push(u) = Pushed(Advance(u))
  BY <1>1, <1>2 DEF Push, Then, Together
<1>. QED  BY <1>2, <1>3, PushedTogether

LEMMA PushWordTogether ==
  ASSUME NEW x, NEW y, Compare(x, y), NEW s, NEW u, Together(x, y, s, u),
         NEW stop
  PROVE  Agrees(x, y, PushWord(s, stop), PushWord(u, stop), Alnum \ stop)
<1> DEFINE p == PushWord(s, stop)
           q == PushWord(u, stop)
           class == Alnum \ stop
<1>1. SUFFICES ASSUME Ok(p)
               PROVE  Together(x, y, p, q) \/ Cut(x, p, class)
  BY DEF Agrees
<1>2. Follows(x, s) /\ Follows(y, u) /\ Ok(u)
  BY DEF Together
<1>3. PICK n \in Nat : Pushes(x, s, p, n, class)
  BY <1>2, PushWordFollows DEF Compare
<1>4. PICK m \in Nat : Pushes(y, u, q, m, class)
  BY <1>2, PushWordFollows DEF Compare
<1>5. Ok(q)
  BY <1>2, PushWordFollows DEF Compare
<1>. HIDE DEF p, q, class
<1>6. /\ Follows(x, p) /\ p.pos = s.pos + n
      /\ p.tok = [s.tok EXCEPT !.text = @ \o Word(x, s.pos, n)]
      /\ \A i \in 1 .. n : x.text[s.pos + i] \in class
  BY <1>3 DEF Pushes
<1>7. /\ Follows(y, q) /\ q.pos = u.pos + m
      /\ q.tok = [u.tok EXCEPT !.text = @ \o Word(y, u.pos, m)]
      /\ \A i \in 1 .. m : x.text[u.pos + i] \in class
      /\ q.pos = q.size \/ x.text[q.pos + 1] \notin class
  BY <1>4 DEF Pushes, Compare
<1>8. /\ s.pos \in Nat /\ s.pos = u.pos /\ s.tok = u.tok
      /\ p.size = q.size /\ p.pos <= p.size /\ q.pos <= q.size
      /\ p.size \in Nat
  <2>1. /\ p.size = Len(x.text) /\ q.size = Len(y.text) /\ x.text = y.text
        /\ p.pos <= p.size /\ q.pos <= q.size /\ p.size \in Nat
    BY <1>6, <1>7, FollowsIsScanner DEF Compare
  <2>. QED  BY <2>1, TogetherBounds
<1>9. CASE n = m
  <2>1. Word(x, s.pos, n) = Word(y, u.pos, m)
    BY <1>8, <1>9 DEF Word, Compare
  <2>2. p.tok = q.tok
    BY <1>6, <1>7, <1>8, <2>1
  <2>3. p.pos = q.pos
    BY <1>6, <1>7, <1>8, <1>9
  <2>. QED  BY <1>1, <1>5, <1>6, <1>7, <2>2, <2>3 DEF Together
<1>10. CASE n < m
  <2>1. x.text[s.pos + (n + 1)] \in class
    <3>1. n + 1 \in 1 .. m
      BY <1>10
    <3>2. x.text[u.pos + (n + 1)] \in class
      BY <1>7, <3>1
    <3>. QED  BY <1>8, <3>2
  <2>2. p.pos < p.size /\ p.pos + 1 = s.pos + (n + 1)
    <3>1. /\ p.pos = s.pos + n /\ q.pos = s.pos + m /\ n \in Nat /\ m \in Nat
          /\ p.pos <= p.size /\ q.pos <= p.size
      BY <1>6, <1>7, <1>8
    <3>. QED  BY <1>8, <1>10, <3>1
  <2>3. x.text[p.pos + 1] \in class
    BY <2>1, <2>2
  <2>. QED  BY <1>1, <1>6, <2>2, <2>3 DEF Cut
<1>11. CASE m < n
  <2>1. x.text[s.pos + (m + 1)] \in class
    BY <1>6, <1>11
  <2>2. q.pos < q.size /\ q.pos + 1 = s.pos + (m + 1)
    BY <1>6, <1>7, <1>8, <1>11
  <2>. QED  BY <1>7, <1>8, <2>1, <2>2
<1>. QED  BY <1>9, <1>10, <1>11

(* Where a number or a word may be cut. *)
Inner == Alnum \cup {"."}

LEMMA CutWider ==
  ASSUME NEW x, NEW s, NEW A, NEW B, Cut(x, s, A), A \subseteq B
  PROVE  Cut(x, s, B)
<1>. QED  BY DEF Cut

(* A cut stays where it is, unless the next character is found after all.  *)
LEMMA PeekCharCut ==
  ASSUME NEW x, IsReading(x), NEW s, NEW class, Cut(x, s, class),
         Ok(PeekChar(s))
  PROVE  Cut(x, PeekChar(s), class)
         /\ (PeekChar(s).c = Eof \/ PeekChar(s).c \in class)
<1> DEFINE p == PeekChar(s)
<1>1. /\ Follows(x, s) /\ s.pos < s.size /\ x.text[s.pos + 1] \in class
  BY DEF Cut
<1>2. Follows(x, p) /\ p.pos = s.pos /\ Finds(x, s, p.c)
  BY <1>1, PeekCharFollows
<1>3. p.size = s.size
  BY <1>1, <1>2, FollowsIsScanner
<1>. QED  BY <1>1, <1>2, <1>3 DEF Cut, Finds

LEMMA IntegralTogether ==
  ASSUME NEW x, NEW y, Compare(x, y), NEW s, NEW u, Together(x, y, s, u)
  PROVE  Agrees(x, y, Integral(s), Integral(u), Alnum \ {"e"})
<1> DEFINE a == Push(s)
           b == Push(u)
<1>1. /\ Integral(s) = IF Ok(a) THEN PushWord(a, {"e"}) ELSE a
      /\ Integral(u) = IF Ok(b) THEN PushWord(b, {"e"}) ELSE b
  BY DEF Integral, Then
<1>2. CASE ~Ok(a)
  BY <1>1, <1>2 DEF Agrees
<1>3. CASE Ok(a)
  <2>1. Together(x, y, a, b)
    BY <1>3, PushTogether
  <2>. HIDE DEF a, b
  <2>2. Agrees(x, y, PushWord(a, {"e"}), PushWord(b, {"e"}), Alnum \ {"e"})
    BY <2>1, PushWordTogether
  <2>3. Ok(b)
    BY <2>1 DEF Together
  <2>. QED  BY <1>1, <1>3, <2>2, <2>3
<1>. QED  BY <1>2, <1>3

LEMMA FractionTogether ==
  ASSUME NEW x, NEW y, Compare(x, y), NEW s, NEW u, Together(x, y, s, u)
  PROVE  Agrees(x, y, Fraction(s), Fraction(u), Inner \ {"e"})
<1> DEFINE p == PeekChar(s)
           q == PeekChar(u)
<1>1. /\ Fraction(s) = IF Ok(p) /\ p.c = "." THEN Integral(p) ELSE p
      /\ Fraction(u) = IF Ok(q) /\ q.c = "." THEN Integral(q) ELSE q
  BY DEF Fraction, Then
<1>2. CASE ~Ok(p)
  BY <1>1, <1>2 DEF Agrees
<1>3. CASE Ok(p)
  <2>1. /\ Together(x, y, p, q)
        /\ p.c = q.c \/ (p.c = Eof /\ Faces(x, p, q.c))
    BY <1>3, PeekCharTogether
  <2>2. Ok(q)
    BY <2>1 DEF Together
  <2>. HIDE DEF p, q
  <2>3. CASE p.c = "."
    <3>1. q.c = "."
      BY <2>1, <2>3 DEF Eof
    <3>2. Agrees(x, y, Integral(p), Integral(q), Alnum \ {"e"})
      BY <2>1, IntegralTogether
    <3>3. Alnum \ {"e"} \subseteq Inner \ {"e"}
      BY DEF Inner
    <3>. QED  BY <1>1, <1>3, <2>2, <2>3, <3>1, <3>2, <3>3, CutWider DEF Agrees
  <2>4. CASE p.c # "." /\ q.c # "."
    BY <1>1, <2>1, <2>4 DEF Agrees
  <2>5. CASE p.c # "." /\ q.c = "."
    <3>1. Cut(x, p, {"."})
      BY <2>1, <2>5 DEF Cut, Faces
    <3>2. {"."} \subseteq Inner \ {"e"}
      BY DEF Inner
    <3>. QED  BY <1>1, <2>5, <3>1, <3>2, CutWider DEF Agrees
  <2>. QED  BY <2>3, <2>4, <2>5
<1>. QED  BY <1>2, <1>3

LEMMA FractionCut ==
  ASSUME NEW x, IsReading(x), NEW s, Cut(x, s, Alnum \ {"e"}), Ok(Fraction(s))
  PROVE  Cut(x, Fraction(s), Alnum \ {"e"})
<1> DEFINE p == PeekChar(s)
<1>1. Fraction(s) = IF Ok(p) /\ p.c = "." THEN Integral(p) ELSE p
  BY DEF Fraction, Then
<1>2. Ok(p)
  BY <1>1
<1>3. Cut(x, p, Alnum \ {"e"}) /\ (p.c = Eof \/ p.c \in Alnum \ {"e"})
  BY <1>2, PeekCharCut
<1>4. p.c # "."
  BY <1>3 DEF Eof, Alnum, Digits, Letters
<1>. QED  BY <1>1, <1>3, <1>4

LEMMA ExponentTogether ==
  ASSUME NEW x, NEW y, Compare(x, y), NEW s, NEW u, Together(x, y, s, u)
  PROVE  Agrees(x, y, Exponent(s), Exponent(u), Inner)
<1> DEFINE p == PeekChar(s)
           q == PeekChar(u)
           a(t) == Push(t)
           b(t) == IF Ok(a(t)) THEN PeekChar(a(t)) ELSE a(t)
           d(t) == IF Ok(b(t)) THEN Push(b(t)) ELSE b(t)
           w(t) == IF Ok(d(t)) THEN PushWord(d(t), {}) ELSE d(t)
<1>1. /\ Exponent(s) = IF Ok(p) /\ p.c = "e" THEN w(p) ELSE p
      /\ Exponent(u) = IF Ok(q) /\ q.c = "e" THEN w(q) ELSE q
  BY DEF Exponent, Then
<1>2. CASE ~Ok(p)
  BY <1>1, <1>2 DEF Agrees
<1>3. CASE Ok(p)
  <2>1. /\ Together(x, y, p, q)
        /\ p.c = q.c \/ (p.c = Eof /\ Faces(x, p, q.c))
    BY <1>3, PeekCharTogether
  <2>2. Ok(q)
    BY <2>1 DEF Together
  <2>. HIDE DEF p, q
  <2>3. CASE p.c = "e"
    <3>1. q.c = "e"
      BY <2>1, <2>3 DEF Eof
    <3>2. Ok(a(p)) => Together(x, y, a(p), a(q))
      BY <2>1, PushTogether
    <3>3. Ok(b(p)) => Together(x, y, b(p), b(q))
      <4>1. CASE ~Ok(a(p))
        BY <4>1
      <4>2. CASE Ok(a(p))
        <5>1. Together(x, y, a(p), a(q)) /\ Ok(a(q))
          BY <3>2, <4>2 DEF Together
        <5>. HIDE DEF a
        <5>2. b(p) = PeekChar(a(p)) /\ b(q) = PeekChar(a(q))
          BY <4>2, <5>1
        <5>3. ASSUME Ok(b(p))
              PROVE  Together(x, y, PeekChar(a(p)), PeekChar(a(q)))
          BY <5>1, <5>2, <5>3, PeekCharTogether
        <5>. QED  BY <5>2, <5>3
      <4>. QED  BY <4>1, <4>2
    <3>4. Ok(d(p)) => Together(x, y, d(p), d(q))
      <4>. HIDE DEF b
      <4>. QED  BY <3>3, PushTogether DEF Together
    <3>5. Agrees(x, y, w(p), w(q), Alnum \ {})
      <4>. HIDE DEF d
      <4>. QED  BY <3>4, PushWordTogether DEF Together, Agrees
    <3>6. Alnum \ {} \subseteq Inner
      BY DEF Inner
    <3>. HIDE DEF w
    <3>. QED  BY <1>1, <1>3, <2>2, <2>3, <3>1, <3>5, <3>6, CutWider DEF Agrees
  <2>4. CASE p.c # "e" /\ q.c # "e"
    BY <1>1, <2>1, <2>4 DEF Agrees
  <2>5. CASE p.c # "e" /\ q.c = "e"
    <3>1. Cut(x, p, {"e"})
      BY <2>1, <2>5 DEF Cut, Faces
    <3>2. {"e"} \subseteq Inner
      BY DEF Inner, Alnum, Letters
    <3>. QED  BY <1>1, <2>5, <3>1, <3>2, CutWider DEF Agrees
  <2>. QED  BY <2>3, <2>4, <2>5
<1>. QED  BY <1>2, <1>3

LEMMA ExponentCut ==
  ASSUME NEW x, IsReading(x), NEW s, Cut(x, s, Inner \ {"e"}), Ok(Exponent(s))
  PROVE  Cut(x, Exponent(s), Inner)
<1> DEFINE p == PeekChar(s)
<1>1. Ok(p) /\ p.c # "e" => Exponent(s) = p
  BY DEF Exponent, Then
<1>2. Ok(p)
  BY DEF Exponent, Then
<1>3. Cut(x, p, Inner \ {"e"}) /\ (p.c = Eof \/ p.c \in Inner \ {"e"})
  BY <1>2, PeekCharCut
<1>4. p.c # "e"
  BY <1>3 DEF Eof
<1>. QED  BY <1>1, <1>2, <1>3, <1>4, CutWider

(* A token of a type, or with another text. *)
LEMMA TypedFollows ==
  ASSUME NEW x, NEW s, Follows(x, s), NEW type
  PROVE  LET m == [s EXCEPT !.tok.type = type]
         IN /\ Follows(x, m) /\ m.pos = s.pos /\ m.err = s.err /\ m.c = s.c
            /\ m.tok = [s.tok EXCEPT !.type = type]
<1> DEFINE t == [s.tok EXCEPT !.type = type]
<1>1. IsScanner(s)
  BY DEF Follows, On
<1>2. IsToken(t)
  BY <1>1 DEF IsScanner, IsToken
<1>3. [s EXCEPT !.tok.type = type] = [s EXCEPT !.tok = t]
  BY <1>1 DEF IsScanner, IsToken, Fields
<1>. HIDE DEF t
<1>4. LET m == [s EXCEPT !.tok = t]
      IN Follows(x, m) /\ m.pos = s.pos /\ m.c = s.c /\ m.err = s.err
         /\ m.tok = t
  BY <1>2, TokenFollows
<1>. QED  BY <1>3, <1>4 DEF t

LEMMA TypedTogether ==
  ASSUME NEW x, NEW y, NEW s, NEW u, Together(x, y, s, u), NEW type
  PROVE  Together(x, y, [s EXCEPT !.tok.type = type],
                  [u EXCEPT !.tok.type = type])
<1> DEFINE p == [s EXCEPT !.tok.type = type]
           q == [u EXCEPT !.tok.type = type]
<1>1. Follows(x, s) /\ Follows(y, u) /\ Ok(s) /\ Ok(u)
      /\ s.pos = u.pos /\ s.tok = u.tok
  BY DEF Together
<1>2. /\ Follows(x, p) /\ p.pos = s.pos /\ p.err = s.err
      /\ p.tok = [s.tok EXCEPT !.type = type]
  BY <1>1, TypedFollows
<1>3. /\ Follows(y, q) /\ q.pos = u.pos /\ q.err = u.err
      /\ q.tok = [u.tok EXCEPT !.type = type]
  BY <1>1, TypedFollows
<1>. HIDE DEF p, q
<1>4. Together(x, y, p, q)
  BY <1>1, <1>2, <1>3 DEF Together, Ok
<1>. QED  BY <1>4 DEF p, q

LEMMA CutWithToken ==
  ASSUME NEW x, NEW s, NEW class, Cut(x, s, class), NEW m, Follows(x, m),
         m.pos = s.pos, m.err = s.err
  PROVE  Cut(x, m, class)
<1>. QED  BY DEF Cut, Ok, Follows, On

LEMMA ScanWordTogether ==
  ASSUME NEW x, NEW y, Compare(x, y), NEW s, NEW u, Together(x, y, s, u)
  PROVE  Agrees(x, y, ScanWord(s), ScanWord(u), Inner)
<1> DEFINE a(r) == Push(r)
           w(r) == IF Ok(a(r)) THEN PushWord(a(r), {}) ELSE a(r)
           m(r) == IF w(r).tok.text \in DOMAIN Words
                   THEN [w(r) EXCEPT !.tok.type = Words[w(r).tok.text]]
                   ELSE Fail(w(r), "parse")
<1>1. /\ ScanWord(s) = IF Ok(w(s)) THEN m(s) ELSE w(s)
      /\ ScanWord(u) = IF Ok(w(u)) THEN m(u) ELSE w(u)
  BY DEF ScanWord, Then
<1>2. Ok(a(s)) => Together(x, y, a(s), a(u))
  BY PushTogether
<1>. HIDE DEF a
<1>3. Agrees(x, y, w(s), w(u), Alnum \ {})
  BY <1>2, PushWordTogether DEF Together, Agrees
<1>. HIDE DEF w
<1>4. SUFFICES ASSUME Ok(ScanWord(s))
               PROVE  \/ Together(x, y, ScanWord(s), ScanWord(u))
                      \/ Cut(x, ScanWord(s), Inner)
  BY DEF Agrees
<1>5. Ok(w(s)) /\ ScanWord(s) = m(s)
  BY <1>1, <1>4
<1>6. Follows(x, w(s))
  BY <1>3, <1>5 DEF Agrees, Together, Cut
<1> DEFINE type == Words[w(s).tok.text]
<1>7. /\ w(s).tok.text \in DOMAIN Words
      /\ ScanWord(s) = [w(s) EXCEPT !.tok.type = type]
  <2>1. IsScanner(w(s))
    BY <1>6 DEF Follows, On
  <2>2. ~Ok(Fail(w(s), "parse"))
    BY <2>1, FailMoves
  <2>. QED  BY <1>4, <1>5, <2>2
<1>8. CASE Together(x, y, w(s), w(u))
  <2>1. Ok(w(u)) /\ w(s).tok = w(u).tok
    BY <1>8 DEF Together
  <2>2. ScanWord(u) = [w(u) EXCEPT !.tok.type = type]
    BY <1>1, <1>7, <2>1
  <2>. HIDE DEF type
  <2>3. Together(x, y, [w(s) EXCEPT !.tok.type = type],
                 [w(u) EXCEPT !.tok.type = type])
    BY <1>8, TypedTogether
  <2>. QED  BY <1>7, <2>2, <2>3
<1>9. CASE Cut(x, w(s), Alnum \ {})
  <2>. HIDE DEF type
  <2> DEFINE z == [w(s) EXCEPT !.tok.type = type]
  <2>1. Follows(x, z) /\ z.pos = w(s).pos /\ z.err = w(s).err
    BY <1>6, TypedFollows
  <2>. HIDE DEF z
  <2>2. Cut(x, z, Alnum \ {})
    BY <1>9, <2>1, CutWithToken
  <2>3. Alnum \ {} \subseteq Inner
    BY DEF Inner
  <2>. QED  BY <1>7, <2>2, <2>3, CutWider DEF z
<1>. QED  BY <1>3, <1>5, <1>8, <1>9 DEF Agrees

LEMMA ScanNumberTogether ==
  ASSUME NEW x, NEW y, Compare(x, y), NEW s, NEW u, Together(x, y, s, u),
         s.c = u.c
  PROVE  /\ Agrees(x, y, ScanNumber(s), ScanNumber(u), Inner)
         /\ Ok(ScanNumber(s)) => ScanNumber(s).tok.type = "num"
<1> DEFINE a(r) == IF r.c = "-" THEN Push(r) ELSE r
           b(r) == IF Ok(a(r)) THEN Integral(a(r)) ELSE a(r)
           d(r) == IF Ok(b(r)) THEN Fraction(b(r)) ELSE b(r)
           n(r) == IF Ok(d(r)) THEN Exponent(d(r)) ELSE d(r)
           num(r) == [n(r) EXCEPT !.tok.type = "num",
                                  !.tok.text = Stod(n(r).tok.text)]
           m(r) == IF Stod(n(r).tok.text) = <<>> THEN Fail(n(r), "parse")
                   ELSE num(r)
<1>1. /\ ScanNumber(s) = IF Ok(n(s)) THEN m(s) ELSE n(s)
      /\ ScanNumber(u) = IF Ok(n(u)) THEN m(u) ELSE n(u)
  BY DEF ScanNumber, Then
<1>2. Ok(a(s)) => Together(x, y, a(s), a(u))
  BY PushTogether
<1>. HIDE DEF a
<1>3. Agrees(x, y, b(s), b(u), Alnum \ {"e"})
  BY <1>2, IntegralTogether DEF Together, Agrees
<1>. HIDE DEF b
<1>4. Agrees(x, y, d(s), d(u), Inner \ {"e"})
  <2>1. CASE ~Ok(b(s))
    BY <2>1 DEF Agrees
  <2>2. CASE Together(x, y, b(s), b(u))
    BY <2>2, FractionTogether DEF Together
  <2>3. CASE Cut(x, b(s), Alnum \ {"e"})
    <3>1. Ok(Fraction(b(s))) => Cut(x, Fraction(b(s)), Alnum \ {"e"})
      BY <2>3, FractionCut DEF Compare
    <3>2. Alnum \ {"e"} \subseteq Inner \ {"e"}
      BY DEF Inner
    <3>3. d(s) = Fraction(b(s))
      BY <2>3 DEF Cut
    <3>. HIDE DEF d
    <3>. QED  BY <3>1, <3>2, <3>3, CutWider DEF Agrees
  <2>. QED  BY <1>3, <2>1, <2>2, <2>3 DEF Agrees
<1>. HIDE DEF d
<1>5. Agrees(x, y, n(s), n(u), Inner)
  <2>1. CASE ~Ok(d(s))
    BY <2>1 DEF Agrees
  <2>2. CASE Together(x, y, d(s), d(u))
    BY <2>2, ExponentTogether DEF Together
  <2>3. CASE Cut(x, d(s), Inner \ {"e"})
    <3>1. Ok(Exponent(d(s))) => Cut(x, Exponent(d(s)), Inner)
      BY <2>3, ExponentCut DEF Compare
    <3>3. n(s) = Exponent(d(s))
      BY <2>3 DEF Cut
    <3>. HIDE DEF n
    <3>. QED  BY <3>1, <3>3 DEF Agrees
  <2>. QED  BY <1>4, <2>1, <2>2, <2>3 DEF Agrees
<1>. HIDE DEF n
<1>6. ASSUME NEW z, NEW r, Follows(z, n(r))
      PROVE  /\ Follows(z, num(r)) /\ num(r).pos = n(r).pos
             /\ num(r).err = n(r).err
             /\ num(r).tok = [n(r).tok EXCEPT !.type = "num",
                                              !.text = Stod(n(r).tok.text)]
             /\ num(r).tok.type = "num"
  <2> DEFINE t == [n(r).tok EXCEPT !.type = "num",
                                   !.text = Stod(n(r).tok.text)]
  <2>1. IsScanner(n(r))
    BY <1>6 DEF Follows, On
  <2>2. Stod(n(r).tok.text) \in Seq(Signs)
    BY <2>1, StodIsNumeral DEF IsScanner, IsToken
  <2>3. IsToken(t) /\ t.type = "num"
    BY <2>1, <2>2 DEF IsScanner, IsToken
  <2>4. num(r) = [n(r) EXCEPT !.tok = t]
    BY <2>1 DEF IsScanner, IsToken, Fields
  <2>. HIDE DEF t, num
  <2>5. LET k == [n(r) EXCEPT !.tok = t]
        IN Follows(z, k) /\ k.pos = n(r).pos /\ k.err = n(r).err /\ k.tok = t
    BY <1>6, <2>3, TokenFollows
  <2>. QED  BY <2>3, <2>4, <2>5 DEF t
<1>7. SUFFICES ASSUME Ok(ScanNumber(s))
               PROVE  /\ \/ Together(x, y, ScanNumber(s), ScanNumber(u))
                         \/ Cut(x, ScanNumber(s), Inner)
                      /\ ScanNumber(s).tok.type = "num"
  BY DEF Agrees
<1>8. Ok(n(s)) /\ ScanNumber(s) = m(s)
  BY <1>1, <1>7
<1>9. Follows(x, n(s))
  BY <1>5, <1>8 DEF Agrees, Together, Cut
<1>10. Stod(n(s).tok.text) # <<>> /\ ScanNumber(s) = num(s)
  <2>1. IsScanner(n(s))
    BY <1>9 DEF Follows, On
  <2>2. ~Ok(Fail(n(s), "parse"))
    BY <2>1, FailMoves
  <2>. QED  BY <1>7, <1>8, <2>2
<1>11. CASE Together(x, y, n(s), n(u))
  <2>1. Ok(n(u)) /\ n(s).tok = n(u).tok /\ n(s).pos = n(u).pos
        /\ Follows(y, n(u))
    BY <1>11 DEF Together
  <2>2. ScanNumber(u) = num(u)
    BY <1>1, <1>10, <2>1
  <2>3. Follows(x, num(s)) /\ Follows(y, num(u)) /\ num(s).pos = num(u).pos
        /\ num(s).err = n(s).err /\ num(u).err = n(u).err
        /\ num(s).tok = num(u).tok /\ num(s).tok.type = "num"
    <3>1. /\ Follows(x, num(s)) /\ num(s).pos = n(s).pos
          /\ num(s).err = n(s).err /\ num(s).tok.type = "num"
          /\ num(s).tok = [n(s).tok EXCEPT !.type = "num",
                                           !.text = Stod(n(s).tok.text)]
      BY <1>6, <1>9
    <3>2. /\ Follows(y, num(u)) /\ num(u).pos = n(u).pos
          /\ num(u).err = n(u).err
          /\ num(u).tok = [n(u).tok EXCEPT !.type = "num",
                                           !.text = Stod(n(u).tok.text)]
      BY <1>6, <2>1
    <3>. HIDE DEF num, n
    <3>. QED  BY <2>1, <3>1, <3>2
  <2>. HIDE DEF num
  <2>4. Together(x, y, num(s), num(u))
    BY <1>8, <2>1, <2>3 DEF Together, Ok
  <2>. QED  BY <1>10, <2>2, <2>3, <2>4
<1>12. CASE Cut(x, n(s), Inner)
  BY <1>6, <1>9, <1>10, <1>12, CutWithToken
<1>. QED  BY <1>5, <1>8, <1>11, <1>12 DEF Agrees

(***************************************************************************)
(* A string: the two scanners go through its rounds together.              *)
(***************************************************************************)
LEMMA StringRoundTogether ==
  ASSUME NEW x, NEW y, Compare(x, y), NEW s, NEW u, Together(x, y, s, u),
         Ok(StringRound(s))
  PROVE  Together(x, y, StringRound(s), StringRound(u))
<1> DEFINE a == Advance(s)
           b == Advance(u)
<1>1. Ok(s) /\ Ok(u) /\ s.tok = u.tok
  BY DEF Together
<1>2. CASE s.tok.type = "str"
  BY <1>1, <1>2 DEF StringRound
<1>3. CASE s.tok.type # "str"
  <2>1. /\ StringRound(s) = IF Ok(a) THEN StringChar(a) ELSE a
        /\ StringRound(u) = IF Ok(b) THEN StringChar(b) ELSE b
    BY <1>1, <1>3 DEF StringRound, Then
  <2>2. Ok(a)
    BY <2>1
  <2>3. Together(x, y, a, b) /\ a.c = b.c
    BY <2>2, AdvanceTogether
  <2>. HIDE DEF a, b
  <2>4. Ok(b) /\ a.tok = b.tok /\ IsScanner(a)
    BY <2>3 DEF Together, Follows, On
  <2>5. CASE a.c = Newline
    <3>1. StringChar(a) = Fail(a, "parse")
      BY <2>5 DEF StringChar, Newline, Quote, Escape
    <3>. QED  BY <2>1, <2>2, <2>4, <3>1, FailMoves
  <2>6. CASE a.c = Quote /\ a.tok.type = "quoted"
    <3>1. /\ StringChar(a) = [a EXCEPT !.tok.type = "str"]
          /\ StringChar(b) = [b EXCEPT !.tok.type = "str"]
      BY <2>3, <2>4, <2>6 DEF StringChar, Newline, Quote, Escape
    <3>. QED  BY <2>1, <2>2, <2>3, <2>4, <3>1, TypedTogether
  <2>7. CASE a.c = Escape /\ a.tok.type = "quoted"
    <3>1. /\ StringChar(a) = [a EXCEPT !.tok.type = "escaped"]
          /\ StringChar(b) = [b EXCEPT !.tok.type = "escaped"]
      BY <2>3, <2>4, <2>7 DEF StringChar, Newline, Quote, Escape
    <3>. QED  BY <2>1, <2>2, <2>3, <2>4, <3>1, TypedTogether
  <2>8. CASE /\ a.c # Newline
             /\ ~(a.c \in {Quote, Escape} /\ a.tok.type = "quoted")
    <3>1. /\ StringChar(a) = [Pushed(a) EXCEPT !.tok.type = "quoted"]
          /\ StringChar(b) = [Pushed(b) EXCEPT !.tok.type = "quoted"]
      BY <2>3, <2>4, <2>8 DEF StringChar
    <3>2. Together(x, y, Pushed(a), Pushed(b))
      BY <2>3, PushedTogether
    <3>. QED  BY <2>1, <2>2, <2>4, <3>1, <3>2, TypedTogether
  <2>. QED  BY <2>5, <2>6, <2>7, <2>8
<1>. QED  BY <1>2, <1>3

LEMMA StringRoundsOf ==
  ASSUME NEW s, IsScanner(s)
  PROVE  /\ Len(s.in) + 1 \in Nat
         /\ \E f : /\ StringRounds(s, Len(s.in) + 1, f)
                   /\ ScanString(s) = f[Len(s.in) + 1]
<1> DEFINE rounds == Len(s.in) + 1
           f == CHOOSE g : StringRounds(s, rounds, g)
<1>1. rounds \in Nat
  BY LenProperties DEF IsScanner
<1>2. StringRounds(s, rounds, f)
  BY <1>1, StringRoundsExist
<1>3. ScanString(s) = f[rounds]
  BY DEF ScanString, StringRounds
<1>. QED  BY <1>1, <1>2, <1>3

LEMMA StringRoundsStay ==
  ASSUME NEW s, NEW rounds \in Nat, NEW f, StringRounds(s, rounds, f),
         NEW m \in 0 .. rounds, ~Ok(f[m]) \/ f[m].tok.type = "str"
  PROVE  f[rounds] = f[m]
<1> DEFINE bad == {n \in m .. rounds : f[n] # f[m]}
<1>1. SUFFICES ASSUME bad # {}  PROVE FALSE
  <2>1. rounds \in m .. rounds
    OBVIOUS
  <2>. QED  BY <2>1
<1>2. bad \in SUBSET Nat
  OBVIOUS
<1>3. PICK n \in bad : \A k \in bad : n <= k
  BY <1>1, <1>2, LeastOf
<1>4. n > m /\ n - 1 \in m .. rounds /\ n - 1 \notin bad /\ n \in 1 .. rounds
  BY <1>3
<1>5. f[n] = StringRound(f[n - 1])
  BY <1>4 DEF StringRounds
<1>. QED  BY <1>3, <1>4, <1>5 DEF StringRound

LEMMA ScanStringTogether ==
  ASSUME NEW x, NEW y, Compare(x, y), NEW s, NEW u, Together(x, y, s, u),
         Ok(ScanString(s))
  PROVE  Together(x, y, ScanString(s), ScanString(u))
<1>1. IsScanner(s) /\ IsScanner(u)
  BY TogetherBounds
<1> DEFINE R == Len(s.in) + 1
           Q == Len(u.in) + 1
<1>2. R \in Nat /\ Q \in Nat
  BY <1>1, StringRoundsOf
<1>3. PICK f : StringRounds(s, R, f) /\ ScanString(s) = f[R]
  BY <1>1, StringRoundsOf
<1>4. PICK g : StringRounds(u, Q, g) /\ ScanString(u) = g[Q]
  BY <1>1, StringRoundsOf
<1>5. ScanString(s).tok.type = "str"
  BY <1>1, ScanStringGets
<1>6. Ok(ScanString(u)) => ScanString(u).tok.type = "str"
  BY <1>1, ScanStringGets
<1>. HIDE DEF R, Q
<1> DEFINE bad == {n \in 0 .. R : /\ n <= Q
                                  /\ Ok(f[n])
                                  /\ ~Together(x, y, f[n], g[n])}
<1>7. bad = {}
  <2>1. SUFFICES ASSUME bad # {}  PROVE FALSE
    OBVIOUS
  <2>2. bad \in SUBSET Nat
    BY <1>2
  <2>3. PICK n \in bad : \A k \in bad : n <= k
    BY <2>1, <2>2, LeastOf
  <2>4. CASE n = 0
    <3>1. /\ f[0] = [s EXCEPT !.tok.type = "quoted"]
          /\ g[0] = [u EXCEPT !.tok.type = "quoted"]
      BY <1>2, <1>3, <1>4 DEF StringRounds
    <3>. QED  BY <2>3, <2>4, <3>1, TypedTogether
  <2>5. CASE n # 0
    <3>1. /\ n \in 0 .. R /\ n \in 0 .. Q /\ n - 1 \in 0 .. R /\ n - 1 <= Q
          /\ n - 1 \notin bad
      BY <1>2, <2>3, <2>5
    <3>2. f[n] = StringRound(f[n - 1]) /\ g[n] = StringRound(g[n - 1])
      BY <1>3, <1>4, <2>5, <3>1 DEF StringRounds
    <3>3. Ok(f[n - 1])
      BY <2>3, <3>2 DEF StringRound
    <3>4. Together(x, y, f[n - 1], g[n - 1])
      BY <3>1, <3>3
    <3>. QED  BY <2>3, <3>2, <3>4, StringRoundTogether
  <2>. QED  BY <2>4, <2>5
<1>8. CASE R <= Q
  <2>1. R \in 0 .. R /\ R \in 0 .. Q
    BY <1>2, <1>8
  <2>2. Together(x, y, f[R], g[R])
    BY <1>3, <1>7, <1>8, <2>1
  <2>3. g[R].tok.type = "str"
    BY <1>3, <1>5, <2>2 DEF Together
  <2>4. g[Q] = g[R]
    BY <1>2, <1>4, <2>1, <2>3, StringRoundsStay
  <2>. QED  BY <1>3, <1>4, <2>2, <2>4
<1>9. CASE Q < R
  <2>1. Q \in 0 .. R /\ Q <= Q
    BY <1>2, <1>9
  <2>2. Ok(f[Q])
    <3>1. ~Ok(f[Q]) => f[R] = f[Q]
      BY <1>2, <1>3, <2>1, StringRoundsStay
    <3>. QED  BY <1>3, <3>1
  <2>3. Together(x, y, f[Q], g[Q])
    BY <1>7, <2>1, <2>2
  <2>4. f[Q].tok.type = "str"
    BY <1>4, <1>6, <2>3 DEF Together
  <2>5. f[R] = f[Q]
    BY <1>2, <1>3, <2>1, <2>4, StringRoundsStay
  <2>. QED  BY <1>3, <1>4, <2>3, <2>5
<1>. QED  BY <1>2, <1>8, <1>9

(***************************************************************************)
(* Before a token there may be whitespace that only one of them has        *)
(* skipped.                                                                *)
(***************************************************************************)
Near(x, y, s, u) ==
  /\ Follows(x, s) /\ Follows(y, u) /\ Ok(s) /\ Ok(u)
  /\ Blank(x, s.pos, u.pos) /\ Blank(x, u.pos, s.pos)

LEMMA BlankBetween ==
  ASSUME NEW x, NEW a \in Nat, NEW b \in Nat, NEW c \in Nat,
         Blank(x, a, b), Blank(x, b, a), a <= c, Blank(x, a, c)
  PROVE  Blank(x, c, b) /\ Blank(x, b, c)
<1>1. ASSUME NEW i \in c + 1 .. b  PROVE x.text[i] \in Space
  <2>1. i \in a + 1 .. b
    OBVIOUS
  <2>. QED  BY <2>1 DEF Blank
<1>2. ASSUME NEW i \in b + 1 .. c  PROVE x.text[i] \in Space
  <2>1. i \in b + 1 .. a \/ i \in a + 1 .. c
    OBVIOUS
  <2>. QED  BY <2>1 DEF Blank
<1>. QED  BY <1>1, <1>2 DEF Blank

LEMMA TogetherIsNear ==
  ASSUME NEW x, NEW y, Compare(x, y), NEW s, NEW u, Together(x, y, s, u)
  PROVE  Near(x, y, s, u)
<1>1. s.pos \in Nat /\ s.pos = u.pos
  BY TogetherBounds
<1>2. Blank(x, s.pos, s.pos)
  BY <1>1 DEF Blank
<1>. QED  BY <1>1, <1>2 DEF Together, Near

(* The text is settled after whitespace, so that s does not go past u. *)
LEMMA SkipNear ==
  ASSUME NEW x, NEW y, Compare(x, y), NEW s, NEW u, Near(x, y, s, u)
  PROVE  LET t == SkipWhitespace(s)
             v == SkipWhitespace(u)
         IN /\ Near(x, y, t, v) /\ Near(x, y, t, u)
            /\ Settled(x, v) /\ t.pos <= v.pos
            /\ t.tok = s.tok /\ v.tok = u.tok
<1> DEFINE t == SkipWhitespace(s)
           v == SkipWhitespace(u)
<1>1. /\ Follows(x, t) /\ s.pos <= t.pos /\ Blank(x, s.pos, t.pos)
      /\ t.err = s.err /\ t.tok = s.tok
  BY SkipFollows DEF Compare, Near
<1>2. /\ Follows(y, v) /\ u.pos <= v.pos /\ Blank(y, u.pos, v.pos)
      /\ v.err = u.err /\ v.tok = u.tok /\ Settled(y, v)
  BY SkipFollows DEF Compare, Near
<1>. HIDE DEF t, v
<1>3. /\ s.pos \in Nat /\ u.pos \in Nat /\ t.pos \in Nat /\ v.pos \in Nat
      /\ t.pos <= v.size /\ v.size \in Nat
  <2>1. Follows(x, s) /\ Follows(y, u) /\ IsReading(x) /\ IsReading(y)
    BY DEF Near, Compare
  <2>2. s.pos \in Nat /\ u.pos \in Nat /\ t.pos \in Nat /\ v.pos \in Nat
        /\ t.pos <= t.size /\ t.size = Len(x.text) /\ v.size = Len(y.text)
        /\ v.size \in Nat
    BY <1>1, <1>2, <2>1, FollowsIsScanner
  <2>. QED  BY <2>2 DEF Compare
<1>4. Blank(x, u.pos, v.pos) /\ Settled(x, v)
  BY <1>2 DEF Blank, Settled, Compare
<1>5. Blank(x, s.pos, u.pos) /\ Blank(x, u.pos, s.pos) /\ Ok(s) /\ Ok(u)
      /\ Follows(y, u)
  BY DEF Near
<1>6. Blank(x, t.pos, u.pos) /\ Blank(x, u.pos, t.pos)
  BY <1>1, <1>3, <1>5, BlankBetween
<1>7. Blank(x, v.pos, t.pos) /\ Blank(x, t.pos, v.pos)
  BY <1>2, <1>3, <1>4, <1>6, BlankBetween
<1>8. t.pos <= v.pos
  <2>1. SUFFICES ASSUME v.pos < t.pos  PROVE FALSE
    BY <1>3
  <2>2. v.pos + 1 \in v.pos + 1 .. t.pos
    BY <1>3, <2>1
  <2>3. x.text[v.pos + 1] \in Space
    BY <1>7, <2>2 DEF Blank
  <2>. QED  BY <1>3, <1>4, <2>1, <2>3 DEF Settled
<1>9. Near(x, y, t, u) /\ Near(x, y, t, v)
  BY <1>1, <1>2, <1>5, <1>6, <1>7 DEF Near, Ok
<1>. QED  BY <1>1, <1>2, <1>4, <1>8, <1>9 DEF t, v

(* The types of the tokens that may be cut. *)
Cuttable == {"num", "bool", "nil"}

(* Scan, by the first character of the token. *)
LEMMA ScanDispatch ==
  ASSUME NEW s, NEW p, NEW a,
         p = PeekChar(SkipWhitespace([s EXCEPT !.tok = NoToken])),
         a = Advance(p)
  PROVE  /\ ~Ok(p) \/ p.c = Eof => Scan(s) = p
         /\ Ok(p) /\ p.c \in Punctuation =>
              Scan(s) = [a EXCEPT !.tok.type = p.c]
         /\ Ok(p) /\ p.c = Quote => Scan(s) = ScanString(a)
         /\ Ok(p) /\ p.c \in Digits \cup {"-"} => Scan(s) = ScanNumber(p)
         /\ Ok(p) /\ p.c \in Letters => Scan(s) = ScanWord(p)
         /\ Ok(p) /\ p.c # Eof
              /\ p.c \notin Punctuation \cup {Quote, "-"} \cup Digits
                             \cup Letters
              => Scan(s) = Fail(p, "parse")
<1> DEFINE m == [a EXCEPT !.tok.type = p.c]
<1>1. Scan(s) =
        IF ~Ok(p) THEN p
        ELSE CASE p.c = Eof                 -> p
               [] p.c \in Punctuation       -> m
               [] p.c = Quote               -> ScanString(a)
               [] p.c \in Digits \cup {"-"} -> ScanNumber(p)
               [] p.c \in Letters           -> ScanWord(p)
               [] OTHER                     -> Fail(p, "parse")
  BY DEF Scan, Then
<1>. HIDE DEF m
<1>2. ~Ok(p) \/ p.c = Eof => Scan(s) = p
  BY <1>1 DEF Eof, Punctuation, Quote, Digits, Letters
<1>3. Ok(p) /\ p.c \in Punctuation => Scan(s) = m
  BY <1>1 DEF Eof, Punctuation, Quote, Digits, Letters
<1>4. Ok(p) /\ p.c = Quote => Scan(s) = ScanString(a)
  BY <1>1 DEF Eof, Punctuation, Quote, Digits, Letters
<1>5. Ok(p) /\ p.c \in Digits \cup {"-"} => Scan(s) = ScanNumber(p)
  BY <1>1 DEF Eof, Punctuation, Quote, Digits, Letters
<1>6. Ok(p) /\ p.c \in Letters => Scan(s) = ScanWord(p)
  BY <1>1 DEF Eof, Punctuation, Quote, Digits, Letters
<1>7. Ok(p) /\ p.c # Eof
        /\ p.c \notin Punctuation \cup {Quote, "-"} \cup Digits \cup Letters
        => Scan(s) = Fail(p, "parse")
  BY <1>1
<1>. QED  BY <1>2, <1>3, <1>4, <1>5, <1>6, <1>7 DEF m

LEMMA ScanNear ==
  ASSUME NEW x, NEW y, Compare(x, y), NEW s, NEW u, Near(x, y, s, u),
         Ok(Scan(s))
  PROVE  \/ Scan(s).tok = NoToken /\ Near(x, y, Scan(s), u)
         \/ Together(x, y, Scan(s), Scan(u)) /\ Scan(s).tok.type # "none"
         \/ Cut(x, Scan(s), Inner) /\ Scan(s).tok.type \in Cuttable
<1> DEFINE n(r) == [r EXCEPT !.tok = NoToken]
           k(r) == SkipWhitespace(n(r))
           p(r) == PeekChar(k(r))
           a(r) == Advance(p(r))
<1>1. ASSUME NEW r
      PROVE  /\ ~Ok(p(r)) \/ p(r).c = Eof => Scan(r) = p(r)
             /\ Ok(p(r)) /\ p(r).c \in Punctuation =>
                  Scan(r) = [a(r) EXCEPT !.tok.type = p(r).c]
             /\ Ok(p(r)) /\ p(r).c = Quote => Scan(r) = ScanString(a(r))
             /\ Ok(p(r)) /\ p(r).c \in Digits \cup {"-"} =>
                  Scan(r) = ScanNumber(p(r))
             /\ Ok(p(r)) /\ p(r).c \in Letters => Scan(r) = ScanWord(p(r))
             /\ Ok(p(r)) /\ p(r).c # Eof
                  /\ p(r).c \notin Punctuation \cup {Quote, "-"} \cup Digits
                                   \cup Letters
                  => Scan(r) = Fail(p(r), "parse")
  BY ScanDispatch
<1>2. Follows(x, s) /\ Follows(y, u) /\ Ok(s) /\ Ok(u)
      /\ Blank(x, s.pos, u.pos) /\ Blank(x, u.pos, s.pos)
  BY DEF Near
<1>3. /\ Follows(x, n(s)) /\ n(s).pos = s.pos /\ n(s).err = s.err
      /\ n(s).tok = NoToken
  BY <1>2, NoTokenIsToken, TokenFollows
<1>4. /\ Follows(y, n(u)) /\ n(u).pos = u.pos /\ n(u).err = u.err
      /\ n(u).tok = NoToken
  BY <1>2, NoTokenIsToken, TokenFollows
<1>. HIDE DEF n
<1>5. Near(x, y, n(s), n(u))
  BY <1>2, <1>3, <1>4 DEF Near, Ok
<1>6. /\ Near(x, y, k(s), k(u)) /\ Near(x, y, k(s), n(u))
      /\ Settled(x, k(u)) /\ k(s).pos <= k(u).pos
      /\ k(s).tok = NoToken /\ k(u).tok = NoToken
  BY <1>3, <1>4, <1>5, SkipNear
<1>. HIDE DEF k
<1>7. Ok(p(s))
  BY <1>1
<1>8. Follows(x, k(s)) /\ Follows(y, k(u)) /\ Ok(k(s)) /\ Ok(k(u))
      /\ Blank(x, k(s).pos, k(u).pos)
  BY <1>6 DEF Near
<1>9. /\ Follows(x, p(s)) /\ p(s).pos = k(s).pos /\ p(s).tok = NoToken
      /\ Finds(x, k(s), p(s).c)
  BY <1>6, <1>8, PeekCharFollows DEF Compare
<1>10. CASE p(s).c = Eof
  <2>1. Scan(s) = p(s)
    BY <1>1, <1>10
  <2>. HIDE DEF p
  <2>2. Near(x, y, p(s), u)
    BY <1>2, <1>4, <1>6, <1>7, <1>9 DEF Near
  <2>. QED  BY <1>9, <2>1, <2>2
<1>11. CASE p(s).c # Eof
  <2>1. p(s).c = x.text[k(s).pos + 1]
    BY <1>9, <1>11 DEF Finds
  <2>2. k(s).pos \in Nat /\ k(u).pos \in Nat
    BY <1>8, FollowsIsScanner DEF Compare
  <2>3. CASE k(s).pos < k(u).pos
    <3>1. p(s).c \in Space
      <4>1. k(s).pos + 1 \in k(s).pos + 1 .. k(u).pos
        BY <2>2, <2>3
      <4>. QED  BY <1>8, <2>1, <4>1 DEF Blank
    <3>. HIDE DEF p, a
    <3>2. Scan(s) = Fail(p(s), "parse")
      BY <1>1, <1>7, <3>1 DEF Space, Newline, Eof, Punctuation, Quote, Digits,
                              Letters
    <3>. QED  BY <1>9, <3>2, FailMoves DEF Follows, On
  <2>4. CASE k(s).pos = k(u).pos
    <3>1. Together(x, y, k(s), k(u))
      BY <1>6, <1>8, <2>4 DEF Together
    <3>2. Together(x, y, p(s), p(u)) /\ p(s).c = p(u).c
          /\ p(s).c \in Characters
      BY <1>7, <1>11, <3>1, PeekCharTogether
    <3>. HIDE DEF p
    <3>3. Ok(p(u))
      BY <3>2 DEF Together
    <3>4. CASE p(s).c \in Punctuation
      <4>1. /\ Scan(s) = [a(s) EXCEPT !.tok.type = p(s).c]
            /\ Scan(u) = [a(u) EXCEPT !.tok.type = p(s).c]
        BY <1>1, <1>7, <3>2, <3>3, <3>4
      <4>2. IsScanner(p(s))
        BY <3>2 DEF Together, Follows, On
      <4>3. IsScanner(a(s))
        BY <4>2, AdvanceMoves DEF Moves
      <4>4. Ok(a(s)) /\ Scan(s).tok.type = p(s).c
        <5>. HIDE DEF a
        <5>. QED  BY <4>1, <4>3 DEF IsScanner, IsToken, Fields, Ok
      <4>5. Together(x, y, a(s), a(u))
        BY <3>2, <4>4, AdvanceTogether
      <4>6. Together(x, y, Scan(s), Scan(u))
        <5>. HIDE DEF a
        <5>. QED  BY <4>1, <4>5, TypedTogether
      <4>7. p(s).c # "none"
        BY <3>4 DEF Punctuation
      <4>. QED  BY <4>4, <4>6, <4>7
    <3>5. CASE p(s).c = Quote
      <4>1. Scan(s) = ScanString(a(s)) /\ Scan(u) = ScanString(a(u))
        BY <1>1, <1>7, <3>2, <3>3, <3>5
      <4>2. IsScanner(p(s))
        BY <3>2 DEF Together, Follows, On
      <4>3. IsScanner(a(s))
        BY <4>2, AdvanceMoves DEF Moves
      <4>4. Ok(a(s)) /\ Scan(s).tok.type = "str"
        BY <4>1, <4>3, ScanStringGets DEF Gets
      <4>5. Together(x, y, a(s), a(u))
        BY <3>2, <4>4, AdvanceTogether
      <4>6. Together(x, y, Scan(s), Scan(u))
        BY <4>1, <4>5, ScanStringTogether
      <4>. QED  BY <4>4, <4>6
    <3>6. CASE p(s).c \in Digits \cup {"-"}
      <4>1. Scan(s) = ScanNumber(p(s)) /\ Scan(u) = ScanNumber(p(u))
        BY <1>1, <1>7, <3>2, <3>3, <3>6
      <4>2. /\ Agrees(x, y, Scan(s), Scan(u), Inner)
            /\ Scan(s).tok.type = "num"
        BY <3>2, <4>1, ScanNumberTogether
      <4>. QED  BY <4>2 DEF Agrees, Cuttable
    <3>7. CASE p(s).c \in Letters
      <4>1. Scan(s) = ScanWord(p(s)) /\ Scan(u) = ScanWord(p(u))
        BY <1>1, <1>7, <3>2, <3>3, <3>7
      <4>2. Agrees(x, y, Scan(s), Scan(u), Inner)
        BY <3>2, <4>1, ScanWordTogether
      <4>3. IsScanner(p(s))
        BY <3>2 DEF Together, Follows, On
      <4>4. Scan(s).tok.type \in {"bool", "nil"}
        BY <4>1, <4>3, ScanWordGets
      <4>. QED  BY <4>2, <4>4 DEF Agrees, Cuttable
    <3>8. CASE p(s).c \notin Punctuation \cup {Quote, "-"} \cup Digits
                              \cup Letters
      <4>1. Scan(s) = Fail(p(s), "parse")
        BY <1>1, <1>7, <1>11, <3>8
      <4>. QED  BY <1>9, <4>1, FailMoves DEF Follows, On
    <3>. QED  BY <3>4, <3>5, <3>6, <3>7, <3>8
  <2>. QED  BY <1>6, <2>2, <2>3, <2>4
<1>. QED  BY <1>10, <1>11

-----------------------------------------------------------------------------
(***************************************************************************)
(* Two parsers: alike before a token, or s has come to a token that was    *)
(* cut.                                                                    *)
(***************************************************************************)
Alike(x, y, s, u) ==
  /\ Near(x, y, s, u) /\ HasTokens(s) /\ HasTokens(u)
  /\ s.ahead = u.ahead /\ s.calls = u.calls /\ s.val = u.val
  /\ s.ahead # NoToken => s.ahead.type # "none" /\ Settled(x, u)

(* What the parser changes is not what the scanner reads. *)
SameScanner(s, m) ==
  /\ DOMAIN m = Fields /\ IsToken(m.tok)
  /\ m.in = s.in /\ m.size = s.size /\ m.pos = s.pos /\ m.look = s.look
  /\ m.c = s.c /\ m.err = s.err

LEMMA SameScannerFollows ==
  ASSUME NEW x, NEW s, Follows(x, s), NEW m, SameScanner(s, m)
  PROVE  Follows(x, m) /\ IsScanner(m) /\ m.pos = s.pos /\ m.err = s.err
         /\ m.size = s.size
<1>1. PICK k \in 0 .. Len(x.in) : On(x, s, k)
  BY DEF Follows
<1>2. IsScanner(m)
  BY <1>1 DEF On, SameScanner, IsScanner
<1>3. On(x, m, k)
  BY <1>1, <1>2 DEF On, SameScanner
<1>. QED  BY <1>2, <1>3 DEF Follows, SameScanner

LEMMA SameScannerNear ==
  ASSUME NEW x, NEW y, NEW s, NEW u, Near(x, y, s, u),
         NEW m, SameScanner(s, m), NEW n, SameScanner(u, n)
  PROVE  Near(x, y, m, n)
<1>1. Follows(x, s) /\ Follows(y, u)
  BY DEF Near
<1>2. Follows(x, m) /\ m.pos = s.pos /\ m.err = s.err
  BY <1>1, SameScannerFollows
<1>3. Follows(y, n) /\ n.pos = u.pos /\ n.err = u.err
  BY <1>1, SameScannerFollows
<1>. QED  BY <1>2, <1>3 DEF Near, Ok

LEMMA SameScannerCut ==
  ASSUME NEW x, NEW s, NEW class, Cut(x, s, class), NEW m, SameScanner(s, m)
  PROVE  Cut(x, m, class)
<1>. QED  BY SameScannerFollows, CutWithToken DEF Cut

LEMMA SameScannerSettled ==
  ASSUME NEW x, NEW s, Settled(x, s), NEW m, SameScanner(s, m)
  PROVE  Settled(x, m)
<1>. QED  BY DEF Settled, SameScanner

LEMMA SkipCut ==
  ASSUME NEW x, IsReading(x), NEW s, Cut(x, s, Inner)
  PROVE  Cut(x, SkipWhitespace(s), Inner)
<1> DEFINE t == SkipWhitespace(s)
<1>1. /\ Follows(x, s) /\ Ok(s) /\ s.pos < s.size
      /\ x.text[s.pos + 1] \in Inner
  BY DEF Cut
<1>2. /\ Follows(x, t) /\ s.pos <= t.pos /\ Blank(x, s.pos, t.pos)
      /\ t.err = s.err
  BY <1>1, SkipFollows
<1>3. s.pos \in Nat /\ t.pos \in Nat /\ t.size = s.size
  BY <1>1, <1>2, FollowsIsScanner
<1>4. t.pos = s.pos
  <2>1. SUFFICES ASSUME s.pos < t.pos  PROVE FALSE
    BY <1>2, <1>3
  <2>2. s.pos + 1 \in s.pos + 1 .. t.pos
    BY <1>3, <2>1
  <2>3. x.text[s.pos + 1] \in Space
    BY <1>2, <2>2 DEF Blank
  <2>4. Inner \cap Space = {}
    BY DEF Inner, Space, Newline, Alnum, Digits, Letters
  <2>. QED  BY <1>1, <2>3, <2>4
<1>. QED  BY <1>1, <1>2, <1>3, <1>4 DEF Cut, Ok

(* Peek, when it has to look for a token. *)
LEMMA PeekIs ==
  ASSUME NEW s, HasTokens(s), s.ahead = NoToken
  PROVE  LET t == Scan(s)
             k == SkipWhitespace(t)
         IN /\ Ok(Peek(s)) => Ok(t)
            /\ Ok(t) => /\ SameScanner(k, Peek(s)) /\ Peek(s).ahead = t.tok
                        /\ IsScanner(t) /\ k.tok = t.tok
<1> DEFINE t == Scan(s)
           k == SkipWhitespace(t)
           p == [k EXCEPT !.ahead = t.tok]
<1>1. Peek(s) = IF Ok(t) THEN p ELSE t
  BY DEF Peek, Then
<1>2. IsScanner(t)
  BY ScanGets DEF HasTokens, Gets, Moves
<1>3. IsScanner(k) /\ k.tok = t.tok
  BY <1>2, SkipWhitespaceMoves DEF Moves
<1>. HIDE DEF t, k
<1>4. SameScanner(k, p) /\ p.ahead = t.tok
  BY <1>3 DEF SameScanner, IsScanner, Fields
<1>. QED  BY <1>1, <1>2, <1>3, <1>4 DEF t, k

(* s finds no token, the same one, or one that is cut. *)
LEMMA PeekAlike ==
  ASSUME NEW x, NEW y, Compare(x, y), NEW s, NEW u, Alike(x, y, s, u),
         Ok(Peek(s))
  PROVE  LET p == Peek(s)
             q == Peek(u)
         IN \/ p.ahead = NoToken /\ Alike(x, y, p, u)
            \/ p.ahead # NoToken /\ Alike(x, y, p, q)
            \/ /\ Cut(x, p, Inner) /\ p.ahead.type \in Cuttable
               /\ s.ahead = NoToken
<1> DEFINE p == Peek(s)
           q == Peek(u)
<1>1. HasTokens(s) /\ HasTokens(u) /\ Near(x, y, s, u)
      /\ s.ahead = u.ahead /\ s.calls = u.calls /\ s.val = u.val
  BY DEF Alike
<1>2. CASE s.ahead # NoToken
  BY <1>1, <1>2 DEF Peek
<1>3. CASE s.ahead = NoToken
  <2> DEFINE t == Scan(s)
             v == Scan(u)
             k == SkipWhitespace(t)
             l == SkipWhitespace(v)
  <2>1. /\ Ok(t) /\ SameScanner(k, p) /\ p.ahead = t.tok /\ k.tok = t.tok
    BY <1>1, <1>3, PeekIs
  <2>2. Ok(v) => SameScanner(l, q) /\ q.ahead = v.tok
    BY <1>1, <1>3, PeekIs
  <2>3. /\ HasTokens(p) /\ p.calls = s.calls /\ p.val = s.val
        /\ HasTokens(q) /\ q.calls = u.calls /\ q.val = u.val
    BY <1>1, PeekReads DEF Reads
  <2>4. \/ t.tok = NoToken /\ Near(x, y, t, u)
        \/ Together(x, y, t, v) /\ t.tok.type # "none"
        \/ Cut(x, t, Inner) /\ t.tok.type \in Cuttable
    BY <1>1, <2>1, ScanNear
  <2>. HIDE DEF p, q, t, v
  <2>5. CASE t.tok = NoToken /\ Near(x, y, t, u)
    <3>1. Near(x, y, k, u)
      BY <2>5, SkipNear
    <3>2. SameScanner(u, u)
      BY <1>1 DEF HasTokens, IsScanner, SameScanner
    <3>. HIDE DEF k, l
    <3>3. Near(x, y, p, u)
      BY <2>1, <3>1, <3>2, SameScannerNear
    <3>. QED  BY <1>1, <1>3, <2>1, <2>3, <2>5, <3>3 DEF Alike, p
  <2>6. CASE Together(x, y, t, v) /\ t.tok.type # "none"
    <3>1. Near(x, y, k, l) /\ Settled(x, l)
      BY <2>6, TogetherIsNear, SkipNear
    <3>2. Ok(v) /\ t.tok = v.tok
      BY <2>6 DEF Together
    <3>. HIDE DEF k, l
    <3>3. Near(x, y, p, q) /\ Settled(x, q)
      BY <2>1, <2>2, <3>1, <3>2, SameScannerNear, SameScannerSettled
    <3>4. t.tok # NoToken
      BY <2>6, NoTokenIsToken
    <3>. QED
      BY <1>1, <2>1, <2>2, <2>3, <2>6, <3>2, <3>3, <3>4 DEF Alike, p, q
  <2>7. CASE Cut(x, t, Inner) /\ t.tok.type \in Cuttable
    <3>1. Cut(x, k, Inner)
      BY <2>7, SkipCut DEF Compare
    <3>. HIDE DEF k, l
    <3>2. Cut(x, p, Inner)
      BY <2>1, <3>1, SameScannerCut
    <3>. QED  BY <1>3, <2>1, <2>7, <3>2 DEF p
  <2>. QED  BY <2>4, <2>5, <2>6, <2>7
<1>. QED  BY <1>2, <1>3

LEMMA NextTokenIs ==
  ASSUME NEW s, HasTokens(s)
  PROVE  LET p == Peek(s)
             n == NextToken(s)
         IN /\ Ok(n) => Ok(p) /\ p.ahead # NoToken
            /\ Ok(p) /\ p.ahead # NoToken =>
                 /\ SameScanner(p, n) /\ HasTokens(n) /\ Ok(n)
                 /\ n.tok = p.ahead /\ n.ahead = NoToken
                 /\ n.calls = s.calls /\ n.val = s.val
<1> DEFINE p == Peek(s)
           n == NextToken(s)
           m == [p EXCEPT !.tok = p.ahead, !.ahead = NoToken]
<1>1. HasTokens(p)
  BY PeekReads DEF Reads
<1>2. n = IF Ok(p) THEN IF p.ahead = NoToken THEN Fail(p, "parse") ELSE m
          ELSE p
  BY DEF NextToken, Then
<1>3. ~Ok(Fail(p, "parse"))
  BY <1>1, FailReads
<1>4. HasTokens(n) /\ n.calls = s.calls /\ n.val = s.val
  BY NextTokenReads DEF ReadsMore, Reads
<1>. HIDE DEF p
<1>5. /\ SameScanner(p, m) /\ m.tok = p.ahead /\ m.ahead = NoToken
      /\ m.err = p.err
  BY <1>1 DEF HasTokens, SameScanner, IsScanner, Fields
<1>. HIDE DEF m, n
<1>. QED  BY <1>2, <1>3, <1>4, <1>5 DEF p, n, Ok

LEMMA NextTokenAlike ==
  ASSUME NEW x, NEW y, Compare(x, y), NEW s, NEW u, Alike(x, y, s, u),
         Ok(NextToken(s))
  PROVE  LET n == NextToken(s)
             m == NextToken(u)
         IN /\ n.ahead = NoToken /\ n.tok = Peek(s).ahead
            /\ \/ /\ Alike(x, y, n, m) /\ n.tok = m.tok /\ Settled(x, m)
                  /\ n.tok.type # "none" /\ Peek(u).ahead = Peek(s).ahead
                  /\ Ok(Peek(u))
               \/ /\ Cut(x, n, Inner) /\ n.tok.type \in Cuttable
                  /\ s.ahead = NoToken
<1> DEFINE p == Peek(s)
           q == Peek(u)
           n == NextToken(s)
           m == NextToken(u)
<1>1. HasTokens(s) /\ HasTokens(u) /\ s.calls = u.calls /\ s.val = u.val
  BY DEF Alike
<1>2. /\ Ok(p) /\ p.ahead # NoToken
      /\ SameScanner(p, n) /\ HasTokens(n) /\ Ok(n)
      /\ n.tok = p.ahead /\ n.ahead = NoToken
      /\ n.calls = s.calls /\ n.val = s.val
  BY <1>1, NextTokenIs
<1>3. \/ Alike(x, y, p, q)
      \/ Cut(x, p, Inner) /\ p.ahead.type \in Cuttable /\ s.ahead = NoToken
  BY <1>2, PeekAlike
<1>4. Ok(q) /\ q.ahead # NoToken =>
        /\ SameScanner(q, m) /\ HasTokens(m) /\ Ok(m)
        /\ m.tok = q.ahead /\ m.ahead = NoToken
        /\ m.calls = u.calls /\ m.val = u.val
  BY <1>1, NextTokenIs
<1>. HIDE DEF p, q, n, m
<1>5. CASE Alike(x, y, p, q)
  <2>1. /\ Near(x, y, p, q) /\ p.ahead = q.ahead /\ Settled(x, q)
        /\ p.ahead.type # "none"
    BY <1>2, <1>5 DEF Alike
  <2>2. Ok(q)
    BY <2>1 DEF Near
  <2>3. SameScanner(q, m) /\ HasTokens(m) /\ m.tok = q.ahead
        /\ m.ahead = NoToken /\ m.calls = u.calls /\ m.val = u.val
    BY <1>2, <1>4, <2>1, <2>2
  <2>4. Near(x, y, n, m) /\ Settled(x, m)
    BY <1>2, <2>1, <2>3, SameScannerNear, SameScannerSettled
  <2>5. Alike(x, y, n, m)
    BY <1>1, <1>2, <2>3, <2>4 DEF Alike
  <2>. QED  BY <1>2, <2>1, <2>2, <2>3, <2>4, <2>5 DEF p, q, n, m
<1>6. CASE Cut(x, p, Inner) /\ p.ahead.type \in Cuttable /\ s.ahead = NoToken
  <2>1. Cut(x, n, Inner)
    BY <1>2, <1>6, SameScannerCut
  <2>. QED  BY <1>2, <1>6, <2>1 DEF n, p
<1>. QED  BY <1>3, <1>5, <1>6

LEMMA EatIs ==
  ASSUME NEW s, HasTokens(s), NEW type
  PROVE  /\ Ok(Eat(s, type)) => /\ Ok(NextToken(s))
                                /\ NextToken(s).tok.type = type
         /\ Ok(NextToken(s)) /\ NextToken(s).tok.type = type =>
              Eat(s, type) = NextToken(s)
<1> DEFINE n == NextToken(s)
<1>1. HasTokens(n)
  BY NextTokenReads DEF ReadsMore, Reads
<1>2. Eat(s, type) = IF Ok(n) THEN IF n.tok.type = type THEN n
                                   ELSE Fail(n, "parse")
                     ELSE n
  BY DEF Eat, Then
<1>3. ~Ok(Fail(n, "parse"))
  BY <1>1, FailReads
<1>. HIDE DEF n
<1>. QED  BY <1>2, <1>3 DEF n

LEMMA EatAlike ==
  ASSUME NEW x, NEW y, Compare(x, y), NEW s, NEW u, Alike(x, y, s, u),
         NEW type, type \notin Cuttable, Ok(Eat(s, type))
  PROVE  LET n == Eat(s, type)
             m == Eat(u, type)
         IN /\ Alike(x, y, n, m) /\ n.tok = m.tok /\ Settled(x, m)
            /\ n.ahead = NoToken
            /\ Ok(Peek(u))
<1>1. HasTokens(s) /\ HasTokens(u)
  BY DEF Alike
<1>2. /\ Ok(NextToken(s)) /\ NextToken(s).tok.type = type
      /\ Eat(s, type) = NextToken(s)
  BY <1>1, EatIs
<1> DEFINE n == NextToken(s)
           m == NextToken(u)
<1>3. /\ n.ahead = NoToken /\ n.tok = Peek(s).ahead
      /\ Alike(x, y, n, m) /\ n.tok = m.tok /\ Settled(x, m)
      /\ n.tok.type # "none" /\ Peek(u).ahead = Peek(s).ahead /\ Ok(Peek(u))
  BY <1>2, NextTokenAlike
<1>4. Ok(m)
  BY <1>3 DEF Alike, Near
<1>5. Eat(u, type) = m
  BY <1>1, <1>2, <1>3, <1>4, EatIs
<1>. QED  BY <1>2, <1>3, <1>5

(* A token that has been looked at is the next one. *)
LEMMA EatOfPeeked ==
  ASSUME NEW s, NEW type, Peek(s).ahead # NoToken, Ok(Peek(s))
  PROVE  Eat(Peek(s), type) = Eat(s, type)
<1>1. Peek(Peek(s)) = Peek(s)
  BY DEF Peek
<1>2. NextToken(Peek(s)) = NextToken(s)
  BY <1>1 DEF NextToken
<1>. QED  BY <1>2 DEF Eat

(* What only changes the calls and the value. *)
LEMMA AlikeChanged ==
  ASSUME NEW x, NEW y, NEW s, NEW u, Alike(x, y, s, u),
         NEW m, SameScanner(s, m), m.ahead = s.ahead,
         NEW n, SameScanner(u, n), n.ahead = u.ahead,
         m.calls = n.calls, m.val = n.val
  PROVE  Alike(x, y, m, n) /\ (Settled(x, u) => Settled(x, n))
<1>1. /\ Near(x, y, s, u) /\ HasTokens(s) /\ HasTokens(u)
      /\ s.ahead = u.ahead
      /\ s.ahead # NoToken => s.ahead.type # "none" /\ Settled(x, u)
  BY DEF Alike
<1>2. Near(x, y, m, n)
  BY <1>1, SameScannerNear
<1>3. Settled(x, u) => Settled(x, n)
  BY SameScannerSettled
<1>4. IsScanner(m) /\ IsScanner(n)
  BY <1>1, SameScannerFollows DEF Near
<1>5. HasTokens(m) /\ HasTokens(n)
  BY <1>1, <1>4 DEF HasTokens
<1>. QED  BY <1>1, <1>2, <1>3, <1>5 DEF Alike

LEMMA CallsChanged ==
  ASSUME NEW s, IsScanner(s), NEW calls, NEW m, m = [s EXCEPT !.calls = calls]
  PROVE  /\ SameScanner(s, m) /\ m.ahead = s.ahead
         /\ m.calls = calls /\ m.val = s.val
<1>. QED  BY DEF SameScanner, IsScanner, Fields

LEMMA ReturnsIs ==
  ASSUME NEW s, IsScanner(s), NEW v
  PROVE  LET t == Returns(s, v)
         IN /\ SameScanner(s, t) /\ t.ahead = s.ahead
            /\ t.calls = IF Len(s.calls) = 1 THEN <<>>
                         ELSE <<Extended(s.calls[2], v)>>
                                \o Tail(Tail(s.calls))
            /\ t.val = IF Len(s.calls) = 1 THEN v ELSE s.val
<1> DEFINE calls == <<Extended(s.calls[2], v)>> \o Tail(Tail(s.calls))
<1>1. Returns(s, v) = IF Len(s.calls) = 1
                      THEN [s EXCEPT !.calls = <<>>, !.val = v]
                      ELSE [s EXCEPT !.calls = calls]
  BY DEF Returns
<1>. HIDE DEF calls
<1>2. CASE Len(s.calls) = 1
  <2>1. Returns(s, v) = [s EXCEPT !.calls = <<>>, !.val = v]
    BY <1>1, <1>2
  <2>. QED  BY <1>2, <2>1 DEF SameScanner, IsScanner, Fields
<1>3. CASE Len(s.calls) # 1
  <2>1. Returns(s, v) = [s EXCEPT !.calls = calls]
    BY <1>1, <1>3
  <2>. HIDE DEF calls
  <2>2. LET t == Returns(s, v)
        IN SameScanner(s, t) /\ t.ahead = s.ahead /\ t.calls = calls
           /\ t.val = s.val
    BY <2>1, CallsChanged
  <2>. QED  BY <1>3, <2>2 DEF calls
<1>. QED  BY <1>2, <1>3

LEMMA ReturnsAlike ==
  ASSUME NEW x, NEW y, NEW s, NEW u, Alike(x, y, s, u), NEW v
  PROVE  /\ Alike(x, y, Returns(s, v), Returns(u, v))
         /\ Settled(x, u) => Settled(x, Returns(u, v))
<1> DEFINE m == Returns(s, v)
           n == Returns(u, v)
<1>1. IsScanner(s) /\ IsScanner(u) /\ s.calls = u.calls /\ s.val = u.val
  BY DEF Alike, HasTokens
<1>2. /\ SameScanner(s, m) /\ m.ahead = s.ahead
      /\ m.calls = IF Len(s.calls) = 1 THEN <<>>
                   ELSE <<Extended(s.calls[2], v)>> \o Tail(Tail(s.calls))
      /\ m.val = IF Len(s.calls) = 1 THEN v ELSE s.val
  BY <1>1, ReturnsIs
<1>3. /\ SameScanner(u, n) /\ n.ahead = u.ahead
      /\ n.calls = IF Len(u.calls) = 1 THEN <<>>
                   ELSE <<Extended(u.calls[2], v)>> \o Tail(Tail(u.calls))
      /\ n.val = IF Len(u.calls) = 1 THEN v ELSE u.val
  BY <1>1, ReturnsIs
<1>. HIDE DEF m, n
<1>4. m.calls = n.calls /\ m.val = n.val
  BY <1>1, <1>2, <1>3
<1>5. Alike(x, y, m, n) /\ (Settled(x, u) => Settled(x, n))
  BY <1>2, <1>3, <1>4, AlikeChanged
<1>. QED  BY <1>5 DEF m, n

LEMMA KeyAlike ==
  ASSUME NEW x, NEW y, Compare(x, y), NEW s, NEW u, Alike(x, y, s, u),
         Ok(Key(s))
  PROVE  Alike(x, y, Key(s), Key(u))
<1> DEFINE e(r) == Eat(r, "str")
           calls(k) == [k.calls EXCEPT ![1].key = k.tok.text]
           m(k) == [k EXCEPT !.calls = calls(k)]
<1>1. /\ Key(s) = IF Ok(e(s)) THEN Eat([e(s) EXCEPT
                                         !.calls[1].key = e(s).tok.text], ":")
                  ELSE e(s)
      /\ Key(u) = IF Ok(e(u)) THEN Eat([e(u) EXCEPT
                                         !.calls[1].key = e(u).tok.text], ":")
                  ELSE e(u)
  BY DEF Key, Then
<1>2. "str" \notin Cuttable /\ ":" \notin Cuttable
  BY DEF Cuttable
<1>3. Ok(e(s))
  BY <1>1
<1>4. Alike(x, y, e(s), e(u)) /\ e(s).tok = e(u).tok
  BY <1>2, <1>3, EatAlike
<1>. HIDE DEF e
<1>5. /\ IsScanner(e(s)) /\ IsScanner(e(u)) /\ e(s).calls = e(u).calls
      /\ e(s).val = e(u).val /\ Ok(e(u))
  BY <1>4 DEF Alike, HasTokens, Near
<1>6. /\ [e(s) EXCEPT !.calls[1].key = e(s).tok.text] = m(e(s))
      /\ [e(u) EXCEPT !.calls[1].key = e(u).tok.text] = m(e(u))
  BY <1>5 DEF IsScanner, Fields
<1>7. calls(e(s)) = calls(e(u))
  BY <1>4, <1>5
<1>. HIDE DEF calls
<1>8. /\ SameScanner(e(s), m(e(s))) /\ m(e(s)).ahead = e(s).ahead
      /\ m(e(s)).calls = calls(e(s)) /\ m(e(s)).val = e(s).val
      /\ SameScanner(e(u), m(e(u))) /\ m(e(u)).ahead = e(u).ahead
      /\ m(e(u)).calls = calls(e(u)) /\ m(e(u)).val = e(u).val
  BY <1>5, CallsChanged
<1>. HIDE DEF m
<1>9. Alike(x, y, m(e(s)), m(e(u)))
  BY <1>4, <1>5, <1>7, <1>8, AlikeChanged
<1>10. Key(s) = Eat(m(e(s)), ":") /\ Key(u) = Eat(m(e(u)), ":")
  BY <1>1, <1>3, <1>5, <1>6
<1>. QED  BY <1>2, <1>9, <1>10, EatAlike

(***************************************************************************)
(* After a token that was cut: it waits for its call, or it has become a   *)
(* value that the rest of the list, or the end of the document, should     *)
(* follow.  In either case the parser fails.                               *)
(***************************************************************************)
Doomed(x, s) ==
  /\ Cut(x, s, Inner)
  /\ \/ /\ s.ahead.type \in Cuttable
        /\ s.calls # <<>> /\ Head(s.calls).type = "none"
     \/ /\ s.ahead = NoToken
        /\ \/ s.calls = <<>>
           \/ Head(s.calls).type # "none" /\ Head(s.calls).values # <<>>

LEMMA CuttableIs ==
  /\ NoToken.type \notin Cuttable /\ "none" \notin Cuttable
  /\ \A type : Closing(type) \notin Cuttable /\ Closing(type) # "none"
  /\ "," \notin Cuttable /\ "str" \notin Cuttable /\ ":" \notin Cuttable
<1>. QED  BY NoTokenIsToken DEF Cuttable, Closing

LEMMA ExtendedGrows ==
  ASSUME NEW c, IsList(c), NEW v
  PROVE  Extended(c, v).type # "none" /\ Extended(c, v).values # <<>>
<1> DEFINE values == IF c.type = "[" THEN Append(c.values, v)
                     ELSE With(c.values, c.key, v)
           e == [c EXCEPT !.values = values]
<1>1. Extended(c, v) = e
  BY DEF Extended
<1>2. values # <<>>
  <2>1. CASE c.type = "["
    <3>1. PICK S : c.values \in Seq(S)
      BY <2>1 DEF IsList, IsCall
    <3>2. c.values \in Seq(S \cup {v})
      BY <3>1
    <3>3. Append(c.values, v) # <<>>
      BY <3>2, AppendProperties
    <3>. QED  BY <2>1, <3>3
  <2>2. CASE c.type # "["
    <3>1. c.key \in DOMAIN With(c.values, c.key, v)
      BY DEF With
    <3>2. DOMAIN <<>> = {}
      OBVIOUS
    <3>. QED  BY <2>2, <3>1, <3>2
  <2>. QED  BY <2>1, <2>2
<1>. HIDE DEF values
<1>3. e.type = c.type /\ e.values = values
  BY DEF IsList, IsCall
<1>. QED  BY <1>1, <1>2, <1>3 DEF IsList

LEMMA ReturnsGrows ==
  ASSUME NEW s, IsScanner(s), IsStack(s.calls), s.calls # <<>>, NEW v
  PROVE  LET t == Returns(s, v)
         IN \/ t.calls = <<>>
            \/ Head(t.calls).type # "none" /\ Head(t.calls).values # <<>>
<1> DEFINE t == Returns(s, v)
           lists == Tail(s.calls)
           c == Extended(s.calls[2], v)
           calls == <<c>> \o Tail(lists)
<1>1. t.calls = IF Len(s.calls) = 1 THEN <<>> ELSE calls
  BY ReturnsIs
<1>2. CASE Len(s.calls) = 1
  BY <1>1, <1>2
<1>3. CASE Len(s.calls) # 1
  <2>1. PICK S : s.calls \in Seq(S)
    BY DEF IsStack
  <2>2. /\ Len(s.calls) \in Nat \ {0} /\ Len(lists) = Len(s.calls) - 1
        /\ \A i \in 1 .. Len(lists) : lists[i] = s.calls[i + 1]
    BY <2>1, HeadTailProperties, EmptySeq
  <2>3. IsLists(lists)
    BY DEF IsStack
  <2>. HIDE DEF lists
  <2>4. 1 \in 1 .. Len(lists) /\ lists # <<>>
    <3>1. Len(lists) \in Nat \ {0} /\ Len(<<>>) = 0
      BY <1>3, <2>2, EmptySeq
    <3>. QED  BY <3>1
  <2>5. s.calls[2] = lists[1]
    <3>1. lists[1] = s.calls[1 + 1]
      BY <2>2, <2>4
    <3>. QED  BY <3>1
  <2>6. IsList(s.calls[2]) /\ IsLists(Tail(lists))
    BY <2>3, <2>4, <2>5, StackFromLists DEF IsLists
  <2>7. c.type # "none" /\ c.values # <<>>
    BY <2>6, ExtendedGrows
  <2>. HIDE DEF c
  <2>8. PICK T : Tail(lists) \in Seq(T)
    BY <2>6 DEF IsLists
  <2>9. Tail(lists) \in Seq(T \cup {c})
    BY <2>8
  <2>10. Head(calls) = c
    BY <2>9, HeadAndTail
  <2>. HIDE DEF calls, t
  <2>. QED  BY <1>1, <1>3, <2>7, <2>10 DEF t
<1>. QED  BY <1>2, <1>3

(* The value of a token that was cut. *)
LEMMA ValueCut ==
  ASSUME NEW x, NEW s, HasTokens(s), IsStack(s.calls), s.calls # <<>>,
         Cut(x, Peek(s), Inner), Peek(s).ahead.type \in Cuttable
  PROVE  Doomed(x, Value(s))
<1> DEFINE p == Peek(s)
           n == NextToken(p)
           v == Tagged(p.ahead.type, p.ahead.text)
<1>1. HasTokens(p) /\ p.calls = s.calls /\ Ok(p) /\ p.ahead # NoToken
  BY PeekReads, CuttableIs DEF Reads, Cut
<1>2. Value(s) = Returns(n, v)
  <2>1. p.ahead.type \in {"num", "str", "bool", "nil"}
    BY DEF Cuttable
  <2>. HIDE DEF n, v
  <2>. QED  BY <1>1, <2>1 DEF Value, Then, n, v
<1>3. Peek(p) = p
  BY <1>1 DEF Peek
<1>4. SameScanner(p, n) /\ HasTokens(n) /\ n.ahead = NoToken
      /\ n.calls = s.calls
  BY <1>1, <1>3, NextTokenIs
<1>5. Cut(x, n, Inner)
  BY <1>4, SameScannerCut
<1>. HIDE DEF n, v
<1>6. SameScanner(n, Value(s)) /\ Value(s).ahead = NoToken
  BY <1>2, <1>4, ReturnsIs DEF HasTokens
<1>7. \/ Value(s).calls = <<>>
      \/ /\ Head(Value(s).calls).type # "none"
         /\ Head(Value(s).calls).values # <<>>
  BY <1>2, <1>4, ReturnsGrows DEF HasTokens
<1>8. Cut(x, Value(s), Inner)
  BY <1>5, <1>6, SameScannerCut
<1>. QED  BY <1>6, <1>7, <1>8 DEF Doomed

LEMMA ValueAlike ==
  ASSUME NEW x, NEW y, Compare(x, y), NEW s, NEW u, Alike(x, y, s, u),
         IsStack(s.calls), s.calls # <<>>, Ok(Value(s))
  PROVE  \/ Alike(x, y, Value(s), Value(u)) /\ Settled(x, Value(u))
         \/ Doomed(x, Value(s))
<1> DEFINE p(r) == Peek(r)
           n(r) == NextToken(p(r))
           type(r) == p(r).ahead.type
           v(r) == Tagged(type(r), p(r).ahead.text)
           calls(r) == [n(r).calls EXCEPT ![1].type = type(r)]
           open(r) == [n(r) EXCEPT !.calls = calls(r)]
<1>1. ASSUME NEW r, HasTokens(r)
      PROVE  /\ ~Ok(p(r)) => Value(r) = p(r)
             /\ Ok(p(r)) /\ type(r) \in {"num", "str", "bool", "nil"} =>
                  Value(r) = Returns(n(r), v(r))
             /\ Ok(p(r)) /\ type(r) \in {"[", "{"} =>
                  Value(r) = open(r)
             /\ ~(type(r) \in {"num", "str", "bool", "nil", "[", "{"}) =>
                  ~Ok(Value(r))
  <2>1. HasTokens(p(r))
    BY <1>1, PeekReads DEF Reads
  <2>2. ~Ok(Fail(p(r), "parse"))
    BY <2>1, FailReads
  <2>3. IsScanner(n(r))
    BY <2>1, NextTokenReads DEF ReadsMore, Reads, HasTokens
  <2>4. open(r) = [n(r) EXCEPT !.calls[1].type = type(r)]
    <3>. HIDE DEF n, type
    <3>. QED  BY <2>3 DEF IsScanner, Fields
  <2> DEFINE m == [NextToken(p(r)) EXCEPT !.calls[1].type = p(r).ahead.type]
  <2>5. Value(r) =
          IF ~Ok(p(r)) THEN p(r)
          ELSE CASE type(r) \in {"num", "str", "bool", "nil"} ->
                      Returns(n(r), v(r))
                 [] type(r) \in {"[", "{"} -> m
                 [] OTHER -> Fail(p(r), "parse")
    BY DEF Value, Then
  <2>6. m = open(r)
    BY <2>4
  <2>. HIDE DEF m, open, v, n, p, type
  <2>. QED  BY <2>2, <2>5, <2>6
<1>2. HasTokens(s) /\ HasTokens(u)
  BY DEF Alike
<1>3. Ok(p(s)) /\ type(s) \in {"num", "str", "bool", "nil", "[", "{"}
  <2>. HIDE DEF p, type, n, v, open
  <2>. QED  BY <1>1, <1>2
<1>4. p(s).ahead # NoToken
  BY <1>3, NoTokenIsToken
<1>5. \/ Alike(x, y, p(s), p(u))
      \/ Cut(x, p(s), Inner) /\ type(s) \in Cuttable
  BY <1>3, <1>4, PeekAlike
<1>6. CASE Cut(x, p(s), Inner) /\ type(s) \in Cuttable
  BY <1>2, <1>6, ValueCut
<1>7. CASE Alike(x, y, p(s), p(u))
  <2>1. Ok(p(u)) /\ p(u).ahead = p(s).ahead /\ HasTokens(p(s))
    BY <1>7 DEF Alike, Near
  <2>2. Peek(p(s)) = p(s)
    BY <1>4 DEF Peek
  <2>3. Ok(n(s))
    BY <1>3, <1>4, <2>1, NextOfPeeked
  <2>4. Alike(x, y, n(s), n(u)) /\ Settled(x, n(u))
    BY <1>4, <1>7, <2>3, NextTokenAlike
  <2>5. v(s) = v(u) /\ type(s) = type(u)
    BY <2>1
  <2>6. n(s).calls = n(u).calls /\ n(s).val = n(u).val
        /\ IsScanner(n(s)) /\ IsScanner(n(u))
    BY <2>4 DEF Alike, HasTokens
  <2>7. CASE type(s) \in {"num", "str", "bool", "nil"}
    <3>1. Value(s) = Returns(n(s), v(s)) /\ Value(u) = Returns(n(u), v(s))
      <4>. HIDE DEF p, type, n, v, open
      <4>. QED  BY <1>1, <1>2, <1>3, <2>1, <2>5, <2>7
    <3>. HIDE DEF p, type, n, v, open
    <3>. QED  BY <2>4, <3>1, ReturnsAlike
  <2>8. CASE type(s) \in {"[", "{"}
    <3>1. Value(s) = open(s) /\ Value(u) = open(u)
      <4>. HIDE DEF p, type, n, v, open
      <4>. QED  BY <1>1, <1>2, <1>3, <2>1, <2>5, <2>8
    <3>2. calls(s) = calls(u)
      <4>. HIDE DEF p, type, n
      <4>. QED  BY <2>5, <2>6
    <3>. HIDE DEF n, calls
    <3>3. /\ SameScanner(n(s), open(s)) /\ open(s).ahead = n(s).ahead
          /\ open(s).calls = calls(s) /\ open(s).val = n(s).val
      BY <2>6, CallsChanged
    <3>4. /\ SameScanner(n(u), open(u)) /\ open(u).ahead = n(u).ahead
          /\ open(u).calls = calls(u) /\ open(u).val = n(u).val
      BY <2>6, CallsChanged
    <3>. HIDE DEF open
    <3>. QED  BY <2>4, <2>6, <3>1, <3>2, <3>3, <3>4, AlikeChanged
  <2>. QED  BY <1>3, <2>7, <2>8
<1>. QED  BY <1>5, <1>6, <1>7

(* Element, by its token. *)
LEMMA ElementIs ==
  ASSUME NEW s, NEW list, list = Head(s.calls),
         NEW close, close = Closing(list.type), NEW p, p = Peek(s),
         NEW e, e = Eat(p, close), NEW q, q = Separated(p, list.values = <<>>),
         NEW k, k = IF ~Ok(q) \/ list.type = "[" THEN q ELSE Key(q)
  PROVE  Element(s) =
           IF ~Ok(p) THEN p
           ELSE IF p.ahead.type \in {"none", close}
           THEN IF Ok(e) THEN Returns(e, ListOf(list)) ELSE e
           ELSE IF Ok(k) THEN Called(k) ELSE k
<1>. QED  BY DEF Element, Then

LEMMA CalledAlike ==
  ASSUME NEW x, NEW y, NEW s, NEW u, Alike(x, y, s, u)
  PROVE  Alike(x, y, Called(s), Called(u))
<1> DEFINE calls == <<Call>> \o s.calls
<1>1. IsScanner(s) /\ IsScanner(u) /\ s.calls = u.calls /\ s.val = u.val
  BY DEF Alike, HasTokens
<1>2. Called(s) = [s EXCEPT !.calls = calls]
      /\ Called(u) = [u EXCEPT !.calls = calls]
  BY <1>1 DEF Called
<1>. HIDE DEF calls
<1>3. /\ SameScanner(s, Called(s)) /\ Called(s).ahead = s.ahead
      /\ Called(s).calls = calls /\ Called(s).val = s.val
  BY <1>1, <1>2, CallsChanged
<1>4. /\ SameScanner(u, Called(u)) /\ Called(u).ahead = u.ahead
      /\ Called(u).calls = calls /\ Called(u).val = u.val
  BY <1>1, <1>2, CallsChanged
<1>. QED  BY <1>1, <1>3, <1>4, AlikeChanged

LEMMA CalledStack ==
  ASSUME NEW s, IsScanner(s), IsStack(s.calls), Lists(s)
  PROVE  /\ SameScanner(s, Called(s)) /\ Called(s).ahead = s.ahead
         /\ Called(s).calls # <<>> /\ Head(Called(s).calls).type = "none"
<1> DEFINE calls == <<Call>> \o s.calls
<1>1. IsLists(s.calls)
  BY ListsFromStack DEF Lists
<1>2. calls # <<>> /\ Head(calls) = Call
  BY <1>1, PushCall, CallIsCall
<1>3. Called(s) = [s EXCEPT !.calls = calls]
  BY DEF Called
<1>. HIDE DEF calls
<1>4. SameScanner(s, Called(s)) /\ Called(s).ahead = s.ahead
      /\ Called(s).calls = calls
  BY <1>3, CallsChanged
<1>. QED  BY <1>2, <1>4, CallIsCall

LEMMA ElementAlike ==
  ASSUME NEW x, NEW y, Compare(x, y), NEW s, NEW u, Alike(x, y, s, u),
         IsStack(s.calls), Lists(s), Ok(Element(s))
  PROVE  \/ /\ Alike(x, y, Element(s), Element(u))
            /\ Element(u).calls = <<>> => Settled(x, Element(u))
         \/ Doomed(x, Element(s))
<1> DEFINE list == Head(s.calls)
           close == Closing(list.type)
           first == list.values = <<>>
           p(r) == Peek(r)
           e(r) == Eat(p(r), close)
           q(r) == Separated(p(r), first)
           k(r) == IF ~Ok(q(r)) \/ list.type = "[" THEN q(r) ELSE Key(q(r))
<1>1. HasTokens(s) /\ HasTokens(u) /\ s.calls = u.calls
  BY DEF Alike
<1>2. ASSUME NEW r, r.calls = s.calls
      PROVE  Element(r) =
               IF ~Ok(p(r)) THEN p(r)
               ELSE IF p(r).ahead.type \in {"none", close}
               THEN IF Ok(e(r)) THEN Returns(e(r), ListOf(list)) ELSE e(r)
               ELSE IF Ok(k(r)) THEN Called(k(r)) ELSE k(r)
  BY <1>2, ElementIs
<1>3. Ok(p(s))
  <2>. HIDE DEF p, e, k
  <2>. QED  BY <1>2
<1>4. HasTokens(p(s)) /\ p(s).calls = s.calls
  BY <1>1, PeekReads DEF Reads
<1>5. close \notin Cuttable /\ close # "none" /\ NoToken.type = "none"
      /\ "," \notin Cuttable
  BY CuttableIs, NoTokenIsToken
<1>6. \/ p(s).ahead = NoToken /\ Alike(x, y, p(s), u)
      \/ p(s).ahead # NoToken /\ Alike(x, y, p(s), p(u))
      \/ Cut(x, p(s), Inner) /\ p(s).ahead.type \in Cuttable
  BY <1>3, PeekAlike
<1>. HIDE DEF close
<1>7. CASE p(s).ahead = NoToken /\ Alike(x, y, p(s), u)
  <2>1. Element(s) = Returns(e(s), ListOf(list)) /\ Ok(e(s))
    <3>. HIDE DEF p, e, k, list
    <3>. QED  BY <1>2, <1>3, <1>5, <1>7
  <2>2. /\ Alike(x, y, e(s), Eat(u, close)) /\ Settled(x, Eat(u, close))
        /\ Ok(p(u)) /\ p(u).ahead.type = close
    <3>1. Ok(Eat(p(s), close)) /\ Alike(x, y, p(s), u)
      BY <1>7, <2>1
    <3> DEFINE n == Eat(p(s), close)
               m == Eat(u, close)
    <3>2. Alike(x, y, n, m) /\ Settled(x, m)
      <4>. HIDE DEF p
      <4>. QED  BY <1>5, <3>1, EatAlike
    <3>3. Ok(Peek(u))
      <4>. HIDE DEF p
      <4>. QED  BY <1>5, <3>1, EatAlike
    <3>4. Peek(u).ahead.type = close
      <4>1. Ok(m)
        BY <3>2 DEF Alike, Near
      <4>2. Ok(NextToken(u)) /\ NextToken(u).tok.type = close
        BY <1>1, <4>1, EatIs
      <4>. QED  BY <1>1, <4>2, NextTokenIs
    <3>. QED  BY <3>2, <3>3, <3>4
  <2>3. Eat(u, close) = e(u)
    BY <1>5, <2>2, EatOfPeeked
  <2>4. Ok(e(u))
    BY <2>2, <2>3 DEF Alike, Near
  <2>5. Element(u) = Returns(e(u), ListOf(list))
    <3>. HIDE DEF p, e, k, list
    <3>. QED  BY <1>1, <1>2, <2>2, <2>4
  <2>. HIDE DEF e, list
  <2>. QED  BY <2>1, <2>2, <2>3, <2>5, ReturnsAlike
<1>8. CASE p(s).ahead # NoToken /\ Alike(x, y, p(s), p(u))
  <2>1. p(s).ahead = p(u).ahead /\ Ok(p(u)) /\ p(s).ahead.type # "none"
        /\ IsStack(p(s).calls)
    BY <1>4, <1>8 DEF Alike, Near
  <2>2. CASE p(s).ahead.type = close
    <3>1. Element(s) = Returns(e(s), ListOf(list)) /\ Ok(e(s))
      <4>. HIDE DEF p, e, k, list
      <4>. QED  BY <1>2, <1>3, <2>2
    <3>2. Alike(x, y, e(s), e(u)) /\ Settled(x, e(u))
      BY <1>5, <1>8, <3>1, EatAlike
    <3>3. Ok(e(u))
      BY <3>2 DEF Alike, Near
    <3>4. Element(u) = Returns(e(u), ListOf(list))
      <4>. HIDE DEF p, e, k, list
      <4>. QED  BY <1>1, <1>2, <2>1, <2>2, <3>3
    <3>. HIDE DEF e, list
    <3>. QED  BY <3>1, <3>2, <3>4, ReturnsAlike
  <2>3. CASE p(s).ahead.type # close
    <3>1. Element(s) = Called(k(s)) /\ Ok(k(s))
      <4>. HIDE DEF p, e, k, list
      <4>. QED  BY <1>2, <1>3, <2>1, <2>3
    <3>2. Ok(q(s))
      <4>. HIDE DEF q
      <4>. QED  BY <3>1
    <3>3. Alike(x, y, q(s), q(u))
      <4>1. CASE first
        BY <1>8, <4>1 DEF Separated
      <4>2. CASE ~first
        <5>. HIDE DEF first, p
        <5>1. q(s) = Eat(p(s), ",") /\ q(u) = Eat(p(u), ",")
          BY <4>2 DEF Separated
        <5>2. Ok(Eat(p(s), ","))
          BY <3>2, <5>1
        <5>3. Alike(x, y, Eat(p(s), ","), Eat(p(u), ","))
          BY <1>5, <1>8, <5>2, EatAlike
        <5>. HIDE DEF q
        <5>. QED  BY <5>1, <5>3
      <4>. QED  BY <4>1, <4>2
    <3>4. Ok(q(u)) /\ HasTokens(q(s)) /\ HasTokens(q(u))
      BY <3>3 DEF Alike, Near
    <3>5. Alike(x, y, k(s), k(u))
      <4>. HIDE DEF q, list
      <4>1. CASE list.type = "["
        BY <3>3, <4>1
      <4>2. CASE list.type # "["
        <5>1. k(s) = Key(q(s)) /\ k(u) = Key(q(u))
          BY <3>2, <3>4, <4>2
        <5>. HIDE DEF k
        <5>. QED  BY <3>1, <3>3, <5>1, KeyAlike
      <4>. QED  BY <4>1, <4>2
    <3>6. Ok(k(u))
      BY <3>5 DEF Alike, Near
    <3>7. Element(u) = Called(k(u))
      <4>. HIDE DEF p, e, k, list
      <4>. QED  BY <1>1, <1>2, <2>1, <2>3, <3>6
    <3>8. q(s).calls = s.calls
      BY <1>4, SeparatedReads DEF Reads
    <3>9. HasTokens(k(s)) /\ IsStack(k(s).calls) /\ Lists(k(s))
      <4>1. Lists(q(s)) /\ IsStack(q(s).calls)
        BY <3>8 DEF Lists
      <4>. HIDE DEF q, list
      <4>. QED  BY <3>4, <4>1, KeyParses
    <3>. HIDE DEF k
    <3>10. Alike(x, y, Called(k(s)), Called(k(u)))
      BY <3>5, CalledAlike
    <3>11. Called(k(s)).calls # <<>>
      BY <3>9, CalledStack DEF HasTokens
    <3>12. Called(k(u)).calls # <<>>
      BY <3>10, <3>11 DEF Alike
    <3>. QED  BY <3>1, <3>7, <3>10, <3>12
  <2>. QED  BY <2>2, <2>3
<1>9. CASE Cut(x, p(s), Inner) /\ p(s).ahead.type \in Cuttable
  <2>1. p(s).ahead.type \notin {"none", close} /\ p(s).ahead # NoToken
    BY <1>5, <1>9, CuttableIs
  <2>2. Element(s) = Called(k(s)) /\ Ok(k(s))
    <3>. HIDE DEF p, e, k, list
    <3>. QED  BY <1>2, <1>3, <2>1
  <2>3. Ok(q(s))
    <3>. HIDE DEF q
    <3>. QED  BY <2>2
  <2>4. NextToken(p(s)).tok.type \in Cuttable
    BY <1>3, <1>4, <1>9, <2>1, NextOfPeeked
  <2>5. ASSUME NEW type, type \notin Cuttable  PROVE ~Ok(Eat(p(s), type))
    BY <1>4, <2>4, <2>5, EatIs
  <2>6. q(s) = p(s)
    <3>1. first
      BY <1>5, <2>3, <2>5 DEF Separated
    <3>. QED  BY <3>1 DEF Separated
  <2>7. k(s) = p(s)
    <3>1. Key(p(s)) = Eat(p(s), "str") \/ Ok(Eat(p(s), "str"))
      BY DEF Key, Then
    <3>2. ~Ok(Key(p(s)))
      BY <2>5, <3>1, CuttableIs
    <3>. HIDE DEF p, q
    <3>. QED  BY <1>3, <2>2, <2>6, <3>2
  <2>8. Lists(p(s))
    BY <1>4 DEF Lists
  <2>9. /\ SameScanner(p(s), Called(p(s)))
        /\ Called(p(s)).ahead = p(s).ahead
        /\ Called(p(s)).calls # <<>> /\ Head(Called(p(s)).calls).type = "none"
    <3>. HIDE DEF p
    <3>. QED  BY <1>4, <2>8, CalledStack DEF HasTokens
  <2>10. Cut(x, Called(p(s)), Inner)
    BY <1>9, <2>9, SameScannerCut
  <2>. HIDE DEF p, k
  <2>. QED  BY <1>9, <2>2, <2>7, <2>9, <2>10 DEF Doomed
<1>. QED  BY <1>6, <1>7, <1>8, <1>9

-----------------------------------------------------------------------------
(* A scanner in the middle of a token that was cut finds another one of    *)
(* the kind that can be cut, or none.                                      *)
LEMMA ScanCut ==
  ASSUME NEW x, IsReading(x), NEW s, Cut(x, s, Inner), Ok(Scan(s))
  PROVE  \/ Scan(s).tok = NoToken /\ Cut(x, Scan(s), Inner)
         \/ Scan(s).tok.type \in Cuttable
<1> DEFINE n == [s EXCEPT !.tok = NoToken]
           k == SkipWhitespace(n)
           p == PeekChar(k)
           a == Advance(p)
<1>1. /\ ~Ok(p) \/ p.c = Eof => Scan(s) = p
      /\ Ok(p) /\ p.c \in Digits \cup {"-"} => Scan(s) = ScanNumber(p)
      /\ Ok(p) /\ p.c \in Letters => Scan(s) = ScanWord(p)
      /\ Ok(p) /\ p.c # Eof
           /\ p.c \notin Punctuation \cup {Quote, "-"} \cup Digits \cup Letters
           => Scan(s) = Fail(p, "parse")
  BY ScanDispatch
<1>2. Follows(x, s)
  BY DEF Cut
<1>3. Follows(x, n) /\ n.pos = s.pos /\ n.err = s.err /\ n.tok = NoToken
  BY <1>2, NoTokenIsToken, TokenFollows
<1>. HIDE DEF n
<1>4. Cut(x, n, Inner)
  BY <1>3, CutWithToken
<1>5. Cut(x, k, Inner) /\ k.tok = NoToken
  BY <1>3, <1>4, SkipCut, SkipFollows
<1>. HIDE DEF k
<1>6. Ok(p)
  <2>. HIDE DEF p
  <2>. QED  BY <1>1
<1>7. Cut(x, p, Inner) /\ (p.c = Eof \/ p.c \in Inner)
  BY <1>5, <1>6, PeekCharCut
<1>8. p.tok = NoToken
  BY <1>5, PeekCharFollows DEF Cut
<1>9. IsScanner(p)
  BY <1>7, FollowsIsScanner DEF Cut
<1>. HIDE DEF p
<1>10. CASE p.c = Eof
  BY <1>1, <1>7, <1>8, <1>10
<1>11. CASE p.c \in Digits
  <2>1. Scan(s) = ScanNumber(p)
    BY <1>1, <1>6, <1>11
  <2>. QED  BY <1>9, <2>1, ScanNumberGets DEF Cuttable
<1>12. CASE p.c \in Letters
  <2>1. Scan(s) = ScanWord(p)
    BY <1>1, <1>6, <1>12
  <2>. QED  BY <1>9, <2>1, ScanWordGets DEF Cuttable
<1>13. CASE p.c = "."
  <2>1. Scan(s) = Fail(p, "parse")
    BY <1>1, <1>6, <1>13
       DEF Eof, Punctuation, Quote, Digits, Letters
  <2>. QED  BY <1>9, <2>1, FailMoves
<1>. QED  BY <1>7, <1>10, <1>11, <1>12, <1>13 DEF Inner, Alnum

LEMMA PeekCut ==
  ASSUME NEW x, IsReading(x), NEW s, HasTokens(s), s.ahead = NoToken,
         Cut(x, s, Inner), Ok(Peek(s))
  PROVE  \/ Peek(s).ahead = NoToken /\ Cut(x, Peek(s), Inner)
         \/ Peek(s).ahead.type \in Cuttable
<1> DEFINE t == Scan(s)
           k == SkipWhitespace(t)
<1>1. Ok(t) /\ SameScanner(k, Peek(s)) /\ Peek(s).ahead = t.tok
  BY PeekIs
<1>2. \/ t.tok = NoToken /\ Cut(x, t, Inner)
      \/ t.tok.type \in Cuttable
  BY <1>1, ScanCut
<1>. HIDE DEF t
<1>3. CASE t.tok = NoToken /\ Cut(x, t, Inner)
  <2>1. Cut(x, k, Inner)
    BY <1>3, SkipCut
  <2>. HIDE DEF k
  <2>. QED  BY <1>1, <1>3, <2>1, SameScannerCut
<1>. QED  BY <1>1, <1>2, <1>3

LEMMA EatCut ==
  ASSUME NEW x, IsReading(x), NEW s, HasTokens(s),
         \/ s.ahead = NoToken /\ Cut(x, s, Inner)
         \/ s.ahead.type \in Cuttable,
         NEW type, type \notin Cuttable
  PROVE  ~Ok(Eat(s, type))
<1>1. SUFFICES ASSUME Ok(Eat(s, type))  PROVE FALSE
  OBVIOUS
<1>2. Ok(NextToken(s)) /\ NextToken(s).tok.type = type
  BY <1>1, EatIs
<1>3. Ok(Peek(s)) /\ Peek(s).ahead # NoToken /\ Peek(s).ahead.type = type
  BY <1>2, NextTokenIs
<1>4. CASE s.ahead = NoToken /\ Cut(x, s, Inner)
  BY <1>3, <1>4, PeekCut
<1>5. CASE s.ahead.type \in Cuttable
  <2>1. Peek(s) = s
    BY <1>5, CuttableIs DEF Peek
  <2>. QED  BY <1>3, <1>5, <2>1
<1>. QED  BY <1>4, <1>5

(* Nothing but an error comes of it. *)
LEMMA DoomedRound ==
  ASSUME NEW x, IsReading(x), NEW s, IsParser(s), Doomed(x, s), Ok(Round(s))
  PROVE  Doomed(x, Round(s))
<1>1. Ok(s) /\ HasTokens(s) /\ IsStack(s.calls) /\ Cut(x, s, Inner)
  BY DEF Doomed, Cut, IsParser
<1>2. CASE s.calls = <<>>
  BY <1>1, <1>2 DEF Round
<1>3. CASE s.calls # <<>> /\ Head(s.calls).type = "none"
  <2>1. s.ahead.type \in Cuttable
    BY <1>3 DEF Doomed
  <2>2. Peek(s) = s
    BY <2>1, CuttableIs DEF Peek
  <2>3. Doomed(x, Value(s))
    BY <1>1, <1>3, <2>1, <2>2, ValueCut
  <2>. QED  BY <1>1, <1>3, <2>3 DEF Round
<1>4. CASE s.calls # <<>> /\ Head(s.calls).type # "none"
  <2> DEFINE list == Head(s.calls)
             close == Closing(list.type)
             p == Peek(s)
             e == Eat(p, close)
             q == Separated(p, list.values = <<>>)
             k == IF ~Ok(q) \/ list.type = "[" THEN q ELSE Key(q)
  <2>1. Element(s) =
          IF ~Ok(p) THEN p
          ELSE IF p.ahead.type \in {"none", close}
          THEN IF Ok(e) THEN Returns(e, ListOf(list)) ELSE e
          ELSE IF Ok(k) THEN Called(k) ELSE k
    BY ElementIs
  <2>2. Round(s) = Element(s)
    BY <1>1, <1>4 DEF Round
  <2>3. s.ahead = NoToken /\ list.values # <<>>
    BY <1>4 DEF Doomed
  <2>4. HasTokens(p)
    BY <1>1, PeekReads DEF Reads
  <2>5. Ok(p)
    <3>. HIDE DEF p, e, k
    <3>. QED  BY <2>1, <2>2
  <2>6. \/ p.ahead = NoToken /\ Cut(x, p, Inner)
        \/ p.ahead.type \in Cuttable
    BY <1>1, <2>3, <2>5, PeekCut
  <2>. HIDE DEF p
  <2>7. ~Ok(e) /\ ~Ok(Eat(p, ","))
    BY <2>4, <2>6, EatCut, CuttableIs
  <2>8. q = Eat(p, ",")
    BY <2>3 DEF Separated
  <2>9. ~Ok(k)
    <3>. HIDE DEF q
    <3>. QED  BY <2>7, <2>8
  <2>. HIDE DEF e, k, list
  <2>. QED  BY <2>1, <2>2, <2>5, <2>7, <2>9
<1>. QED  BY <1>2, <1>3, <1>4

(***************************************************************************)
(* A round of Parse, in both.                                              *)
(***************************************************************************)
Abreast(x, y, s, u) ==
  /\ Alike(x, y, s, u)
  /\ u.calls = <<>> => Settled(x, u)

LEMMA RoundAbreast ==
  ASSUME NEW x, NEW y, Compare(x, y), NEW s, NEW u, IsParser(s),
         Abreast(x, y, s, u), Ok(Round(s))
  PROVE  Abreast(x, y, Round(s), Round(u)) \/ Doomed(x, Round(s))
<1>1. /\ Alike(x, y, s, u) /\ Ok(s) /\ Ok(u) /\ s.calls = u.calls
      /\ IsStack(s.calls)
  BY DEF Abreast, Alike, Near, IsParser
<1>2. CASE s.calls = <<>>
  BY <1>1, <1>2 DEF Round
<1>3. CASE s.calls # <<>> /\ Head(s.calls).type = "none"
  <2>1. Round(s) = Value(s) /\ Round(u) = Value(u)
    BY <1>1, <1>3 DEF Round
  <2>. QED  BY <1>1, <1>3, <2>1, ValueAlike DEF Abreast
<1>4. CASE s.calls # <<>> /\ Lists(s)
  <2>1. Round(s) = Element(s) /\ Round(u) = Element(u)
    BY <1>1, <1>4 DEF Round, Lists, IsList
  <2>. QED  BY <1>1, <1>4, <2>1, ElementAlike DEF Abreast
<1>. QED  BY <1>2, <1>3, <1>4, StackHead

LEMMA StartAbreast ==
  ASSUME NEW x, NEW y, Compare(x, y)
  PROVE  Abreast(x, y, Start(x.in, Len(x.text)), Start(y.in, Len(x.text)))
<1> DEFINE s(r) == Start(r.in, Len(x.text))
<1>1. IsReading(x) /\ IsReading(y) /\ y.text = x.text
  BY DEF Compare
<1>2. Len(x.text) \in Nat
  BY <1>1, LenProperties DEF IsReading
<1>3. ASSUME NEW r, IsReading(r), r.text = x.text
      PROVE  Follows(r, s(r)) /\ HasTokens(s(r)) /\ s(r).pos = 0
             /\ Ok(s(r)) /\ s(r).ahead = NoToken /\ s(r).val = <<>>
             /\ s(r).calls = <<Call>>
  <2>1. r.in \in Seq(Signs) /\ Len(r.in) \in Nat
    BY <1>3, SentIsText, LenProperties DEF IsReading
  <2>2. HasTokens(s(r))
    BY <1>2, <2>1, StartParses DEF IsParser
  <2>3. On(r, s(r), 0)
    <3>1. s(r).in = r.in /\ s(r).size = Len(r.text) /\ s(r).pos = r.place[0]
          /\ ~s(r).look /\ Len(r.in) = Len(r.in) - 0
      BY <1>3, <2>1 DEF Start, IsReading
    <3>2. \A i \in 1 .. Len(r.in) : r.in[i] = r.in[0 + i]
      OBVIOUS
    <3>. HIDE DEF s
    <3>. QED  BY <2>1, <2>2, <3>1, <3>2 DEF On, HasTokens
  <2>4. 0 \in 0 .. Len(r.in)
    BY <2>1
  <2>. QED  BY <2>2, <2>3, <2>4 DEF Follows, Start, Ok
<1>. HIDE DEF s
<1>4. Blank(x, 0, 0)
  BY DEF Blank
<1>5. Near(x, y, s(x), s(y))
  BY <1>1, <1>3, <1>4 DEF Near
<1>6. Alike(x, y, s(x), s(y))
  BY <1>1, <1>3, <1>5 DEF Alike
<1>. QED  BY <1>1, <1>3, <1>6 DEF Abreast, s

LEMMA ParseRoundsStay ==
  ASSUME NEW chars, NEW length, NEW rounds \in Nat, NEW f,
         ParseRounds(chars, length, rounds, f),
         NEW m \in 0 .. rounds, ~Ok(f[m]) \/ f[m].calls = <<>>
  PROVE  f[rounds] = f[m]
<1> DEFINE bad == {n \in m .. rounds : f[n] # f[m]}
<1>1. SUFFICES ASSUME bad # {}  PROVE FALSE
  <2>1. rounds \in m .. rounds
    OBVIOUS
  <2>. QED  BY <2>1
<1>2. bad \in SUBSET Nat
  OBVIOUS
<1>3. PICK n \in bad : \A k \in bad : n <= k
  BY <1>1, <1>2, LeastOf
<1>4. n > m /\ n - 1 \in m .. rounds /\ n - 1 \notin bad /\ n \in 1 .. rounds
  BY <1>3
<1>5. f[n] = Round(f[n - 1])
  BY <1>4 DEF ParseRounds
<1>. QED  BY <1>3, <1>4, <1>5 DEF Round

(* u is the end of the run on the text from its last round on.             *)
LEMMA RoundsAbreast ==
  ASSUME NEW x, NEW y, Compare(x, y),
         NEW R \in Nat, NEW f, ParseRounds(x.in, Len(x.text), R, f),
         NEW Q \in Nat, NEW g, ParseRounds(y.in, Len(x.text), Q, g),
         \A n \in 0 .. R : IsParser(f[n]),
         ~Ok(g[Q]) \/ g[Q].calls = <<>>, Ok(f[R]), f[R].calls = <<>>
  PROVE  Abreast(x, y, f[R], g[Q]) \/ Doomed(x, f[R])
<1> DEFINE h(n) == IF n <= Q THEN g[n] ELSE g[Q]
           bad == {n \in 0 .. R : Ok(f[n]) /\ ~Abreast(x, y, f[n], h(n))
                                  /\ ~Doomed(x, f[n])}
<1>1. bad = {}
  <2>1. SUFFICES ASSUME bad # {}  PROVE FALSE
    OBVIOUS
  <2>2. bad \in SUBSET Nat
    OBVIOUS
  <2>3. PICK n \in bad : \A k \in bad : n <= k
    BY <2>1, <2>2, LeastOf
  <2>4. n # 0
    <3>1. SUFFICES ASSUME n = 0  PROVE FALSE
      OBVIOUS
    <3>2. f[0] = Start(x.in, Len(x.text)) /\ h(0) = Start(y.in, Len(x.text))
      BY DEF ParseRounds
    <3>3. Abreast(x, y, f[0], h(0))
      BY <3>2, StartAbreast
    <3>. QED  BY <2>3, <3>1, <3>3
  <2>5. n \in 1 .. R /\ n - 1 \in 0 .. R /\ n - 1 \notin bad
    BY <2>3, <2>4
  <2>6. f[n] = Round(f[n - 1])
    BY <2>5 DEF ParseRounds
  <2>7. h(n) = Round(h(n - 1))
    <3>1. CASE n <= Q
      BY <2>5, <3>1 DEF ParseRounds
    <3>2. CASE n > Q
      <4>1. h(n) = g[Q]
        BY <2>5, <3>2
      <4>2. h(n - 1) = g[Q]
        BY <2>5, <3>2
      <4>. QED  BY <4>1, <4>2 DEF Round
    <3>. QED  BY <2>5, <3>1, <3>2
  <2>8. Ok(f[n]) /\ ~Abreast(x, y, f[n], h(n)) /\ ~Doomed(x, f[n])
    BY <2>3
  <2>9. Ok(f[n - 1])
    BY <2>6, <2>8 DEF Round
  <2>10. Abreast(x, y, f[n - 1], h(n - 1)) \/ Doomed(x, f[n - 1])
    BY <2>5, <2>9
  <2>11. IsParser(f[n - 1])
    BY <2>5
  <2>. HIDE DEF h
  <2>12. CASE Abreast(x, y, f[n - 1], h(n - 1))
    BY <2>6, <2>7, <2>8, <2>11, <2>12, RoundAbreast
  <2>13. CASE Doomed(x, f[n - 1])
    BY <2>6, <2>8, <2>11, <2>13, DoomedRound DEF Compare
  <2>. QED  BY <2>10, <2>12, <2>13
<1>2. Abreast(x, y, f[R], h(R)) \/ Doomed(x, f[R])
  BY <1>1
<1>3. CASE R > Q
  BY <1>2, <1>3
<1>4. CASE R <= Q /\ Abreast(x, y, f[R], g[R])
  <2>1. g[R].calls = <<>> /\ R \in 0 .. Q
    BY <1>4 DEF Abreast, Alike
  <2>2. g[Q] = g[R]
    BY <2>1, ParseRoundsStay
  <2>. QED  BY <1>4, <2>2
<1>. QED  BY <1>2, <1>3, <1>4

(* What Parse accepts of a stream is the value that it finds in the text.  *)
LEMMA ParseReading ==
  ASSUME NEW x, NEW y, Compare(x, y), Ok(Parse(x.in, Len(x.text)))
  PROVE  Gives(Parse(y.in, Len(x.text)), Parse(x.in, Len(x.text)).val)
<1> DEFINE n == Len(x.text)
<1>1. /\ IsReading(x) /\ IsReading(y) /\ y.text = x.text
      /\ x.in \in Seq(Signs) /\ y.in \in Seq(Signs)
  BY SentIsText DEF Compare, IsReading
<1>2. n \in Nat
  BY <1>1, LenProperties DEF IsReading
<1>3. PICK R, f : Run(x.in, n, R, f)
  BY <1>1, <1>2, ParseEnds
<1>4. PICK Q, g : Run(y.in, n, Q, g)
  BY <1>1, <1>2, ParseEnds
<1>5. /\ R \in Nat /\ ParseRounds(x.in, n, R, f)
      /\ \A i \in 0 .. R : IsParser(f[i]) /\ f[i].size = n
      /\ Ok(f[R]) => f[R].calls = <<>>
  BY <1>3 DEF Run
<1>6. /\ Q \in Nat /\ ParseRounds(y.in, n, Q, g)
      /\ Ok(g[Q]) => g[Q].calls = <<>>
  BY <1>4 DEF Run
<1> DEFINE s == f[R]
           u == g[Q]
<1>7. IsParser(s) /\ s.size = n
  BY <1>5
<1>8. /\ Ok(s) /\ ~Trailing(s) /\ Parse(x.in, n) = s
  <2>1. ~Ok(Fail(s, "parse"))
    BY <1>7, FailReads DEF IsParser
  <2>2. Parse(x.in, n) = IF ~Ok(s) THEN s
                         ELSE IF Trailing(s) THEN Fail(s, "parse") ELSE s
    BY <1>3 DEF Run
  <2>3. Ok(Parse(x.in, n))
    OBVIOUS
  <2>. HIDE DEF s, n
  <2>. QED  BY <2>1, <2>2, <2>3
<1>9. s.calls = <<>> /\ s.pos = n
  BY <1>5, <1>7, <1>8 DEF Trailing
<1>10. Abreast(x, y, s, u) \/ Doomed(x, s)
  BY <1>5, <1>6, <1>8, <1>9, RoundsAbreast
<1>11. ~Doomed(x, s)
  BY <1>2, <1>7, <1>9 DEF Doomed, Cut
<1>. HIDE DEF s, u
<1>12. /\ Ok(u) /\ u.val = s.val /\ Settled(x, u)
       /\ Follows(y, u) /\ Blank(x, u.pos, s.pos)
  BY <1>9, <1>10, <1>11 DEF Abreast, Alike, Near
<1>13. u.pos \in Nat /\ u.pos <= n /\ u.size = n
  BY <1>1, <1>12, FollowsIsScanner
<1>14. u.pos = n
  <2>1. SUFFICES ASSUME u.pos < n  PROVE FALSE
    BY <1>2, <1>13
  <2>2. u.pos + 1 \in u.pos + 1 .. n
    BY <1>2, <1>13, <2>1
  <2>3. x.text[u.pos + 1] \in Space
    BY <1>9, <1>12, <2>2 DEF Blank
  <2>. QED  BY <1>12, <1>13, <2>1, <2>3 DEF Settled
<1>15. Parse(y.in, n) = u
  BY <1>4, <1>12, <1>13, <1>14 DEF Run, u, Trailing
<1>. QED  BY <1>8, <1>12, <1>15 DEF Gives

-----------------------------------------------------------------------------
(***************************************************************************)
(* The streams that a client sends are readings of its document.           *)
(***************************************************************************)
LEMMA WholeReading ==
  ASSUME NEW in \in Seq(Characters), NEW d \in Seq(Characters),
         \A k \in 1 .. Len(in) : k <= Len(d) => in[k] = d[k]
  PROVE  \E x : /\ IsReading(x) /\ x.in = in /\ x.text = d
                /\ Len(in) = Len(d) => Unbroken(x)
<1> DEFINE place == [k \in 0 .. Len(in) |-> k]
           x == [in |-> in, text |-> d, place |-> place]
<1>1. Len(in) \in Nat /\ Len(d) \in Nat
  BY LenProperties
<1>2. \A k \in 1 .. Len(in) : in[k] \notin Gap
  BY <1>1, ElementOfSeq, SentIsTextOrGap
<1>3. in \in Seq(Sent)
  BY DEF Sent
<1>4. ASSUME NEW k \in 0 .. Len(in) - 1
      PROVE  /\ in[k + 1] \notin Gap /\ place[k + 1] = place[k] + 1
             /\ place[k] < Len(d) => in[k + 1] = d[place[k] + 1]
  <2>1. k + 1 \in 1 .. Len(in) /\ k \in 0 .. Len(in) /\ k \in Nat
    BY <1>1
  <2>2. k < Len(d) => k + 1 <= Len(d)
    BY <1>1, <2>1
  <2>. QED  BY <1>1, <1>2, <2>1, <2>2
<1>5. /\ place \in [0 .. Len(in) -> Nat] /\ place[0] = 0
      /\ \A k \in 0 .. Len(in) : place[k] = k
  BY <1>1
<1>. HIDE DEF place
<1>6. IsReading(x)
  BY <1>3, <1>4, <1>5 DEF IsReading
<1>7. Len(in) = Len(d) => Unbroken(x)
  BY <1>1, <1>2, <1>5 DEF Unbroken
<1>. QED  BY <1>6, <1>7

LEMMA PausedElements ==
  ASSUME NEW d \in Seq(Characters), NEW i \in 0 .. Len(d),
         NEW pause \in Seq(Gap)
  PROVE  LET in == PausedAt(d, i, pause)
             n == Len(pause)
         IN /\ in \in Seq(Sent) /\ n \in Nat /\ Len(d) \in Nat
            /\ Len(in) = Len(d) + n
            /\ \A k \in 1 .. Len(in) :
                 IF k <= i THEN in[k] = d[k]
                 ELSE IF k <= i + n THEN in[k] \in Gap
                 ELSE in[k] = d[k - n]
<1> DEFINE a == SubSeq(d, 1, i)
           b == SubSeq(d, i + 1, Len(d))
           n == Len(pause)
           in == (a \o pause) \o b
<1>1. Len(d) \in Nat /\ n \in Nat /\ i \in Nat /\ i <= Len(d)
  BY LenProperties
<1>2. d \in Seq(Sent) /\ pause \in Seq(Sent)
  BY DEF Gap, Sent
<1>3. \A j \in 1 .. Len(d) : d[j] \in Sent
  BY <1>2, ElementOfSeq
<1>4. /\ a \in Seq(Sent) /\ Len(a) = i
      /\ \A k \in 1 .. i : a[k] = d[k]
  <2>1. \A j \in 1 .. i : d[j] \in Sent
    BY <1>1, <1>3
  <2>2. a \in Seq(Sent)
    BY <1>1, <1>2, <2>1, SubSeqProperties
  <2>3. Len(a) = i
    BY <1>2, BeginningOf
  <2>4. \A k \in 1 .. i : a[k] = d[1 + k - 1]
    BY <1>1, <1>2, <2>1, SubSeqProperties
  <2>5. \A k \in 1 .. i : 1 + k - 1 = k
    OBVIOUS
  <2>. QED  BY <2>2, <2>3, <2>4, <2>5
<1>5. /\ b \in Seq(Sent) /\ Len(b) = Len(d) - i
      /\ \A k \in 1 .. Len(d) - i : b[k] = d[i + k]
  <2>1. \A j \in i + 1 .. Len(d) : d[j] \in Sent
    BY <1>1, <1>3
  <2>2. b \in Seq(Sent)
    BY <1>1, <1>2, <2>1, SubSeqProperties
  <2>3. Len(b) = Len(d) - i
    BY <1>1, <1>2, <2>1, SubSeqProperties
  <2>4. \A k \in 1 .. Len(d) - i : b[k] = d[i + 1 + k - 1]
    BY <1>1, <1>2, <2>1, SubSeqProperties
  <2>5. \A k \in 1 .. Len(d) - i : i + 1 + k - 1 = i + k
    BY <1>1
  <2>. QED  BY <2>2, <2>3, <2>4, <2>5
<1>. HIDE DEF a, b
<1>6. /\ a \o pause \in Seq(Sent) /\ Len(a \o pause) = i + n
      /\ \A k \in 1 .. i + n :
           (a \o pause)[k] = IF k <= i THEN a[k] ELSE pause[k - i]
  BY <1>1, <1>2, <1>4, ConcatProperties
<1> DEFINE c == a \o pause
<1>. HIDE DEF c
<1>7. /\ in \in Seq(Sent) /\ Len(in) = Len(d) + n
      /\ \A k \in 1 .. Len(d) + n :
           in[k] = IF k <= i + n THEN c[k] ELSE b[k - (i + n)]
  <2>1. c \in Seq(Sent) /\ Len(c) = i + n
    BY <1>6 DEF c
  <2>2. c \o b \in Seq(Sent) /\ Len(c \o b) = Len(c) + Len(b)
        /\ \A k \in 1 .. Len(c) + Len(b) :
             (c \o b)[k] = IF k <= Len(c) THEN c[k] ELSE b[k - Len(c)]
    BY <1>5, <2>1, ConcatProperties
  <2>3. Len(c) + Len(b) = Len(d) + n
    BY <1>1, <1>5, <2>1
  <2>4. in = c \o b
    BY DEF c
  <2>. HIDE DEF in
  <2>. QED  BY <2>1, <2>2, <2>3, <2>4
<1>8. PausedAt(d, i, pause) = in
  <2>1. PausedAt(d, i, pause) = a \o pause \o b
    BY DEF PausedAt, a, b
  <2>. QED  BY <2>1
<1>. HIDE DEF in
<1>9. ASSUME NEW k \in 1 .. Len(d) + n
      PROVE  IF k <= i THEN in[k] = d[k]
             ELSE IF k <= i + n THEN in[k] \in Gap
             ELSE in[k] = d[k - n]
  <2>1. CASE k <= i
    <3>1. k \in 1 .. i /\ k \in 1 .. i + n /\ k <= i + n
      BY <1>1, <2>1
    <3>. QED  BY <1>4, <1>6, <1>7, <2>1, <3>1 DEF c
  <2>2. CASE k > i /\ k <= i + n
    <3>1. k - i \in 1 .. n /\ k \in 1 .. i + n /\ ~(k <= i)
      BY <1>1, <2>2
    <3>2. pause[k - i] \in Gap
      BY <3>1, ElementOfSeq
    <3>. QED  BY <1>6, <1>7, <2>2, <3>1, <3>2 DEF c
  <2>3. CASE k > i + n
    <3>1. k - (i + n) \in 1 .. Len(d) - i /\ i + (k - (i + n)) = k - n
          /\ ~(k <= i) /\ ~(k <= i + n)
      BY <1>1, <2>3
    <3>. QED  BY <1>5, <1>7, <3>1
  <2>. QED  BY <1>1, <2>1, <2>2, <2>3
<1>. QED  BY <1>1, <1>7, <1>8, <1>9

LEMMA PausedReading ==
  ASSUME NEW d \in Seq(Characters), NEW i \in 0 .. Len(d),
         NEW pause \in Seq(Gap)
  PROVE  \E x : IsReading(x) /\ x.in = PausedAt(d, i, pause) /\ x.text = d
<1> DEFINE in == PausedAt(d, i, pause)
           n == Len(pause)
           place == [k \in 0 .. Len(in) |->
                       IF k <= i THEN k ELSE IF k <= i + n THEN i ELSE k - n]
           x == [in |-> in, text |-> d, place |-> place]
<1>1. /\ in \in Seq(Sent) /\ n \in Nat /\ Len(d) \in Nat
      /\ Len(in) = Len(d) + n
      /\ \A k \in 1 .. Len(in) :
           IF k <= i THEN in[k] = d[k]
           ELSE IF k <= i + n THEN in[k] \in Gap
           ELSE in[k] = d[k - n]
  BY PausedElements
<1>. HIDE DEF in, n
<1>2. i \in Nat /\ i <= Len(d)
  BY <1>1
<1>3. \A k \in 1 .. Len(d) : d[k] \notin Gap
  BY ElementOfSeq, SentIsTextOrGap
<1>4. place \in [0 .. Len(in) -> Nat] /\ place[0] = 0
  BY <1>1, <1>2
<1>5. ASSUME NEW k \in 0 .. Len(in) - 1
      PROVE  IF in[k + 1] \in Gap THEN place[k + 1] = place[k]
             ELSE /\ place[k + 1] = place[k] + 1
                  /\ place[k] < Len(d) => in[k + 1] = d[place[k] + 1]
  <2>1. /\ k + 1 \in 1 .. Len(in) /\ k \in Nat /\ k \in 0 .. Len(in)
        /\ k + 1 \in 0 .. Len(in)
    BY <1>1
  <2>2. CASE k + 1 <= i
    <3>1. k + 1 \in 1 .. Len(d) /\ k <= i
      BY <1>1, <1>2, <2>1, <2>2
    <3>2. in[k + 1] = d[k + 1] /\ place[k] = k /\ place[k + 1] = k + 1
      BY <1>1, <2>1, <2>2, <3>1
    <3>. QED  BY <1>3, <3>1, <3>2
  <2>3. CASE k + 1 > i /\ k + 1 <= i + n
    <3>1. in[k + 1] \in Gap
      BY <1>1, <1>2, <2>1, <2>3
    <3>2. place[k + 1] = i /\ place[k] = i
      BY <1>1, <1>2, <2>1, <2>3
    <3>. QED  BY <3>1, <3>2
  <2>4. CASE k + 1 > i + n
    <3>1. k + 1 - n \in 1 .. Len(d) /\ (k - n) + 1 = k + 1 - n
      BY <1>1, <1>2, <2>1, <2>4
    <3>2. in[k + 1] = d[k + 1 - n]
      BY <1>1, <1>2, <2>1, <2>4
    <3>3. place[k + 1] = k + 1 - n /\ place[k] = k - n
      BY <1>1, <1>2, <2>1, <2>4
    <3>. QED  BY <1>3, <3>1, <3>2, <3>3
  <2>. QED  BY <1>1, <1>2, <2>1, <2>2, <2>3, <2>4
<1>. HIDE DEF place
<1>6. IsReading(x)
  BY <1>1, <1>4, <1>5 DEF IsReading
<1>. QED  BY <1>6 DEF in

LEMMA PausesAreGaps ==
  ASSUME NEW pause \in Pauses
  PROVE  pause \in Seq(Gap)
<1>1. CASE pause = <<Reset>>
  BY <1>1 DEF Gap
<1>2. CASE \E k \in 1 .. MaxLate : pause = [n \in 1 .. k |-> Late]
  <2>1. PICK k \in Nat : pause = [n \in 1 .. k |-> Late]
    BY <1>2
  <2>2. pause \in [1 .. k -> Gap]
    BY <2>1 DEF Gap
  <2>. QED  BY <2>2, SeqDef
<1>. QED  BY <1>1, <1>2 DEF Pauses

LEMMA BraceIsText == <<"}">> \in Seq(Characters) /\ Len(<<"}">>) = 1
<1>1. <<"}">> \in Seq(Characters)
  BY DEF Characters, Punctuation
<1>2. Len(<<"}">>) = 1
  OBVIOUS
<1>. QED  BY <1>1, <1>2

LEMMA LongerReading ==
  ASSUME NEW d \in Seq(Characters)
  PROVE  \E x : IsReading(x) /\ x.in = d \o <<"}">> /\ x.text = d
<1> DEFINE in == d \o <<"}">>
<1>1. <<"}">> \in Seq(Characters) /\ Len(<<"}">>) = 1 /\ Len(d) \in Nat
  BY BraceIsText, LenProperties
<1>2. /\ in \in Seq(Characters) /\ Len(in) = Len(d) + 1
      /\ \A k \in 1 .. Len(d) + 1 : k <= Len(d) => in[k] = d[k]
  BY <1>1, ConcatProperties
<1>. HIDE DEF in
<1>3. \A k \in 1 .. Len(in) : k <= Len(d) => in[k] = d[k]
  BY <1>2
<1>4. \E x : IsReading(x) /\ x.in = in /\ x.text = d
  BY <1>2, <1>3, WholeReading
<1>. QED  BY <1>4 DEF in

LEMMA PrefixReading ==
  ASSUME NEW d \in Seq(Characters), NEW m \in 0 .. Len(d)
  PROVE  \E x : IsReading(x) /\ x.in = SubSeq(d, 1, m) /\ x.text = d
<1> DEFINE in == SubSeq(d, 1, m)
<1>1. Len(d) \in Nat
  BY LenProperties
<1>2. in \in Seq(Characters) /\ Len(in) = m
  BY BeginningOf
<1>3. \A j \in 1 .. m : d[j] \in Characters
  BY <1>1, ElementOfSeq
<1>4. \A k \in 1 .. m : in[k] = d[1 + k - 1]
  BY <1>1, <1>3, SubSeqProperties
<1>. HIDE DEF in
<1>5. \A k \in 1 .. Len(in) : in[k] = d[k]
  BY <1>1, <1>2, <1>4
<1>6. \E x : IsReading(x) /\ x.in = in /\ x.text = d
  BY <1>2, <1>5, WholeReading
<1>. QED  BY <1>6 DEF in

(* What a client sends, if it says how long the document is. *)
SentFor(d) == Disturbed(d) \cup {d \o <<"}">>}

LEMMA SentForIsReading ==
  ASSUME NEW d \in Seq(Characters), NEW in \in SentFor(d)
  PROVE  \E x : IsReading(x) /\ x.in = in /\ x.text = d
<1> DEFINE paused ==
             {PausedAt(d, i, pause) : i \in 0 .. Len(d), pause \in Pauses}
<1>1. CASE in = d \o <<"}">>
  BY <1>1, LongerReading
<1>2. CASE in \in Prefixes(d)
  <2>1. PICK m \in 0 .. Len(d) : in = SubSeq(d, 1, m)
    BY <1>2 DEF Prefixes
  <2>. QED  BY <2>1, PrefixReading
<1>3. CASE in \in paused
  <2>1. PICK i \in 0 .. Len(d), pause \in Pauses : in = PausedAt(d, i, pause)
    BY <1>3
  <2>. QED  BY <2>1, PausesAreGaps, PausedReading
<1>4. Disturbed(d) = paused \cup Prefixes(d)
  BY DEF Disturbed
<1>. HIDE DEF paused
<1>5. in \in paused \/ in \in Prefixes(d) \/ in = d \o <<"}">>
  BY <1>4 DEF SentFor
<1>. QED  BY <1>1, <1>2, <1>3, <1>5

LEMMA SentForGives ==
  ASSUME NEW d \in Seq(Characters), NEW in \in SentFor(d),
         Ok(Parse(in, Len(d)))
  PROVE  Gives(Parse(d, Len(d)), Parse(in, Len(d)).val)
<1>1. PICK x : IsReading(x) /\ x.in = in /\ x.text = d
  BY SentForIsReading
<1>2. PICK y : IsReading(y) /\ y.in = d /\ y.text = d /\ Unbroken(y)
  BY WholeReading
<1>3. Compare(x, y)
  BY <1>1, <1>2 DEF Compare
<1>. QED  BY <1>1, <1>2, <1>3, ParseReading

-----------------------------------------------------------------------------
(* What has been sent, and what has become of it. *)
Sending ==
  /\ source \in Sources
  /\ \/ stream = Unsent /\ size = Len(document) /\ result = NoResult
     \/ stream \in SentFor(document) /\ size = Len(document)
     \/ stream = document /\ size = Len(document) - 1
  /\ result = NoResult \/ result = ResultOf(Parse(stream, size))

(***************************************************************************)
(* DisturbancesNeverChangeTheValue: whatever pauses, resets and losses     *)
(* there are in the stream, and whatever comes after the body, a value     *)
(* that Parse accepts is the one that it finds in the document itself, for *)
(* documents and pauses of any length.                                     *)
(***************************************************************************)
THEOREM ValueUndisturbed == Spec => []DisturbancesNeverChangeTheValue
<1>1. Init => Sending
  BY DEF Init, Sending
<1>2. Sending /\ [Next]_vars => Sending'
  <2>1. SUFFICES ASSUME Sending, [Next]_vars  PROVE Sending'
    OBVIOUS
  <2>2. CASE Send
    <3>1. document \in Seq(Characters) /\ Len(document) \in Nat
      BY <2>1, DocumentIsText, LenProperties DEF Sending
    <3>2. stream = Unsent /\ document' = document
          /\ result' = result /\ source' = source
      BY <2>2 DEF Send, document
    <3>3. size = Len(document) /\ result = NoResult
      <4>1. Unsent \notin SentFor(document)
        <5>1. SUFFICES ASSUME Unsent \in SentFor(document)  PROVE FALSE
          OBVIOUS
        <5>2. PICK x : IsReading(x) /\ x.in = Unsent
          BY <3>1, <5>1, SentForIsReading
        <5>. QED  BY <5>2, SentIsText DEF IsReading
      <4>2. Unsent # document
        BY <3>1, SentIsText DEF Sent
      <4>. QED  BY <2>1, <3>2, <4>1, <4>2 DEF Sending
    <3>4. \/ stream' \in SentFor(document) /\ size' = Len(document)
          \/ stream' = document /\ size' = Len(document) - 1
      BY <2>2, <3>3 DEF Send, SentFor
    <3>. QED  BY <2>1, <3>2, <3>3, <3>4 DEF Sending
  <2>3. CASE ParseBody
    BY <2>1, <2>3 DEF ParseBody, Sending, document
  <2>4. CASE UNCHANGED vars
    BY <2>1, <2>4 DEF vars, Sending, document
  <2>. QED  BY <2>1, <2>2, <2>3, <2>4 DEF Next, Answered
<1>3. Sending => DisturbancesNeverChangeTheValue
  <2>1. SUFFICES ASSUME Sending, Accepted
                 PROVE  Gives(Parse(document, size), result.val)
    BY DEF DisturbancesNeverChangeTheValue
  <2> DEFINE s == Parse(stream, size)
  <2>2. result = [err |-> s.err, val |-> s.val, taken |-> Taken(s)]
    BY <2>1 DEF Sending, Accepted, NoResult, ResultOf
  <2>3. Ok(s) /\ s.val = result.val
    BY <2>1, <2>2 DEF Accepted, Ok
  <2>5. CASE stream \in SentFor(document) /\ size = Len(document)
    BY <2>1, <2>3, <2>5, DocumentIsText, SentForGives DEF Sending
  <2>6. CASE stream = document
    BY <2>3, <2>6 DEF Gives
  <2>7. CASE result = NoResult
    BY <2>1, <2>7 DEF Accepted, NoResult
  <2>. QED  BY <2>1, <2>5, <2>6, <2>7 DEF Sending
<1>. QED  BY <1>1, <1>2, <1>3, PTL DEF Spec
=============================================================================

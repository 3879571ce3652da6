-------------------------- MODULE ConnectionProofs --------------------------
(***************************************************************************)
(* Proofs about Connection for requests and responses of any length.       *)
(***************************************************************************)
EXTENDS Connection, SequenceTheorems, TLAPS

-----------------------------------------------------------------------------
(***************************************************************************)
(* The head.  The invariant says how far it has been taken off the stream  *)
(* at each place of Handle.                                                *)
(***************************************************************************)
StreamsTyped ==
  coming \in Seq(Lines) /\ received \in Seq(Lines) /\ taken \in Seq(Lines)

HeadProgress ==
  /\ StreamsTyped
  /\ pc \in {"setup", "requestLine"} => taken = <<>>
  /\ pc = "headers" => taken # <<>> /\ CutShort
  /\ pc = "handling" => HeadTaken

(* Taking a line adds it to the history and leaves what was there.         *)
LEMMA TakeOne ==
  ASSUME StreamsTyped, received # <<>>, TakeLine
  PROVE  /\ StreamsTyped'
         /\ Head(received) \in Lines
         /\ Len(taken) \in Nat
         /\ Len(taken') = Len(taken) + 1
         /\ taken'[Len(taken')] = Head(received)
         /\ \A i \in 1 .. Len(taken) : taken'[i] = taken[i]
<1>1. Head(received) \in Lines /\ Tail(received) \in Seq(Lines)
  BY HeadTailProperties DEF StreamsTyped
<1>2. /\ taken' \in Seq(Lines)
      /\ Len(taken') = Len(taken) + 1
      /\ \A i \in 1 .. Len(taken) : taken'[i] = taken[i]
      /\ taken'[Len(taken) + 1] = Head(received)
  BY <1>1, AppendProperties DEF TakeLine, StreamsTyped
<1>. QED  BY <1>1, <1>2, LenProperties DEF TakeLine, StreamsTyped

LEMMA NextHeadProgress == HeadProgress /\ [Next]_vars => HeadProgress'
<1>. SUFFICES ASSUME HeadProgress, [Next]_vars  PROVE HeadProgress'
  OBVIOUS
<1>. USE DEF HeadProgress
<1>1. ASSUME UNCHANGED streamVars,
             \/ pc' = pc
             \/ pc' \notin {"setup", "requestLine", "headers", "handling"}
      PROVE  HeadProgress'
  BY <1>1 DEF StreamsTyped, streamVars, CutShort, HeadTaken
<1>2. CASE SetUp
  BY <1>2 DEF SetUp, streamVars, StreamsTyped
<1>3. CASE Receive \/ ClientHangsUp
  <2>1. coming' \in Seq(Lines) /\ received' \in Seq(Lines)
    <3>1. CASE Receive
      <4>1. PICK n \in 1 .. Len(coming) :
              /\ received' = SubSeq(coming, 1, n)
              /\ coming' = SubSeq(coming, n + 1, Len(coming))
        BY <3>1 DEF Receive
      <4>2. /\ Len(coming) \in Nat
            /\ \A i \in 1 .. Len(coming) : coming[i] \in Lines
        BY LenProperties, ElementOfSeq DEF StreamsTyped
      <4>3. received' \in Seq(Lines)
        BY <4>1, <4>2, SubSeqProperties
      <4>4. coming' \in Seq(Lines)
        BY <4>1, <4>2, SubSeqProperties
      <4>. QED  BY <4>3, <4>4
    <3>2. CASE ClientHangsUp
      BY <3>2, EmptySeq DEF ClientHangsUp, StreamsTyped
    <3>. QED  BY <1>3, <3>1, <3>2
  <2>2. taken' = taken /\ pc' = pc
    BY <1>3 DEF Receive, ClientHangsUp
  <2>. QED  BY <2>1, <2>2 DEF StreamsTyped, CutShort, HeadTaken
<1>4. CASE ReadRequestLine
  <2>1. TakeLine /\ received # <<>> /\ taken = <<>>
    BY <1>4 DEF ReadRequestLine, TakeLine
  <2>2. CASE IsRequestLine(Head(received))
    <3>1. pc' = "headers" /\ Head(received) = "request"
      BY <1>4, <2>2 DEF ReadRequestLine, IsRequestLine, Aborts
    <3>2. taken' = <<"request">>
      BY <2>1, <3>1 DEF TakeLine
    <3>. QED  BY <2>1, <3>1, <3>2, TakeOne DEF CutShort
  <2>3. CASE ~IsRequestLine(Head(received))
    BY <1>4, <2>1, <2>3, TakeOne DEF ReadRequestLine, Throw, Aborts
  <2>. QED  BY <2>2, <2>3
<1>5. CASE ReadHeaderLine
  <2>1. TakeLine /\ received # <<>> /\ taken # <<>> /\ CutShort
    BY <1>5 DEF ReadHeaderLine, TakeLine
  <2>2. /\ StreamsTyped'
        /\ Len(taken) \in Nat \ {0}
        /\ Len(taken') = Len(taken) + 1
        /\ taken'[Len(taken) + 1] = Head(received)
        /\ \A i \in 1 .. Len(taken) : taken'[i] = taken[i]
        /\ DOMAIN taken = 1 .. Len(taken)
        /\ DOMAIN taken' = 1 .. Len(taken')
    BY <2>1, TakeOne, EmptySeq, LenProperties DEF StreamsTyped
  <2>3. CASE Head(received) = "header"
    <3>1. pc' = "headers"
      BY <1>5, <2>3 DEF ReadHeaderLine, Aborts
    <3>2. CutShort'
      BY <2>1, <2>2, <2>3 DEF CutShort
    <3>. QED  BY <2>2, <3>1, <3>2, EmptySeq
  <2>4. CASE Head(received) = "blank"
    <3>1. pc' = "handling"
      BY <1>5, <2>4 DEF ReadHeaderLine, Aborts
    <3>2. HeadTaken'
      <4>1. Len(taken) + 1 \in 2 .. Len(taken')
        BY <2>2
      <4>2. taken'[1] = "request"
        BY <2>1, <2>2 DEF CutShort
      <4>3. \A i \in 2 .. Len(taken) : taken'[i] = "header"
        BY <2>1, <2>2 DEF CutShort
      <4>. QED  BY <2>2, <2>4, <4>1, <4>2, <4>3 DEF HeadTaken
    <3>. QED  BY <2>2, <3>1, <3>2
  <2>5. CASE Head(received) \notin {"header", "blank"}
    BY <1>5, <2>2, <2>5 DEF ReadHeaderLine, Throw, Aborts
  <2>. QED  BY <2>3, <2>4, <2>5
<1>6. CASE HandlerReads
  <2>1. TakeLine /\ received # <<>> /\ HeadTaken /\ pc' = "handling"
    BY <1>6 DEF HandlerReads, TakeLine, Handling
  <2>2. HeadTaken'
    BY <2>1, TakeOne DEF HeadTaken
  <2>. QED  BY <2>1, <2>2, TakeOne
<1>7. CASE ReadTimesOut \/ ReadInterrupted \/ ReadFails
  BY <1>1, <1>7 DEF ReadTimesOut, ReadInterrupted, ReadFails, Throw, streamVars
<1>8. CASE \/ HandlerWritesStatus \/ HandlerWritesHeader \/ WriterRefuses
           \/ HandlerWritesNoData \/ HandlerWritesData
           \/ HandlerWritesMuchData \/ HandlerWriteFails
           \/ HandlerThrows \/ HandlerReturns
  BY <1>1, <1>8 DEF HandlerWritesStatus, HandlerWritesHeader, WriterRefuses,
       HandlerWritesNoData, HandlerWritesData, HandlerWritesMuchData,
       HandlerWriteFails, HandlerThrows, HandlerReturns, Throw, Killed
<1>9. CASE HandlerFlushes \/ Flush \/ CloseWriter
  BY <1>1, <1>9 DEF HandlerFlushes, Flush, CloseWriter, FlushTo, Killed,
       Handling
<1>10. CASE Catch
  BY <1>1, <1>10 DEF Catch
<1>11. CASE ClientStalls \/ ClientResumes
  BY <1>1, <1>11 DEF ClientStalls, ClientResumes
<1>12. CASE UNCHANGED vars
  BY <1>1, <1>12 DEF vars
<1>. QED
  BY <1>2, <1>3, <1>4, <1>5, <1>6, <1>7, <1>8, <1>9, <1>10, <1>11, <1>12
     DEF Next, HandleStep, HandlerStep, ClientStep, Finished

LEMMA InitHeadProgress == Init => HeadProgress
<1>1. Inputs \subseteq Seq(Lines)
  BY ConnectionAssumption DEF Inputs, SeqOf
<1>. QED
  BY <1>1, EmptySeq DEF Init, HeadProgress, StreamsTyped

(* The handler is called only after a complete and well-formed head has    *)
(* been taken off the stream, for requests of any length and however they  *)
(* arrive.                                                                 *)
THEOREM ConnectionHandlerSeesWholeHead == SafeSpec => []HandlerSeesWholeHead
<1>1. HeadProgress => HandlerSeesWholeHead
  BY DEF HeadProgress, HandlerSeesWholeHead
<1>. QED  BY <1>1, InitHeadProgress, NextHeadProgress, PTL DEF SafeSpec

-----------------------------------------------------------------------------
(***************************************************************************)
(* The response.  The invariant ties status_ and sending_data_ to what has *)
(* been written: status_ to WriteStatus's own header, which follows the    *)
(* status line, sending_data_ to the empty line.  Every Write adds pieces  *)
(* one by one, so that the order of the response follows from what one     *)
(* piece may be added after.                                               *)
(***************************************************************************)
Codes == {200, 400, 404, 408, 500}

Includes(w, p) == \E i \in DOMAIN w : w[i] = p

StatusAhead(w) == Len(w) >= 2 /\ w[1][1] = "status" /\ w[2] = Close

Ordered(w) ==
  \A i \in DOMAIN w :
    LET before(p) == \E j \in 1 .. i - 1 : w[j] = p
    IN /\ w[i][1] = "data" <=> before(Blank)
       /\ w[i][1] = "blank" => before(Close)
       /\ w[i][1] = "status" /\ i # 1 => ~StatusAhead(w)

ResponseSoFar ==
  /\ written \in Seq(Pieces)
  /\ Ordered(written)
  /\ status \in Codes \cup {NoStatus}
  /\ sending \in BOOLEAN
  /\ status # NoStatus <=> Includes(written, Close)
  /\ sending <=> Includes(written, Blank)

(* What of a response w in order says where it stands. *)
Response(w, closed, blank) ==
  /\ w \in Seq(Pieces)
  /\ Ordered(w)
  /\ Includes(w, Close) <=> closed
  /\ Includes(w, Blank) <=> blank

(* The piece p may come after w. *)
Fits(w, p) ==
  /\ p \in Pieces
  /\ w \in Seq(Pieces)
  /\ Ordered(w)
  /\ p[1] = "data" <=> Includes(w, Blank)
  /\ p[1] = "blank" => Includes(w, Close)
  /\ p[1] = "status" \/ p = Close => ~Includes(w, Close)

(* A piece at the end leaves the ones before it as they were. *)
LEMMA AppendPiece ==
  ASSUME NEW w, NEW p, Fits(w, p)
  PROVE  Response(Append(w, p), Includes(w, Close) \/ p = Close,
                  Includes(w, Blank) \/ p = Blank)
<1> DEFINE v == Append(w, p)
           n == Len(w) + 1
<1>1. /\ v \in Seq(Pieces)
      /\ Len(v) = n
      /\ \A i \in 1 .. Len(w) : v[i] = w[i]
      /\ v[n] = p
  BY AppendProperties DEF Fits
<1>2. /\ Len(w) \in Nat
      /\ DOMAIN w = 1 .. Len(w)
      /\ DOMAIN v = 1 .. n
  BY <1>1, LenProperties DEF Fits
<1> HIDE DEF v
<1>3. ASSUME NEW q  PROVE Includes(v, q) <=> Includes(w, q) \/ p = q
  BY <1>1, <1>2 DEF Includes
<1>4. ASSUME NEW i \in 1 .. n
      PROVE  /\ v[i][1] = "data" <=> \E j \in 1 .. i - 1 : v[j] = Blank
             /\ v[i][1] = "blank" => \E j \in 1 .. i - 1 : v[j] = Close
  <2>1. \A j \in 1 .. i - 1 : v[j] = w[j]
    BY <1>1, <1>2
  <2>2. CASE i = n
    <3>1. 1 .. i - 1 = DOMAIN w /\ v[i] = p
      BY <1>1, <1>2, <2>2
    <3>. QED  BY <2>1, <3>1 DEF Includes, Fits
  <2>3. CASE i # n
    <3>1. i \in DOMAIN w /\ v[i] = w[i]
      BY <1>1, <1>2, <2>3
    <3>. QED  BY <2>1, <3>1 DEF Ordered, Fits
  <2>. QED  BY <2>2, <2>3
<1>5. ASSUME NEW i \in 1 .. n, v[i][1] = "status", i # 1, StatusAhead(v)
      PROVE  FALSE
  <2>1. v[2] = Close /\ v[1][1] = "status" /\ n >= 2
    BY <1>1, <1>5 DEF StatusAhead
  <2>2. p = Close \/ Includes(w, Close)
    BY <1>3, <1>2, <2>1 DEF Includes
  <2>3. CASE i = n
    <3>1. p[1] = "status" /\ p # Close
      BY <1>1, <1>5, <2>3 DEF Close
    <3>. QED  BY <2>2, <3>1 DEF Fits
  <2>4. CASE i # n
    <3>1. i \in DOMAIN w /\ w[i][1] = "status" /\ Len(w) >= 2
      BY <1>1, <1>2, <1>5, <2>4
    <3>2. StatusAhead(w)
      BY <1>1, <1>2, <2>1, <3>1 DEF StatusAhead
    <3>. QED  BY <1>5, <3>1, <3>2 DEF Ordered, Fits
  <2>. QED  BY <2>3, <2>4
<1>6. Ordered(v)
  BY <1>2, <1>4, <1>5 DEF Ordered
<1>. QED  BY <1>1, <1>3, <1>6 DEF v, Response

(* Of the pieces a writer writes, what kind they are. *)
LEMMA PieceKinds ==
  /\ {200, 404} \subseteq Codes
  /\ \A c \in Codes :
       /\ StatusLine(c) \in Pieces /\ StatusLine(c)[1] = "status"
       /\ StatusLine(c) # Blank /\ StatusLine(c) # Close
  /\ Close \in Pieces /\ Close[1] = "close" /\ Close # Blank
  /\ Header \in Pieces /\ Header[1] = "header"
  /\ Header # Blank /\ Header # Close
  /\ Blank \in Pieces /\ Blank[1] = "blank"
  /\ Data[1] = "data" /\ Data # Blank /\ Data # Close
  /\ written \in Seq(Pieces) /\ Len(written) < MaxPieces => Data \in Pieces
<1>1. written \in Seq(Pieces) => Len(written) \in Nat
  BY LenProperties
<1>. QED
  BY <1>1, ConnectionAssumption
     DEF Pieces, Codes, StatusLine, Close, Header, Blank, Data

(* The pieces that WriteStatus, WriteHeader and WriteData add. *)
LEMMA AddStatusLine ==
  ASSUME NEW code \in Codes, NEW w,
         Response(w, FALSE, FALSE)
  PROVE  Response(Append(w, StatusLine(code)), FALSE, FALSE)
<1>1. Fits(w, StatusLine(code))
  BY PieceKinds DEF Response, Fits
<1>. QED  BY <1>1, AppendPiece, PieceKinds DEF Response

LEMMA AddClose ==
  ASSUME NEW w, Response(w, FALSE, FALSE)
  PROVE  Response(Append(w, Close), TRUE, FALSE)
<1>1. Fits(w, Close)
  BY PieceKinds DEF Response, Fits
<1>. QED  BY <1>1, AppendPiece, PieceKinds DEF Response

LEMMA AddHeader ==
  ASSUME NEW w, NEW closed \in BOOLEAN, Response(w, closed, FALSE)
  PROVE  Response(Append(w, Header), closed, FALSE)
<1>1. Fits(w, Header)
  BY PieceKinds DEF Response, Fits
<1>. QED  BY <1>1, AppendPiece, PieceKinds DEF Response

LEMMA AddBlank ==
  ASSUME NEW w, Response(w, TRUE, FALSE)
  PROVE  Response(Append(w, Blank), TRUE, TRUE)
<1>1. Fits(w, Blank)
  BY PieceKinds DEF Response, Fits
<1>. QED  BY <1>1, AppendPiece, PieceKinds DEF Response

LEMMA AddData ==
  ASSUME NEW w, Response(w, TRUE, TRUE), Data \in Pieces
  PROVE  Response(Append(w, Data), TRUE, TRUE)
<1>1. Fits(w, Data)
  BY PieceKinds DEF Response, Fits
<1>. QED  BY <1>1, AppendPiece, PieceKinds DEF Response

(* What has been written, as a response. *)
LEMMA WrittenInOrder ==
  ASSUME ResponseSoFar
  PROVE  /\ Response(written, status # NoStatus, sending)
         /\ sending => status # NoStatus
<1>1. Includes(written, Blank) => Includes(written, Close)
  <2>. SUFFICES ASSUME NEW i \in DOMAIN written, written[i] = Blank
                PROVE  Includes(written, Close)
    BY DEF Includes
  <2>1. \E j \in 1 .. i - 1 : written[j] = Close
    BY PieceKinds DEF ResponseSoFar, Ordered
  <2>2. DOMAIN written = 1 .. Len(written) /\ Len(written) \in Nat
    BY LenProperties DEF ResponseSoFar
  <2>. QED  BY <2>1, <2>2 DEF Includes
<1>. QED  BY <1>1 DEF ResponseSoFar, Response

LEMMA AddFirstLine ==
  ASSUME NEW code \in Codes, ResponseSoFar,
         status = NoStatus
  PROVE  Response(written \o <<StatusLine(code)>>, FALSE, FALSE)
<1>1. Response(written, FALSE, FALSE) /\ written \in Seq(Pieces)
  BY WrittenInOrder DEF ResponseSoFar, Response
<1>2. written \o <<StatusLine(code)>> = Append(written, StatusLine(code))
  BY <1>1, PieceKinds, AppendIsConcat
<1>3. Response(Append(written, StatusLine(code)), FALSE, FALSE)
  BY <1>1, AddStatusLine
<1>. QED  BY <1>2, <1>3

LEMMA AddPreamble ==
  ASSUME NEW code \in Codes, ResponseSoFar,
         status = NoStatus
  PROVE  Response(written \o Preamble(code), TRUE, FALSE)
<1> DEFINE w == written \o <<StatusLine(code)>>
<1>0. Response(w, FALSE, FALSE)
  BY AddFirstLine
<1>1. written \in Seq(Pieces)
  BY DEF ResponseSoFar
<1>2. ASSUME NEW p
      PROVE  written \o <<p, Close>> = Append(Append(written, p), Close)
  BY <1>1
<1>3. w = Append(written, StatusLine(code))
  BY <1>1, PieceKinds, AppendIsConcat
<1>4. written \o Preamble(code) = Append(w, Close)
  BY <1>2, <1>3 DEF Preamble
<1> HIDE DEF w
<1>. QED  BY <1>0, <1>4, AddClose

LEMMA AddLead ==
  ASSUME ResponseSoFar
  PROVE  Response(written \o Lead, TRUE, TRUE)
<1> DEFINE first == IF status = NoStatus THEN Preamble(200) ELSE <<>>
           w == written \o first
<1>1. /\ written \in Seq(Pieces) /\ first \in Seq(Pieces)
      /\ <<Blank>> \in Seq(Pieces)
  BY PieceKinds DEF ResponseSoFar, Preamble
<1>2. sending \in BOOLEAN /\ Response(w, TRUE, sending)
  <2>1. CASE status = NoStatus
    <3>1. ~sending
      BY <2>1, WrittenInOrder
    <3>2. Response(w, TRUE, FALSE)
      BY <2>1, AddPreamble, PieceKinds
    <3>. QED  BY <3>1, <3>2 DEF ResponseSoFar, Response
  <2>2. CASE status # NoStatus
    <3>1. w = written
      BY <1>1, <2>2, ConcatEmptySeq
    <3>. QED  BY <2>2, <3>1, WrittenInOrder DEF ResponseSoFar, Response
  <2>. QED  BY <2>1, <2>2
<1>3. CASE sending
  <2>1. Lead = first \o <<>>
    BY <1>3 DEF Lead
  <2>2. written \o Lead = w
    BY <1>1, <2>1, ConcatEmptySeq
  <2> HIDE DEF w
  <2>. QED  BY <1>2, <1>3, <2>2 DEF Response
<1>4. CASE ~sending
  <2>1. Lead = first \o <<Blank>>
    BY <1>4 DEF Lead
  <2>2. ASSUME NEW a \in Seq(Pieces)
        PROVE  written \o (a \o <<Blank>>) = (written \o a) \o <<Blank>>
    BY <1>1, ConcatAssociative
  <2>3. w \o <<Blank>> = Append(w, Blank)
    BY <1>1, PieceKinds, ConcatProperties, AppendIsConcat
  <2>4. written \o Lead = w \o <<Blank>>
    BY <1>1, <2>1, <2>2
  <2> HIDE DEF w
  <2>5. Response(w, TRUE, FALSE)
    BY <1>2, <1>4 DEF Response
  <2>. QED  BY <2>3, <2>4, <2>5, AddBlank
<1>. QED  BY <1>2, <1>3, <1>4

LEMMA AddLeadAndData ==
  ASSUME ResponseSoFar, Len(written) < MaxPieces
  PROVE  /\ Append(Lead, Data) \in Seq(Pieces)
         /\ Response(written \o Append(Lead, Data), TRUE, TRUE)
<1> DEFINE w == written \o Lead
<1>1. written \in Seq(Pieces) /\ Data \in Pieces
  BY PieceKinds DEF ResponseSoFar
<1>2. Lead \in Seq(Pieces)
  BY PieceKinds DEF Lead, Preamble
<1>3. Append(Lead, Data) \in Seq(Pieces) /\ <<Data>> \in Seq(Pieces)
  BY <1>1, <1>2, AppendProperties
<1>4. written \o Append(Lead, Data) = Append(w, Data)
  <2>1. Append(Lead, Data) = Lead \o <<Data>>
    BY <1>1, <1>2, AppendIsConcat
  <2>2. Append(w, Data) = w \o <<Data>>
    BY <1>1, <1>2, ConcatProperties, AppendIsConcat
  <2>. QED  BY <1>1, <1>2, <1>3, <2>1, <2>2, ConcatAssociative
<1>5. Response(w, TRUE, TRUE)
  BY AddLead
<1> HIDE DEF w
<1>. QED  BY <1>1, <1>3, <1>4, <1>5, AddData

(* A sequence that starts like t has t as its first part. *)
LEMMA FirstPart ==
  ASSUME NEW S, NEW s \in Seq(S), NEW t \in Seq(S), Len(t) <= Len(s),
         \A i \in 1 .. Len(t) : s[i] = t[i]
  PROVE  SubSeq(s, 1, Len(t)) = t
<1>1. Len(s) \in Nat /\ Len(t) \in Nat
  BY LenProperties
<1>2. \A i \in 1 .. Len(t) : s[i] \in S
  BY <1>1, ElementOfSeq
<1> DEFINE u == SubSeq(s, 1, Len(t))
<1>3. /\ u \in Seq(S)
      /\ Len(u) = Len(t)
      /\ \A i \in 1 .. Len(t) : u[i] = s[i]
  BY <1>1, <1>2, SubSeqProperties
<1> HIDE DEF u
<1>4. u = t
  BY <1>3, SeqEqual
<1>. QED  BY <1>4 DEF u

LEMMA ConcatStart ==
  ASSUME NEW S, NEW t \in Seq(S), NEW u \in Seq(S)
  PROVE  /\ Len(t \o u) = Len(t) + Len(u)
         /\ \A i \in 1 .. Len(t) : (t \o u)[i] = t[i]
BY LenProperties, ConcatProperties

(* What of a call may have been accepted when it fails. *)
LEMMA AcceptedPrefix ==
  ASSUME ResponseSoFar,
         NEW ps \in Seq(Pieces), NEW n \in 0 .. Len(ps) - 1,
         \/ ps = <<Header>>
         \/ ps = Append(Lead, Data)
         \/ /\ status = NoStatus
            /\ \E c \in Codes : ps = Preamble(c)
  PROVE  \/ SubSeq(ps, 1, n) = <<>> /\ n = 0
         \/ /\ status = NoStatus /\ n = 1
            /\ \E c \in Codes :
                 SubSeq(ps, 1, n) = <<StatusLine(c)>>
         \/ status = NoStatus /\ SubSeq(ps, 1, n) = Preamble(200) /\ n = 2
         \/ /\ SubSeq(ps, 1, n) = Lead
            /\ ~sending
            /\ n = IF status = NoStatus THEN 3 ELSE 1
<1>1. CASE n = 0
  BY <1>1, SubSeqEmpty
<1>2. /\ 200 \in Codes
      /\ <<Blank>> \in Seq(Pieces) /\ Len(<<Blank>>) = 1
      /\ \A c \in Codes :
           /\ <<StatusLine(c)>> \in Seq(Pieces)
           /\ Len(<<StatusLine(c)>>) = 1
           /\ <<StatusLine(c)>>[1] = StatusLine(c)
           /\ Preamble(c) \in Seq(Pieces)
           /\ Len(Preamble(c)) = 2
           /\ Preamble(c)[1] = StatusLine(c) /\ Preamble(c)[2] = Close
  BY PieceKinds DEF Preamble
<1>3. CASE ps = <<Header>>
  BY <1>1, <1>3
<1>first. ASSUME NEW c \in Codes, Len(ps) >= 2, ps[1] = StatusLine(c),
             ps[2] = Close
      PROVE  /\ SubSeq(ps, 1, 1) = <<StatusLine(c)>>
             /\ SubSeq(ps, 1, 2) = Preamble(c)
  <2>1. SubSeq(ps, 1, 1) = <<StatusLine(c)>>
    <3> DEFINE t == <<StatusLine(c)>>
    <3>1. t \in Seq(Pieces) /\ Len(t) = 1 /\ t[1] = ps[1]
      BY <1>2, <1>first
    <3> HIDE DEF t
    <3>2. Len(t) <= Len(ps) /\ \A i \in 1 .. Len(t) : ps[i] = t[i]
      BY <1>first, <3>1
    <3>3. SubSeq(ps, 1, 1) = t
      BY <3>1, <3>2, FirstPart
    <3>. QED  BY <3>3 DEF t
  <2>2. SubSeq(ps, 1, 2) = Preamble(c)
    <3> DEFINE t == Preamble(c)
    <3>1. /\ t \in Seq(Pieces) /\ Len(t) = 2
          /\ t[1] = ps[1] /\ t[2] = ps[2]
      BY <1>2, <1>first
    <3> HIDE DEF t
    <3>2. Len(t) <= Len(ps) /\ \A i \in 1 .. Len(t) : ps[i] = t[i]
      BY <1>first, <3>1
    <3>3. SubSeq(ps, 1, 2) = t
      BY <3>1, <3>2, FirstPart
    <3>. QED  BY <3>3 DEF t
  <2>. QED  BY <2>1, <2>2
<1>4. CASE /\ status = NoStatus
           /\ \E c \in Codes : ps = Preamble(c)
  <2>1. PICK c \in Codes : ps = Preamble(c)
    BY <1>4
  <2>2. Len(ps) = 2 /\ ps[1] = StatusLine(c) /\ ps[2] = Close
    BY <1>2, <2>1
  <2>3. n \in {0, 1} /\ SubSeq(ps, 1, 1) = <<StatusLine(c)>>
    BY <1>first, <2>2
  <2>. QED  BY <1>1, <1>4, <2>3
<1>5. ASSUME ps = Append(Lead, Data)
      PROVE  /\ Lead \in Seq(Pieces)
             /\ Len(ps) = Len(Lead) + 1
             /\ \A i \in 1 .. Len(Lead) : ps[i] = Lead[i]
             /\ SubSeq(ps, 1, Len(Lead)) = Lead
  <2>1. Lead \in Seq(Pieces)
    BY <1>2 DEF Lead
  <2>2. /\ Len(ps) = Len(Lead) + 1
        /\ \A i \in 1 .. Len(Lead) : ps[i] = Lead[i]
    <3> DEFINE T == Pieces \cup {Data}
    <3>1. Lead \in Seq(T) /\ Data \in T
      BY <2>1, SeqMonotonic
    <3>. QED  BY <1>5, <3>1, AppendProperties
  <2>3. Len(Lead) \in Nat
    BY <2>1, LenProperties
  <2>. QED  BY <2>1, <2>2, <2>3, FirstPart
<1>6. CASE ps = Append(Lead, Data) /\ sending
  <2>1. Lead = <<>>
    BY <1>6, WrittenInOrder DEF Lead
  <2>. QED  BY <1>1, <1>5, <1>6, <2>1
<1>7. CASE ps = Append(Lead, Data) /\ ~sending /\ status # NoStatus
  <2>1. Lead = <<>> \o <<Blank>>
    BY <1>7 DEF Lead
  <2>2. Lead = <<Blank>>
    BY <1>2, <2>1, ConcatEmptySeq
  <2>3. n \in {0, 1}
    BY <1>2, <1>5, <1>7, <2>2
  <2>. QED  BY <1>1, <1>2, <1>5, <1>7, <2>2, <2>3
<1>8. CASE ps = Append(Lead, Data) /\ ~sending /\ status = NoStatus
  <2>1. Lead = Preamble(200) \o <<Blank>>
    BY <1>8 DEF Lead
  <2>2. Len(Lead) = 3 /\ Lead[1] = StatusLine(200) /\ Lead[2] = Close
    <3> DEFINE t == Preamble(200)
               u == <<Blank>>
    <3>1. /\ t \in Seq(Pieces) /\ Len(t) = 2
          /\ t[1] = StatusLine(200) /\ t[2] = Close
          /\ u \in Seq(Pieces) /\ Len(u) = 1
      BY <1>2
    <3>2. Lead = t \o u
      BY <2>1
    <3> HIDE DEF t, u
    <3>3. /\ Len(t \o u) = Len(t) + Len(u)
          /\ \A i \in 1 .. Len(t) : (t \o u)[i] = t[i]
      BY <3>1, ConcatStart
    <3>. QED  BY <3>1, <3>2, <3>3
  <2>3. n \in {0, 1, 2, 3} /\ Len(ps) = 4
    BY <1>5, <1>8, <2>2
  <2>4. ps[1] = StatusLine(200) /\ ps[2] = Close
    BY <1>5, <1>8, <2>2
  <2>5. /\ SubSeq(ps, 1, 1) = <<StatusLine(200)>>
        /\ SubSeq(ps, 1, 2) = Preamble(200)
    BY <1>2, <1>first, <2>3, <2>4
  <2>. QED  BY <1>1, <1>5, <1>8, <2>2, <1>2, <2>3, <2>5
<1>. QED  BY <1>3, <1>4, <1>6, <1>7, <1>8

(* Handle answers what it has caught. *)
ErrorCaught == pc = "catching" => error \in DOMAIN CodeOf

LEMMA CodeOfError ==
  ASSUME NEW e \in DOMAIN CodeOf
  PROVE  CodeOf[e] \in Codes
BY DEF CodeOf, Codes

LEMMA InitResponseSoFar == Init => ResponseSoFar /\ ErrorCaught
<1>. SUFFICES ASSUME Init  PROVE ResponseSoFar /\ ErrorCaught
  OBVIOUS
<1>1. written = <<>> /\ status = NoStatus /\ sending = FALSE
  BY DEF Init
<1>2. /\ written \in Seq(Pieces) /\ Ordered(written)
      /\ ~Includes(written, Close) /\ ~Includes(written, Blank)
  BY <1>1 DEF Ordered, Includes
<1>3. ResponseSoFar
  BY <1>1, <1>2 DEF ResponseSoFar
<1>. QED  BY <1>3 DEF Init, ErrorCaught

LEMMA NextErrorCaught == ErrorCaught /\ [Next]_vars => ErrorCaught'
BY DEF ErrorCaught, Next, HandleStep, HandlerStep, ClientStep, Finished, vars,
     SetUp, Receive, ReadTimesOut, ReadInterrupted, ReadFails, ReadRequestLine,
     ReadHeaderLine, TimeoutErrors, InterruptErrors, FailureErrors,
     HandlerReads, HandlerWritesStatus, HandlerWritesHeader, WriterRefuses,
     HandlerWritesNoData, HandlerWritesData, HandlerWritesMuchData,
     HandlerWriteFails, HandlerFlushes, HandlerThrows, HandlerReturns, Flush,
     CloseWriter, FlushTo, Killed, Catch, ClientStalls, ClientResumes,
     ClientHangsUp, Aborts, Throw, Handling, CanWrite, CodeOf

(* WriteStatus is called once. *)
LEMMA StatusSoFar ==
  ASSUME NEW code \in Codes, ResponseSoFar,
         status = NoStatus, WriteStatus(code), sending' = sending
  PROVE  ResponseSoFar'
<1>1. written' = written \o Preamble(code) /\ status' = code
  BY DEF WriteStatus, Put
<1>2. Response(written', TRUE, FALSE)
  BY <1>1, AddPreamble
<1>3. status' # NoStatus
  BY <1>1, ConnectionAssumption DEF Codes
<1>4. ~sending
  BY WrittenInOrder
<1>. QED
  BY <1>1, <1>2, <1>3, <1>4 DEF ResponseSoFar, Response, Ordered, Includes

(* WriteData, with and without data. *)
LEMMA DataSoFar ==
  ASSUME ResponseSoFar, DataBegun, Response(written', TRUE, TRUE)
  PROVE  ResponseSoFar'
<1>1. status' \in Codes /\ sending'
  BY PieceKinds DEF DataBegun, ResponseSoFar
<1>2. status' # NoStatus
  BY <1>1, ConnectionAssumption DEF Codes
<1>. QED
  BY <1>1, <1>2 DEF ResponseSoFar, Response, Ordered, Includes, DataBegun

LEMMA SoFar ==
  ASSUME sending' \in BOOLEAN, status' \in Codes \cup {NoStatus},
         Response(written', status' # NoStatus, sending')
  PROVE  ResponseSoFar'
BY DEF ResponseSoFar, Response, Ordered, Includes

(* WriteStatus and WriteHeader write no empty line. *)
LEMMA NoBlankYet ==
  /\ ~Contains(<<>>, Blank)
  /\ \A c \in Codes : ~Contains(<<StatusLine(c)>>, Blank)
  /\ \A c \in Codes : ~Contains(Preamble(c), Blank)
<1>1. ASSUME NEW c \in Codes  PROVE ~Contains(<<StatusLine(c)>>, Blank)
  <2>1. StatusLine(c) # Blank
    BY PieceKinds
  <2>. QED  BY <2>1 DEF Contains
<1>2. ASSUME NEW c \in Codes  PROVE ~Contains(Preamble(c), Blank)
  <2>1. StatusLine(c) # Blank /\ Close # Blank
    BY PieceKinds
  <2>. QED  BY <2>1 DEF Contains, Preamble
<1>3. ~Contains(<<>>, Blank)
  BY DEF Contains
<1>. QED  BY <1>1, <1>2, <1>3

(* A call that fails halfway. *)
LEMMA FailureSoFar ==
  ASSUME ResponseSoFar,
         NEW ps \in Seq(Pieces), WriteFails(ps),
         \/ ps = <<Header>>
         \/ ps = Append(Lead, Data)
         \/ /\ status = NoStatus
            /\ \E c \in Codes : ps = Preamble(c)
  PROVE  /\ ResponseSoFar'
         /\ \E qs \in Seq(Pieces) :
              written' = written \o qs /\ Push(outbuf \o qs)
<1>1. PICK n \in 0 .. Len(ps) - 1 :
        /\ written' = written \o SubSeq(ps, 1, n)
        /\ status' = IF n >= 2 /\ status = NoStatus THEN 200 ELSE status
        /\ sending' = (sending \/ Contains(SubSeq(ps, 1, n), Blank))
        /\ Push(outbuf \o SubSeq(ps, 1, n))
  BY DEF WriteFails
<1> DEFINE qs == SubSeq(ps, 1, n)
<1>2. /\ written' = written \o qs
      /\ sending' = (sending \/ Contains(qs, Blank))
      /\ Push(outbuf \o qs)
  BY <1>1
<1>3. \/ qs = <<>> /\ n = 0
      \/ status = NoStatus /\ n = 1 /\ \E c \in Codes : qs = <<StatusLine(c)>>
      \/ status = NoStatus /\ qs = Preamble(200) /\ n = 2
      \/ qs = Lead /\ ~sending /\ n = IF status = NoStatus THEN 3 ELSE 1
  BY AcceptedPrefix
<1> HIDE DEF qs
<1>4. /\ written \in Seq(Pieces) /\ sending \in BOOLEAN
      /\ status \in Codes \cup {NoStatus}
  BY DEF ResponseSoFar
<1>5. 200 \in Codes /\ 200 # NoStatus
  BY PieceKinds, ConnectionAssumption
<1>6. status = NoStatus => sending = FALSE
  BY <1>4, WrittenInOrder
<1>7. CASE qs = <<>> /\ n = 0
  <2>1. written' = written /\ qs \in Seq(Pieces)
    BY <1>2, <1>4, <1>7, ConcatEmptySeq
  <2>2. status' = status /\ sending' = sending
    BY <1>1, <1>2, <1>4, <1>7, NoBlankYet
  <2>3. ResponseSoFar'
    BY <2>1, <2>2 DEF ResponseSoFar, Ordered, Includes
  <2>. QED  BY <1>2, <2>1, <2>3
<1>8. ASSUME NEW c \in Codes, qs = <<StatusLine(c)>>, status = NoStatus,
             n = 1
      PROVE  ResponseSoFar' /\ qs \in Seq(Pieces)
  <2>1. status' = NoStatus
    BY <1>1, <1>8
  <2>2. sending' = FALSE
    BY <1>2, <1>6, <1>8, NoBlankYet
  <2>3. Response(written', FALSE, FALSE)
    BY <1>2, <1>8, AddFirstLine
  <2>4. ResponseSoFar'
    <3>1. Response(written', status' # NoStatus, sending')
      BY <2>1, <2>2, <2>3 DEF Response
    <3>. QED  BY <2>1, <2>2, <3>1, SoFar
  <2>. QED  BY <1>8, <2>4, PieceKinds
<1>9. CASE status = NoStatus /\ qs = Preamble(200) /\ n = 2
  <2>1. status' = 200
    BY <1>1, <1>9
  <2>2. sending' = FALSE
    BY <1>2, <1>5, <1>6, <1>9, NoBlankYet
  <2>3. Response(written', TRUE, FALSE)
    BY <1>2, <1>5, <1>9, AddPreamble
  <2>4. ResponseSoFar'
    <3>1. Response(written', status' # NoStatus, sending')
      BY <1>5, <2>1, <2>2, <2>3 DEF Response
    <3>. QED  BY <1>5, <2>1, <2>2, <3>1, SoFar
  <2>5. qs \in Seq(Pieces)
    BY <1>5, <1>9, PieceKinds DEF Preamble
  <2>. QED  BY <1>2, <2>4, <2>5
<1>10. CASE /\ qs = Lead /\ ~sending
            /\ n = IF status = NoStatus THEN 3 ELSE 1
  <2> DEFINE first == IF status = NoStatus THEN Preamble(200) ELSE <<>>
  <2>1. first \in Seq(Pieces) /\ <<Blank>> \in Seq(Pieces)
    BY PieceKinds DEF Preamble
  <2>2. Lead = first \o <<Blank>>
    BY <1>10 DEF Lead
  <2> HIDE DEF first
  <2>3. /\ Lead \in Seq(Pieces)
        /\ \E i \in 1 .. Len(Lead) : Lead[i] = Blank
    <3>1. first \o <<Blank>> = Append(first, Blank)
      BY <2>1, PieceKinds, AppendIsConcat
    <3>2. /\ Append(first, Blank) \in Seq(Pieces)
          /\ Len(Append(first, Blank)) = Len(first) + 1
          /\ Append(first, Blank)[Len(first) + 1] = Blank
      BY <2>1, PieceKinds, AppendProperties
    <3>. QED  BY <2>1, <2>2, <3>1, <3>2, LenProperties
  <2>4. sending' = TRUE
    <3>1. Contains(qs, Blank)
      BY <1>10, <2>3 DEF Contains
    <3>. QED  BY <1>2, <1>4, <3>1
  <2>5. status' \in Codes
    BY <1>1, <1>4, <1>5, <1>10
  <2>6. status' # NoStatus
    BY <2>5, ConnectionAssumption DEF Codes
  <2>7. Response(written', TRUE, TRUE)
    BY <1>2, <1>10, AddLead
  <2>8. ResponseSoFar'
    <3>1. Response(written', status' # NoStatus, sending')
      BY <2>4, <2>6, <2>7 DEF Response
    <3>. QED  BY <2>4, <2>5, <3>1, SoFar
  <2>. QED  BY <1>2, <1>10, <2>3, <2>8
<1>. QED  BY <1>2, <1>3, <1>7, <1>8, <1>9, <1>10

(* The calls that can fail. *)
LEMMA CallsTyped ==
  ASSUME ResponseSoFar, Len(written) < MaxPieces, NEW ps \in Calls
  PROVE  /\ ps \in Seq(Pieces)
         /\ \/ ps = <<Header>>
            \/ ps = Append(Lead, Data)
            \/ status = NoStatus /\ \E c \in Codes : ps = Preamble(c)
<1>1. \/ ps = <<Header>>
      \/ ps = Append(Lead, Data)
      \/ status = NoStatus /\ \E c \in {200, 404} : ps = Preamble(c)
  BY DEF Calls
<1>2. /\ <<Header>> \in Seq(Pieces)
      /\ \A c \in Codes : Preamble(c) \in Seq(Pieces)
  BY PieceKinds DEF Preamble
<1>3. {200, 404} \subseteq Codes
  BY PieceKinds
<1>4. Append(Lead, Data) \in Seq(Pieces)
  BY AddLeadAndData
<1>5. ps \in Seq(Pieces)
  <2>1. CASE ps = <<Header>>
    BY <1>2, <2>1
  <2>2. CASE ps = Append(Lead, Data)
    BY <1>4, <2>2
  <2>3. ASSUME NEW c \in {200, 404}, ps = Preamble(c)
        PROVE  ps \in Seq(Pieces)
    <3>1. c \in Codes
      BY <1>3
    <3>. QED  BY <1>2, <2>3, <3>1
  <2>. QED  BY <1>1, <2>1, <2>2, <2>3
<1>. QED  BY <1>1, <1>3, <1>5

(* MustSend's call, when it fails, has not set status_. *)
LEMMA FailedStatus ==
  ASSUME NEW c, WriteFails(Preamble(c))
  PROVE  status' = status
<1>1. Len(Preamble(c)) = 2
  BY DEF Preamble
<1>. QED  BY <1>1 DEF WriteFails

LEMMA NextResponseSoFar ==
  ResponseSoFar /\ ErrorCaught /\ [Next]_vars => ResponseSoFar'
<1>. SUFFICES ASSUME ResponseSoFar, ErrorCaught, [Next]_vars
              PROVE  ResponseSoFar'
  OBVIOUS
<1>1. ASSUME UNCHANGED <<status, sending, written>>
      PROVE  ResponseSoFar'
  BY <1>1 DEF ResponseSoFar, Ordered, Includes
<1>2. CASE HandlerWritesStatus
  <2>1. PICK code \in {200, 404} : WriteStatus(code)
    BY <1>2 DEF HandlerWritesStatus
  <2>2. code \in Codes
    BY PieceKinds
  <2>. QED  BY <1>2, <2>1, <2>2, StatusSoFar DEF HandlerWritesStatus
<1>3. CASE HandlerWritesHeader
  <2>1. /\ written' = written \o <<Header>>
        /\ UNCHANGED <<status, sending>>
        /\ ~sending
        /\ written \in Seq(Pieces)
    BY <1>3 DEF HandlerWritesHeader, Put, ResponseSoFar
  <2>2. written' = Append(written, Header)
    BY <2>1, PieceKinds, AppendIsConcat
  <2>3. Response(written, status # NoStatus, FALSE)
    BY <2>1, WrittenInOrder DEF Response
  <2>4. Response(written', status # NoStatus, FALSE)
    BY <2>2, <2>3, AddHeader
  <2>. QED
    BY <2>1, <2>4 DEF ResponseSoFar, Response, Ordered, Includes
<1>4. CASE HandlerWritesNoData
  <2>1. DataBegun /\ written' = written \o Lead
    BY <1>4 DEF HandlerWritesNoData, Put
  <2>2. Response(written', TRUE, TRUE)
    BY <2>1, AddLead
  <2>. QED  BY <2>1, <2>2, DataSoFar
<1>5. CASE HandlerWritesData \/ HandlerWritesMuchData
  <2>1. CASE HandlerWritesMuchData /\ Killed
    BY <1>1, <2>1 DEF Killed, respVars
  <2>2. CASE HandlerWritesData \/ ~Killed
    <3>1. /\ DataBegun /\ written' = written \o Append(Lead, Data)
          /\ Len(written) < MaxPieces
      BY <1>5, <2>2
         DEF HandlerWritesData, HandlerWritesMuchData, Put, CanWrite
    <3>2. Response(written', TRUE, TRUE)
      BY <3>1, AddLeadAndData
    <3>. QED  BY <3>1, <3>2, DataSoFar
  <2>. QED  BY <1>5, <2>1, <2>2
<1>6. CASE HandlerWriteFails
  <2>1. PICK ps \in Calls : WriteFails(ps)
    BY <1>6 DEF HandlerWriteFails
  <2>2. Len(written) < MaxPieces
    BY <1>6 DEF HandlerWriteFails, CanWrite
  <2>. QED  BY <2>1, <2>2, CallsTyped, FailureSoFar
<1>7. CASE Catch
  <2>1. CASE MaySend
    <3>1. /\ error \in DOMAIN CodeOf /\ status = NoStatus
          /\ CodeOf[error] \in Codes
      BY <1>7, <2>1, CodeOfError DEF Catch, MaySend, ErrorCaught
    <3>2. CASE WriteStatus(CodeOf[error]) /\ sending' = sending
      BY <3>1, <3>2, StatusSoFar
    <3>3. CASE WriteFails(Preamble(CodeOf[error]))
      <4>1. Preamble(CodeOf[error]) \in Seq(Pieces)
        BY <3>1, PieceKinds DEF Preamble
      <4>. QED  BY <3>1, <3>3, <4>1, FailureSoFar
    <3>. QED  BY <1>7, <2>1, <3>2, <3>3 DEF Catch
  <2>. QED  BY <1>1, <1>7, <2>1 DEF Catch, respVars
<1>8. CASE \/ SetUp \/ Receive \/ ReadTimesOut \/ ReadInterrupted \/ ReadFails
           \/ ReadRequestLine \/ ReadHeaderLine \/ HandlerReads
           \/ WriterRefuses \/ HandlerFlushes
           \/ HandlerThrows \/ HandlerReturns \/ Flush \/ CloseWriter
           \/ ClientStep \/ UNCHANGED vars
  BY <1>1, <1>8 DEF SetUp, Receive, ReadTimesOut, ReadInterrupted, ReadFails,
       ReadRequestLine, ReadHeaderLine, HandlerReads, TakeLine, WriterRefuses,
       HandlerFlushes, HandlerThrows, HandlerReturns,
       Flush, CloseWriter, FlushTo, Killed, ClientStep, ClientStalls,
       ClientResumes, ClientHangsUp, vars, respVars
<1>. QED
  BY <1>2, <1>3, <1>4, <1>5, <1>6, <1>7, <1>8
     DEF Next, HandleStep, HandlerStep, Finished

LEMMA InOrder == ResponseSoFar => ResponseKeepsOrder
<1>. SUFFICES ASSUME ResponseSoFar  PROVE ResponseKeepsOrder
  OBVIOUS
<1>1. StatusAhead(written) <=> BeginsWithStatus
  BY DEF StatusAhead, BeginsWithStatus
<1>. QED  BY <1>1 DEF ResponseSoFar, Ordered, ResponseKeepsOrder

(* Status and headers stay ahead of the only empty line and data after it, *)
(* the empty line comes after a whole status line, and a response that     *)
(* begins with one has no other, whatever the handler writes and wherever  *)
(* it or a call of the writer fails.                                       *)
THEOREM ConnectionResponseKeepsOrder == SafeSpec => []ResponseKeepsOrder
BY InOrder, InitResponseSoFar, NextErrorCaught, NextResponseSoFar, PTL
   DEF SafeSpec

-----------------------------------------------------------------------------
(***************************************************************************)
(* Delivery.  What has been written is what has been sent and what is in   *)
(* the buffer, as long as the client reads.                                *)
(***************************************************************************)
OutputTyped == outbuf \in Seq(Pieces) /\ wire \in Seq(Pieces)

Delivery ==
  /\ OutputTyped
  /\ ~faulty => link = "open" /\ written = wire \o outbuf
  /\ pc = "done" /\ ~faulty /\ received = <<>> => outbuf = <<>>

LEMMA WritesTyped ==
  /\ \A c \in Codes : Preamble(c) \in Seq(Pieces)
  /\ <<Header>> \in Seq(Pieces)
  /\ Lead \in Seq(Pieces)
<1>1. \A c \in Codes : Preamble(c) \in Seq(Pieces)
  BY PieceKinds DEF Preamble
<1>. QED  BY <1>1, PieceKinds DEF Lead

LEMMA PiecesAssociate ==
  ASSUME NEW s \in Seq(Pieces), NEW t \in Seq(Pieces), NEW u \in Seq(Pieces)
  PROVE  (s \o t) \o u = s \o (t \o u)
OBVIOUS

LEMMA PutDelivers ==
  ASSUME NEW ps \in Seq(Pieces), Delivery, Put(ps), UNCHANGED <<wire, link>>,
         faulty' = faulty, pc' # "done"
  PROVE  Delivery'
<1>1. OutputTyped /\ wire' = wire /\ outbuf' = outbuf \o ps
  BY DEF Delivery, Put
<1>2. OutputTyped'
  BY <1>1, ConcatProperties DEF OutputTyped
<1>3. ASSUME ~faulty  PROVE written' = wire' \o outbuf'
  <2>1. written' = (wire \o outbuf) \o ps
    BY <1>3 DEF Delivery, Put
  <2>2. wire \in Seq(Pieces) /\ outbuf \in Seq(Pieces)
    BY <1>1 DEF OutputTyped
  <2>3. (wire \o outbuf) \o ps = wire \o (outbuf \o ps)
    BY <2>2, PiecesAssociate
  <2>. QED  BY <1>1, <2>1, <2>3
<1>. QED  BY <1>2, <1>3 DEF Delivery

(* What a flush does to the pieces ps. *)
LEMMA PushDelivers ==
  ASSUME NEW ps \in Seq(Pieces), OutputTyped, Push(ps)
  PROVE  /\ OutputTyped'
         /\ link = "open" =>
              /\ link' = "open"
              /\ wire' \o outbuf' = wire \o ps
              /\ received = <<>> => outbuf' = <<>>
<1>1. CASE outbuf' = ps /\ UNCHANGED <<wire, link>> /\ (ps = <<>> \/ Clogged)
  BY <1>1 DEF OutputTyped, Clogged
<1>2. CASE outbuf' = <<>> /\ wire' = wire \o ps
             /\ (link' = link \/ link = "closed")
  <2>1. wire \o ps \in Seq(Pieces)
    BY ConcatProperties DEF OutputTyped
  <2>2. (wire \o ps) \o <<>> = wire \o ps
    BY <2>1, ConcatEmptySeq
  <2>. QED  BY <1>2, <2>1, <2>2 DEF OutputTyped
<1>3. CASE /\ outbuf' = <<>> /\ link = "stalled"
           /\ \E n \in 0 .. Len(ps) - 1 : wire' = wire \o SubSeq(ps, 1, n)
  <2>1. PICK n \in 0 .. Len(ps) - 1 : wire' = wire \o SubSeq(ps, 1, n)
    BY <1>3
  <2>2. \A i \in 1 .. n : ps[i] \in Pieces
    BY <2>1, LenProperties, ElementOfSeq
  <2>3. SubSeq(ps, 1, n) \in Seq(Pieces)
    BY <2>1, <2>2, SubSeqProperties, LenProperties
  <2>4. wire' \in Seq(Pieces)
    BY <2>1, <2>3, ConcatProperties DEF OutputTyped
  <2>. QED  BY <1>3, <2>4 DEF OutputTyped
<1>4. CASE outbuf' = <<>> /\ link = "reset" /\ UNCHANGED wire
  BY <1>4 DEF OutputTyped
<1>. QED  BY <1>1, <1>2, <1>3, <1>4 DEF Push

(* A call writes the pieces qs, and the FILE sends what it has. *)
LEMMA SendingDelivers ==
  ASSUME NEW qs \in Seq(Pieces), Delivery, written' = written \o qs,
         Push(outbuf \o qs), faulty' = faulty, pc' # "done"
  PROVE  Delivery'
<1>1. /\ OutputTyped /\ outbuf \o qs \in Seq(Pieces)
      /\ wire \in Seq(Pieces) /\ outbuf \in Seq(Pieces)
  BY ConcatProperties DEF Delivery, OutputTyped
<1>2. (wire \o outbuf) \o qs = wire \o (outbuf \o qs)
  BY <1>1, PiecesAssociate
<1>. QED  BY <1>1, <1>2, PushDelivers DEF Delivery

LEMMA FlushDelivers ==
  ASSUME NEW next, Delivery, pc # "done", FlushTo(next)
  PROVE  Delivery'
<1>1. CASE Kills(outbuf) /\ Killed
  BY <1>1 DEF Killed, Delivery, OutputTyped, respVars, streamVars
<1>2. CASE Push(outbuf) /\ UNCHANGED <<streamVars, written, faulty>>
  <2>1. outbuf \in Seq(Pieces) /\ OutputTyped
    BY DEF Delivery, OutputTyped
  <2>. QED  BY <1>2, <2>1, PushDelivers DEF Delivery, streamVars
<1>. QED  BY <1>1, <1>2 DEF FlushTo

LEMMA NextDelivery ==
  ResponseSoFar /\ ErrorCaught /\ Delivery /\ [Next]_vars => Delivery'
<1>. SUFFICES ASSUME ResponseSoFar, ErrorCaught, Delivery, [Next]_vars
              PROVE  Delivery'
  OBVIOUS
<1>1. ASSUME UNCHANGED <<outbuf, wire, written, faulty, link>>,
             pc' # "done" \/ UNCHANGED <<pc, received>>
      PROVE  Delivery'
  BY <1>1 DEF Delivery, OutputTyped
<1>2. CASE HandlerWritesStatus
  <2>1. PICK code \in {200, 404} : WriteStatus(code)
    BY <1>2 DEF HandlerWritesStatus
  <2>2. Preamble(code) \in Seq(Pieces)
    BY WritesTyped, PieceKinds
  <2>. QED
    BY <1>2, <2>1, <2>2, PutDelivers
       DEF HandlerWritesStatus, WriteStatus, CanWrite, Handling
<1>3. CASE HandlerWritesHeader
  <2>1. /\ Put(<<Header>>) /\ UNCHANGED <<wire, link>>
        /\ faulty' = faulty /\ pc' # "done"
    BY <1>3 DEF HandlerWritesHeader, CanWrite, Handling
  <2>2. <<Header>> \in Seq(Pieces)
    BY WritesTyped
  <2>. QED  BY <2>1, <2>2, PutDelivers
<1>4. CASE HandlerWritesNoData
  BY <1>4, PutDelivers, WritesTyped
     DEF HandlerWritesNoData, CanWrite, Handling
<1>5. CASE HandlerWritesData
  BY <1>5, PutDelivers, AddLeadAndData
     DEF HandlerWritesData, CanWrite, Handling
<1>6. CASE HandlerWritesMuchData
  <2>1. CASE Killed
    BY <1>1, <2>1 DEF Killed, respVars
  <2>2. CASE ~Killed
    <3> DEFINE ps == Append(Lead, Data)
    <3>1. /\ ps \in Seq(Pieces)
          /\ written' = written \o ps
          /\ Push(outbuf \o ps)
          /\ pc' = "handling" /\ faulty' = faulty
      BY <1>6, <2>2, AddLeadAndData
         DEF HandlerWritesMuchData, CanWrite, Handling
    <3> HIDE DEF ps
    <3>. QED  BY <3>1, SendingDelivers
  <2>. QED  BY <2>1, <2>2
<1>7. CASE HandlerWriteFails
  <2>1. PICK ps \in Calls : WriteFails(ps)
    BY <1>7 DEF HandlerWriteFails
  <2>2. Len(written) < MaxPieces /\ faulty' = faulty /\ pc' # "done"
    BY <1>7 DEF HandlerWriteFails, CanWrite, Handling, Throw
  <2>3. PICK qs \in Seq(Pieces) :
          written' = written \o qs /\ Push(outbuf \o qs)
    BY <2>1, <2>2, CallsTyped, FailureSoFar
  <2>. QED  BY <2>2, <2>3, SendingDelivers
<1>8. CASE HandlerFlushes \/ Flush \/ CloseWriter
  BY <1>8, FlushDelivers DEF HandlerFlushes, Flush, CloseWriter, Handling
<1>9. CASE Catch
  <2>1. faulty' = faulty /\ pc' # "done"
    BY <1>9 DEF Catch
  <2>2. CASE MaySend
    <3>1. /\ CodeOf[error] \in Codes /\ status = NoStatus
          /\ Preamble(CodeOf[error]) \in Seq(Pieces)
      BY <1>9, <2>2, CodeOfError, WritesTyped DEF Catch, MaySend, ErrorCaught
    <3>2. CASE WriteStatus(CodeOf[error]) /\ UNCHANGED <<wire, link>>
      BY <2>1, <3>1, <3>2, PutDelivers DEF WriteStatus
    <3>3. CASE WriteFails(Preamble(CodeOf[error]))
      <4>1. PICK qs \in Seq(Pieces) :
              written' = written \o qs /\ Push(outbuf \o qs)
        BY <3>1, <3>3, FailureSoFar
      <4>. QED  BY <2>1, <4>1, SendingDelivers
    <3>. QED  BY <1>9, <2>2, <3>2, <3>3 DEF Catch
  <2>3. CASE ~MaySend
    BY <1>1, <1>9, <2>1, <2>3 DEF Catch, respVars
  <2>. QED  BY <2>2, <2>3
<1>10. CASE ClientStalls \/ ClientHangsUp
  BY <1>10 DEF ClientStalls, ClientHangsUp, Delivery, OutputTyped, respVars
<1>11. CASE ClientResumes
  BY <1>11 DEF ClientResumes, Delivery, OutputTyped, respVars, streamVars
<1>12. CASE ReadFails
  BY <1>12 DEF ReadFails, Throw, Delivery, OutputTyped, respVars
<1>13. CASE \/ SetUp \/ Receive \/ ReadTimesOut \/ ReadInterrupted
            \/ ReadRequestLine \/ ReadHeaderLine \/ HandlerReads
            \/ WriterRefuses \/ HandlerThrows \/ HandlerReturns
            \/ UNCHANGED vars
  BY <1>1, <1>13 DEF SetUp, Receive, Reading, ReadTimesOut, ReadInterrupted,
       ReadRequestLine, ReadHeaderLine, Aborts, HandlerReads, Handling,
       TakeLine, WriterRefuses, HandlerThrows, HandlerReturns, Throw, vars,
       respVars, streamVars
<1>. QED
  BY <1>2, <1>3, <1>4, <1>5, <1>6, <1>7, <1>8, <1>9, <1>10, <1>11, <1>12,
     <1>13 DEF Next, HandleStep, HandlerStep, ClientStep, Finished

LEMMA InitDelivery == Init => Delivery
BY EmptySeq, ConcatEmptySeq DEF Init, Delivery, OutputTyped

(* A client that reads and stays gets all of its response, if nothing it   *)
(* sent is left unread.                                                    *)
THEOREM ConnectionNothingIsHeldBack == SafeSpec => []NothingIsHeldBack
<1>1. Delivery => NothingIsHeldBack
  BY ConcatEmptySeq DEF Delivery, OutputTyped, NothingIsHeldBack
<1>. QED
  BY <1>1, InitDelivery, InitResponseSoFar, NextErrorCaught, NextResponseSoFar,
     NextDelivery, PTL DEF SafeSpec

-----------------------------------------------------------------------------
(***************************************************************************)
(* The answer to a head that fails: from the failed read to MustSend, and  *)
(* from there to the end.                                                  *)
(***************************************************************************)
Silent == status = NoStatus /\ written = <<>> /\ outbuf = <<>>

(* e is what ReadLine and ParseRequest make of what has been taken. *)
Explains(e) ==
  /\ e \in {"bad", "interrupted", "timeout"}
  /\ ~CutShort => e = "bad"
  /\ CutShort /\ link \in {"open", "stalled"} => e # "bad"

Answered ==
  /\ written = Preamble(status)
  /\ status \in {400, 408}
  /\ ~CutShort => status = 400
  /\ CutShort /\ link \in {"open", "stalled"} =>
       status = IF error = "interrupted" THEN 400 ELSE 408

Report ==
  /\ pc \in {"setup", "requestLine", "headers"} => Silent
  /\ pc = "catching" /\ ~HeadTaken => Silent /\ Explains(error)
  /\ pc \in {"flushing", "closing", "done"} /\ ~HeadTaken => Answered

(* A stream that was cut short by a line other than these was not. *)
LEMMA WrongLine ==
  ASSUME StreamsTyped, received # <<>>, TakeLine, Throw("bad"),
         Head(received) # (IF taken = <<>> THEN "request" ELSE "header")
  PROVE  Explains(error)'
<1>1. /\ Len(taken) \in Nat
      /\ taken' \in Seq(Lines)
      /\ Len(taken') = Len(taken) + 1
      /\ taken'[Len(taken')] = Head(received)
  BY TakeOne DEF StreamsTyped
<1>2. Len(taken') \in DOMAIN taken' /\ (Len(taken') = 1 <=> taken = <<>>)
  BY <1>1, LenProperties, EmptySeq DEF StreamsTyped
<1>3. ~CutShort'
  BY <1>1, <1>2 DEF CutShort
<1>. QED  BY <1>3 DEF Explains, Throw

LEMMA NextReport ==
  HeadProgress /\ ErrorCaught /\ Report /\ [Next]_vars => Report'
<1>. SUFFICES ASSUME HeadProgress, ErrorCaught, Report, [Next]_vars
              PROVE  Report'
  OBVIOUS
<1>1. ASSUME UNCHANGED <<taken, error, status, written>>,
             link' \in {"open", "stalled"} => link \in {"open", "stalled"},
             \/ pc' = pc /\ UNCHANGED outbuf
             \/ pc' = "killed"
             \/ pc \in {"flushing", "closing"} /\ pc' \in {"closing", "done"}
      PROVE  Report'
  BY <1>1 DEF Report, Silent, Explains, Answered, HeadTaken, CutShort,
              Preamble, StatusLine, Close
<1>2. ASSUME UNCHANGED taken, pc = "handling",
             pc' \in {"handling", "flushing", "catching", "killed"}
      PROVE  Report'
  BY <1>2 DEF Report, HeadProgress, HeadTaken
<1>3. CASE SetUp
  BY <1>3 DEF SetUp, Report, Silent, respVars
<1>4. CASE ReadTimesOut \/ ReadInterrupted \/ ReadFails
  <2>1. CASE pc = "handling"
    BY <1>2, <1>4, <2>1 DEF ReadTimesOut, ReadInterrupted, ReadFails, Throw,
         streamVars
  <2>2. CASE pc \in {"requestLine", "headers"}
    <3>1. CutShort /\ Silent
      BY <2>2 DEF HeadProgress, Report, CutShort
    <3>2. CutShort' /\ Silent' /\ pc' = "catching"
      BY <1>4, <3>1
         DEF ReadTimesOut, ReadInterrupted, ReadFails, Throw, streamVars,
             respVars, CutShort, Silent
    <3>3. /\ error' \in {"bad", "interrupted", "timeout"}
          /\ link' \in {"open", "stalled"} => error' # "bad"
      BY <1>4, <2>2
         DEF ReadTimesOut, ReadInterrupted, ReadFails, Throw, TimeoutErrors,
             InterruptErrors, FailureErrors
    <3>. QED  BY <3>2, <3>3 DEF Report, Explains
  <2>. QED  BY <1>4, <2>1, <2>2 DEF ReadTimesOut, ReadInterrupted, ReadFails,
       Reading
<1>5. CASE ReadRequestLine \/ ReadHeaderLine
  <2>1. /\ StreamsTyped /\ TakeLine /\ received # <<>>
        /\ Silent /\ Silent'
        /\ pc = "requestLine" <=> taken = <<>>
    BY <1>5 DEF ReadRequestLine, ReadHeaderLine, TakeLine, HeadProgress,
                Report, Silent, respVars
  <2>2. CASE pc' # "catching"
    BY <1>5, <2>1, <2>2
       DEF ReadRequestLine, ReadHeaderLine, Aborts, Throw, Report
  <2>3. CASE pc' = "catching"
    <3>1. /\ Throw("bad")
          /\ Head(received) # (IF taken = <<>> THEN "request" ELSE "header")
      BY <1>5, <2>1, <2>3
         DEF ReadRequestLine, ReadHeaderLine, Aborts, IsRequestLine
    <3>2. Explains(error)'
      BY <2>1, <3>1, WrongLine
    <3>. QED  BY <2>1, <2>3, <3>2 DEF Report
  <2>. QED  BY <2>2, <2>3
<1>6. CASE HandlerReads
  <2>1. /\ StreamsTyped /\ received # <<>> /\ TakeLine /\ HeadTaken
        /\ pc' = "handling"
    BY <1>6 DEF HandlerReads, TakeLine, HeadProgress, Handling
  <2>. QED  BY <2>1 DEF Report
<1>7. CASE \/ HandlerWritesStatus \/ HandlerWritesHeader \/ WriterRefuses
           \/ HandlerWritesNoData \/ HandlerWritesData
           \/ HandlerWritesMuchData \/ HandlerWriteFails \/ HandlerFlushes
           \/ HandlerThrows \/ HandlerReturns
  BY <1>2, <1>7
     DEF HandlerWritesStatus, HandlerWritesHeader, WriterRefuses,
         HandlerWritesNoData, HandlerWritesData, HandlerWritesMuchData,
         HandlerWriteFails, HandlerFlushes, HandlerThrows, HandlerReturns,
         FlushTo, Killed, Throw, CanWrite, Handling, streamVars
<1>8. CASE Flush \/ CloseWriter
  <2>1. link' \in {"open", "stalled"} => link \in {"open", "stalled"}
    BY <1>8 DEF Flush, CloseWriter, FlushTo, Killed, Push
  <2>. QED
    BY <1>1, <1>8, <2>1
       DEF Flush, CloseWriter, FlushTo, Killed, streamVars, respVars
<1>9. CASE Catch
  <2>1. CASE HeadTaken
    <3>1. HeadTaken' /\ pc' \in {"flushing", "closing"}
      BY <1>9, <2>1 DEF Catch, streamVars, HeadTaken
    <3>. QED  BY <3>1 DEF Report
  <2>2. CASE ~HeadTaken
    <3>1. Silent /\ Explains(error)
      BY <1>9, <2>2 DEF Report, Catch
    <3>2. /\ pc' = "flushing" /\ UNCHANGED <<taken, link, error>>
          /\ status' = CodeOf[error]
          /\ written' = written \o Preamble(CodeOf[error])
      BY <1>9, <3>1
         DEF Catch, MaySend, Silent, WriteStatus, WriteFails, Put, streamVars
    <3>3. written' = Preamble(status')
      BY <3>1, <3>2 DEF Silent, Preamble
    <3>4. Answered'
      BY <3>1, <3>2, <3>3 DEF Explains, Answered, CodeOf, CutShort
    <3>. QED  BY <3>2, <3>4 DEF Report
  <2>. QED  BY <2>1, <2>2
<1>10. CASE Receive \/ ClientStep \/ UNCHANGED vars
  BY <1>1, <1>10 DEF Receive, ClientStep, ClientStalls, ClientResumes,
       ClientHangsUp, vars, streamVars, respVars
<1>. QED
  BY <1>3, <1>4, <1>5, <1>6, <1>7, <1>8, <1>9, <1>10
     DEF Next, HandleStep, HandlerStep, Finished

LEMMA InitReport == Init => Report
BY DEF Init, Report, Silent

(* A request whose head fails is answered with the status of its failure   *)
(* and nothing else.                                                       *)
THEOREM ConnectionBadHeadIsReported == SafeSpec => []BadHeadIsReported
<1>1. Report => BadHeadIsReported
  BY DEF Report, Answered, BadHeadIsReported
<1>. QED
  BY <1>1, InitReport, InitHeadProgress, NextHeadProgress, InitResponseSoFar,
     NextErrorCaught, NextReport, PTL DEF SafeSpec

-----------------------------------------------------------------------------
(* The part of the type that the invariants above leave out. *)
PlacesOK ==
  /\ pc \in {"setup", "requestLine", "headers", "handling", "flushing",
             "catching", "closing"} \cup Over
  /\ link \in {"open", "stalled", "closed", "reset", "broken"}
  /\ error \in DOMAIN CodeOf \cup {"none"}
  /\ faulty \in BOOLEAN

LEMMA NextPlacesOK == PlacesOK /\ [Next]_vars => PlacesOK'
<1>. SUFFICES ASSUME PlacesOK, [Next]_vars  PROVE PlacesOK'
  OBVIOUS
<1>. USE DEF PlacesOK
<1>1. CASE ClientStep \/ UNCHANGED vars
  BY <1>1 DEF ClientStep, ClientStalls, ClientResumes, ClientHangsUp, vars
<1>2. CASE ReadTimesOut \/ ReadInterrupted \/ ReadFails
  BY <1>2 DEF ReadTimesOut, ReadInterrupted, ReadFails, Throw, TimeoutErrors,
              InterruptErrors, FailureErrors, CodeOf
<1>3. CASE \/ SetUp \/ Receive \/ ReadRequestLine \/ ReadHeaderLine
           \/ HandlerReads \/ HandlerWritesStatus \/ HandlerWritesHeader
           \/ WriterRefuses \/ HandlerWritesNoData \/ HandlerWritesData
           \/ HandlerThrows \/ HandlerReturns
  BY <1>3 DEF SetUp, Receive, ReadRequestLine, ReadHeaderLine, TakeLine,
       Aborts, HandlerReads, HandlerWritesStatus, HandlerWritesHeader,
       WriterRefuses, HandlerWritesNoData, HandlerWritesData, HandlerThrows,
       HandlerReturns, Throw, CodeOf, Over
<1>4. CASE \/ HandlerWritesMuchData \/ HandlerWriteFails \/ HandlerFlushes
           \/ Flush \/ Catch \/ CloseWriter
  <2>1. link' \in {"open", "stalled", "closed", "reset", "broken"}
    BY <1>4 DEF HandlerWritesMuchData, HandlerWriteFails, HandlerFlushes,
         Flush, Catch, CloseWriter, WriteFails, FlushTo, Killed, Push, respVars
  <2>. QED
    BY <1>4, <2>1 DEF HandlerWritesMuchData, HandlerWriteFails, Throw,
         HandlerFlushes, Flush, Catch, CloseWriter, FlushTo, Killed, CodeOf,
         Over
<1>. QED
  BY <1>1, <1>2, <1>3, <1>4 DEF Next, HandleStep, HandlerStep, Finished

(* All of it: what holds of a connection from its beginning on. *)
ConnInv ==
  /\ HeadProgress /\ ErrorCaught /\ ResponseSoFar
  /\ Delivery /\ Report /\ PlacesOK

LEMMA InitConnInv == Init => ConnInv
BY InitHeadProgress, InitResponseSoFar, InitDelivery, InitReport
   DEF ConnInv, Init, PlacesOK, Over

LEMMA NextConnInv == ConnInv /\ [Next]_vars => ConnInv'
BY NextHeadProgress, NextErrorCaught, NextResponseSoFar, NextDelivery,
   NextReport, NextPlacesOK DEF ConnInv

LEMMA ConnInvImplies ==
  ConnInv => /\ TypeOK
             /\ HandlerSeesWholeHead
             /\ ResponseKeepsOrder
             /\ BadHeadIsReported
             /\ NothingIsHeldBack
<1>. SUFFICES ASSUME ConnInv
              PROVE  /\ TypeOK
                     /\ HandlerSeesWholeHead
                     /\ ResponseKeepsOrder
                     /\ BadHeadIsReported
                     /\ NothingIsHeldBack
  OBVIOUS
<1>. USE DEF ConnInv
<1>1. TypeOK
  BY DEF HeadProgress, StreamsTyped, ResponseSoFar, Delivery, OutputTyped,
         PlacesOK, TypeOK, Codes
<1>2. HandlerSeesWholeHead
  BY DEF HeadProgress, HandlerSeesWholeHead
<1>3. ResponseKeepsOrder
  BY InOrder
<1>4. BadHeadIsReported
  BY DEF Report, Answered, BadHeadIsReported
<1>5. NothingIsHeldBack
  BY ConcatEmptySeq DEF Delivery, OutputTyped, NothingIsHeldBack
<1>. QED  BY <1>1, <1>2, <1>3, <1>4, <1>5

(* The state of a connection has its types. *)
THEOREM ConnectionTypeCorrect == SafeSpec => []TypeOK
BY InitConnInv, NextConnInv, ConnInvImplies, PTL DEF SafeSpec
=============================================================================

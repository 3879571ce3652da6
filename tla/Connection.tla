----------------------------- MODULE Connection -----------------------------
(***************************************************************************)
(* One client connection: HttpServer::Handle (src/http/server.cc) with     *)
(* ParseRequest, ReadLine, SocketWriter and MustSend, run by one worker    *)
(* against a client that sends, stalls, resumes and hangs up as it likes.  *)
(*                                                                         *)
(* Lines of the request and pieces of the response are units.  The stream  *)
(* is a stdio FILE opened "r+" on the socket; of the library it matters    *)
(* that fgets reads ahead, that small writes only fill the buffer, and     *)
(* that a FILE with unread input cannot flush its output, because on a     *)
(* socket it cannot seek back first (Clogged).  Of the kernel it matters   *)
(* that reads and writes time out, that the first operation after a reset  *)
(* reports it, and that a later write raises SIGPIPE, which the program    *)
(* does not handle.                                                        *)
(*                                                                         *)
(* The handler is any function that keeps to the comments in               *)
(* src/http/types.h:86-99: it may read the body before it writes, it sends *)
(* a status once and neither status nor headers after data, unless to be   *)
(* refused; it may send headers before the status or without one, may go   *)
(* on calling the writer after a call has failed, and returns or throws.   *)
(***************************************************************************)
EXTENDS Integers, Sequences, SequencesExt

CONSTANTS
  LineKinds,   \* what kinds of lines and pieces of body a client sends
  MaxLines,    \* and how many of them
  MaxPieces,   \* how many pieces a handler writes before its last call
  NoStatus     \* status_ is empty

Lines == {"request", "header", "malformed", "nul", "blank", "body"}

ASSUME ConnectionAssumption ==
  /\ LineKinds \subseteq Lines
  /\ NoStatus \notin Int
  /\ {MaxLines, MaxPieces} \subseteq Nat

VARIABLES
  pc,          \* where Handle is
  coming,      \* what the client sends and has not been read from the socket
  received,    \* what is in the FILE's buffer and not yet taken out
  taken,       \* history: what has been taken out
  link,        \* the client's side of the connection
  error,       \* the exception that ended the try block
  status,      \* status_
  sending,     \* sending_data_
  written,     \* history: the pieces fwrite has accepted
  outbuf,      \* those of them in the FILE's buffer
  wire,        \* those of them that have been sent
  faulty       \* history: the client has stopped reading or hung up

streamVars == <<coming, received, taken>>
respVars == <<status, sending, written, outbuf, wire>>
vars == <<pc, streamVars, link, error, respVars, faulty>>

(* "malformed" is what ReadLine takes off the stream and it, ParseMethod,  *)
(* ParsePath or ParseHeader rejects: a line without CRLF, the first 255    *)
(* bytes of a longer one, or a wrong one.  "nul" is a line that begins     *)
(* with a zero byte, which is of length 0 to ReadLine; nothing is read     *)
(* after it.  What follows an empty line is body.                          *)
Inputs ==
  {s \in SeqOf(LineKinds, MaxLines) :
     \A i \in DOMAIN s :
       /\ s[i] = "body" <=> \E j \in 1 .. i - 1 : s[j] = "blank"
       /\ s[i] = "nul" => i = Len(s)}

(* Mutant of CodeOf. *)
GatewayTimeout ==
  [bad |-> 400, interrupted |-> 400, timeout |-> 504, json |-> 400,
   notfound |-> 404, internal |-> 500, other |-> 500]
(* What a try block can end with, and the status that Handle sends for it; *)
(* "interrupted" is a BadRequestException as well.                         *)
CodeOf ==
  [bad |-> 400, interrupted |-> 400, timeout |-> 408, json |-> 400,
   notfound |-> 404, internal |-> 500, other |-> 500]

StatusLine(code) == <<"status", code>>
Close == <<"close", 0>>           \* WriteStatus's header Connection
Header == <<"header", 0>>         \* one of the handler's
Blank == <<"blank", 0>>
Data == <<"data", Len(written)>>
Pieces ==
  {StatusLine(c) : c \in {200, 400, 404, 408, 500}}
    \cup {Close, Header, Blank} \cup {<<"data", n>> : n \in 0 .. MaxPieces}

(* "killed" by SIGPIPE and "aborted" by an assertion is all of the program. *)
Over == {"done", "escaped", "killed", "aborted"}

TypeOK ==
  /\ pc \in {"setup", "requestLine", "headers", "handling", "flushing",
             "catching", "closing"} \cup Over
  /\ {coming, received, taken} \subseteq Seq(Lines)
  /\ link \in {"open", "stalled", "closed", "reset", "broken"}
  /\ error \in DOMAIN CodeOf \cup {"none"}
  /\ status \in {200, 400, 404, 408, 500, NoStatus}
  /\ sending \in BOOLEAN
  /\ {written, outbuf, wire} \subseteq Seq(Pieces)
  /\ faulty \in BOOLEAN

Init ==
  /\ pc = "setup"
  /\ coming \in Inputs
  /\ received = <<>>
  /\ taken = <<>>
  /\ link = "open"
  /\ error = "none"
  /\ status = NoStatus
  /\ sending = FALSE
  /\ written = <<>>
  /\ outbuf = <<>>
  /\ wire = <<>>
  /\ faulty = FALSE

-----------------------------------------------------------------------------
(* The client. *)

ClientStalls ==
  /\ link = "open" /\ link' = "stalled"
  /\ faulty' = TRUE
  /\ UNCHANGED <<pc, streamVars, error, respVars>>

ClientResumes ==
  /\ link = "stalled" /\ link' = "open"
  /\ UNCHANGED <<pc, streamVars, error, respVars, faulty>>

ClientHangsUp ==
  /\ link \in {"open", "stalled"}
  /\ \/ link' = "closed" /\ UNCHANGED coming
     \/ link' = "reset" /\ coming' = <<>>
  /\ faulty' = TRUE
  /\ UNCHANGED <<pc, received, taken, error, respVars>>

ClientStep ==
  pc \notin Over /\ (ClientStalls \/ ClientResumes \/ ClientHangsUp)

-----------------------------------------------------------------------------
(* SetTimeout and fdopen.  Their SystemError leaves Handle and is caught   *)
(* in the task.                                                            *)

SetUp ==
  /\ pc = "setup"
  /\ pc' \in {"requestLine", "escaped"}
  /\ UNCHANGED <<streamVars, link, error, respVars, faulty>>

-----------------------------------------------------------------------------
(* Reading. *)

Reading == pc \in {"requestLine", "headers", "handling"} /\ outbuf = <<>>

Throw(e) == error' = e /\ pc' = "catching"

(* read(2) on behalf of fgets or getc: some of what the client sends. *)
Receive ==
  /\ Reading
  /\ received = <<>>
  /\ link \in {"open", "stalled", "closed"}
  /\ \E n \in 1 .. Len(coming) :
       /\ received' = SubSeq(coming, 1, n)
       /\ coming' = SubSeq(coming, n + 1, Len(coming))
  /\ UNCHANGED <<pc, taken, link, error, respVars, faulty>>

(* Mutants of TimeoutErrors. *)
NeverTimesOut == {}
TimeoutIsFailure == IF pc = "handling" THEN {"json", "other"} ELSE {"bad"}
(* What the reader makes of SO_RCVTIMEO: ReadLine throws TimeoutException, *)
(* the JSON scanner ParsingError or SystemError.                           *)
TimeoutErrors == IF pc = "handling" THEN {"json", "other"} ELSE {"timeout"}
FailureErrors == IF pc = "handling" THEN {"json", "other"} ELSE {"bad"}
InterruptErrors ==
  IF pc = "handling" THEN {"json", "other"} ELSE {"interrupted"}

ReadTimesOut ==
  /\ Reading
  /\ received = <<>>
  /\ link \in {"open", "stalled"}
  /\ \E e \in TimeoutErrors : Throw(e)
  /\ UNCHANGED <<streamVars, link, respVars, faulty>>

(* EINTR: a signal has been handled on this thread, and a read with a      *)
(* timeout does not go on.                                                 *)
ReadInterrupted ==
  /\ Reading
  /\ received = <<>>
  /\ link \in {"open", "stalled"}
  /\ \E e \in InterruptErrors : Throw(e)
  /\ UNCHANGED <<streamVars, link, respVars, faulty>>

(* End of file or ECONNRESET.  The reset is reported once. *)
ReadFails ==
  /\ Reading
  /\ received = <<>>
  /\ \/ link = "closed" /\ coming = <<>>
     \/ link \in {"reset", "broken"}
  /\ link' = IF link = "reset" THEN "broken" ELSE link
  /\ \E e \in FailureErrors : Throw(e)
  /\ UNCHANGED <<streamVars, respVars, faulty>>

TakeLine ==
  /\ received # <<>>
  /\ received' = Tail(received)
  /\ taken' = Append(taken, Head(received))
  /\ UNCHANGED <<coming, link, respVars, faulty>>

(* assert(read > 0) of ReadLine fails. *)
Aborts(l) == l = "nul" /\ pc' = "aborted" /\ UNCHANGED error

AcceptAnyLine(l) == l # "blank"                 \* Mutant of IsRequestLine.
IsRequestLine(l) == l = "request"

ReadRequestLine ==
  /\ pc = "requestLine"
  /\ TakeLine
  /\ LET l == Head(received)
     IN \/ IsRequestLine(l) /\ pc' = "headers" /\ UNCHANGED error
        \/ ~IsRequestLine(l) /\ l # "nul" /\ Throw("bad")
        \/ Aborts(l)

ReadHeaderLine ==
  /\ pc = "headers"
  /\ TakeLine
  /\ LET l == Head(received)
     IN \/ l = "header" /\ UNCHANGED <<pc, error>>
        \/ l = "blank" /\ pc' = "handling" /\ UNCHANGED error
        \/ l \notin {"header", "blank", "nul"} /\ Throw("bad")
        \/ Aborts(l)

-----------------------------------------------------------------------------
(* Writing. *)

(* A FILE with unread input cannot flush. *)
Clogged == received # <<>>

(* Mutant of Push. *)
NeverFlush(ps) == outbuf' = ps /\ UNCHANGED <<wire, link>>
(* The FILE tries to send the pieces ps, all it has; what a failed write   *)
(* leaves over is discarded.  After the client has closed its side a write *)
(* still succeeds until the client's reset has come back.                  *)
Push(ps) ==
  \/ /\ ps = <<>> \/ Clogged
     /\ outbuf' = ps
     /\ UNCHANGED <<wire, link>>
  \/ /\ ps # <<>> /\ ~Clogged
     /\ outbuf' = <<>>
     /\ \/ /\ link \in {"open", "closed"}
           /\ wire' = wire \o ps
           /\ \/ UNCHANGED link
              \/ link = "closed" /\ link' = "broken"
        \/ /\ link = "stalled"
           /\ \E n \in 0 .. Len(ps) - 1 : wire' = wire \o SubSeq(ps, 1, n)
           /\ UNCHANGED link
        \/ /\ link = "reset"
           /\ link' = "broken"
           /\ UNCHANGED wire

(* SIGPIPE: sending anything on a broken connection. *)
Kills(ps) == ps # <<>> /\ ~Clogged /\ link = "broken"

Killed ==
  /\ pc' = "killed"
  /\ UNCHANGED <<streamVars, link, error, respVars, faulty>>

(* Write, of pieces that fit into the buffer. *)
Put(ps) ==
  /\ outbuf' = outbuf \o ps
  /\ written' = written \o ps

Preamble(code) == <<StatusLine(code), Close>>

WriteStatus(code) ==
  /\ Put(Preamble(code))
  /\ status' = code

(* A call that writes the pieces ps fails at one of them: fwrite returns 0 *)
(* because the buffer is full and cannot be sent.  status_ and             *)
(* sending_data_ are set after what they tell has been written.            *)
WriteFails(ps) ==
  /\ outbuf # <<>>
  /\ Clogged \/ link \in {"stalled", "reset"}
  /\ \E n \in 0 .. Len(ps) - 1 :
       LET accepted == SubSeq(ps, 1, n)
       IN /\ written' = written \o accepted
          /\ status' = IF n >= 2 /\ status = NoStatus THEN 200 ELSE status
          /\ sending' = (sending \/ Contains(accepted, Blank))
          /\ Push(outbuf \o accepted)

(* Flush and ~SocketWriter, which ignore the result of fflush. *)
FlushTo(next) ==
  IF Kills(outbuf) THEN Killed
  ELSE /\ pc' = next
       /\ Push(outbuf)
       /\ UNCHANGED <<streamVars, error, status, sending, written, faulty>>

-----------------------------------------------------------------------------
(* The handler. *)

Handling == pc = "handling"
CanWrite == Handling /\ Len(written) < MaxPieces

(* The handler reads a piece of the body. *)
HandlerReads ==
  /\ Handling
  /\ written = <<>>
  /\ TakeLine
  /\ UNCHANGED <<pc, error>>

HandlerWritesStatus ==
  /\ CanWrite
  /\ status = NoStatus
  /\ \E code \in {200, 404} : WriteStatus(code)
  /\ UNCHANGED <<pc, streamVars, link, error, sending, wire, faulty>>

HandlerWritesHeader ==
  /\ CanWrite
  /\ ~sending
  /\ Put(<<Header>>)
  /\ UNCHANGED <<pc, streamVars, link, error, status, sending, wire, faulty>>

(* WriteStatus and WriteHeader refuse once data have been sent. *)
WriterRefuses ==
  /\ Handling
  /\ sending
  /\ \/ Throw("internal")
     \/ UNCHANGED <<pc, error>>    \* the handler catches it
  /\ UNCHANGED <<streamVars, link, respVars, faulty>>

(* What WriteData sends ahead of the data. *)
BlankEachTime ==                                \* Mutant of Lead.
  (IF status = NoStatus THEN Preamble(200) ELSE <<>>) \o <<Blank>>
Lead ==
  (IF status = NoStatus THEN Preamble(200) ELSE <<>>)
  \o (IF sending THEN <<>> ELSE <<Blank>>)

DataBegun ==
  /\ status' = IF status = NoStatus THEN 200 ELSE status
  /\ sending' = TRUE

(* Data that fit into the buffer; perhaps none at all. *)
HandlerWritesNoData ==
  /\ CanWrite
  /\ DataBegun
  /\ Put(Lead)
  /\ UNCHANGED <<pc, streamVars, link, error, wire, faulty>>

HandlerWritesData ==
  /\ CanWrite
  /\ DataBegun
  /\ Put(Append(Lead, Data))
  /\ UNCHANGED <<pc, streamVars, link, error, wire, faulty>>

(* Data that do not fit are sent at once.  A short count is a success.     *)
HandlerWritesMuchData ==
  /\ CanWrite
  /\ IF Kills(outbuf \o Append(Lead, Data)) THEN Killed
     ELSE /\ DataBegun
          /\ written' = written \o Append(Lead, Data)
          /\ Push(outbuf \o Append(Lead, Data))
          /\ UNCHANGED <<pc, streamVars, error, faulty>>

(* A handler's call fails halfway; the handler may catch that, too. *)
Calls ==
  (IF status = NoStatus THEN {Preamble(200), Preamble(404)} ELSE {})
  \cup (IF sending THEN {} ELSE {<<Header>>})
  \cup {Append(Lead, Data)}

HandlerWriteFails ==
  /\ CanWrite
  /\ \E ps \in Calls : WriteFails(ps)
  /\ \/ Throw("internal")
     \/ ~Clogged /\ link = "stalled" /\ Throw("timeout")
     \/ UNCHANGED <<pc, error>>
  /\ UNCHANGED <<streamVars, faulty>>

HandlerFlushes == Handling /\ FlushTo("handling")

(* Only ReadLine reports that a signal interrupted it. *)
HandlerThrows ==
  /\ Handling
  /\ \E e \in DOMAIN CodeOf \ {"interrupted"} : Throw(e)
  /\ UNCHANGED <<streamVars, link, respVars, faulty>>

HandlerReturns ==
  /\ Handling
  /\ pc' = "flushing"
  /\ UNCHANGED <<streamVars, link, error, respVars, faulty>>

HandlerStep ==
  \/ HandlerReads \/ HandlerWritesStatus \/ HandlerWritesHeader
  \/ WriterRefuses \/ HandlerWritesNoData \/ HandlerWritesData
  \/ HandlerWritesMuchData \/ HandlerWriteFails \/ HandlerFlushes
  \/ HandlerThrows \/ HandlerReturns

-----------------------------------------------------------------------------
(* The end of Handle. *)

Flush == pc = "flushing" /\ FlushTo("closing")

CloseWriter == pc = "closing" /\ FlushTo("done")

SendsAgain == TRUE                              \* Mutant of MaySend.
MaySend == status = NoStatus

(* MustSend, which gives up if its call fails. *)
Catch ==
  /\ pc = "catching"
  /\ \/ /\ MaySend
        /\ WriteStatus(CodeOf[error])
        /\ pc' = "flushing"
        /\ UNCHANGED <<link, sending, wire>>
     \/ /\ MaySend
        /\ WriteFails(Preamble(CodeOf[error]))
        /\ pc' = "closing"
     \/ ~MaySend /\ pc' = "closing" /\ UNCHANGED <<link, respVars>>
  /\ UNCHANGED <<streamVars, error, faulty>>

-----------------------------------------------------------------------------
HandleStep ==
  SetUp \/ Receive \/ ReadTimesOut \/ ReadFails \/ ReadRequestLine
  \/ ReadHeaderLine \/ HandlerStep \/ Flush \/ Catch \/ CloseWriter

Finished == pc \in Over /\ UNCHANGED vars

Next == HandleStep \/ ReadInterrupted \/ ClientStep \/ Finished

SafeSpec == Init /\ [][Next]_vars

(* The worker runs, and a read waits no longer than the timeout; no signal *)
(* has to come.  That a handler makes only so many calls is MaxPieces.     *)
Spec == SafeSpec /\ WF_vars(HandleStep)

-----------------------------------------------------------------------------
(* Properties. *)

HeadTaken ==
  \E n \in 2 .. Len(taken) :
    /\ taken[1] = "request"
    /\ \A i \in 2 .. n - 1 : taken[i] = "header"
    /\ taken[n] = "blank"

(* The handler is called only after a complete and well-formed head has    *)
(* been taken off the stream, however it arrived, and whatever else is     *)
(* there afterwards is body.                                               *)
HandlerSeesWholeHead == pc = "handling" => HeadTaken

(* The response begins with a status that WriteStatus has written. *)
BeginsWithStatus ==
  Len(written) >= 2 /\ written[1][1] = "status" /\ written[2] = Close

(* Whatever the handler does and wherever it fails, what is written ahead  *)
(* of the data stays ahead of it: status and headers come before the       *)
(* only empty line, data after it, and the empty line after a whole status *)
(* line; if the response begins with one - not with a header that the      *)
(* handler has written before the status, and not with a status line that  *)
(* failed halfway -, then it is the only one.  This does not say that the  *)
(* response is complete: one without data has no empty line, which         *)
(* http/test_client.cc:114-117 takes for an invalid response.              *)
ResponseKeepsOrder ==
  \A i \in DOMAIN written :
    LET before(p) == \E j \in 1 .. i - 1 : written[j] = p
        is(kind) == written[i][1] = kind
    IN /\ is("data") <=> before(Blank)
       /\ is("blank") => before(Close)
       /\ is("status") /\ i # 1 => ~BeginsWithStatus

(* What has been taken is the beginning of a good head and no more. *)
CutShort ==
  \A i \in DOMAIN taken : taken[i] = IF i = 1 THEN "request" ELSE "header"

(* A request whose head fails is answered with the status of its failure   *)
(* and nothing else: 400 if a line was wrong, 408 if the client was too    *)
(* slow - unless a signal interrupted the wait for it -, and one of them   *)
(* if it hung up.                                                          *)
BadHeadIsReported ==
  pc = "done" /\ ~HeadTaken =>
    /\ written = Preamble(status)
    /\ status \in {400, 408}
    /\ ~CutShort => status = 400
    /\ CutShort /\ link \in {"open", "stalled"} =>
         status = IF error = "interrupted" THEN 400 ELSE 408

(* A client that reads and stays gets all of its response, a slow one its  *)
(* 408 - provided that nothing it sent is left unread (see                 *)
(* AnswerReachesClient).                                                   *)
NothingIsHeldBack ==
  pc = "done" /\ ~faulty /\ received = <<>> => wire = written

(* Every connection comes to an end, whatever the client does: the worker  *)
(* and the pool's mutex are free again.                                    *)
EveryConnectionEnds == <>(pc \in Over)

(* server_test.cc:148-149: "The server should successfully read the        *)
(* request and successfully send the full response."  It does not if a     *)
(* part of a well-formed request is still in the FILE's buffer;            *)
(* service.cc:142-143 notes that the body should be read "even if we don't *)
(* use it".                                                                *)
AnswerReachesClient == pc = "done" /\ ~faulty /\ HeadTaken => wire = written

(* server_test.cc:57-65: clients that hang up are handled gracefully and   *)
(* "the server should not crash and should keep handling requests".        *)
SurvivesHangUp == pc # "killed"
=============================================================================

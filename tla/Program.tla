------------------------------ MODULE Program ------------------------------
(***************************************************************************)
(* The whole program: HttpServer with Connection as the task that a worker *)
(* runs (the lambda in HttpServer::Accept, src/http/server.cc), call by    *)
(* call instead of in one step.                                            *)
(*                                                                         *)
(* One task runs at a time, so one set of Connection's variables is        *)
(* enough: that of the client whose task is running.  In between they are  *)
(* as in the beginning.                                                    *)
(***************************************************************************)
EXTENDS HttpServer

CONSTANTS
  HangUps,       \* may clients hang up while they are being handled?
  LineKinds, MaxLines, MaxPieces, NoStatus     \* see Connection

VARIABLES
  pc, coming, received, taken, link, error, status, sending, written, outbuf,
  wire, faulty                      \* the connection, see Connection

Conn == INSTANCE Connection

(* Clients end the program by hanging up or with a line that begins with a *)
(* zero byte, and not otherwise.                                           *)
ASSUME ProgramAssumption ==
  /\ LineKinds \subseteq Conn!Lines
  /\ NoStatus \notin Int
  /\ {MaxLines, MaxPieces} \subseteq Nat
  /\ HangUps \in BOOLEAN
  /\ TasksMayKill <=> HangUps \/ "nul" \in LineKinds

connVars == <<pc, coming, received, taken, link, error, status, sending,
              written, outbuf, wire, faulty>>
programVars == <<vars, connVars>>

ProgramInit == Init /\ Conn!Init /\ coming = <<>>

(* The server but for process. *)
Elsewhere ==
  <<poolVars, run_, running_, main, listener, client, stopVars, netVars>>

RunsTask(w) == Runs(w) /\ threads_[w] = "running"

(* A step of Handle.  SIGPIPE and a failed assertion end all of the        *)
(* program.                                                                *)
GoesOn(w) ==
  /\ RunsTask(w)
  /\ Conn!HandleStep
  /\ process' = IF pc' \in {"killed", "aborted"} THEN "killed" ELSE process
  /\ UNCHANGED Elsewhere

(* The outermost signal handler on this thread returns to a read. *)
IsInterrupted(w) ==
  /\ threads_[w] = "running"
  /\ StopStep(w) /\ handlers'[w] = <<>>
  /\ Conn!ReadInterrupted

(* Handle has returned, or thrown what the task catches. *)
HasEnded == pc \in {"done", "escaped"}

(* The worker takes a task, or does something else than to run one. *)
Works(w) ==
  /\ threads_[w] # "running"
  /\ Worker(w)
  /\ coming' \in IF threads_'[w] = "running" THEN Conn!Inputs ELSE {coming}
  /\ UNCHANGED <<pc, received, taken, link, error, status, sending, written,
                 outbuf, wire, faulty>>

SharedWriter == UNCHANGED <<status, sending>>    \* Mutant of NewWriter.
(* Each connection has a SocketWriter of its own. *)
NewWriter == status' = NoStatus /\ sending' = FALSE

(* The task ends. *)
EndTask(w) ==
  /\ RunsTask(w)
  /\ HasEnded
  /\ Worker(w)
  /\ pc' = "setup"
  /\ coming' = <<>> /\ received' = <<>> /\ taken' = <<>>
  /\ link' = "open" /\ faulty' = FALSE
  /\ error' = "none"
  /\ NewWriter
  /\ written' = <<>> /\ outbuf' = <<>> /\ wire' = <<>>

WorkerStep(w) == GoesOn(w) \/ EndTask(w) \/ Works(w)

ServerStep ==
  /\ \/ MainStep
     \/ ListenerStep
     \/ \E w \in Workers : Spurious(w)
     \/ \E t \in Threads : StopStep(t) \/ \E s \in Signals : Deliver(s, t)
     \/ \E c \in Clients : Connect(c)
     \/ Ended
  /\ UNCHANGED connVars

(* The client whose task is running; what it does before, it could do as   *)
(* well when the task begins.                                              *)
ClientStep ==
  /\ process = "up"
  /\ \E w \in Workers : threads_[w] = "running"
  /\ Conn!ClientStep
  /\ HangUps \/ link' \notin {"closed", "reset"}
  /\ UNCHANGED vars

ProgramNext ==
  \/ ServerStep
  \/ \E w \in Workers : WorkerStep(w) \/ IsInterrupted(w)
  \/ ClientStep

ProgramSafeSpec == ProgramInit /\ [][ProgramNext]_programVars

(* Every thread that can run does. *)
ProgramSpec ==
  /\ ProgramSafeSpec
  /\ WF_programVars(MainStep /\ UNCHANGED connVars)
  /\ WF_programVars(ListenerStep /\ UNCHANGED connVars)
  /\ \A w \in Workers : WF_programVars(WorkerStep(w))
  /\ \A t \in Threads : WF_programVars(StopStep(t) /\ UNCHANGED connVars)

-----------------------------------------------------------------------------
(* Properties. *)

ProgramTypeOK == TypeOK /\ Conn!TypeOK

(* Handle runs on behalf of a client whose socket is open, and nobody      *)
(* closes it before Handle has come to its end.                            *)
SocketOutlivesHandle ==
  pc # "setup" =>
    \E w \in Workers : threads_[w] = "running" /\ conn[task[w]] = "open"

(* What Connection promises holds of every connection in succession, each  *)
(* on a socket that is open, whatever the rest of the server does          *)
(* meanwhile.                                                              *)
ConnectionsAreSafe ==
  /\ SocketOutlivesHandle
  /\ Conn!HandlerSeesWholeHead
  /\ Conn!ResponseKeepsOrder
  /\ Conn!BadHeadIsReported
  /\ Conn!NothingIsHeldBack

(* A client that is too slow is told 408, unless the program has been told *)
(* to stop twice.                                                          *)
SlowClientsAreToldSo ==
  /\ sent < 2
  /\ pc = "done" /\ ~Conn!HeadTaken /\ Conn!CutShort
  /\ link \in {"open", "stalled"}
  => status = 408

(* HttpServer assumes that tasks return, and that they end the program     *)
(* only if clients hang up or send lines that begin with a zero byte.      *)
(* With Connection they do.                                                *)
ImplementsServer == Spec
=============================================================================

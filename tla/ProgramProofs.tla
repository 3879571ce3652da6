---------------------------- MODULE ProgramProofs ----------------------------
(***************************************************************************)
(* Proofs about the whole program, for any number of workers, clients,     *)
(* signals and lines: what HttpServer and Connection promise separately    *)
(* they promise together.                                                  *)
(***************************************************************************)
EXTENDS Program, HttpServerProofs

(* The theorems about Connection come with an instance of their module,    *)
(* whose definitions are those of Conn under another name.                 *)
ConnProofs == INSTANCE ConnectionProofs

-----------------------------------------------------------------------------
(***************************************************************************)
(* The server.  A step of Handle is none of the server's, unless it ends   *)
(* the program; and only a client that hangs up or that sends a line which *)
(* begins with a zero byte makes it do so.                                 *)
(***************************************************************************)
NobodyHangsUp == ~HangUps => link \in {"open", "stalled"}

LEMMA NextNobodyHangsUp ==
  NobodyHangsUp /\ [ProgramNext]_programVars => NobodyHangsUp'
<1>. SUFFICES ASSUME ~HangUps, link \in {"open", "stalled"},
                     [ProgramNext]_programVars
              PROVE  link' \in {"open", "stalled"}
  BY DEF NobodyHangsUp
<1>1. ASSUME NEW w \in Workers, GoesOn(w)
      PROVE  link' \in {"open", "stalled"}
  BY <1>1 DEF GoesOn, Conn!HandleStep, Conn!HandlerStep, Conn!SetUp,
       Conn!Receive, Conn!ReadTimesOut, Conn!ReadFails, Conn!ReadRequestLine,
       Conn!ReadHeaderLine, Conn!TakeLine, Conn!HandlerReads,
       Conn!HandlerWritesStatus, Conn!HandlerWritesHeader,
       Conn!WriterRefuses, Conn!HandlerWritesNoData, Conn!HandlerWritesData,
       Conn!HandlerWritesMuchData, Conn!HandlerWriteFails,
       Conn!HandlerFlushes, Conn!HandlerThrows, Conn!HandlerReturns,
       Conn!Flush, Conn!CloseWriter, Conn!FlushTo, Conn!Killed, Conn!Push,
       Conn!WriteFails, Conn!Catch, Conn!respVars
<1>2. ASSUME NEW w \in Workers, IsInterrupted(w)  PROVE link' = link
  BY <1>2 DEF IsInterrupted, Conn!ReadInterrupted
<1>3. ASSUME NEW w \in Workers, EndTask(w)  PROVE link' = "open"
  BY <1>3 DEF EndTask
<1>4. ASSUME NEW w \in Workers, Works(w)  PROVE link' = link
  BY <1>4 DEF Works
<1>5. CASE ServerStep \/ UNCHANGED programVars
  BY <1>5 DEF ServerStep, programVars, connVars
<1>6. CASE ClientStep
  BY <1>6 DEF ClientStep, Conn!ClientStep, Conn!ClientStalls,
       Conn!ClientResumes, Conn!ClientHangsUp
<1>. QED
  BY <1>1, <1>2, <1>3, <1>4, <1>5, <1>6 DEF ProgramNext, WorkerStep

(* Clients send lines and pieces of LineKinds, and nothing else is read.   *)
OnlyLineKinds == coming \in Seq(LineKinds) /\ received \in Seq(LineKinds)

LEMMA InputsAreLines == Conn!Inputs \subseteq Seq(LineKinds)
BY DEF Conn!Inputs, Conn!SeqOf

LEMMA ReceiveSplits ==
  ASSUME OnlyLineKinds, Conn!Receive  PROVE OnlyLineKinds'
<1>1. PICK n \in 1 .. Len(coming) :
        /\ received' = SubSeq(coming, 1, n)
        /\ coming' = SubSeq(coming, n + 1, Len(coming))
  BY DEF Conn!Receive
<1>2. Len(coming) \in Nat
  BY LenProperties DEF OnlyLineKinds
<1>3. SubSeq(coming, 1, n) \in Seq(LineKinds)
  BY <1>1, <1>2, SubSeqProperties DEF OnlyLineKinds
<1>4. SubSeq(coming, n + 1, Len(coming)) \in Seq(LineKinds)
  BY <1>1, <1>2, SubSeqProperties DEF OnlyLineKinds
<1>. QED  BY <1>1, <1>3, <1>4 DEF OnlyLineKinds

LEMMA HandleStepOnlyLineKinds ==
  ASSUME OnlyLineKinds, Conn!HandleStep  PROVE OnlyLineKinds'
<1>1. ASSUME UNCHANGED Conn!streamVars  PROVE OnlyLineKinds'
  BY <1>1 DEF OnlyLineKinds, Conn!streamVars
<1>2. ASSUME Conn!TakeLine  PROVE OnlyLineKinds'
  BY <1>2, HeadTailProperties DEF OnlyLineKinds, Conn!TakeLine
<1>. QED
  BY <1>1, <1>2, ReceiveSplits
     DEF Conn!HandleStep, Conn!HandlerStep, Conn!SetUp,
       Conn!ReadTimesOut, Conn!ReadFails, Conn!ReadRequestLine,
       Conn!ReadHeaderLine, Conn!HandlerReads,
       Conn!HandlerWritesStatus, Conn!HandlerWritesHeader,
       Conn!WriterRefuses, Conn!HandlerWritesNoData, Conn!HandlerWritesData,
       Conn!HandlerWritesMuchData, Conn!HandlerWriteFails,
       Conn!HandlerFlushes, Conn!HandlerThrows, Conn!HandlerReturns,
       Conn!Flush, Conn!CloseWriter, Conn!FlushTo, Conn!Killed, Conn!Catch

LEMMA NextOnlyLineKinds ==
  OnlyLineKinds /\ [ProgramNext]_programVars => OnlyLineKinds'
<1>. SUFFICES ASSUME OnlyLineKinds, [ProgramNext]_programVars
              PROVE  OnlyLineKinds'
  OBVIOUS
<1>1. ASSUME NEW w \in Workers, GoesOn(w)  PROVE OnlyLineKinds'
  BY <1>1, HandleStepOnlyLineKinds DEF GoesOn
<1>2. ASSUME NEW w \in Workers, IsInterrupted(w) \/ EndTask(w)
      PROVE  OnlyLineKinds'
  <2>1. CASE IsInterrupted(w)
    BY <2>1 DEF IsInterrupted, Conn!ReadInterrupted, Conn!streamVars,
         OnlyLineKinds
  <2>2. CASE EndTask(w)
    <3>1. coming' = <<>> /\ received' = <<>>
      BY <2>2 DEF EndTask
    <3>. QED  BY <3>1 DEF OnlyLineKinds
  <2>. QED  BY <1>2, <2>1, <2>2
<1>3. ASSUME NEW w \in Workers, Works(w)  PROVE OnlyLineKinds'
  BY <1>3, InputsAreLines DEF Works, OnlyLineKinds
<1>4. CASE ServerStep \/ UNCHANGED programVars
  <2>1. UNCHANGED connVars
    BY <1>4 DEF ServerStep, programVars
  <2>. QED  BY <2>1 DEF connVars, OnlyLineKinds
<1>5. CASE ClientStep
  <2>1. coming' \in {coming, <<>>} /\ received' = received
    BY <1>5 DEF ClientStep, Conn!ClientStep, Conn!ClientStalls,
         Conn!ClientResumes, Conn!ClientHangsUp, Conn!streamVars
  <2>2. <<>> \in Seq(LineKinds)
    OBVIOUS
  <2>3. coming' \in Seq(LineKinds) /\ received' \in Seq(LineKinds)
    BY <2>1, <2>2, Zenon DEF OnlyLineKinds
  <2>. QED  BY <2>3 DEF OnlyLineKinds
<1>. QED
  BY <1>1, <1>2, <1>3, <1>4, <1>5 DEF ProgramNext, WorkerStep

(* SIGPIPE needs a connection that the client has reset, and the failed    *)
(* assertion a line that begins with a zero byte.                          *)
LEMMA KilledByHangUp ==
  ASSUME NobodyHangsUp, Conn!HandleStep, pc' = "killed"
  PROVE  HangUps
BY DEF NobodyHangsUp, Conn!HandleStep, Conn!HandlerStep, Conn!SetUp,
     Conn!Receive, Conn!ReadTimesOut, Conn!ReadFails, Conn!ReadRequestLine,
     Conn!ReadHeaderLine, Conn!Reading, Conn!Throw, Conn!Aborts,
     Conn!HandlerReads, Conn!Handling, Conn!CanWrite,
     Conn!HandlerWritesStatus, Conn!HandlerWritesHeader,
     Conn!WriterRefuses, Conn!HandlerWritesNoData, Conn!HandlerWritesData,
     Conn!HandlerWritesMuchData, Conn!HandlerWriteFails,
     Conn!HandlerFlushes, Conn!HandlerThrows, Conn!HandlerReturns,
     Conn!Flush, Conn!CloseWriter, Conn!FlushTo, Conn!Kills, Conn!Catch

LEMMA AbortedByNul ==
  ASSUME OnlyLineKinds, Conn!HandleStep, pc' = "aborted"
  PROVE  "nul" \in LineKinds
<1>1. received # <<>> /\ Head(received) = "nul"
  BY DEF Conn!HandleStep, Conn!HandlerStep, Conn!SetUp,
     Conn!Receive, Conn!ReadTimesOut, Conn!ReadFails, Conn!ReadRequestLine,
     Conn!ReadHeaderLine, Conn!Reading, Conn!Throw, Conn!Aborts,
     Conn!TakeLine, Conn!HandlerReads, Conn!Handling, Conn!CanWrite,
     Conn!HandlerWritesStatus, Conn!HandlerWritesHeader,
     Conn!WriterRefuses, Conn!HandlerWritesNoData, Conn!HandlerWritesData,
     Conn!HandlerWritesMuchData, Conn!HandlerWriteFails,
     Conn!HandlerFlushes, Conn!HandlerThrows, Conn!HandlerReturns,
     Conn!Flush, Conn!CloseWriter, Conn!FlushTo, Conn!Killed, Conn!Catch
<1>. QED  BY <1>1, HeadTailProperties DEF OnlyLineKinds

LEMMA StepOfServer ==
  NobodyHangsUp /\ OnlyLineKinds /\ [ProgramNext]_programVars
  => [Next]_vars
<1>. SUFFICES ASSUME NobodyHangsUp, OnlyLineKinds, [ProgramNext]_programVars
              PROVE  [Next]_vars
  OBVIOUS
<1>1. ASSUME NEW w \in Workers, GoesOn(w)  PROVE [Next]_vars
  <2>1. CASE pc' \in {"killed", "aborted"}
    <3>1. HangUps \/ "nul" \in LineKinds
      BY <1>1, <2>1, KilledByHangUp, AbortedByNul DEF GoesOn
    <3>2. TasksMayKill
      BY <3>1, ProgramAssumption
    <3>3. TaskKills(w)
      BY <1>1, <2>1, <3>2 DEF GoesOn, RunsTask, Elsewhere, TaskKills
    <3>. QED  BY <3>3 DEF Next
  <2>2. CASE pc' \notin {"killed", "aborted"}
    BY <1>1, <2>2 DEF GoesOn, Elsewhere, vars
  <2>. QED  BY <2>1, <2>2
<1>2. ASSUME NEW w \in Workers, IsInterrupted(w)  PROVE Next
  BY <1>2 DEF IsInterrupted, Next, Threads
<1>3. ASSUME NEW w \in Workers, EndTask(w) \/ Works(w)  PROVE Next
  BY <1>3 DEF EndTask, Works, Next
<1>4. CASE ServerStep
  BY <1>4 DEF ServerStep, Next
<1>5. CASE ClientStep \/ UNCHANGED programVars
  BY <1>5 DEF ClientStep, programVars
<1>. QED
  BY <1>1, <1>2, <1>3, <1>4, <1>5 DEF ProgramNext, WorkerStep

(* HttpServer's picture of a task, one step that returns some time or ends *)
(* the program, is right as far as safety goes: the program's threads,     *)
(* signals and sockets behave as that module says, and a task ends the     *)
(* program only if clients may hang up or send lines that begin with a     *)
(* zero byte.                                                              *)
THEOREM ProgramImplementsServer == ProgramSafeSpec => SafeSpec
<1>1. ProgramInit => Init /\ NobodyHangsUp /\ OnlyLineKinds
  BY DEF ProgramInit, Conn!Init, NobodyHangsUp, OnlyLineKinds
<1>. QED
  BY <1>1, NextNobodyHangsUp, NextOnlyLineKinds, StepOfServer, PTL
     DEF ProgramSafeSpec, SafeSpec

(* The whole program serves its clients one at a time and in the order of  *)
(* connection, as SerialServer says.                                       *)
THEOREM ProgramIsSerialServer == ProgramSafeSpec => ImplementsSafeSerialServer
BY ProgramImplementsServer, ServerImplementsSerialServer, PTL

-----------------------------------------------------------------------------
(***************************************************************************)
(* The connection.  Its variables are at rest while nobody holds the       *)
(* pool's mutex, which a worker does as long as it runs a task; so each    *)
(* task finds them as in the beginning, and no two tasks share them.       *)
(***************************************************************************)
AtRest == mux_ = Free => Conn!Init /\ coming = <<>>

(* What the pool's invariant says of a task that runs. *)
TaskHoldsMutex ==
  /\ threads_ \in [Workers -> PoolProofs!WorkerStates]
  /\ mux_ \in Workers \cup {Free}
  /\ \A w \in Workers : threads_[w] = "running" <=> mux_ = w

LEMMA PoolInvTaskHoldsMutex == PoolProofs!PoolInv => TaskHoldsMutex
BY DEF PoolProofs!PoolInv, PoolProofs!TypeOK, PoolProofs!OneTaskAtATime,
       TaskHoldsMutex

LEMMA ProgramPoolInv == ProgramSafeSpec => []PoolProofs!PoolInv
BY ProgramImplementsServer, ServerPoolInv, PTL

(* Only a worker takes and releases the mutex for longer than a step.      *)
LEMMA ServerStepLeavesMutex ==
  ASSUME ServerStep  PROVE mux_' = mux_ /\ UNCHANGED connVars
<1>. SUFFICES mux_' = mux_
  BY DEF ServerStep
<1>1. CASE MainStep
  BY <1>1 DEF MainStep, Start, StartPool, StartThrows, StartReturns, WaitJoin,
       ResetPool, Exit, poolVars, Pool!Construct, Pool!ConstructThrows,
       Pool!Spawn, Pool!DestroyMark, Pool!DestroyNotifyAll, Pool!DestroyJoin
<1>2. CASE ListenerStep
  BY <1>2 DEF ListenerStep, Listen, ListenThrows, Announce, CheckRun,
       PollPipe, Accept, AcceptThrows, Offer, OfferToNull, Notify,
       OfferReturns, Leave, Terminate, poolVars, Pool!OfferPush,
       Pool!OfferNotify
<1>3. ASSUME NEW w \in Workers, Spurious(w)  PROVE mux_' = mux_
  BY <1>3 DEF Spurious, Pool!SpuriousWakeup
<1>4. ASSUME NEW t \in Threads, StopStep(t)  PROVE mux_' = mux_
  BY <1>4 DEF StopStep, StopCheck, StopClear, StopWrite, StopWait, poolVars
<1>5. ASSUME NEW t \in Threads, NEW s \in Signals, Deliver(s, t)
      PROVE  mux_' = mux_
  BY <1>5 DEF Deliver, poolVars
<1>6. ASSUME NEW c \in Clients, Connect(c)  PROVE mux_' = mux_
  BY <1>6 DEF Connect, poolVars
<1>7. CASE Ended
  BY <1>7 DEF Ended, vars, poolVars
<1>. QED
  BY <1>1, <1>2, <1>3, <1>4, <1>5, <1>6, <1>7 DEF ServerStep

(* A worker that runs no task takes one, and with it the mutex, or leaves  *)
(* the mutex alone.                                                        *)
LEMMA WorkerTakesOrLeaves ==
  ASSUME TaskHoldsMutex,
         NEW w \in Workers, Worker(w), threads_[w] # "running"
  PROVE  \/ mux_ = Free /\ mux_' = w /\ threads_'[w] = "running"
         \/ mux_' = mux_ /\ threads_'[w] # "running"
BY DEF TaskHoldsMutex, Worker, Pool!TakeTask, Pool!Sleep, Pool!Exit,
       Pool!Acquires, Pool!FinishTask

LEMMA EmptyIsInput == <<>> \in Conn!Inputs
<1>1. <<>> \in [1 .. 0 -> LineKinds] /\ DOMAIN <<>> = {}
  OBVIOUS
<1>2. <<>> \in Conn!SeqOf(LineKinds, MaxLines)
  BY <1>1, ProgramAssumption DEF Conn!SeqOf
<1>. QED  BY <1>1, <1>2 DEF Conn!Inputs

(* A step of the program is one of the connection in progress, or none,    *)
(* or the next connection begins.                                          *)
LEMMA StepOfConnection ==
  ASSUME TaskHoldsMutex, AtRest, [ProgramNext]_programVars
  PROVE  AtRest' /\ ([Conn!Next]_(Conn!vars) \/ Conn!Init')
<1>1. ASSUME UNCHANGED connVars  PROVE UNCHANGED Conn!vars
  BY <1>1 DEF connVars, Conn!vars, Conn!streamVars, Conn!respVars
<1>2. ASSUME UNCHANGED connVars, UNCHANGED mux_  PROVE AtRest'
  BY <1>2 DEF AtRest, connVars, Conn!Init, Conn!Inputs
<1>3. ASSUME NEW w \in Workers, GoesOn(w) \/ IsInterrupted(w)
      PROVE  AtRest' /\ Conn!Next
  <2>1. mux_ # Free
    BY <1>3, ServerAssumption
       DEF GoesOn, RunsTask, IsInterrupted, TaskHoldsMutex
  <2>2. mux_' = mux_
    BY <1>3 DEF GoesOn, Elsewhere, IsInterrupted, StopStep, StopCheck,
         StopClear, StopWrite, StopWait, poolVars
  <2>. QED
    BY <1>3, <2>1, <2>2 DEF AtRest, GoesOn, IsInterrupted, Conn!Next
<1>4. ASSUME NEW w \in Workers, EndTask(w)  PROVE AtRest' /\ Conn!Init'
  BY <1>4, EmptyIsInput DEF EndTask, NewWriter, AtRest, Conn!Init, Conn!Inputs
<1>5. ASSUME NEW w \in Workers, Works(w)
      PROVE  AtRest' /\ (UNCHANGED Conn!vars \/ Conn!Init')
  <2>1. CASE threads_'[w] = "running"
    <3>1. mux_ = Free /\ mux_' = w
      BY <1>5, <2>1, WorkerTakesOrLeaves DEF Works
    <3>2. Conn!Init
      BY <3>1 DEF AtRest
    <3>3. Conn!Init'
      BY <1>5, <2>1, <3>2 DEF Works, Conn!Init, Conn!Inputs
    <3>. QED  BY <3>1, <3>3, ServerAssumption DEF AtRest
  <2>2. CASE threads_'[w] # "running"
    <3>1. mux_' = mux_
      BY <1>5, <2>2, WorkerTakesOrLeaves DEF Works
    <3>2. UNCHANGED connVars
      BY <1>5, <2>2 DEF Works, connVars
    <3>. QED  BY <1>1, <1>2, <3>1, <3>2
  <2>. QED  BY <2>1, <2>2
<1>6. CASE ServerStep
  BY <1>1, <1>2, <1>6, ServerStepLeavesMutex
<1>7. CASE ClientStep
  <2>1. mux_ # Free /\ mux_' = mux_
    BY <1>7, ServerAssumption DEF ClientStep, TaskHoldsMutex, vars, poolVars
  <2>. QED  BY <1>7, <2>1 DEF ClientStep, AtRest, Conn!Next
<1>8. CASE UNCHANGED programVars
  BY <1>1, <1>2, <1>8 DEF programVars, vars, poolVars
<1>. QED
  BY <1>3, <1>4, <1>5, <1>6, <1>7, <1>8 DEF ProgramNext, WorkerStep

LEMMA SameConnNext ==
  [Conn!Next]_(Conn!vars) => [ConnProofs!Next]_(ConnProofs!vars)
<1>1. ASSUME NEW ps, Conn!WriteFails(ps)  PROVE ConnProofs!WriteFails(ps)
  <2>1. ASSUME NEW qs, Conn!Push(qs)  PROVE ConnProofs!Push(qs)
    BY <2>1, Zenon
       DEF Conn!Push, Conn!Clogged, ConnProofs!Push, ConnProofs!Clogged
  <2>2. Conn!Blank = ConnProofs!Blank /\ (Conn!Clogged <=> ConnProofs!Clogged)
    BY Zenon DEF Conn!Blank, ConnProofs!Blank, Conn!Clogged,
         ConnProofs!Clogged
  <2>. QED
    BY <1>1, <2>1, <2>2, Zenon
       DEF Conn!WriteFails, Conn!Contains, ConnProofs!WriteFails,
           ConnProofs!Contains
<1>2. Conn!Calls = ConnProofs!Calls
  BY Zenon DEF
    Conn!Calls, Conn!Preamble, Conn!StatusLine, Conn!Close, Conn!Header,
    Conn!Blank, Conn!Data, Conn!Lead, ConnProofs!Calls, ConnProofs!Preamble,
    ConnProofs!StatusLine, ConnProofs!Close, ConnProofs!Header,
    ConnProofs!Blank, ConnProofs!Data, ConnProofs!Lead
<1>3. Conn!HandlerWriteFails => ConnProofs!HandlerWriteFails
  BY <1>1, <1>2, Zenon DEF
    Conn!HandlerWriteFails, Conn!CanWrite, Conn!Handling, Conn!Clogged,
    Conn!Throw, Conn!streamVars, ConnProofs!HandlerWriteFails,
    ConnProofs!CanWrite, ConnProofs!Handling, ConnProofs!Clogged,
    ConnProofs!Throw, ConnProofs!streamVars
<1>4. Conn!Catch => ConnProofs!Catch
  <2>1. Conn!CodeOf = ConnProofs!CodeOf
    BY Zenon DEF Conn!CodeOf, ConnProofs!CodeOf
  <2>2. ASSUME NEW code
        PROVE  /\ Conn!Preamble(code) = ConnProofs!Preamble(code)
               /\ Conn!WriteStatus(code) => ConnProofs!WriteStatus(code)
    BY Zenon DEF
      Conn!WriteStatus, Conn!Put, Conn!Preamble, Conn!StatusLine, Conn!Close,
      ConnProofs!WriteStatus, ConnProofs!Put, ConnProofs!Preamble,
      ConnProofs!StatusLine, ConnProofs!Close
  <2>. QED
    BY <1>1, <2>1, <2>2, Zenon DEF
      Conn!Catch, Conn!MaySend, Conn!streamVars, Conn!respVars,
      ConnProofs!Catch, ConnProofs!MaySend, ConnProofs!streamVars,
      ConnProofs!respVars
<1>. QED
  BY <1>3, <1>4, Zenon DEF
    Conn!Next, Conn!vars, Conn!streamVars, Conn!respVars, Conn!HandleStep,
    Conn!HandlerStep, Conn!ClientStep, Conn!Finished, Conn!Over,
    Conn!ClientStalls, Conn!ClientResumes, Conn!ClientHangsUp, Conn!SetUp,
    Conn!Receive, Conn!Reading, Conn!ReadTimesOut, Conn!ReadInterrupted,
    Conn!ReadFails, Conn!TimeoutErrors, Conn!InterruptErrors,
    Conn!FailureErrors, Conn!Throw, Conn!TakeLine, Conn!Aborts,
    Conn!ReadRequestLine, Conn!IsRequestLine, Conn!ReadHeaderLine,
    Conn!Clogged, Conn!Push, Conn!Kills, Conn!Killed, Conn!Put, Conn!FlushTo,
    Conn!Handling, Conn!CanWrite, Conn!HandlerReads, Conn!Preamble,
    Conn!StatusLine, Conn!Close, Conn!Header, Conn!Blank, Conn!Data,
    Conn!WriteStatus, Conn!HandlerWritesStatus, Conn!HandlerWritesHeader,
    Conn!WriterRefuses, Conn!Lead, Conn!DataBegun, Conn!HandlerWritesNoData,
    Conn!HandlerWritesData, Conn!HandlerWritesMuchData, Conn!HandlerFlushes,
    Conn!HandlerThrows, Conn!CodeOf, Conn!HandlerReturns, Conn!Flush,
    Conn!CloseWriter, ConnProofs!Next, ConnProofs!vars,
    ConnProofs!streamVars, ConnProofs!respVars, ConnProofs!HandleStep,
    ConnProofs!HandlerStep, ConnProofs!ClientStep, ConnProofs!Finished,
    ConnProofs!Over, ConnProofs!ClientStalls, ConnProofs!ClientResumes,
    ConnProofs!ClientHangsUp, ConnProofs!SetUp, ConnProofs!Receive,
    ConnProofs!Reading, ConnProofs!ReadTimesOut, ConnProofs!ReadInterrupted,
    ConnProofs!ReadFails, ConnProofs!TimeoutErrors,
    ConnProofs!InterruptErrors, ConnProofs!FailureErrors, ConnProofs!Throw,
    ConnProofs!TakeLine, ConnProofs!Aborts, ConnProofs!ReadRequestLine,
    ConnProofs!IsRequestLine, ConnProofs!ReadHeaderLine, ConnProofs!Clogged,
    ConnProofs!Push, ConnProofs!Kills, ConnProofs!Killed, ConnProofs!Put,
    ConnProofs!FlushTo, ConnProofs!Handling, ConnProofs!CanWrite,
    ConnProofs!HandlerReads, ConnProofs!Preamble, ConnProofs!StatusLine,
    ConnProofs!Close, ConnProofs!Header, ConnProofs!Blank, ConnProofs!Data,
    ConnProofs!WriteStatus, ConnProofs!HandlerWritesStatus,
    ConnProofs!HandlerWritesHeader, ConnProofs!WriterRefuses,
    ConnProofs!Lead, ConnProofs!DataBegun, ConnProofs!HandlerWritesNoData,
    ConnProofs!HandlerWritesData, ConnProofs!HandlerWritesMuchData,
    ConnProofs!HandlerFlushes, ConnProofs!HandlerThrows, ConnProofs!CodeOf,
    ConnProofs!HandlerReturns, ConnProofs!Flush, ConnProofs!CloseWriter

LEMMA SameConnInit == Conn!Init => ConnProofs!Init
BY Zenon DEF Conn!Init, Conn!Inputs, Conn!SeqOf, ConnProofs!Init,
  ConnProofs!Inputs, ConnProofs!SeqOf

LEMMA InitConnection == Conn!Init => ConnProofs!ConnInv
<1>1. /\ LineKinds \subseteq ConnProofs!Lines
      /\ NoStatus \notin Int /\ {MaxLines, MaxPieces} \subseteq Nat
  BY ProgramAssumption DEF Conn!Lines, ConnProofs!Lines
<1>. QED  BY <1>1, SameConnInit, ConnProofs!InitConnInv

LEMMA NextConnection ==
  ConnProofs!ConnInv /\ [Conn!Next]_(Conn!vars) => ConnProofs!ConnInv'
<1>1. /\ LineKinds \subseteq ConnProofs!Lines
      /\ NoStatus \notin Int /\ {MaxLines, MaxPieces} \subseteq Nat
  BY ProgramAssumption DEF Conn!Lines, ConnProofs!Lines
<1>. QED  BY <1>1, SameConnNext, ConnProofs!NextConnInv

(* Every connection, not only the first, has the invariant of ConnProofs. *)
LEMMA ProgramConnInv == ProgramSafeSpec => [](AtRest /\ ConnProofs!ConnInv)
<1>1. ProgramInit => AtRest /\ Conn!Init
  BY DEF ProgramInit, AtRest
<1>2. /\ TaskHoldsMutex /\ AtRest /\ [ProgramNext]_programVars
      => AtRest' /\ ([Conn!Next]_(Conn!vars) \/ Conn!Init')
  BY StepOfConnection
<1>. QED
  BY <1>1, <1>2, InitConnection, NextConnection, ProgramPoolInv,
     PoolInvTaskHoldsMutex, PTL DEF ProgramSafeSpec

LEMMA ConnInvOfProgram ==
  ConnProofs!ConnInv => /\ Conn!TypeOK
                        /\ SocketOutlivesHandle => ConnectionsAreSafe
                        /\ ConnProofs!HeadProgress
                        /\ ConnProofs!ErrorCaught
<1>1. /\ LineKinds \subseteq ConnProofs!Lines
      /\ NoStatus \notin Int /\ {MaxLines, MaxPieces} \subseteq Nat
  BY ProgramAssumption DEF Conn!Lines, ConnProofs!Lines
<1>2. ConnProofs!TypeOK => Conn!TypeOK
  BY DEF ConnProofs!TypeOK, Conn!TypeOK, ConnProofs!Lines, Conn!Lines,
       ConnProofs!CodeOf, Conn!CodeOf, ConnProofs!Over, Conn!Over,
       ConnProofs!Pieces, Conn!Pieces, ConnProofs!StatusLine,
       Conn!StatusLine, ConnProofs!Header, Conn!Header, ConnProofs!Blank,
       Conn!Blank, ConnProofs!Close, Conn!Close
<1>3. /\ ConnProofs!HandlerSeesWholeHead
      /\ ConnProofs!ResponseKeepsOrder
      /\ ConnProofs!BadHeadIsReported
      /\ ConnProofs!NothingIsHeldBack
      => (SocketOutlivesHandle => ConnectionsAreSafe)
  BY DEF ConnectionsAreSafe,
       ConnProofs!HandlerSeesWholeHead, Conn!HandlerSeesWholeHead,
       ConnProofs!ResponseKeepsOrder, Conn!ResponseKeepsOrder,
       ConnProofs!BadHeadIsReported, Conn!BadHeadIsReported,
       ConnProofs!NothingIsHeldBack, Conn!NothingIsHeldBack,
       ConnProofs!HeadTaken, Conn!HeadTaken, ConnProofs!CutShort,
       Conn!CutShort, ConnProofs!Preamble, Conn!Preamble, ConnProofs!Blank,
       Conn!Blank, ConnProofs!StatusLine, Conn!StatusLine,
       ConnProofs!Close, Conn!Close, ConnProofs!BeginsWithStatus,
       Conn!BeginsWithStatus
<1>. QED
  BY <1>1, <1>2, <1>3, ConnProofs!ConnInvImplies DEF ConnProofs!ConnInv

(* The state of the program has its types. *)
THEOREM ProgramTypeCorrect == ProgramSafeSpec => []ProgramTypeOK
<1>1. TypeOK /\ ConnProofs!ConnInv => ProgramTypeOK
  BY ConnInvOfProgram DEF ProgramTypeOK
<1>. QED
  BY <1>1, ProgramImplementsServer, ServerTypeCorrect, ProgramConnInv, PTL

(* Handle never runs on a socket that is closed. *)
THEOREM ProgramSocketOutlivesHandle ==
  ProgramSafeSpec => []SocketOutlivesHandle
<1>1. ASSUME PoolProofs!PoolInv, OnePlace, AtRest
      PROVE  SocketOutlivesHandle
  <2>. SUFFICES ASSUME pc # "setup"
                PROVE  \E w \in Workers :
                         threads_[w] = "running" /\ conn[task[w]] = "open"
    BY DEF SocketOutlivesHandle
  <2>1. PICK w \in Workers : threads_[w] = "running"
    BY <1>1, PoolInvTaskHoldsMutex DEF AtRest, Conn!Init, TaskHoldsMutex
  <2>2. task[w] \in Clients
    BY <1>1, <2>1 DEF PoolProofs!PoolInv, PoolProofs!TypeOK,
         PoolProofs!TaskWhileRunning
  <2>3. conn[task[w]] = "open"
    BY <1>1, <2>2 DEF OnePlace, Running
  <2>. QED  BY <2>1, <2>3
<1>. QED
  BY <1>1, ProgramImplementsServer, ServerOnePlace, ProgramPoolInv,
     ProgramConnInv, PTL

(* Every client in succession finds a Handle that calls the handler after  *)
(* a whole head, keeps the order of the response, reports a bad head and   *)
(* holds nothing back, on a socket that stays open, whatever the threads   *)
(* and signals do meanwhile.                                               *)
THEOREM ProgramConnectionsAreSafe == ProgramSafeSpec => []ConnectionsAreSafe
BY ProgramConnInv, ConnInvOfProgram, ProgramSocketOutlivesHandle, PTL

-----------------------------------------------------------------------------
(***************************************************************************)
(* A slow client is told 408, because a read is interrupted only by a      *)
(* signal that a worker handles, and that is never the first: the main     *)
(* thread handles that one and blocks it.                                  *)
(***************************************************************************)
SecondSignal ==
  \A t \in Threads :
    handlers[t] # <<>> => sent >= 1 /\ (t # Main => sent >= 2)

SentGrows == sent' \in Nat /\ sent' >= sent

LEMMA NextSecondSignal ==
  /\ SecondSignal /\ HandlersTyped /\ sent \in Nat /\ [Next]_vars
  => SecondSignal' /\ SentGrows
<1>. SUFFICES ASSUME SecondSignal, HandlersTyped, sent \in Nat, [Next]_vars
              PROVE  SecondSignal' /\ SentGrows
  OBVIOUS
<1>1. ASSUME UNCHANGED <<handlers, sent>>
      PROVE  SecondSignal' /\ SentGrows
  BY <1>1 DEF SecondSignal, SentGrows
<1>2. CASE MainStep
  BY <1>1, <1>2 DEF MainStep, Start, StartPool, StartThrows, StartReturns,
       WaitJoin, ResetPool, Exit, stopVars
<1>3. CASE ListenerStep
  BY <1>1, <1>3 DEF ListenerStep, Listen, ListenThrows, Announce, CheckRun,
       PollPipe, Accept, AcceptThrows, Offer, OfferToNull, Notify,
       OfferReturns, Leave, Terminate, stopVars
<1>4. ASSUME NEW w \in Workers, Worker(w) \/ Spurious(w) \/ TaskKills(w)
      PROVE  SecondSignal' /\ SentGrows
  BY <1>1, <1>4 DEF Worker, Spurious, TaskKills, stopVars
<1>5. ASSUME NEW t \in Threads, StopStep(t)
      PROVE  SecondSignal' /\ SentGrows
  <2>1. sent' = sent /\ handlers[t] # <<>>
    BY <1>5 DEF StopStep, StopCheck, StopClear, StopWrite, StopWait, StopAt
  <2>2. \A u \in Threads : u # t => handlers'[u] = handlers[u]
    BY <1>5 DEF StopStep, StopCheck, StopClear, StopWrite, StopWait,
         StopGoesTo, StopReturns, HandlersTyped
  <2>. QED  BY <2>1, <2>2 DEF SecondSignal, SentGrows
<1>6. ASSUME NEW t \in Threads, NEW s \in Signals, Deliver(s, t)
      PROVE  SecondSignal' /\ SentGrows
  <2>1. /\ sent' = sent + 1
        /\ t = Main \/ handlers[Main] # <<>>
        /\ \A u \in Threads : u # t => handlers'[u] = handlers[u]
    BY <1>6 DEF Deliver, HandlersTyped
  <2>. QED  BY <2>1 DEF SecondSignal, SentGrows, Threads
<1>7. CASE (\E c \in Clients : Connect(c)) \/ Ended \/ UNCHANGED vars
  BY <1>1, <1>7 DEF Connect, Ended, vars, stopVars
<1>. QED
  BY <1>2, <1>3, <1>4, <1>5, <1>6, <1>7 DEF Next

(* An exception ends the try block. *)
LateError ==
  error # "none" => pc \in {"catching", "flushing", "closing"} \cup Conn!Over

(* Only a signal makes the head fail as "interrupted". *)
Interrupted ==
  error = "interrupted" /\ ~Conn!HeadTaken => sent >= 2

LEMMA ConnStepThrows ==
  ASSUME LateError, Conn!HandlerSeesWholeHead,
         Conn!HandleStep \/ Conn!ClientStep
  PROVE  /\ LateError'
         /\ error' = "interrupted" /\ ~Conn!HeadTaken' =>
              error = "interrupted" /\ ~Conn!HeadTaken
<1>. DEFINE Silent ==
       /\ LateError'
       /\ error' = "interrupted" => taken' = taken /\ error = error'
<1>1. Silent => (error' = "interrupted" /\ ~Conn!HeadTaken' =>
                   error = "interrupted" /\ ~Conn!HeadTaken)
  BY DEF Conn!HeadTaken
<1>. USE DEF LateError, Conn!Over
<1>2. CASE Conn!SetUp \/ Conn!Receive \/ Conn!ClientStep
  <2>1. Silent
    BY <1>2 DEF Conn!SetUp, Conn!Receive, Conn!Reading, Conn!ClientStep,
         Conn!ClientStalls, Conn!ClientResumes, Conn!ClientHangsUp,
         Conn!streamVars
  <2>. QED  BY <1>1, <2>1
<1>3. CASE \/ Conn!ReadTimesOut \/ Conn!ReadFails
           \/ Conn!ReadRequestLine \/ Conn!ReadHeaderLine
  <2>1. Silent
    BY <1>3 DEF Conn!ReadTimesOut, Conn!ReadFails, Conn!TimeoutErrors,
         Conn!FailureErrors, Conn!ReadRequestLine, Conn!ReadHeaderLine,
         Conn!Throw, Conn!Aborts
  <2>. QED  BY <1>1, <2>1
<1>4. CASE \/ Conn!HandlerReads \/ Conn!HandlerWritesStatus
           \/ Conn!HandlerWritesHeader \/ Conn!WriterRefuses
           \/ Conn!HandlerWritesNoData \/ Conn!HandlerWritesData
           \/ Conn!HandlerWritesMuchData \/ Conn!HandlerWriteFails
           \/ Conn!HandlerFlushes \/ Conn!HandlerReturns
  <2>1. Silent
    BY <1>4 DEF Conn!HandlerReads, Conn!Handling, Conn!CanWrite,
         Conn!HandlerWritesStatus, Conn!HandlerWritesHeader,
         Conn!WriterRefuses, Conn!HandlerWritesNoData,
         Conn!HandlerWritesData, Conn!HandlerWritesMuchData,
         Conn!HandlerWriteFails, Conn!HandlerFlushes, Conn!HandlerReturns,
         Conn!FlushTo, Conn!Killed, Conn!Throw, Conn!TakeLine,
         Conn!streamVars
  <2>. QED  BY <1>1, <2>1
<1>5. CASE Conn!HandlerThrows
  <2>1. LateError' /\ taken' = taken /\ Conn!HeadTaken
    BY <1>5 DEF Conn!HandlerThrows, Conn!Handling, Conn!Throw,
         Conn!streamVars, Conn!HandlerSeesWholeHead
  <2>. QED  BY <2>1 DEF Conn!HeadTaken
<1>6. CASE Conn!Flush \/ Conn!CloseWriter \/ Conn!Catch
  <2>1. Silent
    BY <1>6 DEF Conn!Flush, Conn!CloseWriter, Conn!FlushTo, Conn!Killed,
         Conn!Catch, Conn!streamVars
  <2>. QED  BY <1>1, <2>1
<1>. QED
  BY <1>2, <1>3, <1>4, <1>5, <1>6 DEF Conn!HandleStep, Conn!HandlerStep

LEMMA NextInterrupted ==
  /\ Interrupted /\ LateError /\ Conn!HandlerSeesWholeHead
  /\ SecondSignal /\ sent \in Nat /\ SentGrows
  /\ [ProgramNext]_programVars
  => Interrupted' /\ LateError'
<1>. SUFFICES ASSUME Interrupted, LateError, Conn!HandlerSeesWholeHead,
                     SecondSignal, sent \in Nat, SentGrows,
                     [ProgramNext]_programVars
              PROVE  Interrupted' /\ LateError'
  OBVIOUS
<1>1. ASSUME UNCHANGED connVars  PROVE Interrupted' /\ LateError'
  BY <1>1 DEF connVars, SentGrows, Interrupted, LateError, Conn!HeadTaken,
              Conn!Over
<1>2. ASSUME error' = "none"  PROVE Interrupted' /\ LateError'
  BY <1>2 DEF Interrupted, LateError
<1>3. ASSUME NEW w \in Workers, GoesOn(w)  PROVE Interrupted' /\ LateError'
  BY <1>3, ConnStepThrows DEF GoesOn, SentGrows, Interrupted
<1>4. ASSUME NEW w \in Workers, IsInterrupted(w)
      PROVE  Interrupted' /\ LateError'
  <2>1. handlers[w] # <<>>
    BY <1>4 DEF IsInterrupted, StopStep, StopCheck, StopClear, StopWrite,
         StopWait, StopAt
  <2>2. sent' >= 2
    BY <2>1, ServerAssumption DEF SecondSignal, SentGrows, Threads
  <2>3. LateError'
    BY <1>4 DEF IsInterrupted, Conn!ReadInterrupted, Conn!Throw, LateError
  <2>. QED  BY <2>2, <2>3 DEF Interrupted
<1>5. ASSUME NEW w \in Workers, EndTask(w)
      PROVE  Interrupted' /\ LateError'
  BY <1>2, <1>5 DEF EndTask
<1>6. ASSUME NEW w \in Workers, Works(w)
      PROVE  Interrupted' /\ LateError'
  BY <1>6 DEF Works, SentGrows, Interrupted, LateError, Conn!HeadTaken
<1>7. CASE ServerStep \/ UNCHANGED programVars
  BY <1>1, <1>7 DEF ServerStep, programVars
<1>8. CASE ClientStep
  BY <1>8, ConnStepThrows DEF ClientStep, SentGrows, Interrupted
<1>. QED
  BY <1>3, <1>4, <1>5, <1>6, <1>7, <1>8 DEF ProgramNext, WorkerStep

(* A client that is too slow to send its head, and stays, is told 408      *)
(* until the program has been told to stop twice, for any number of        *)
(* workers, signals and lines.                                             *)
THEOREM ProgramSlowClientsAreToldSo ==
  ProgramSafeSpec => []SlowClientsAreToldSo
<1>1. ProgramInit => SecondSignal /\ Interrupted /\ LateError
  BY DEF ProgramInit, Init, Conn!Init, SecondSignal, Interrupted, LateError
<1>2. TypeOK => HandlersTyped /\ sent \in Nat
  <2>1. TypeOK => HandlersTyped
    BY DEF TypeOK, HandlersTyped, Calls
  <2>2. TypeOK => sent \in 0 .. MaxSends
    BY DEF TypeOK
  <2>. QED  BY <2>1, <2>2
<1>3. ConnectionsAreSafe => Conn!HandlerSeesWholeHead
  BY DEF ConnectionsAreSafe
<1>4. ConnectionsAreSafe /\ Interrupted /\ sent \in Nat => SlowClientsAreToldSo
  BY DEF ConnectionsAreSafe, Interrupted, SlowClientsAreToldSo,
         Conn!BadHeadIsReported
<1>. QED
  BY <1>1, <1>2, <1>3, <1>4, NextSecondSignal, NextInterrupted,
     ProgramImplementsServer, ServerTypeCorrect,
     ProgramConnectionsAreSafe, PTL DEF ProgramSafeSpec, SafeSpec
=============================================================================

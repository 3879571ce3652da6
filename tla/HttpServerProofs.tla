-------------------------- MODULE HttpServerProofs --------------------------
(***************************************************************************)
(* Proofs about HttpServer for every set of workers, clients and signals,  *)
(* any number of signals and every environment.                            *)
(***************************************************************************)
EXTENDS HttpServer, SequenceTheorems, FiniteSetTheorems, TLAPS

-----------------------------------------------------------------------------
(***************************************************************************)
(* The pool is destroyed after the listener has ended.  The invariant adds *)
(* where the main thread is: the destructor runs inside pool_.reset(),     *)
(* which Wait calls after the join, and the listener never starts again.   *)
(***************************************************************************)
ResetAfterJoin ==
  /\ owner \in {"notifying", "joining", "gone"} => main = "resetting"
  /\ main = "resetting" => listener = "exited"

LEMMA NextResetAfterJoin == ResetAfterJoin /\ [Next]_vars => ResetAfterJoin'
<1>. SUFFICES ASSUME ResetAfterJoin, [Next]_vars  PROVE ResetAfterJoin'
  OBVIOUS
<1>. USE DEF ResetAfterJoin
<1>1. CASE UNCHANGED <<owner, main, listener>>
  BY <1>1
<1>2. CASE Start \/ StartReturns \/ WaitJoin \/ Exit
  BY <1>2 DEF Start, StartReturns, WaitJoin, Exit, ListenerJoined, poolVars
<1>3. CASE StartPool
  BY <1>3 DEF StartPool, Pool!Construct, Pool!Spawn
<1>4. CASE StartThrows
  BY <1>4 DEF StartThrows, Pool!ConstructThrows, poolVars
<1>5. CASE ResetPool
  BY <1>5 DEF ResetPool, Pool!DestroyMark, Pool!DestroyNotifyAll,
       Pool!DestroyJoin
<1>6. CASE Offer \/ Notify
  BY <1>6 DEF Offer, Notify, ListenerAt, Pool!OfferPush, Pool!OfferNotify
<1>7. CASE Listen \/ ListenThrows \/ Announce \/ CheckRun \/ PollPipe
           \/ Accept \/ AcceptThrows \/ OfferToNull \/ OfferReturns \/ Leave
  BY <1>7 DEF Listen, ListenThrows, Announce, CheckRun, PollPipe, Accept,
       AcceptThrows, OfferToNull, OfferReturns, Leave, Terminate, ListenerAt,
       poolVars
<1>8. ASSUME NEW w \in Workers, Worker(w) \/ Spurious(w) \/ TaskKills(w)
      PROVE  UNCHANGED <<owner, main, listener>>
  BY <1>8 DEF Worker, Spurious, TaskKills, Terminate, Pool!TakeTask,
       Pool!Sleep, Pool!Exit, Pool!FinishTask, Pool!SpuriousWakeup, poolVars
<1>9. ASSUME NEW t \in Threads, StopStep(t)
      PROVE  UNCHANGED <<owner, main, listener>>
  BY <1>9 DEF StopStep, StopCheck, StopClear, StopWrite, StopWait, poolVars
<1>10. ASSUME NEW t \in Threads, NEW s \in Signals, Deliver(s, t)
       PROVE  UNCHANGED <<owner, main, listener>>
  BY <1>10 DEF Deliver, poolVars
<1>11. ASSUME NEW c \in Clients, Connect(c)
       PROVE  UNCHANGED <<owner, main, listener>>
  BY <1>11 DEF Connect, poolVars
<1>12. ASSUME UNCHANGED vars  PROVE UNCHANGED <<owner, main, listener>>
  BY <1>12 DEF vars, poolVars
<1>. QED
  BY <1>1, <1>2, <1>3, <1>4, <1>5, <1>6, <1>7, <1>8, <1>9, <1>10, <1>11,
     <1>12 DEF Next, MainStep, ListenerStep, Ended

LEMMA InitResetAfterJoin == Init => ResetAfterJoin
BY DEF Init, ResetAfterJoin, Pool!Init

(* The listener, which uses pool_ without a lock, has ended before the     *)
(* pool is destroyed.                                                      *)
THEOREM ServerPoolOutlivesListener == SafeSpec => []PoolOutlivesListener
<1>1. Init => ResetAfterJoin
  BY InitResetAfterJoin
<1>2. ResetAfterJoin => PoolOutlivesListener
  BY DEF ResetAfterJoin, PoolOutlivesListener
<1>. QED  BY <1>1, <1>2, NextResetAfterJoin, PTL DEF SafeSpec

-----------------------------------------------------------------------------
(* What the listener hands to the pool is a client: it came from the       *)
(* kernel's queue of connections.                                          *)
HandOver ==
  /\ backlog \in Seq(Clients)
  /\ listener = "offer" => client \in Clients

LEMMA NextHandOver == HandOver /\ [Next]_vars => HandOver'
<1>. SUFFICES ASSUME HandOver, [Next]_vars  PROVE HandOver'
  OBVIOUS
<1>. USE DEF HandOver
<1>1. CASE UNCHANGED vars
  BY <1>1 DEF vars, netVars
<1>2. CASE MainStep
  BY <1>2 DEF MainStep, Start, StartPool, StartThrows, StartReturns,
       WaitJoin, ResetPool, Exit, netVars
<1>3. CASE Accept
  <2>1. Head(backlog) \in Clients /\ Tail(backlog) \in Seq(Clients)
    BY <1>3, HeadTailProperties DEF Accept, Acceptable
  <2>. QED  BY <1>3, <2>1 DEF Accept, AcceptNext
<1>4. CASE Listen \/ ListenThrows \/ Announce \/ CheckRun \/ PollPipe
           \/ AcceptThrows \/ Offer \/ OfferToNull \/ Notify
           \/ OfferReturns \/ Leave
  BY <1>4 DEF Listen, ListenThrows, Announce, CheckRun, PollPipe,
       AcceptThrows, Offer, OfferToNull, Notify, OfferReturns, Leave,
       Terminate, netVars
<1>5. ASSUME NEW w \in Workers, Worker(w) \/ Spurious(w) \/ TaskKills(w)
      PROVE  HandOver'
  BY <1>5 DEF Worker, Spurious, TaskKills, Terminate, netVars
<1>6. ASSUME NEW t \in Threads, StopStep(t)  PROVE HandOver'
  BY <1>6 DEF StopStep, StopCheck, StopClear, StopWrite, StopWait, netVars
<1>7. ASSUME NEW t \in Threads, NEW s \in Signals, Deliver(s, t)
      PROVE  HandOver'
  BY <1>7 DEF Deliver, netVars
<1>8. ASSUME NEW c \in Clients, Connect(c)  PROVE HandOver'
  <2>1. Append(backlog, c) \in Seq(Clients)
    BY AppendProperties
  <2>. QED  BY <1>8, <2>1 DEF Connect
<1>. QED
  BY <1>1, <1>2, <1>3, <1>4, <1>5, <1>6, <1>7, <1>8
     DEF Next, ListenerStep, Ended

(* Every step of the server is a step of its pool or leaves it alone.      *)
LEMMA StepUsesPool == HandOver /\ [Next]_vars => [Pool!Next]_(Pool!poolVars)
<1>. SUFFICES ASSUME HandOver, [Next]_vars
              PROVE  Pool!Next \/ UNCHANGED poolVars
  BY DEF poolVars, Pool!poolVars
<1>1. ASSUME MainStep  PROVE Pool!Next \/ UNCHANGED poolVars
  BY <1>1 DEF MainStep, Start, StartPool, StartThrows, StartReturns,
       WaitJoin, ResetPool, Exit, Pool!Next, Pool!OwnerStep
<1>2. ASSUME Offer  PROVE Pool!Next
  BY <1>2 DEF Offer, ListenerAt, HandOver, Pool!Next
<1>3. ASSUME Notify  PROVE Pool!Next
  BY <1>3 DEF Notify, Pool!Next
<1>4. ASSUME \/ Listen \/ ListenThrows \/ Announce \/ CheckRun \/ PollPipe
             \/ Accept \/ AcceptThrows \/ OfferToNull \/ OfferReturns \/ Leave
      PROVE  UNCHANGED poolVars
  BY <1>4 DEF Listen, ListenThrows, Announce, CheckRun, PollPipe, Accept,
       AcceptThrows, OfferToNull, OfferReturns, Leave, Terminate
<1>5. ASSUME NEW w \in Workers, Worker(w) \/ Spurious(w) \/ TaskKills(w)
      PROVE  Pool!Next \/ UNCHANGED poolVars
  BY <1>5 DEF Worker, Spurious, TaskKills, Terminate, Pool!Next,
       Pool!WorkerStep
<1>6. ASSUME NEW t \in Threads, StopStep(t)  PROVE UNCHANGED poolVars
  BY <1>6 DEF StopStep, StopCheck, StopClear, StopWrite, StopWait
<1>7. ASSUME NEW t \in Threads, NEW s \in Signals, Deliver(s, t)
      PROVE  UNCHANGED poolVars
  BY <1>7 DEF Deliver
<1>8. ASSUME NEW c \in Clients, Connect(c)  PROVE UNCHANGED poolVars
  BY <1>8 DEF Connect
<1>9. ASSUME UNCHANGED vars  PROVE UNCHANGED poolVars
  BY <1>9 DEF vars
<1>. QED
  BY <1>1, <1>2, <1>3, <1>4, <1>5, <1>6, <1>7, <1>8, <1>9
     DEF Next, ListenerStep, Ended

(* Whatever signals and clients do, the server constructs its pool once,   *)
(* offers to it only while it exists and destroys it once.                 *)
LEMMA ServerUsesPool == SafeSpec => Pool!SafeSpec
<1>1. Init => HandOver /\ Pool!Init
  <2>1. <<>> \in Seq(Clients)
    OBVIOUS
  <2>. QED  BY <2>1 DEF Init, HandOver
<1>. QED
  BY <1>1, NextHandOver, StepUsesPool, PTL DEF SafeSpec, Pool!SafeSpec

-----------------------------------------------------------------------------
(***************************************************************************)
(* What ThreadPoolProofs proves therefore holds inside the server.  The    *)
(* theorems come with an instance of that module, whose definitions are    *)
(* those of Pool under another name.                                       *)
(***************************************************************************)
PoolProofs == INSTANCE ThreadPoolProofs WITH
  Offerers <- {Listener}, Tasks <- Clients, NoTask <- NoClient

LEMMA SamePoolNext ==
  [Pool!Next]_(Pool!poolVars) => [PoolProofs!Next]_(PoolProofs!poolVars)
BY Zenon DEF Pool!Next, Pool!poolVars, Pool!OwnerStep, Pool!Construct,
  Pool!ConstructThrows, Pool!Spawn, Pool!DestroyMark, Pool!DestroyNotifyAll,
  Pool!DestroyJoin, Pool!WorkerStep, Pool!TakeTask, Pool!FinishTask,
  Pool!Sleep, Pool!Exit, Pool!SpuriousWakeup, Pool!OfferPush,
  Pool!OfferNotify, Pool!Terminated, Pool!NotifyOne, Pool!NotifyAll,
  Pool!Waiting, Pool!Acquires, Pool!Predicate, Pool!Stops, Pool!PushBack,
  Pool!ThreadsJoined, Pool!Range, PoolProofs!Next, PoolProofs!poolVars,
  PoolProofs!OwnerStep, PoolProofs!Construct, PoolProofs!ConstructThrows,
  PoolProofs!Spawn, PoolProofs!DestroyMark, PoolProofs!DestroyNotifyAll,
  PoolProofs!DestroyJoin, PoolProofs!WorkerStep, PoolProofs!TakeTask,
  PoolProofs!FinishTask, PoolProofs!Sleep, PoolProofs!Exit,
  PoolProofs!SpuriousWakeup, PoolProofs!OfferPush, PoolProofs!OfferNotify,
  PoolProofs!Terminated, PoolProofs!NotifyOne, PoolProofs!NotifyAll,
  PoolProofs!Waiting, PoolProofs!Acquires, PoolProofs!Predicate,
  PoolProofs!Stops, PoolProofs!PushBack, PoolProofs!ThreadsJoined,
  PoolProofs!Range

LEMMA SamePool == Pool!SafeSpec => PoolProofs!SafeSpec
<1>1. Pool!Init => PoolProofs!Init
  BY DEF Pool!Init, PoolProofs!Init
<1>. QED
  BY <1>1, SamePoolNext, PTL DEF Pool!SafeSpec, PoolProofs!SafeSpec

(* In the server, too, clients are handled one at a time, none is left in  *)
(* the queue with every worker asleep, no worker sleeps through the        *)
(* shutdown, and none is left when the pool is gone - for any number of    *)
(* workers and clients and whatever signals arrive.                        *)
THEOREM ServerPoolSafety ==
  SafeSpec => [](/\ Pool!OneTaskAtATime
                 /\ Pool!NoLostWakeup
                 /\ Pool!NobodySleepsThroughShutdown
                 /\ Pool!GoneMeansQuiet)
<1>1. NoClient \notin Clients /\ Free \notin Workers
  BY ServerAssumption
<1>2. PoolProofs!SafeSpec => []PoolProofs!PoolInv
  BY <1>1, PoolProofs!PoolInvInvariant
<1>3. PoolProofs!PoolInv => /\ Pool!OneTaskAtATime
                           /\ Pool!NoLostWakeup
                           /\ Pool!NobodySleepsThroughShutdown
                           /\ Pool!GoneMeansQuiet
  BY DEF PoolProofs!PoolInv,
       Pool!OneTaskAtATime, PoolProofs!OneTaskAtATime,
       Pool!NoLostWakeup, PoolProofs!NoLostWakeup,
       Pool!NobodySleepsThroughShutdown,
       PoolProofs!NobodySleepsThroughShutdown,
       Pool!GoneMeansQuiet, PoolProofs!GoneMeansQuiet,
       Pool!Waiting, PoolProofs!Waiting
<1>. QED  BY <1>2, <1>3, ServerUsesPool, SamePool, PTL

-----------------------------------------------------------------------------
(***************************************************************************)
(* Stop.  running_ is set exactly while the listener is in its loop, and a *)
(* call of Stop that has got past its check has seen the loop begin; what  *)
(* it waits for is therefore the end of the loop.                          *)
(***************************************************************************)
Calls == [signal : Signals, at : StopSteps]
HandlersTyped == handlers \in [Threads -> Seq(Calls)]

InLoop == {"loop", "poll", "offer", "notify", "returning", "leaving"}

StopSeesTheLoop ==
  /\ HandlersTyped
  /\ running_ <=> listener \in InLoop
  /\ main = "init" => listener = "absent"
  /\ \A t \in Threads : \A i \in DOMAIN handlers[t] :
       handlers[t][i].at # "check" => listener \in InLoop \cup {"exited"}
  /\ stopped => listener = "exited"

(* The innermost call of Stop on thread t goes on, ends, or begins. *)
LEMMA CallGoesOn ==
  ASSUME HandlersTyped, NEW t \in Threads, handlers[t] # <<>>,
         NEW l \in StopSteps, StopGoesTo(t, l)
  PROVE  /\ HandlersTyped'
         /\ \A u \in Threads :
              /\ DOMAIN handlers'[u] = DOMAIN handlers[u]
              /\ \A i \in DOMAIN handlers[u] :
                   handlers'[u][i].at =
                     IF u = t /\ i = Len(handlers[t]) THEN l
                     ELSE handlers[u][i].at
<1> DEFINE stack == handlers[t]
           top == Len(stack)
           changed == [stack EXCEPT ![top].at = l]
<1>1. stack \in Seq(Calls) /\ top \in DOMAIN stack
  BY EmptySeq, LenProperties DEF HandlersTyped
<1>2. ASSUME NEW c \in Calls
      PROVE  [c EXCEPT !.at = l] \in Calls /\ [c EXCEPT !.at = l].at = l
  BY DEF Calls
<1>3. changed \in Seq(Calls) /\ DOMAIN changed = DOMAIN stack
  <2>1. [stack[top] EXCEPT !.at = l] \in Calls
    BY <1>1, <1>2, ElementOfSeq
  <2>. QED  BY <1>1, <2>1, ExceptSeq
<1>4. \A i \in DOMAIN stack :
        changed[i].at = IF i = top THEN l ELSE stack[i].at
  <2>1. [stack[top] EXCEPT !.at = l].at = l
    BY <1>1, <1>2, ElementOfSeq
  <2>. QED  BY <1>1, <2>1
<1>5. handlers' = [handlers EXCEPT ![t] = changed]
  BY DEF StopGoesTo
<1> HIDE DEF changed
<1>. QED  BY <1>3, <1>4, <1>5 DEF HandlersTyped

LEMMA CallEnds ==
  ASSUME HandlersTyped, NEW t \in Threads, handlers[t] # <<>>, StopReturns(t)
  PROVE  /\ HandlersTyped'
         /\ \A u \in Threads : \A i \in DOMAIN handlers'[u] :
              i \in DOMAIN handlers[u] /\ handlers'[u][i] = handlers[u][i]
<1> DEFINE stack == handlers[t]
           rest == SubSeq(stack, 1, Len(stack) - 1)
<1>1. stack \in Seq(Calls) /\ Len(stack) \in Nat \ {0}
  BY EmptySeq, LenProperties DEF HandlersTyped
<1>2. /\ rest \in Seq(Calls)
      /\ Len(rest) = Len(stack) - 1
      /\ \A i \in 1 .. Len(stack) - 1 : rest[i] = stack[i]
  <2>1. \A i \in 1 .. Len(stack) - 1 : stack[i] \in Calls
    BY <1>1, ElementOfSeq
  <2>. QED  BY <1>1, <2>1, SubSeqProperties
<1>3. \A i \in DOMAIN rest : i \in DOMAIN stack /\ rest[i] = stack[i]
  BY <1>1, <1>2, LenProperties
<1>4. handlers' = [handlers EXCEPT ![t] = rest]
  BY DEF StopReturns
<1> HIDE DEF rest
<1>. QED  BY <1>2, <1>3, <1>4 DEF HandlersTyped

LEMMA CallBegins ==
  ASSUME HandlersTyped, NEW t \in Threads, NEW s \in Signals, Deliver(s, t)
  PROVE  /\ HandlersTyped'
         /\ \A u \in Threads : \A i \in DOMAIN handlers'[u] :
              \/ i \in DOMAIN handlers[u] /\ handlers'[u][i] = handlers[u][i]
              \/ handlers'[u][i].at = "check"
<1> DEFINE stack == handlers[t]
           call == [signal |-> s, at |-> "check"]
           more == Append(stack, call)
<1>1. stack \in Seq(Calls) /\ call \in Calls /\ call.at = "check"
  BY DEF HandlersTyped, Calls, StopSteps
<1> HIDE DEF call
<1>2. /\ more \in Seq(Calls)
      /\ Len(more) = Len(stack) + 1
      /\ \A i \in 1 .. Len(stack) : more[i] = stack[i]
      /\ more[Len(stack) + 1] = call
  BY <1>1, AppendProperties
<1>3. \A i \in DOMAIN more :
        \/ i \in DOMAIN stack /\ more[i] = stack[i]
        \/ more[i].at = "check"
  BY <1>1, <1>2, LenProperties
<1>4. handlers' = [handlers EXCEPT ![t] = more]
  BY DEF Deliver, call
<1> HIDE DEF more
<1>. QED  BY <1>2, <1>3, <1>4 DEF HandlersTyped

LEMMA NextStopSeesTheLoop ==
  StopSeesTheLoop /\ [Next]_vars => StopSeesTheLoop'
<1>. SUFFICES ASSUME StopSeesTheLoop, [Next]_vars  PROVE StopSeesTheLoop'
  OBVIOUS
<1>. USE DEF StopSeesTheLoop
<1>1. ASSUME UNCHANGED <<handlers, stopped, running_>>,
             \/ listener' = listener
             \/ listener \in InLoop /\ listener' \in InLoop
             \/ listener \notin InLoop \cup {"exited"}
                /\ listener' = "binding",
             main' # "init" \/ UNCHANGED <<main, listener>>
      PROVE  StopSeesTheLoop'
  BY <1>1 DEF HandlersTyped, InLoop
<1>2. CASE Start
  BY <1>1, <1>2 DEF Start, stopVars, InLoop
<1>3. CASE StartPool \/ StartThrows \/ StartReturns \/ WaitJoin \/ ResetPool
           \/ Exit \/ UNCHANGED vars
  BY <1>1, <1>3 DEF StartPool, StartThrows, StartReturns, WaitJoin, ResetPool,
       Exit, stopVars, vars
<1>4. CASE Listen
  BY <1>4 DEF Listen, ListenerAt, stopVars, HandlersTyped, InLoop
<1>5. CASE Announce
  BY <1>5 DEF Announce, ListenerAt, stopVars, HandlersTyped, InLoop
<1>6. CASE Leave
  BY <1>6 DEF Leave, ListenerAt, stopVars, HandlersTyped, InLoop
<1>7. CASE \/ CheckRun \/ PollPipe \/ Accept \/ Offer \/ Notify
           \/ OfferReturns
  <2>1. listener \in InLoop /\ listener' \in InLoop /\ main' = main
    BY <1>7 DEF CheckRun, PollPipe, Accept, Offer, Notify, OfferReturns,
         ListenerAt, InLoop
  <2>2. main # "init"
    BY <2>1 DEF InLoop
  <2>. QED
    BY <1>1, <1>7, <2>1, <2>2
       DEF CheckRun, PollPipe, Accept, Offer, Notify, OfferReturns, stopVars
<1>8. CASE ListenThrows \/ AcceptThrows \/ OfferToNull
  BY <1>1, <1>8 DEF ListenThrows, AcceptThrows, OfferToNull, Terminate,
       stopVars
<1>9. ASSUME NEW w \in Workers, Worker(w) \/ Spurious(w) \/ TaskKills(w)
      PROVE  StopSeesTheLoop'
  BY <1>1, <1>9 DEF Worker, Spurious, TaskKills, Terminate, stopVars
<1>10. ASSUME NEW c \in Clients, Connect(c)  PROVE StopSeesTheLoop'
  BY <1>1, <1>10 DEF Connect, stopVars
<1>11. ASSUME NEW t \in Threads, NEW s \in Signals, Deliver(s, t)
       PROVE  StopSeesTheLoop'
  <2>1. UNCHANGED <<running_, listener, main, stopped>>
    BY <1>11 DEF Deliver
  <2>. QED  BY <1>11, <2>1, CallBegins
<1>12. ASSUME NEW t \in Threads, StopCheck(t)  PROVE StopSeesTheLoop'
  <2>1. handlers[t] # <<>> /\ UNCHANGED <<running_, listener, main, stopped>>
    BY <1>12 DEF StopCheck, StopAt
  <2>2. CASE running_
    <3>1. StopGoesTo(t, "clear") /\ "clear" \in StopSteps
      BY <1>12, <2>2 DEF StopCheck, StopSteps
    <3>2. listener \in InLoop
      BY <2>2
    <3>. QED  BY <2>1, <3>1, <3>2, CallGoesOn
  <2>3. CASE ~running_
    <3>1. StopReturns(t)
      BY <1>12, <2>3 DEF StopCheck
    <3>. QED  BY <2>1, <3>1, CallEnds
  <2>. QED  BY <2>2, <2>3
<1>13. ASSUME NEW t \in Threads, StopClear(t) \/ StopWrite(t)
       PROVE  StopSeesTheLoop'
  <2>1. PICK l \in {"write", "wait"} : StopGoesTo(t, l)
    BY <1>13 DEF StopClear, StopWrite
  <2>2. /\ handlers[t] # <<>>
        /\ handlers[t][Len(handlers[t])].at # "check"
        /\ UNCHANGED <<running_, listener, main, stopped>>
    BY <1>13 DEF StopClear, StopWrite, StopAt
  <2>3. Len(handlers[t]) \in DOMAIN handlers[t]
    BY <2>2, EmptySeq, LenProperties DEF HandlersTyped
  <2>4. listener \in InLoop \cup {"exited"}
    BY <2>2, <2>3
  <2>. QED  BY <2>1, <2>2, <2>4, CallGoesOn DEF StopSteps
<1>14. ASSUME NEW t \in Threads, StopWait(t)  PROVE StopSeesTheLoop'
  <2>1. /\ handlers[t] # <<>>
        /\ handlers[t][Len(handlers[t])].at = "wait"
        /\ ~running_
        /\ StopReturns(t)
        /\ UNCHANGED <<running_, listener, main>>
    BY <1>14 DEF StopWait, StopAt, NotRunning
  <2>2. Len(handlers[t]) \in DOMAIN handlers[t]
    BY <2>1, EmptySeq, LenProperties DEF HandlersTyped
  <2>3. listener = "exited"
    BY <2>1, <2>2
  <2>. QED  BY <2>1, <2>3, CallEnds
<1>. QED
  BY <1>2, <1>3, <1>4, <1>5, <1>6, <1>7, <1>8, <1>9, <1>10, <1>11, <1>12,
     <1>13, <1>14 DEF Next, MainStep, ListenerStep, StopStep, Ended

LEMMA InitStopSeesTheLoop == Init => StopSeesTheLoop
<1>1. <<>> \in Seq(Calls) /\ DOMAIN <<>> = {}
  OBVIOUS
<1>. QED  BY <1>1 DEF Init, StopSeesTheLoop, HandlersTyped, InLoop

ConnTyped == conn \in [Clients -> {"none", "backlog", "open", "closed"}]

LEMMA NextConnTyped == ConnTyped /\ [Next]_vars => ConnTyped'
BY DEF ConnTyped, Next, vars, netVars, MainStep, Start, StartPool,
     StartThrows, StartReturns, WaitJoin, ResetPool, Close, Exit,
     ListenerStep, Listen, ListenThrows, Announce, CheckRun, PollPipe,
     Accept, AcceptThrows, Offer, OfferToNull, Notify, OfferReturns, Leave,
     Terminate, Worker, Spurious, TaskKills, StopStep, StopCheck, StopClear,
     StopWrite, StopWait, Deliver, Connect, Ended

(* When a Stop that found the server running has returned, the listener    *)
(* has ended and nothing is accepted any more, whatever signals interrupt  *)
(* whichever thread.                                                       *)
THEOREM ServerStopsAccepting == SafeSpec => NothingAcceptedAfterStop
<1>1. Init => ConnTyped
  BY DEF Init, ConnTyped
<1>2. ASSUME StopSeesTheLoop, ConnTyped, Next, stopped,
             NEW c \in Clients, conn'[c] = "open"
      PROVE  conn[c] = "open"
  <2>1. ~Accept
    BY <1>2 DEF StopSeesTheLoop, Accept, ListenerAt
  <2>. QED
    BY <1>2, <2>1 DEF ConnTyped, Next, vars, netVars, MainStep, Start,
         StartPool, StartThrows, StartReturns, WaitJoin, ResetPool, Close,
         Exit, ListenerStep, Listen, ListenThrows, Announce, CheckRun,
         PollPipe, AcceptThrows, Offer, OfferToNull, Notify, OfferReturns,
         Leave, Terminate, Worker, Spurious, TaskKills, StopStep, StopCheck,
         StopClear, StopWrite, StopWait, Deliver, Connect, Ended
<1>3. StopSeesTheLoop /\ ConnTyped /\ [Next]_vars
        => [stopped => \A c \in Clients :
              conn'[c] = "open" => conn[c] = "open"]_vars
  BY <1>2
<1>. QED
  BY <1>1, <1>3, InitStopSeesTheLoop, NextStopSeesTheLoop, NextConnTyped, PTL
     DEF SafeSpec, NothingAcceptedAfterStop

-----------------------------------------------------------------------------
(***************************************************************************)
(* The way of the clients.  Those the listener has offered, the one in its *)
(* hands and those the kernel holds are, in this order, those that have    *)
(* connected.                                                              *)
(***************************************************************************)
NoneLost ==
  /\ backlog \in Seq(Clients)
  /\ connected \in Seq(Clients)
  /\ offered \in Seq(Clients)
  /\ client \in Clients \cup {NoClient}
  /\ client # NoClient <=> listener \in {"offer", "notify", "returning"}
  /\ (offered \o InHand) \o backlog = connected

LEMMA ClientsAssociate ==
  ASSUME NEW s \in Seq(Clients), NEW t \in Seq(Clients),
         NEW u \in Seq(Clients)
  PROVE  s \o t \in Seq(Clients) /\ (s \o t) \o u = s \o (t \o u)
OBVIOUS

LEMMA AcceptKeepsOrder ==
  ASSUME NEW o \in Seq(Clients), NEW b \in Seq(Clients), b # <<>>
  PROVE  (o \o <<Head(b)>>) \o Tail(b) = (o \o <<>>) \o b
<1>1. Append(o, Head(b)) \o Tail(b) = o \o b
  BY PoolProofs!MoveHead, ServerAssumption
<1>2. Head(b) \in Clients
  BY HeadTailProperties
<1>3. Append(o, Head(b)) = o \o <<Head(b)>>
  BY <1>2, AppendIsConcat
<1>4. o \o <<>> = o
  BY ConcatEmptySeq
<1>. QED  BY <1>1, <1>3, <1>4

LEMMA OfferKeepsOrder ==
  ASSUME NEW o \in Seq(Clients), NEW c \in Clients
  PROVE  /\ Append(o, c) \in Seq(Clients)
         /\ Append(o, c) \o <<>> = o \o <<c>>
<1>1. Append(o, c) \in Seq(Clients) /\ Append(o, c) = o \o <<c>>
  BY AppendProperties, AppendIsConcat
<1>. QED  BY <1>1, ConcatEmptySeq

LEMMA InHandTyped ==
  ASSUME NoneLost  PROVE offered \o InHand \in Seq(Clients)
<1>1. InHand \in Seq(Clients)
  BY DEF NoneLost, InHand
<1>. QED  BY <1>1, ConcatProperties DEF NoneLost

LEMMA NextNoneLost ==
  NoneLost /\ StopSeesTheLoop /\ [Next]_vars => NoneLost'
<1>. SUFFICES ASSUME NoneLost, StopSeesTheLoop, [Next]_vars  PROVE NoneLost'
  OBVIOUS
<1>1. ASSUME UNCHANGED <<backlog, connected, offered, client>>,
             \/ listener' = listener
             \/ {listener, listener'}
                  \cap {"offer", "notify", "returning"} = {}
      PROVE  NoneLost'
  BY <1>1 DEF NoneLost, InHand
<1>2. CASE MainStep \/ UNCHANGED vars
  <2>1. UNCHANGED <<backlog, connected, offered, client>>
    BY <1>2 DEF MainStep, Start, StartPool, StartThrows, StartReturns,
         WaitJoin, ResetPool, Exit, Pool!Construct, Pool!ConstructThrows,
         Pool!Spawn, Pool!DestroyMark, Pool!DestroyNotifyAll,
         Pool!DestroyJoin, vars, netVars, poolVars
  <2>2. CASE listener' = listener
    BY <1>1, <2>1, <2>2
  <2>3. CASE listener' # listener
    <3>1. Start
      BY <1>2, <2>3 DEF MainStep, StartPool, StartThrows, StartReturns,
           WaitJoin, ResetPool, Exit, vars
    <3>2. listener' = "binding" /\ listener = "absent"
      BY <3>1 DEF Start, StopSeesTheLoop
    <3>. QED  BY <1>1, <2>1, <3>1, <3>2
  <2>. QED  BY <2>2, <2>3
<1>3. CASE Accept
  <2>1. /\ client = NoClient /\ backlog # <<>>
        /\ client' = Head(backlog) /\ backlog' = Tail(backlog)
        /\ listener' = "offer"
        /\ UNCHANGED <<offered, connected>>
    BY <1>3 DEF Accept, Acceptable, AcceptNext, ListenerAt, NoneLost, poolVars
  <2>2. client' \in Clients /\ backlog' \in Seq(Clients)
    BY <2>1, HeadTailProperties DEF NoneLost
  <2>3. client' # NoClient
    BY <2>2, ServerAssumption
  <2>4. (offered \o <<Head(backlog)>>) \o Tail(backlog)
          = (offered \o <<>>) \o backlog
    BY <2>1, AcceptKeepsOrder DEF NoneLost
  <2>5. InHand = <<>> /\ InHand' = <<Head(backlog)>>
    BY <1>3, <2>1 DEF InHand, Accept, ListenerAt
  <2>. QED  BY <2>1, <2>2, <2>3, <2>4, <2>5 DEF NoneLost
<1>4. CASE Offer
  <2>1. /\ client # NoClient /\ client \in Clients
        /\ client' = client /\ listener' = "notify"
        /\ offered' = Append(offered, client)
        /\ UNCHANGED <<backlog, connected>>
    BY <1>4 DEF Offer, ListenerAt, Pool!OfferPush, NoneLost, netVars
  <2>2. InHand = <<client>> /\ InHand' = <<>>
    BY <1>4, <2>1 DEF InHand, Offer, ListenerAt
  <2>. QED  BY <2>1, <2>2, OfferKeepsOrder DEF NoneLost
<1>5. CASE Listen \/ ListenThrows \/ Announce \/ CheckRun \/ PollPipe
           \/ AcceptThrows \/ OfferToNull \/ Leave
  BY <1>1, <1>5 DEF Listen, ListenThrows, Announce, CheckRun, PollPipe,
       AcceptThrows, OfferToNull, Leave, Terminate, ListenerAt, netVars,
       poolVars
<1>10. CASE Notify \/ OfferReturns
  BY <1>10 DEF Notify, OfferReturns, ListenerAt, Pool!OfferNotify, netVars,
       poolVars, NoneLost, InHand
<1>6. ASSUME NEW w \in Workers, Worker(w) \/ Spurious(w) \/ TaskKills(w)
      PROVE  NoneLost'
  BY <1>1, <1>6 DEF Worker, Spurious, TaskKills, Terminate, Pool!TakeTask,
       Pool!Sleep, Pool!Exit, Pool!FinishTask, Pool!SpuriousWakeup, netVars,
       poolVars
<1>7. ASSUME NEW t \in Threads, StopStep(t)  PROVE NoneLost'
  BY <1>1, <1>7 DEF StopStep, StopCheck, StopClear, StopWrite, StopWait,
       netVars, poolVars
<1>8. ASSUME NEW t \in Threads, NEW s \in Signals, Deliver(s, t)
      PROVE  NoneLost'
  BY <1>1, <1>8 DEF Deliver, netVars, poolVars
<1>9. ASSUME NEW c \in Clients, Connect(c)  PROVE NoneLost'
  <2>1. /\ backlog' = Append(backlog, c) /\ connected' = Append(connected, c)
        /\ UNCHANGED <<offered, client, listener>>
    BY <1>9 DEF Connect, poolVars
  <2>2. Append(backlog, c) \in Seq(Clients)
        /\ Append(connected, c) \in Seq(Clients)
    BY AppendProperties DEF NoneLost
  <2>3. ASSUME NEW o \in Seq(Clients)
        PROVE  o \o Append(backlog, c) = Append(o \o backlog, c)
    <3>1. backlog \in Seq(Clients)
      BY DEF NoneLost
    <3>. QED  BY <3>1
  <2>4. (offered \o InHand) \o backlog' = connected'
    BY <2>1, <2>3, InHandTyped DEF NoneLost
  <2>. QED  BY <2>1, <2>2, <2>4 DEF NoneLost, InHand
<1>. QED
  BY <1>2, <1>3, <1>4, <1>5, <1>6, <1>7, <1>8, <1>9, <1>10
     DEF Next, ListenerStep, Ended

LEMMA InitNoneLost == Init => NoneLost
<1>1. <<>> \in Seq(Clients) /\ (<<>> \o <<>>) \o <<>> = <<>>
  OBVIOUS
<1>. QED  BY <1>1 DEF Init, Pool!Init, NoneLost, InHand

(* What the pool's own invariant says of the server's variables. *)
LEMMA ServerPoolInv == SafeSpec => []PoolProofs!PoolInv
<1>1. NoClient \notin Clients /\ Free \notin Workers
  BY ServerAssumption
<1>. QED
  BY <1>1, PoolProofs!PoolInvInvariant, ServerUsesPool, SamePool, PTL

(* Every client is served at most once and in the order of connection, and *)
(* none is lost on the way through the kernel's queue, the listener and    *)
(* the pool, for any number of them.                                       *)
THEOREM ServerServesInOrder == SafeSpec => []ServedInOrderOfConnection
<1>1. ASSUME NoneLost, PoolProofs!PoolInv
      PROVE  ServedInOrderOfConnection
  <2>1. PoolProofs!TasksStartInOrder
    BY <1>1 DEF PoolProofs!PoolInv
  <2>2. CASE owner # "gone"
    <3>1. started \o tasks_ = offered
      BY <2>1, <2>2 DEF PoolProofs!TasksStartInOrder
    <3>. QED
      BY <1>1, <2>2, <3>1 DEF NoneLost, InHand, ServedInOrderOfConnection
  <2>3. CASE owner = "gone"
    <3>1. PICK n \in 0 .. Len(offered) : started = SubSeq(offered, 1, n)
      BY <2>1, <2>3 DEF PoolProofs!TasksStartInOrder
    <3> DEFINE rest == InHand \o backlog
    <3>2. /\ offered \in Seq(Clients) /\ connected \in Seq(Clients)
          /\ rest \in Seq(Clients)
          /\ connected = offered \o rest
      <4>1. InHand \in Seq(Clients)
        BY <1>1 DEF NoneLost, InHand
      <4>2. ASSUME NEW h \in Seq(Clients)
            PROVE  /\ h \o backlog \in Seq(Clients)
                   /\ (offered \o h) \o backlog = offered \o (h \o backlog)
        <5>1. offered \in Seq(Clients) /\ backlog \in Seq(Clients)
          BY <1>1 DEF NoneLost
        <5>. QED  BY <5>1
      <4>3. connected = offered \o rest /\ rest \in Seq(Clients)
        <5>1. (offered \o InHand) \o backlog = connected
          BY <1>1 DEF NoneLost
        <5>2. /\ InHand \o backlog \in Seq(Clients)
              /\ (offered \o InHand) \o backlog = offered \o rest
          BY <4>1, <4>2
        <5>. QED  BY <5>1, <5>2
      <4>. QED  BY <1>1, <4>3 DEF NoneLost
    <3> HIDE DEF rest
    <3>3. /\ Len(offered) \in Nat /\ Len(rest) \in Nat
          /\ Len(connected) = Len(offered) + Len(rest)
          /\ \A i \in 1 .. Len(offered) :
               connected[i] = offered[i] /\ offered[i] \in Clients
      BY <3>2, ConcatProperties, LenProperties, ElementOfSeq
    <3>4. SubSeq(offered, 1, n) = SubSeq(connected, 1, n)
      <4>1. /\ SubSeq(offered, 1, n) \in Seq(Clients)
            /\ Len(SubSeq(offered, 1, n)) = n
            /\ \A i \in 1 .. n : SubSeq(offered, 1, n)[i] = offered[i]
        BY <3>3, SubSeqProperties
      <4>2. /\ SubSeq(connected, 1, n) \in Seq(Clients)
            /\ Len(SubSeq(connected, 1, n)) = n
            /\ \A i \in 1 .. n : SubSeq(connected, 1, n)[i] = connected[i]
        BY <3>3, SubSeqProperties
      <4>. QED  BY <3>3, <4>1, <4>2, SeqEqual
    <3>5. n \in 0 .. Len(connected)
      BY <3>3
    <3>. QED  BY <2>3, <3>1, <3>4, <3>5 DEF ServedInOrderOfConnection
  <2>. QED  BY <2>2, <2>3
<1>. QED
  BY <1>1, InitNoneLost, NextNoneLost, InitStopSeesTheLoop,
     NextStopSeesTheLoop, ServerPoolInv, PTL DEF SafeSpec

-----------------------------------------------------------------------------
(* The part of the type that the invariants above leave out. *)
PlacesOK ==
  /\ run_ \in BOOLEAN /\ running_ \in BOOLEAN
  /\ piped \in BOOLEAN /\ stopped \in BOOLEAN
  /\ main \in MainStates
  /\ listener \in ListenerStates
  /\ sent \in 0 .. MaxSends
  /\ process \in {"up", "exited", "terminated", "killed"}

LEMMA NextPlacesOK == PlacesOK /\ [Next]_vars => PlacesOK'
<1>. SUFFICES ASSUME PlacesOK, [Next]_vars  PROVE PlacesOK'
  OBVIOUS
<1>. USE DEF PlacesOK, MainStates, ListenerStates
<1>1. CASE MainStep \/ UNCHANGED vars
  <2>1. CASE Start
    BY <2>1 DEF Start, stopVars
  <2>2. CASE StartPool \/ StartThrows
    BY <2>2 DEF StartPool, StartThrows, stopVars
  <2>3. CASE StartReturns \/ WaitJoin
    BY <2>3 DEF StartReturns, WaitJoin, stopVars
  <2>4. CASE ResetPool \/ Exit \/ UNCHANGED vars
    BY <2>4 DEF ResetPool, Exit, vars, stopVars
  <2>. QED  BY <1>1, <2>1, <2>2, <2>3, <2>4 DEF MainStep
<1>2. CASE ListenerStep
  <2>1. CASE Announce
    BY <2>1 DEF Announce, stopVars
  <2>2. CASE Leave
    BY <2>2 DEF Leave, stopVars
  <2>3. CASE Listen \/ CheckRun \/ PollPipe
    BY <2>3 DEF Listen, CheckRun, PollPipe, stopVars
  <2>4. CASE Accept \/ Offer \/ Notify \/ OfferReturns
    BY <2>4 DEF Accept, Offer, Notify, OfferReturns, stopVars
  <2>5. CASE ListenThrows \/ AcceptThrows \/ OfferToNull
    BY <2>5 DEF ListenThrows, AcceptThrows, OfferToNull, Terminate, stopVars
  <2>. QED  BY <1>2, <2>1, <2>2, <2>3, <2>4, <2>5 DEF ListenerStep
<1>3. ASSUME NEW w \in Workers, Worker(w) \/ Spurious(w) \/ TaskKills(w)
      PROVE  PlacesOK'
  BY <1>3 DEF Worker, Spurious, TaskKills, Terminate, stopVars
<1>4. ASSUME NEW t \in Threads, StopStep(t)  PROVE PlacesOK'
  <2>1. /\ main' = main /\ listener' = listener /\ sent' = sent
        /\ process' = process /\ running_' = running_
    BY <1>4 DEF StopStep, StopCheck, StopClear, StopWrite, StopWait
  <2>2. run_' = run_ \/ run_' = FALSE
    BY <1>4 DEF StopStep, StopCheck, StopClear, StopWrite, StopWait
  <2>3. piped' = piped \/ piped' = TRUE
    BY <1>4 DEF StopStep, StopCheck, StopClear, StopWrite, Written, StopWait
  <2>4. stopped' = stopped \/ stopped' = TRUE
    BY <1>4 DEF StopStep, StopCheck, StopClear, StopWrite, StopWait
  <2>5. run_' \in BOOLEAN
    BY <2>2
  <2>6. piped' \in BOOLEAN
    BY <2>3
  <2>7. stopped' \in BOOLEAN
    BY <2>4
  <2>. QED  BY <2>1, <2>5, <2>6, <2>7
<1>5. ASSUME NEW t \in Threads, NEW s \in Signals, Deliver(s, t)
      PROVE  PlacesOK'
  BY <1>5, ServerAssumption DEF Deliver
<1>6. ASSUME NEW c \in Clients, Connect(c)  PROVE PlacesOK'
  BY <1>6 DEF Connect, stopVars
<1>. QED
  BY <1>1, <1>2, <1>3, <1>4, <1>5, <1>6 DEF Next, Ended

(* The state of the server and of the pool inside it has its types.        *)
THEOREM ServerTypeCorrect == SafeSpec => []TypeOK
<1>1. Init => PlacesOK /\ ConnTyped
  <2>1. 0 \in 0 .. MaxSends
    BY ServerAssumption
  <2>2. Init => PlacesOK
    BY <2>1 DEF Init, PlacesOK, MainStates, ListenerStates
  <2>3. Init => ConnTyped
    BY DEF Init, ConnTyped
  <2>. QED  BY <2>2, <2>3
<1>2. PoolProofs!PoolInv => Pool!TypeOK
  BY DEF PoolProofs!PoolInv, PoolProofs!TypeOK, Pool!TypeOK,
       PoolProofs!WorkerStates, Pool!WorkerStates, PoolProofs!OwnerStates,
       Pool!OwnerStates
<1>3. /\ PlacesOK /\ ConnTyped /\ NoneLost /\ StopSeesTheLoop
      /\ PoolProofs!PoolInv
      => TypeOK
  BY <1>2 DEF PlacesOK, ConnTyped, NoneLost, StopSeesTheLoop, HandlersTyped,
       Calls, TypeOK
<1>. QED
  BY <1>1, <1>3, NextPlacesOK, NextConnTyped, InitNoneLost, NextNoneLost,
     InitStopSeesTheLoop, NextStopSeesTheLoop, ServerPoolInv, PTL DEF SafeSpec

-----------------------------------------------------------------------------
(***************************************************************************)
(* The descriptors.  A client moves from the kernel's queue to the         *)
(* listener, from there to the pool's queue and from there to a worker,    *)
(* while the listener keeps a copy of its task until Offer has returned.   *)
(***************************************************************************)
In(s, c) == \E i \in DOMAIN s : s[i] = c
Distinct(s) == \A i, j \in DOMAIN s : s[i] = s[j] => i = j
Running(c) == \E w \in Workers : task[w] = c

OnePlace ==
  /\ ConnTyped
  /\ tasks_ \in Seq(Clients) /\ Distinct(tasks_)
  /\ backlog \in Seq(Clients) /\ Distinct(backlog)
  /\ \A c \in Clients : In(backlog, c) => conn[c] = "backlog"
  /\ \A c \in Clients :
       conn[c] = "open" <=> client = c \/ In(tasks_, c) \/ Running(c)
  /\ listener = "offer" => ~In(tasks_, client) /\ ~Running(client)
  /\ \A c \in Clients : In(tasks_, c) => ~Running(c)

(* At most one worker has a client; see PoolInv. *)
OneWorker ==
  /\ task \in [Workers -> Clients \cup {NoClient}]
  /\ \A v, w \in Workers :
       task[v] # NoClient /\ task[w] # NoClient => v = w
  /\ mux_ = Free => \A w \in Workers : task[w] = NoClient

LEMMA TailOf ==
  ASSUME NEW s \in Seq(Clients), s # <<>>, Distinct(s)
  PROVE  /\ Head(s) \in Clients /\ In(s, Head(s))
         /\ Tail(s) \in Seq(Clients) /\ Distinct(Tail(s))
         /\ \A c \in Clients : In(Tail(s), c) <=> In(s, c) /\ c # Head(s)
<1>1. /\ Head(s) \in Clients /\ Tail(s) \in Seq(Clients)
      /\ Len(s) \in Nat \ {0}
      /\ Head(s) = s[1]
      /\ Len(Tail(s)) = Len(s) - 1
      /\ \A i \in 1 .. Len(s) - 1 : Tail(s)[i] = s[i + 1]
      /\ DOMAIN s = 1 .. Len(s)
  BY HeadTailProperties, EmptySeq, LenProperties
<1>2. DOMAIN Tail(s) = 1 .. Len(s) - 1
  BY <1>1, LenProperties
<1>3. Distinct(Tail(s))
  <2>. SUFFICES ASSUME NEW i \in 1 .. Len(s) - 1, NEW j \in 1 .. Len(s) - 1,
                       Tail(s)[i] = Tail(s)[j]
                PROVE  i = j
    BY <1>2 DEF Distinct
  <2>1. i + 1 \in DOMAIN s /\ j + 1 \in DOMAIN s /\ s[i + 1] = s[j + 1]
    BY <1>1
  <2>2. i + 1 = j + 1
    BY <2>1 DEF Distinct
  <2>. QED  BY <2>2
<1>4. ASSUME NEW c \in Clients
      PROVE  In(Tail(s), c) <=> In(s, c) /\ c # Head(s)
  <2>1. ASSUME In(Tail(s), c)  PROVE In(s, c) /\ c # Head(s)
    <3>1. PICK i \in 1 .. Len(s) - 1 : s[i + 1] = c
      BY <1>1, <1>2, <2>1 DEF In
    <3>2. i + 1 \in DOMAIN s /\ i + 1 # 1 /\ 1 \in DOMAIN s
      BY <1>1
    <3>. QED  BY <1>1, <3>1, <3>2 DEF In, Distinct
  <2>2. ASSUME In(s, c), c # Head(s)  PROVE In(Tail(s), c)
    <3>1. PICK i \in 1 .. Len(s) : s[i] = c
      BY <1>1, <2>2 DEF In
    <3>2. i - 1 \in 1 .. Len(s) - 1 /\ Tail(s)[i - 1] = s[(i - 1) + 1]
      BY <1>1, <2>2, <3>1
    <3>3. Tail(s)[i - 1] = c
      BY <3>1, <3>2
    <3>. QED  BY <1>2, <3>2, <3>3 DEF In
  <2>. QED  BY <2>1, <2>2
<1>5. In(s, Head(s))
  BY <1>1 DEF In
<1>. QED  BY <1>1, <1>3, <1>4, <1>5

LEMMA AppendOf ==
  ASSUME NEW s \in Seq(Clients), NEW c \in Clients, ~In(s, c), Distinct(s)
  PROVE  /\ Append(s, c) \in Seq(Clients) /\ Distinct(Append(s, c))
         /\ \A d \in Clients : In(Append(s, c), d) <=> In(s, d) \/ d = c
<1> DEFINE a == Append(s, c)
<1>1. /\ a \in Seq(Clients)
      /\ DOMAIN s = 1 .. Len(s) /\ Len(s) \in Nat
      /\ \A i \in 1 .. Len(s) : a[i] = s[i]
      /\ a[Len(s) + 1] = c
      /\ DOMAIN a = 1 .. Len(s) + 1
  BY AppendProperties, LenProperties
<1> HIDE DEF a
<1>2. Distinct(a)
  BY <1>1 DEF Distinct, In
<1>3. \A d \in Clients : In(a, d) <=> In(s, d) \/ d = c
  BY <1>1 DEF In
<1>. QED  BY <1>1, <1>2, <1>3 DEF a

(* Who has the client's task besides the listener. *)
LEMMA LastCopyIs ==
  ASSUME OneWorker, NEW c
  PROVE  c \in LastCopy <=> c = client /\ ~In(tasks_, c) /\ ~Running(c)
<1>1. c \in Range(tasks_) <=> In(tasks_, c)
  BY DEF Range, In
<1>2. c \in Range(task) <=> Running(c)
  BY DEF Range, Running, OneWorker
<1>. QED  BY <1>1, <1>2 DEF LastCopy

LEMMA NextOnePlace ==
  /\ OnePlace /\ NoneLost /\ OneWorker /\ OneWorker' /\ ResetAfterJoin
  /\ [Next]_vars
  => OnePlace'
<1>. SUFFICES ASSUME OnePlace, NoneLost, OneWorker, OneWorker',
                     ResetAfterJoin, [Next]_vars
              PROVE  OnePlace'
  OBVIOUS
<1>. USE ServerAssumption DEF OnePlace
<1>0. ConnTyped' /\ (listener = "offer" => client \in Clients)
  BY NextConnTyped DEF NoneLost
<1>1. ASSUME UNCHANGED <<backlog, conn, client, tasks_, task>>,
             listener' = listener \/ listener' # "offer"
      PROVE  OnePlace'
  BY <1>1 DEF ConnTyped, Running
<1>2. CASE Start \/ StartThrows \/ StartReturns \/ WaitJoin \/ Exit
           \/ UNCHANGED vars
  BY <1>1, <1>2 DEF Start, StartThrows, StartReturns, WaitJoin, Exit,
       Pool!ConstructThrows, vars, netVars, poolVars
<1>3. CASE StartPool
  BY <1>1, <1>3 DEF StartPool, Pool!Construct, Pool!Spawn, netVars
<1>4. CASE ResetPool
  <2>1. CASE Pool!DestroyMark \/ Pool!DestroyNotifyAll
    <3>1. UNCHANGED conn
      BY <1>4, <2>1 DEF ResetPool, Pool!DestroyMark, Pool!DestroyNotifyAll,
           Pool!DestroyJoin
    <3>. QED
      BY <1>1, <1>4, <2>1, <3>1
         DEF ResetPool, Pool!DestroyMark, Pool!DestroyNotifyAll
  <2>2. CASE Pool!DestroyJoin /\ conn' = Close(Range(tasks_))
    <3>1. /\ tasks_' = <<>>
          /\ UNCHANGED <<task, client, backlog, listener>>
          /\ \A c \in Clients :
               conn'[c] = IF In(tasks_, c) THEN "closed" ELSE conn[c]
      BY <1>4, <2>2 DEF ResetPool, Pool!DestroyJoin, Close, Range, In
    <3>3. listener = "exited" /\ client = NoClient
      BY <2>2 DEF Pool!DestroyJoin, ResetAfterJoin, NoneLost
    <3>2. Distinct(<<>>) /\ \A c \in Clients : ~In(<<>>, c)
      BY DEF Distinct, In
    <3>. QED  BY <1>0, <3>1, <3>2, <3>3 DEF Running
  <2>. QED  BY <1>4, <2>1, <2>2 DEF ResetPool
<1>5. CASE Accept
  <2> DEFINE h == Head(backlog)
  <2>1. /\ client = NoClient /\ backlog # <<>>
        /\ client' = h /\ backlog' = Tail(backlog)
        /\ conn' = [conn EXCEPT ![h] = "open"]
        /\ UNCHANGED <<tasks_, task>>
    BY <1>5 DEF Accept, Acceptable, AcceptNext, ListenerAt, NoneLost, poolVars
  <2>2. /\ h \in Clients /\ In(backlog, h)
        /\ backlog' \in Seq(Clients) /\ Distinct(backlog')
        /\ \A c \in Clients : In(backlog', c) <=> In(backlog, c) /\ c # h
    BY <2>1, TailOf
  <2>3. ~In(tasks_, h) /\ ~Running(h)
    BY <2>2
  <2>4. \A c \in Clients : conn'[c] = IF c = h THEN "open" ELSE conn[c]
    BY <2>1, <2>2 DEF ConnTyped
  <2> HIDE DEF h
  <2>. QED  BY <1>0, <2>1, <2>2, <2>3, <2>4 DEF Running
<1>6. CASE Offer
  <2>1. /\ client \in Clients /\ client' = client
        /\ listener = "offer" /\ listener' = "notify"
        /\ tasks_' = Append(tasks_, client)
        /\ UNCHANGED <<backlog, conn, task>>
    BY <1>6 DEF Offer, ListenerAt, Pool!OfferPush, Pool!PushBack, NoneLost,
         netVars
  <2>2. /\ tasks_' \in Seq(Clients) /\ Distinct(tasks_')
        /\ \A d \in Clients : In(tasks_', d) <=> In(tasks_, d) \/ d = client
    BY <2>1, AppendOf
  <2>. QED  BY <1>0, <2>1, <2>2 DEF Running
<1>12. CASE OfferReturns
  <2>1. /\ client \in Clients /\ client' = NoClient /\ listener' = "loop"
        /\ conn' = Close(LastCopy)
        /\ UNCHANGED <<backlog, tasks_, task>>
    BY <1>12 DEF OfferReturns, ListenerAt, NoneLost, poolVars
  <2>2. \A c \in Clients :
          conn'[c] = IF c = client /\ ~In(tasks_, c) /\ ~Running(c)
                     THEN "closed" ELSE conn[c]
    BY <2>1, LastCopyIs DEF Close
  <2>. QED  BY <1>0, <2>1, <2>2 DEF Running
<1>7. CASE Listen \/ ListenThrows \/ Announce \/ CheckRun \/ PollPipe
           \/ AcceptThrows \/ OfferToNull \/ Notify \/ Leave
  BY <1>1, <1>7 DEF Listen, ListenThrows, Announce, CheckRun, PollPipe,
       AcceptThrows, OfferToNull, Notify, Leave, Terminate,
       Pool!OfferNotify, netVars, poolVars
<1>8. ASSUME NEW w \in Workers, Worker(w) \/ Spurious(w) \/ TaskKills(w)
      PROVE  OnePlace'
  <2>1. CASE Pool!Sleep(w) \/ Pool!Exit(w) \/ Spurious(w) \/ TaskKills(w)
    <3>1. UNCHANGED conn
      BY <1>8, <2>1 DEF Worker, Spurious, TaskKills, Terminate, Pool!TakeTask,
           Pool!FinishTask, Pool!Sleep, Pool!Exit, Pool!Acquires, netVars
    <3>. QED
      BY <1>1, <1>8, <2>1, <3>1 DEF Worker, Spurious, TaskKills, Terminate,
           Pool!Sleep, Pool!Exit, Pool!SpuriousWakeup, netVars, poolVars
  <2>2. CASE /\ Pool!TakeTask(w)
             /\ UNCHANGED conn /\ UNCHANGED <<client, backlog, listener>>
    <3> DEFINE h == Head(tasks_)
    <3>1. /\ task' = [task EXCEPT ![w] = h] /\ tasks_' = Tail(tasks_)
          /\ UNCHANGED <<conn, client, backlog, listener>>
          /\ tasks_ # <<>>
          /\ mux_ = Free
      BY <2>2 DEF Pool!TakeTask, Pool!Predicate, Pool!Stops, Pool!Acquires
    <3>2. /\ h \in Clients /\ In(tasks_, h)
          /\ tasks_' \in Seq(Clients) /\ Distinct(tasks_')
          /\ \A c \in Clients : In(tasks_', c) <=> In(tasks_, c) /\ c # h
      BY <3>1, TailOf
    <3>3. \A v \in Workers : task'[v] = IF v = w THEN h ELSE NoClient
      BY <3>1, <3>2 DEF OneWorker
    <3>4. \A c \in Clients : ~Running(c)
      BY <3>1 DEF OneWorker, Running
    <3> HIDE DEF h
    <3>5. \A c \in Clients : Running(c)' <=> c = h
      BY <3>2, <3>3 DEF Running
    <3>. QED  BY <1>0, <3>1, <3>2, <3>4, <3>5
  <2>3. CASE Pool!FinishTask(w) /\ conn' = Close({task[w]} \ {client})
             /\ UNCHANGED <<client, backlog, listener>>
    <3>1. /\ task' = [task EXCEPT ![w] = NoClient]
          /\ UNCHANGED <<client, backlog, listener, tasks_>>
          /\ \A c \in Clients :
               conn'[c] = IF c = task[w] /\ c # client THEN "closed"
                          ELSE conn[c]
      BY <2>3 DEF Pool!FinishTask, Close
    <3>2. \A c \in Clients : Running(c)' <=> Running(c) /\ c # task[w]
      BY <3>1 DEF Running, OneWorker
    <3>3. \A c \in Clients : c = task[w] => Running(c)
      BY DEF Running
    <3>. QED  BY <1>0, <3>1, <3>2, <3>3
  <2>4. Worker(w) => UNCHANGED <<client, backlog, listener>>
    BY DEF Worker
  <2>. QED  BY <1>8, <2>1, <2>2, <2>3, <2>4 DEF Worker
<1>9. ASSUME NEW t \in Threads, StopStep(t)  PROVE OnePlace'
  BY <1>1, <1>9 DEF StopStep, StopCheck, StopClear, StopWrite, StopWait,
       netVars, poolVars
<1>10. ASSUME NEW t \in Threads, NEW s \in Signals, Deliver(s, t)
       PROVE  OnePlace'
  BY <1>1, <1>10 DEF Deliver, netVars, poolVars
<1>11. ASSUME NEW c \in Clients, Connect(c)  PROVE OnePlace'
  <2>1. /\ conn[c] = "none" /\ conn' = [conn EXCEPT ![c] = "backlog"]
        /\ backlog' = Append(backlog, c)
        /\ UNCHANGED <<client, listener, tasks_, task>>
    BY <1>11 DEF Connect, poolVars
  <2>2. /\ backlog' \in Seq(Clients) /\ Distinct(backlog')
        /\ \A d \in Clients : In(backlog', d) <=> In(backlog, d) \/ d = c
    BY <2>1, AppendOf
  <2>3. \A d \in Clients : conn'[d] = IF d = c THEN "backlog" ELSE conn[d]
    BY <2>1 DEF ConnTyped
  <2>. QED  BY <1>0, <2>1, <2>2, <2>3 DEF Running
<1>. QED
  BY <1>2, <1>3, <1>4, <1>5, <1>6, <1>7, <1>8, <1>9, <1>10, <1>11, <1>12
     DEF Next, MainStep, ListenerStep, Ended

(* Counting the copies. *)
LEMMA CountsOne ==
  ASSUME NEW S, NEW P, NEW e, S = IF P THEN {e} ELSE {}
  PROVE  Cardinality(S) = IF P THEN 1 ELSE 0
BY FS_EmptySet, FS_Singleton

LEMMA OnePlaceIsOpen ==
  ASSUME OnePlace, OneWorker  PROVE OpenWhileNeeded
<1>. SUFFICES ASSUME NEW c \in Clients
              PROVE  /\ Copies(c) <= 1
                     /\ conn[c] = "open" <=> client = c \/ Copies(c) = 1
  BY DEF OpenWhileNeeded
<1> DEFINE queued == {i \in DOMAIN tasks_ : tasks_[i] = c}
           workers == {w \in Workers : task[w] = c}
<1>1. Cardinality(queued) = IF In(tasks_, c) THEN 1 ELSE 0
  <2>1. CASE In(tasks_, c)
    <3>1. PICK i \in DOMAIN tasks_ : tasks_[i] = c
      BY <2>1 DEF In
    <3>2. queued = {i}
      BY <3>1 DEF OnePlace, Distinct
    <3>. QED  BY <2>1, <3>2, FS_Singleton
  <2>2. CASE ~In(tasks_, c)
    <3>1. queued = {}
      BY <2>2 DEF In
    <3>. QED  BY <2>2, <3>1, FS_EmptySet
  <2>. QED  BY <2>1, <2>2
<1>2. Cardinality(workers) = IF Running(c) THEN 1 ELSE 0
  <2>1. CASE Running(c)
    <3>1. PICK w \in Workers : task[w] = c
      BY <2>1 DEF Running
    <3>2. workers = {w}
      BY <3>1, ServerAssumption DEF OneWorker
    <3>. QED  BY <2>1, <3>2, FS_Singleton
  <2>2. CASE ~Running(c)
    <3>1. workers = {}
      BY <2>2 DEF Running
    <3>. QED  BY <2>2, <3>1, FS_EmptySet
  <2>. QED  BY <2>1, <2>2
<1>. QED  BY <1>1, <1>2 DEF OnePlace, Copies

LEMMA InitOnePlace == Init => OnePlace
<1>1. /\ <<>> \in Seq(Clients) /\ Distinct(<<>>)
      /\ \A c \in Clients : ~In(<<>>, c)
  BY DEF Distinct, In
<1>. QED
  BY <1>1, ServerAssumption
     DEF Init, Pool!Init, OnePlace, ConnTyped, Running

LEMMA PoolInvOneWorker == PoolProofs!PoolInv => OneWorker
BY ServerAssumption DEF PoolProofs!PoolInv, PoolProofs!TypeOK,
   PoolProofs!OneTaskAtATime, PoolProofs!TaskWhileRunning, OneWorker

LEMMA ServerOnePlace == SafeSpec => [](OnePlace /\ OneWorker)
BY InitOnePlace, NextOnePlace, PoolInvOneWorker, InitNoneLost, NextNoneLost,
   InitStopSeesTheLoop, NextStopSeesTheLoop, InitResetAfterJoin,
   NextResetAfterJoin, ServerPoolInv, PTL DEF SafeSpec

(* The descriptor of a client is open exactly as long as the listener has  *)
(* not returned from Offer, or the only copy of the task in the pool has   *)
(* not been run or dropped: none is leaked, closed twice or under its      *)
(* user, whoever is the last to need it.                                   *)
THEOREM ServerOpenWhileNeeded == SafeSpec => []OpenWhileNeeded
<1>1. OnePlace /\ OneWorker => OpenWhileNeeded
  BY OnePlaceIsOpen
<1>. QED  BY <1>1, ServerOnePlace, PTL

-----------------------------------------------------------------------------
(***************************************************************************)
(* The refinement of SerialServer.  The invariants above say which step of *)
(* the abstract server a step of the threads is; in addition, a pool that  *)
(* is gone has an empty queue.                                             *)
(***************************************************************************)
GoneMeansEmpty == owner = "gone" => tasks_ = <<>>

LEMMA NextGoneMeansEmpty ==
  GoneMeansEmpty /\ [Pool!Next]_(Pool!poolVars) => GoneMeansEmpty'
<1>. SUFFICES ASSUME GoneMeansEmpty, [Pool!Next]_(Pool!poolVars)
              PROVE  GoneMeansEmpty'
  OBVIOUS
<1>. USE DEF GoneMeansEmpty
<1>1. CASE Pool!OwnerStep
  BY <1>1 DEF Pool!OwnerStep, Pool!Construct, Pool!ConstructThrows,
       Pool!Spawn, Pool!DestroyMark, Pool!DestroyNotifyAll, Pool!DestroyJoin
<1>2. ASSUME NEW w \in Workers, Pool!WorkerStep(w) \/ Pool!SpuriousWakeup(w)
      PROVE  GoneMeansEmpty'
  <2>1. CASE Pool!TakeTask(w)
    <3>1. tasks_ # <<>> /\ UNCHANGED owner
      BY <2>1 DEF Pool!TakeTask, Pool!Predicate, Pool!Stops
    <3>. QED  BY <3>1
  <2>. QED
    BY <1>2, <2>1 DEF Pool!WorkerStep, Pool!FinishTask, Pool!Sleep,
         Pool!Exit, Pool!SpuriousWakeup
<1>3. ASSUME NEW o \in {Listener},
             Pool!OfferNotify(o) \/ \E c \in Clients : Pool!OfferPush(o, c)
      PROVE  GoneMeansEmpty'
  BY <1>3 DEF Pool!OfferNotify, Pool!OfferPush
<1>4. CASE UNCHANGED Pool!poolVars
  BY <1>4 DEF Pool!poolVars
<1>. QED  BY <1>1, <1>2, <1>3, <1>4 DEF Pool!Next, Pool!Terminated

(* What the pool's invariant contributes. *)
PoolFacts ==
  /\ mux_ \in Workers \cup {Free}
  /\ \A w \in Workers : threads_[w] = "running" <=> mux_ = w
  /\ \A w \in Workers : threads_[w] = "running" <=> task[w] # NoClient
  /\ done_ <=> owner \in {"notifying", "joining", "gone"}
  /\ owner = "gone" => mux_ = Free

SerialInv ==
  /\ OnePlace /\ OneWorker /\ NoneLost
  /\ StopSeesTheLoop /\ ResetAfterJoin
  /\ GoneMeansEmpty /\ PoolFacts

(* Taking the first element commutes with appending at the end. *)
LEMMA FrontOfConcat ==
  ASSUME NEW s \in Seq(Clients), NEW t \in Seq(Clients), s # <<>>
  PROVE  /\ s \o t # <<>>
         /\ Head(s \o t) = Head(s)
         /\ Tail(s \o t) = Tail(s) \o t
<1>1. /\ Head(s) = s[1] /\ Tail(s) \in Seq(Clients)
      /\ Len(s) \in Nat \ {0} /\ Len(t) \in Nat
      /\ Len(Tail(s)) = Len(s) - 1
      /\ \A i \in 1 .. Len(s) - 1 : Tail(s)[i] = s[i + 1]
  BY HeadTailProperties, EmptySeq, LenProperties
<1> DEFINE u == s \o t
<1>2. /\ u \in Seq(Clients)
      /\ Len(u) = Len(s) + Len(t)
      /\ \A i \in 1 .. Len(s) + Len(t) :
           u[i] = IF i <= Len(s) THEN s[i] ELSE t[i - Len(s)]
  BY ConcatProperties
<1> HIDE DEF u
<1>3. u # <<>> /\ u[1] = s[1]
  BY <1>1, <1>2, EmptySeq
<1>4. /\ Head(u) = u[1] /\ Tail(u) \in Seq(Clients)
      /\ Len(Tail(u)) = Len(u) - 1
      /\ \A i \in 1 .. Len(u) - 1 : Tail(u)[i] = u[i + 1]
  BY <1>2, <1>3, HeadTailProperties
<1> DEFINE v == Tail(s) \o t
<1>5. /\ v \in Seq(Clients)
      /\ Len(v) = Len(s) - 1 + Len(t)
      /\ \A i \in 1 .. Len(s) - 1 + Len(t) :
           v[i] = IF i <= Len(s) - 1 THEN Tail(s)[i]
                  ELSE t[i - (Len(s) - 1)]
  BY <1>1, ConcatProperties
<1> HIDE DEF v
<1>6. ASSUME NEW i \in 1 .. Len(v)  PROVE Tail(u)[i] = v[i]
  <2>1. /\ i \in 1 .. Len(u) - 1 /\ i + 1 \in 1 .. Len(s) + Len(t)
        /\ i \in 1 .. Len(s) - 1 + Len(t)
    BY <1>1, <1>2, <1>5
  <2>2. Tail(u)[i] = u[i + 1]
    BY <1>4, <2>1
  <2>3. CASE i <= Len(s) - 1
    BY <1>1, <1>2, <1>5, <2>1, <2>2, <2>3
  <2>4. CASE ~(i <= Len(s) - 1)
    BY <1>1, <1>2, <1>5, <2>1, <2>2, <2>4
  <2>. QED  BY <2>3, <2>4
<1>7. Tail(u) = v
  BY <1>1, <1>2, <1>4, <1>5, <1>6, SeqEqual
<1>. QED  BY <1>1, <1>3, <1>4, <1>7 DEF u, v

(* A step that changes nothing of what the mapping reads. *)
LEMMA Unnoticed ==
  ASSUME UNCHANGED <<backlog, tasks_, client, mux_, task, conn, done_,
                     stopped, process>>,
         \/ listener' = listener
         \/ {listener, listener'} \cap {"offer", "exited"} = {}
  PROVE  UNCHANGED Serial!vars
BY DEF Serial!vars, InHand

(* No connection is open for long: the listener has closed the last one.   *)
LEMMA NothingLingers ==
  ASSUME SerialInv, client = NoClient  PROVE Serial!Lingering = {}
<1>. SUFFICES ASSUME NEW c \in Clients, conn[c] = "open"
              PROVE  \/ c = IF mux_ = Free THEN NoClient ELSE task[mux_]
                     \/ c \in Serial!Range(tasks_ \o InHand)
  BY DEF Serial!Lingering
<1>1. c # NoClient /\ InHand = <<>>
  BY ServerAssumption DEF SerialInv, NoneLost, InHand
<1>2. tasks_ \o InHand = tasks_
  BY <1>1, ConcatEmptySeq DEF SerialInv, OnePlace
<1>3. In(tasks_, c) \/ Running(c)
  BY <1>1 DEF SerialInv, OnePlace
<1>4. CASE In(tasks_, c)
  BY <1>2, <1>4 DEF In, Serial!Range
<1>5. CASE Running(c)
  <2>1. PICK w \in Workers : task[w] = c
    BY <1>5 DEF Running
  <2>2. mux_ = w /\ w # Free
    BY <1>1, <2>1, ServerAssumption DEF SerialInv, PoolFacts
  <2>. QED  BY <2>1, <2>2
<1>. QED  BY <1>3, <1>4, <1>5

LEMMA MainRefines ==
  ASSUME SerialInv, MainStep  PROVE [Serial!Next]_(Serial!vars)
<1>1. CASE Start \/ StartReturns \/ WaitJoin
  <2>1. UNCHANGED <<backlog, tasks_, client, mux_, task, conn, done_,
                    stopped, process>>
    BY <1>1 DEF Start, StartReturns, WaitJoin, poolVars, netVars, stopVars
  <2>2. \/ listener' = listener
        \/ {listener, listener'} \cap {"offer", "exited"} = {}
    BY <1>1 DEF Start, StartReturns, WaitJoin, SerialInv, StopSeesTheLoop
  <2>. QED  BY <2>1, <2>2, Unnoticed
<1>2. CASE StartPool
  BY <1>2, Unnoticed
     DEF StartPool, Pool!Construct, Pool!Spawn, netVars, stopVars
<1>3. CASE StartThrows
  <2>1. Serial!Crash
    BY <1>3 DEF StartThrows, Runs, Pool!ConstructThrows, poolVars, netVars,
         stopVars, InHand, Serial!Crash
  <2>. QED  BY <2>1 DEF Serial!Next
<1>4. CASE ResetPool /\ owner = "up"
  <2>1. Pool!DestroyMark
    BY <1>4 DEF ResetPool, Pool!DestroyMark, Pool!DestroyNotifyAll,
         Pool!DestroyJoin
  <2>2. /\ process = "up" /\ listener = "exited" /\ ~done_
        /\ mux_ = Free /\ mux_' = Free /\ done_'
        /\ UNCHANGED <<backlog, tasks_, client, conn, stopped, process,
                       listener>>
    BY <1>4, <2>1 DEF ResetPool, Runs, Pool!DestroyMark,
         Pool!DestroyNotifyAll, Pool!DestroyJoin, SerialInv, ResetAfterJoin,
         PoolFacts, netVars, stopVars
  <2>3. Serial!Close
    BY <2>2 DEF Serial!Close, InHand
  <2>. QED  BY <2>3 DEF Serial!Next
<1>5. CASE ResetPool /\ owner = "notifying"
  BY <1>5, Unnoticed DEF ResetPool, Pool!DestroyMark, Pool!DestroyNotifyAll,
       Pool!DestroyJoin, netVars, stopVars
<1>6. CASE ResetPool /\ owner = "joining"
  <2>1. /\ process = "up" /\ done_ /\ done_' /\ listener = "exited"
        /\ tasks_' = <<>> /\ conn' = Close(Range(tasks_))
        /\ UNCHANGED <<backlog, client, mux_, task, listener, stopped,
                       process>>
    BY <1>6 DEF ResetPool, Runs, Pool!DestroyMark,
         Pool!DestroyNotifyAll, Pool!DestroyJoin, SerialInv, ResetAfterJoin,
         PoolFacts, netVars, stopVars
  <2>2. client = NoClient
    BY <2>1 DEF SerialInv, NoneLost
  <2>3. tasks_ \o InHand = tasks_ /\ tasks_' \o InHand' = <<>>
    BY <2>1, <2>2, ConcatEmptySeq DEF InHand, SerialInv, OnePlace
  <2>4. conn' = [c \in Clients |-> IF c \in Serial!Range(tasks_ \o InHand)
                                   THEN "closed" ELSE conn[c]]
    BY <2>1, <2>3 DEF Close, Range, Serial!Range
  <2>5. Serial!HangUp
    BY <2>1, <2>3, <2>4 DEF Serial!HangUp
  <2>. QED  BY <2>5 DEF Serial!Next
<1>7. CASE Exit
  <2>1. owner = "gone" /\ process = "up" /\ process' = "exited"
        /\ UNCHANGED <<backlog, tasks_, client, mux_, task, conn, done_,
                       stopped, listener>>
    BY <1>7 DEF Exit, Runs, poolVars, netVars, stopVars
  <2>2. done_ /\ mux_ = Free /\ tasks_ = <<>> /\ client = NoClient
    BY <2>1 DEF SerialInv, PoolFacts, GoneMeansEmpty, ResetAfterJoin,
         NoneLost
  <2>3. \A c \in Clients : conn[c] # "open"
    <3>1. \A c \in Clients : ~In(tasks_, c)
      BY <2>2 DEF In
    <3>2. \A c \in Clients : client # c /\ ~Running(c)
      BY <2>2, ServerAssumption DEF SerialInv, OneWorker, Running
    <3>. QED  BY <3>1, <3>2 DEF SerialInv, OnePlace
  <2>4. Serial!Exit
    BY <2>1, <2>2, <2>3 DEF Serial!Exit, InHand
  <2>. QED  BY <2>4 DEF Serial!Next
<1>8. ResetPool => owner \in {"up", "notifying", "joining"}
  BY DEF ResetPool, Pool!DestroyMark, Pool!DestroyNotifyAll, Pool!DestroyJoin
<1>. QED
  BY <1>1, <1>2, <1>3, <1>4, <1>5, <1>6, <1>7, <1>8 DEF MainStep

LEMMA ListenerRefines ==
  ASSUME SerialInv, ListenerStep  PROVE [Serial!Next]_(Serial!vars)
<1>0. /\ listener # "exited" /\ process = "up" /\ ~done_
  <2>1. listener # "exited" /\ process = "up"
    BY DEF ListenerStep, Listen, ListenThrows, Announce, CheckRun, PollPipe,
         Accept, AcceptThrows, Offer, OfferToNull, Notify, OfferReturns,
         Leave, ListenerAt, Runs
  <2>. QED  BY <2>1 DEF SerialInv, ResetAfterJoin, PoolFacts
<1>1. CASE Listen \/ Announce \/ CheckRun \/ PollPipe
  <2>1. UNCHANGED <<backlog, tasks_, client, mux_, task, conn, done_,
                    stopped, process>>
    BY <1>1 DEF Listen, Announce, CheckRun, PollPipe, poolVars, netVars,
         stopVars
  <2>2. {listener, listener'} \cap {"offer", "exited"} = {}
    BY <1>1 DEF Listen, Announce, CheckRun, PollPipe, ListenerAt
  <2>. QED  BY <1>0, <2>1, <2>2, Unnoticed
<1>2. CASE Notify
  <2>1. UNCHANGED <<backlog, tasks_, client, mux_, task, conn, done_,
                    stopped, process>>
        /\ listener = "notify" /\ listener' = "returning"
    BY <1>2 DEF Notify, ListenerAt, Pool!OfferNotify, netVars, stopVars
  <2>. QED  BY <2>1, Unnoticed
<1>3. CASE ListenThrows \/ AcceptThrows \/ OfferToNull
  <2>1. Serial!Crash
    BY <1>0, <1>3 DEF ListenThrows, AcceptThrows, OfferToNull, Terminate,
         poolVars, netVars, stopVars, InHand, Serial!Crash
  <2>. QED  BY <2>1 DEF Serial!Next
<1>4. CASE Accept
  <2> DEFINE h == Head(backlog)
  <2>1. /\ client = NoClient /\ backlog # <<>>
        /\ client' = h /\ backlog' = Tail(backlog)
        /\ conn' = [conn EXCEPT ![h] = "open"]
        /\ listener' # "exited"
        /\ UNCHANGED <<tasks_, mux_, task, done_, stopped, process>>
    BY <1>4 DEF Accept, Acceptable, AcceptNext, ListenerAt, SerialInv,
         NoneLost, poolVars, stopVars
  <2>2. h \in Clients /\ conn[h] = "backlog"
    BY <2>1, TailOf DEF SerialInv, OnePlace
  <2>3. h # NoClient
    BY <2>2, ServerAssumption
  <2>4. tasks_ \o InHand = tasks_ /\ tasks_' \o InHand' = Append(tasks_, h)
    <3>1. InHand = <<>> /\ InHand' = <<h>>
      BY <1>4, <2>1, <2>3 DEF InHand, Accept, ListenerAt
    <3>2. tasks_ \o <<>> = tasks_ /\ tasks_ \o <<h>> = Append(tasks_, h)
      BY <2>2, ConcatEmptySeq, AppendIsConcat DEF SerialInv, OnePlace
    <3>. QED  BY <2>1, <3>1, <3>2
  <2>5. Serial!Accept
    BY <1>0, <2>1, <2>2, <2>4, NothingLingers DEF Serial!Accept
  <2>. QED  BY <2>5 DEF Serial!Next
<1>5. CASE Offer
  <2>1. /\ client \in Clients
        /\ tasks_' = Append(tasks_, client)
        /\ listener = "offer" /\ listener' = "notify"
        /\ UNCHANGED <<backlog, mux_, task, conn, done_, stopped, process>>
    BY <1>5 DEF Offer, ListenerAt, Pool!OfferPush, Pool!PushBack, SerialInv,
         NoneLost, netVars, stopVars
  <2>2. tasks_' \o InHand' = tasks_ \o InHand
    BY <2>1, OfferKeepsOrder DEF InHand, SerialInv, OnePlace
  <2>3. UNCHANGED Serial!vars
    BY <1>0, <2>1, <2>2 DEF Serial!vars
  <2>. QED  BY <2>3
<1>6. CASE Leave
  <2>1. /\ listener' = "exited"
        /\ UNCHANGED <<backlog, tasks_, client, mux_, task, conn, done_,
                       stopped, process>>
    BY <1>6 DEF Leave, poolVars, netVars, stopVars
  <2>2. listener = "leaving" /\ client = NoClient
    BY <1>6 DEF Leave, ListenerAt, SerialInv, NoneLost
  <2>3. Serial!Drain
    BY <1>0, <2>1, <2>2, NothingLingers DEF Serial!Drain, InHand
  <2>. QED  BY <2>3 DEF Serial!Next
<1>7. CASE OfferReturns
  <2>1. /\ client \in Clients
        /\ listener = "returning" /\ listener' = "loop"
        /\ conn' = Close(LastCopy)
        /\ UNCHANGED <<backlog, tasks_, mux_, task, done_, stopped, process>>
    BY <1>7 DEF OfferReturns, ListenerAt, SerialInv, NoneLost, poolVars,
         stopVars
  <2>2. /\ InHand = <<>> /\ InHand' = <<>>
        /\ tasks_ \o InHand = tasks_
    BY <2>1, ConcatEmptySeq DEF InHand, SerialInv, OnePlace
  <2>3. CASE client \notin LastCopy
    <3>1. LastCopy = {}
      BY <2>3 DEF LastCopy
    <3>2. conn' = conn
      BY <2>1, <3>1 DEF Close, SerialInv, OnePlace, ConnTyped
    <3>. QED  BY <2>1, <2>2, <3>2 DEF Serial!vars
  <2>4. CASE client \in LastCopy
    <3>1. LastCopy = {client} /\ ~In(tasks_, client) /\ ~Running(client)
      BY <2>4, LastCopyIs DEF LastCopy, SerialInv
    <3>2. conn' = [conn EXCEPT ![client] = "closed"]
      BY <2>1, <3>1 DEF Close, SerialInv, OnePlace, ConnTyped
    <3>3. client \notin Serial!Range(tasks_ \o InHand)
      BY <2>2, <3>1 DEF Serial!Range, In
    <3>4. client # IF mux_ = Free THEN NoClient ELSE task[mux_]
      BY <2>1, <3>1, ServerAssumption DEF SerialInv, PoolFacts, Running
    <3>5. conn[client] = "open"
      BY <2>1 DEF SerialInv, OnePlace
    <3>6. client \in Serial!Lingering
      BY <2>1, <3>3, <3>4, <3>5 DEF Serial!Lingering
    <3>7. Serial!Release(client)
      BY <1>0, <2>1, <2>2, <3>2, <3>6 DEF Serial!Release
    <3>. QED  BY <2>1, <3>7 DEF Serial!Next
  <2>. QED  BY <2>3, <2>4
<1>. QED
  BY <1>1, <1>2, <1>3, <1>4, <1>5, <1>6, <1>7 DEF ListenerStep

LEMMA WorkerRefines ==
  ASSUME SerialInv, NEW w \in Workers,
         Worker(w) \/ Spurious(w) \/ TaskKills(w)
  PROVE  [Serial!Next]_(Serial!vars)
<1>1. /\ process = "up"
      /\ UNCHANGED <<listener, client, backlog, stopped>>
      /\ Worker(w) \/ Spurious(w) => UNCHANGED process
  BY DEF Worker, Spurious, TaskKills, Terminate, Runs, netVars, stopVars
<1>2. CASE Worker(w) /\ Pool!TakeTask(w)
  <2>1. /\ tasks_ # <<>> /\ ~done_ /\ mux_ = Free /\ mux_' = w
        /\ task' = [task EXCEPT ![w] = Head(tasks_)]
        /\ tasks_' = Tail(tasks_)
        /\ UNCHANGED <<done_, conn>>
    BY <1>2 DEF Worker, Pool!TakeTask, Pool!FinishTask, Pool!Acquires,
         Pool!Predicate, Pool!Stops
  <2>2. Head(tasks_) \in Clients /\ conn[Head(tasks_)] = "open"
    BY <2>1, TailOf DEF SerialInv, OnePlace
  <2>3. w # Free /\ task'[w] = Head(tasks_)
    BY <2>1, ServerAssumption DEF SerialInv, OneWorker
  <2>4. /\ tasks_ \o InHand # <<>>
        /\ Head(tasks_ \o InHand) = Head(tasks_)
        /\ tasks_' \o InHand' = Tail(tasks_ \o InHand)
    <3>1. InHand \in Seq(Clients) /\ InHand' = InHand
      BY <1>1 DEF SerialInv, NoneLost, InHand
    <3>. QED  BY <2>1, <3>1, FrontOfConcat DEF SerialInv, OnePlace
  <2>5. Serial!Begin
    BY <1>1, <1>2, <2>1, <2>2, <2>3, <2>4 DEF Serial!Begin
  <2>. QED  BY <2>5 DEF Serial!Next
<1>3. CASE Worker(w) /\ Pool!FinishTask(w)
  <2>1. /\ threads_[w] = "running" /\ mux_' = Free
        /\ conn' = Close({task[w]} \ {client})
        /\ UNCHANGED <<done_, tasks_>>
    BY <1>3 DEF Worker, Pool!TakeTask, Pool!FinishTask, Pool!Sleep,
         Pool!Exit, Pool!Acquires
  <2>2. mux_ = w /\ w # Free /\ task[w] # NoClient /\ task[w] \in Clients
    BY <2>1, ServerAssumption DEF SerialInv, PoolFacts, OneWorker
  <2>3. \/ conn' = [conn EXCEPT ![task[w]] = "closed"]
        \/ conn' = conn
    BY <2>1, <2>2 DEF Close, SerialInv, OnePlace, ConnTyped
  <2>4. Serial!Complete
    BY <1>1, <1>3, <2>1, <2>2, <2>3 DEF Serial!Complete, InHand
  <2>. QED  BY <2>4 DEF Serial!Next
<1>4. CASE Spurious(w) \/ (Worker(w) /\ (Pool!Sleep(w) \/ Pool!Exit(w)))
  <2>1. UNCHANGED <<tasks_, mux_, task, conn, done_>>
    BY <1>4 DEF Spurious, Worker, Pool!SpuriousWakeup, Pool!Sleep,
         Pool!Exit, Pool!TakeTask, Pool!FinishTask, Pool!Acquires, netVars
  <2>. QED  BY <1>1, <1>4, <2>1, Unnoticed
<1>5. CASE TaskKills(w)
  <2>1. Serial!Crash
    BY <1>1, <1>5 DEF TaskKills, Terminate, poolVars, netVars, stopVars,
         InHand, Serial!Crash
  <2>. QED  BY <2>1 DEF Serial!Next
<1>. QED  BY <1>2, <1>3, <1>4, <1>5 DEF Worker

LEMMA StopRefines ==
  ASSUME SerialInv, NEW t \in Threads, StopStep(t)
  PROVE  [Serial!Next]_(Serial!vars)
<1>1. CASE StopCheck(t) \/ StopClear(t) \/ StopWrite(t)
  BY <1>1, Unnoticed
     DEF StopCheck, StopClear, StopWrite, poolVars, netVars
<1>2. CASE StopWait(t)
  <2>1. /\ process = "up"
        /\ handlers[t] # <<>>
        /\ handlers[t][Len(handlers[t])].at = "wait"
        /\ ~running_ /\ stopped'
        /\ stopped' = TRUE
        /\ UNCHANGED <<backlog, tasks_, client, mux_, task, conn, done_,
                       listener, process>>
    BY <1>2 DEF StopWait, StopAt, NotRunning, poolVars, netVars
  <2>2. Len(handlers[t]) \in DOMAIN handlers[t]
    BY <2>1, EmptySeq, LenProperties
       DEF SerialInv, StopSeesTheLoop, HandlersTyped
  <2>3. listener = "exited"
    BY <2>1, <2>2 DEF SerialInv, StopSeesTheLoop
  <2>4. Serial!StopReturns
    BY <2>1, <2>3 DEF Serial!StopReturns, InHand
  <2>. QED  BY <2>4 DEF Serial!Next
<1>. QED  BY <1>1, <1>2 DEF StopStep

LEMMA StepRefines ==
  SerialInv /\ [Next]_vars => [Serial!Next]_(Serial!vars)
<1>. SUFFICES ASSUME SerialInv, [Next]_vars
              PROVE  [Serial!Next]_(Serial!vars)
  OBVIOUS
<1>1. ASSUME NEW t \in Threads, NEW s \in Signals, Deliver(s, t)
      PROVE  [Serial!Next]_(Serial!vars)
  BY <1>1, Unnoticed DEF Deliver, poolVars, netVars
<1>2. ASSUME NEW c \in Clients, Connect(c)
      PROVE  [Serial!Next]_(Serial!vars)
  <2>1. Serial!Connect(c)
    BY <1>2 DEF Connect, Serial!Connect, poolVars, stopVars, InHand
  <2>. QED  BY <2>1 DEF Serial!Next
<1>3. CASE UNCHANGED vars
  BY <1>3, Unnoticed DEF vars, poolVars, netVars, stopVars
<1>. QED
  BY <1>1, <1>2, <1>3, MainRefines, ListenerRefines, WorkerRefines,
     StopRefines DEF Next, Ended

(* Whatever the threads, the signals and the clients do, the server is the *)
(* abstract one: clients are accepted and handled one at a time in the     *)
(* order of connection, nobody is accepted after a Stop or begun while the *)
(* pool goes away, and a program that exits has closed every connection it *)
(* accepted.                                                               *)
THEOREM ServerImplementsSerialServer == SafeSpec => ImplementsSafeSerialServer
<1>1. Init => ResetAfterJoin /\ GoneMeansEmpty /\ Serial!Init
  <2>1. <<>> \in Seq(Clients) /\ <<>> \o <<>> = <<>>
    OBVIOUS
  <2>. QED
    BY <2>1, ServerAssumption
       DEF Init, Pool!Init, ResetAfterJoin, GoneMeansEmpty, Serial!Init,
         InHand
<1>2. PoolProofs!PoolInv => PoolFacts
  BY ServerAssumption DEF PoolProofs!PoolInv, PoolProofs!TypeOK,
     PoolProofs!OneTaskAtATime, PoolProofs!TaskWhileRunning,
     PoolProofs!OwnerOrder, PoolProofs!GoneMeansQuiet, PoolFacts
<1>3. SafeSpec => []GoneMeansEmpty
  BY <1>1, NextGoneMeansEmpty, ServerUsesPool, PTL
     DEF SafeSpec, Pool!SafeSpec
<1>4. SafeSpec => []SerialInv
  BY <1>1, <1>2, <1>3, NextResetAfterJoin, ServerOnePlace, InitNoneLost,
     NextNoneLost, InitStopSeesTheLoop, NextStopSeesTheLoop, ServerPoolInv,
     PTL DEF SafeSpec, SerialInv
<1>. QED
  BY <1>1, <1>4, StepRefines, PTL
     DEF SafeSpec, ImplementsSafeSerialServer, Serial!SafeSpec
=============================================================================

-------------------------- MODULE ThreadPoolProofs --------------------------
(***************************************************************************)
(* Proofs about ThreadPool for every set of workers, of callers of Offer   *)
(* and of tasks.                                                           *)
(***************************************************************************)
EXTENDS ThreadPool, SequenceTheorems, TLAPS

-----------------------------------------------------------------------------
(* Sequences. *)

(* A nonempty sequence is its head followed by its tail. *)
LEMMA HeadThenTail ==
  ASSUME NEW T, NEW t \in Seq(T), t # <<>>
  PROVE  <<Head(t)>> \o Tail(t) = t
<1>1. Head(t) = t[1] /\ Len(t) \in Nat \ {0}
  BY EmptySeq
<1>2. /\ Head(t) \in T
      /\ Tail(t) \in Seq(T)
      /\ Len(Tail(t)) = Len(t) - 1
      /\ \A i \in 1 .. Len(Tail(t)) : Tail(t)[i] = t[i+1]
  BY HeadTailProperties
<1>3. ASSUME NEW h \in T, NEW r \in Seq(T)
      PROVE  /\ <<h>> \o r \in Seq(T)
             /\ Len(<<h>> \o r) = 1 + Len(r)
             /\ \A i \in 1 .. 1 + Len(r) :
                  (<<h>> \o r)[i] = IF i <= 1 THEN h ELSE r[i - 1]
  <2>1. <<h>> \in Seq(T) /\ Len(<<h>>) = 1 /\ <<h>>[1] = h
    OBVIOUS
  <2>. QED  BY <2>1, ConcatProperties
<1>4. /\ <<Head(t)>> \o Tail(t) \in Seq(T)
      /\ Len(<<Head(t)>> \o Tail(t)) = 1 + Len(Tail(t))
      /\ \A i \in 1 .. 1 + Len(Tail(t)) :
           (<<Head(t)>> \o Tail(t))[i] = IF i <= 1 THEN Head(t)
                                         ELSE Tail(t)[i - 1]
  BY <1>2, <1>3
<1>5. ASSUME NEW i \in 1 .. Len(t)
      PROVE  (<<Head(t)>> \o Tail(t))[i] = t[i]
  BY <1>1, <1>2, <1>4
<1>. QED  BY <1>1, <1>2, <1>4, <1>5, SeqEqual

(* Moving the first element of t to the end of s keeps s \o t. *)
LEMMA MoveHead ==
  ASSUME NEW T, NEW s \in Seq(T), NEW t \in Seq(T), t # <<>>
  PROVE  Append(s, Head(t)) \o Tail(t) = s \o t
<1>1. Head(t) \in T /\ Tail(t) \in Seq(T)
  BY HeadTailProperties
<1>2. ASSUME NEW h \in T, NEW r \in Seq(T)
      PROVE  Append(s, h) \o r = s \o (<<h>> \o r)
  <2>1. Append(s, h) = s \o <<h>>
    BY AppendIsConcat
  <2>2. <<h>> \in Seq(T)
    OBVIOUS
  <2>. QED  BY <2>1, <2>2, ConcatAssociative
<1>. QED  BY <1>1, <1>2, HeadThenTail

(* Appending to the second of two sequences appends to both. *)
LEMMA AppendToConcat ==
  ASSUME NEW T, NEW s \in Seq(T), NEW t \in Seq(T), NEW e \in T
  PROVE  s \o Append(t, e) = Append(s \o t, e)
<1>1. <<e>> \in Seq(T) /\ s \o t \in Seq(T)
  BY ConcatProperties
<1>2. Append(t, e) = t \o <<e>> /\ Append(s \o t, e) = (s \o t) \o <<e>>
  BY <1>1, AppendIsConcat
<1>. QED  BY <1>1, <1>2, ConcatAssociative

(* The first part of a concatenation is one of its prefixes. *)
LEMMA ConcatPrefix ==
  ASSUME NEW T, NEW s \in Seq(T), NEW t \in Seq(T)
  PROVE  /\ Len(s) \in 0 .. Len(s \o t)
         /\ s = SubSeq(s \o t, 1, Len(s))
<1> DEFINE u == s \o t
<1>1. /\ u \in Seq(T)
      /\ Len(u) = Len(s) + Len(t)
      /\ \A i \in 1 .. Len(s) + Len(t) :
           u[i] = IF i <= Len(s) THEN s[i] ELSE t[i - Len(s)]
  BY ConcatProperties
<1>2. Len(s) \in Nat /\ Len(t) \in Nat
  BY LenProperties
<1> HIDE DEF u
<1>3. \A i \in 1 .. Len(s) : u[i] = s[i] /\ u[i] \in T
  BY <1>1, <1>2, ElementOfSeq
<1>4. /\ SubSeq(u, 1, Len(s)) \in Seq(T)
      /\ Len(SubSeq(u, 1, Len(s))) = Len(s)
      /\ \A i \in 1 .. Len(s) : SubSeq(u, 1, Len(s))[i] = u[i]
  BY <1>2, <1>3, SubSeqProperties
<1>5. s = SubSeq(u, 1, Len(s))
  BY <1>3, <1>4, SeqEqual
<1>. QED  BY <1>1, <1>2, <1>5 DEF u

-----------------------------------------------------------------------------
(***************************************************************************)
(* The inductive invariant.  Besides the properties themselves it needs to *)
(* say where the owner is when the other variables have the values they    *)
(* have: queue and history stay empty until the constructor has returned,  *)
(* an existing pool has a worker, a worker exits only after done_, done_   *)
(* is set by the destructor and nobody offers any more by then.            *)
(***************************************************************************)
TaskWhileRunning ==
  \A w \in Workers : threads_[w] = "running" <=> task[w] # NoTask

OwnerOrder ==
  /\ done_ <=> owner \in {"notifying", "joining", "gone"}
  /\ owner \in {"none", "constructing", "threw"} => tasks_ = <<>>
  /\ owner # "up" => \A o \in Offerers : offering[o] = "idle"
  /\ \A w \in Workers : threads_[w] = "unborn" => owner = "constructing"
  /\ \A w \in Workers : threads_[w] = "exited" => done_
  /\ owner \in {"none", "threw"} => \A w \in Workers : threads_[w] = "absent"
  /\ owner = "up" => \E w \in Workers : threads_[w] # "absent"

PoolInv ==
  /\ TypeOK
  /\ OneTaskAtATime
  /\ TaskWhileRunning
  /\ OwnerOrder
  /\ TasksStartInOrder
  /\ NoLostWakeup
  /\ NobodySleepsThroughShutdown
  /\ GoneMeansQuiet

-----------------------------------------------------------------------------
(* What PoolInv is built from, one lemma per part: each is preserved by    *)
(* every step.                                                             *)

LEMMA InitPoolInv == Init => PoolInv
<1>. USE DEF Init
<1>1. Init => TypeOK
  <2>1. <<>> \in Seq(Tasks)
    OBVIOUS
  <2>. QED  BY <2>1 DEF TypeOK, WorkerStates, OwnerStates
<1>2. Init => OneTaskAtATime /\ TaskWhileRunning
  BY PoolAssumption DEF OneTaskAtATime, TaskWhileRunning
<1>3. Init => OwnerOrder
  BY DEF OwnerOrder
<1>4. Init => TasksStartInOrder
  <2>1. <<>> \in Seq(Tasks) /\ <<>> \o <<>> = <<>>
    OBVIOUS
  <2>. QED  BY <2>1 DEF TasksStartInOrder
<1>5. Init => NoLostWakeup /\ NobodySleepsThroughShutdown /\ GoneMeansQuiet
  BY DEF NoLostWakeup, NobodySleepsThroughShutdown, GoneMeansQuiet
<1>. QED  BY <1>1, <1>2, <1>3, <1>4, <1>5 DEF PoolInv

LEMMA NextTypeOK == TypeOK /\ [Next]_poolVars => TypeOK'
<1>. SUFFICES ASSUME TypeOK, [Next]_poolVars  PROVE TypeOK'
  OBVIOUS
<1>. USE DEF TypeOK, WorkerStates, OwnerStates
<1>1. ASSUME NEW S \in SUBSET Workers, Construct(S)  PROVE TypeOK'
  BY <1>1 DEF Construct
<1>2. CASE ConstructThrows
  BY <1>2 DEF ConstructThrows
<1>3. ASSUME NEW w \in Workers, Spawn(w)  PROVE TypeOK'
  BY <1>3 DEF Spawn
<1>4. CASE DestroyMark
  BY <1>4 DEF DestroyMark
<1>5. CASE DestroyNotifyAll
  BY <1>5 DEF DestroyNotifyAll, NotifyAll, Waiting
<1>6. CASE DestroyJoin
  BY <1>6 DEF DestroyJoin
<1>7. ASSUME NEW w \in Workers, TakeTask(w)  PROVE TypeOK'
  <2>1. Head(tasks_) \in Tasks /\ Tail(tasks_) \in Seq(Tasks)
    BY <1>7, HeadTailProperties DEF TakeTask, Predicate, Stops
  <2>2. Append(started, Head(tasks_)) \in Seq(Tasks)
    BY <2>1, AppendProperties
  <2>. QED  BY <1>7, <2>1, <2>2 DEF TakeTask
<1>8. ASSUME NEW w \in Workers, FinishTask(w)  PROVE TypeOK'
  BY <1>8 DEF FinishTask
<1>9. ASSUME NEW w \in Workers, Sleep(w)  PROVE TypeOK'
  BY <1>9 DEF Sleep
<1>10. ASSUME NEW w \in Workers, Exit(w)  PROVE TypeOK'
  BY <1>10 DEF Exit
<1>11. ASSUME NEW w \in Workers, SpuriousWakeup(w)  PROVE TypeOK'
  BY <1>11 DEF SpuriousWakeup
<1>12. ASSUME NEW o \in Offerers, OfferNotify(o)  PROVE TypeOK'
  BY <1>12 DEF OfferNotify, NotifyOne, Waiting
<1>13. ASSUME NEW o \in Offerers, NEW t \in Tasks, OfferPush(o, t)
       PROVE TypeOK'
  <2>1. Append(tasks_, t) \in Seq(Tasks) /\ Append(offered, t) \in Seq(Tasks)
    BY AppendProperties
  <2>. QED  BY <1>13, <2>1 DEF OfferPush, PushBack
<1>14. CASE UNCHANGED poolVars
  BY <1>14 DEF poolVars
<1>. QED
  BY <1>1, <1>2, <1>3, <1>4, <1>5, <1>6, <1>7, <1>8, <1>9, <1>10, <1>11,
     <1>12, <1>13, <1>14 DEF Next, OwnerStep, WorkerStep, Terminated

(* The lock, the workers' places and their tasks agree. *)
LEMMA NextLock ==
  PoolInv /\ [Next]_poolVars => OneTaskAtATime' /\ TaskWhileRunning'
<1>. SUFFICES ASSUME PoolInv, [Next]_poolVars
              PROVE  OneTaskAtATime' /\ TaskWhileRunning'
  OBVIOUS
<1>. USE PoolAssumption
     DEF PoolInv, TypeOK, OneTaskAtATime, TaskWhileRunning, WorkerStates
<1>1. ASSUME NEW S \in SUBSET Workers, Construct(S)
      PROVE  OneTaskAtATime' /\ TaskWhileRunning'
  <2>1. \A w \in Workers : threads_[w] # "running"
    BY <1>1 DEF Construct, OwnerOrder
  <2>. QED  BY <1>1, <2>1 DEF Construct
<1>2. ASSUME NEW w \in Workers, Spawn(w)
      PROVE  OneTaskAtATime' /\ TaskWhileRunning'
  BY <1>2 DEF Spawn
<1>3. CASE ConstructThrows \/ DestroyMark \/ DestroyJoin
  BY <1>3 DEF ConstructThrows, DestroyMark, DestroyJoin
<1>4. CASE DestroyNotifyAll
  BY <1>4 DEF DestroyNotifyAll, NotifyAll, Waiting
<1>5. ASSUME NEW w \in Workers, TakeTask(w)
      PROVE  OneTaskAtATime' /\ TaskWhileRunning'
  <2>1. Head(tasks_) \in Tasks
    BY <1>5, HeadTailProperties DEF TakeTask, Predicate, Stops
  <2>. QED  BY <1>5, <2>1 DEF TakeTask, Acquires
<1>6. ASSUME NEW w \in Workers, FinishTask(w)
      PROVE  OneTaskAtATime' /\ TaskWhileRunning'
  BY <1>6 DEF FinishTask
<1>7. ASSUME NEW w \in Workers, Sleep(w) \/ Exit(w) \/ SpuriousWakeup(w)
      PROVE  OneTaskAtATime' /\ TaskWhileRunning'
  BY <1>7 DEF Sleep, Exit, SpuriousWakeup, Acquires, Waiting
<1>8. ASSUME NEW o \in Offerers, OfferNotify(o)
      PROVE  OneTaskAtATime' /\ TaskWhileRunning'
  BY <1>8 DEF OfferNotify, NotifyOne, Waiting
<1>9. ASSUME NEW o \in Offerers, NEW t \in Tasks, OfferPush(o, t)
      PROVE  OneTaskAtATime' /\ TaskWhileRunning'
  BY <1>9 DEF OfferPush
<1>10. CASE UNCHANGED poolVars
  BY <1>10 DEF poolVars
<1>. QED
  BY <1>1, <1>2, <1>3, <1>4, <1>5, <1>6, <1>7, <1>8, <1>9, <1>10
     DEF Next, OwnerStep, WorkerStep, Terminated

(* The owner's place and the rest of the state agree. *)
LEMMA NextOwnerOrder == PoolInv /\ [Next]_poolVars => OwnerOrder'
<1>. SUFFICES ASSUME PoolInv, [Next]_poolVars  PROVE OwnerOrder'
  OBVIOUS
<1>. USE DEF PoolInv, TypeOK, OwnerOrder, WorkerStates
<1>1. ASSUME NEW S \in SUBSET Workers, Construct(S)  PROVE OwnerOrder'
  BY <1>1 DEF Construct
<1>2. CASE ConstructThrows
  BY <1>2 DEF ConstructThrows
<1>3. ASSUME NEW w \in Workers, Spawn(w)  PROVE OwnerOrder'
  BY <1>3 DEF Spawn
<1>4. CASE DestroyMark
  BY <1>4 DEF DestroyMark
<1>5. CASE DestroyNotifyAll
  BY <1>5 DEF DestroyNotifyAll, NotifyAll, Waiting
<1>6. CASE DestroyJoin
  BY <1>6 DEF DestroyJoin
<1>7. ASSUME NEW w \in Workers, TakeTask(w)  PROVE OwnerOrder'
  BY <1>7 DEF TakeTask, Acquires, Predicate, Stops
<1>8. ASSUME NEW w \in Workers, FinishTask(w)  PROVE OwnerOrder'
  BY <1>8 DEF FinishTask
<1>9. ASSUME NEW w \in Workers, Sleep(w) \/ Exit(w) \/ SpuriousWakeup(w)
      PROVE  OwnerOrder'
  BY <1>9 DEF Sleep, Exit, SpuriousWakeup, Acquires, Waiting, Stops
<1>10. ASSUME NEW o \in Offerers, OfferNotify(o)  PROVE OwnerOrder'
  BY <1>10 DEF OfferNotify, NotifyOne, Waiting
<1>11. ASSUME NEW o \in Offerers, NEW t \in Tasks, OfferPush(o, t)
       PROVE  OwnerOrder'
  BY <1>11 DEF OfferPush
<1>12. CASE UNCHANGED poolVars
  BY <1>12 DEF poolVars
<1>. QED
  BY <1>1, <1>2, <1>3, <1>4, <1>5, <1>6, <1>7, <1>8, <1>9, <1>10, <1>11,
     <1>12 DEF Next, OwnerStep, WorkerStep, Terminated

(* Started followed by queued is offered. *)
LEMMA NextTasksStartInOrder ==
  PoolInv /\ [Next]_poolVars => TasksStartInOrder'
<1>. SUFFICES ASSUME PoolInv, [Next]_poolVars  PROVE TasksStartInOrder'
  OBVIOUS
<1>. USE DEF PoolInv, TypeOK, TasksStartInOrder
<1>1. ASSUME NEW w \in Workers, TakeTask(w)  PROVE TasksStartInOrder'
  <2>1. owner = "up" /\ owner' = "up" /\ offered' = offered
    BY <1>1 DEF TakeTask, Acquires, Predicate, Stops, OwnerOrder, OwnerStates
  <2>2. started' \o tasks_' = started \o tasks_
    BY <1>1, MoveHead DEF TakeTask, Predicate, Stops
  <2>. QED  BY <2>1, <2>2
<1>2. ASSUME NEW o \in Offerers, NEW t \in Tasks, OfferPush(o, t)
      PROVE  TasksStartInOrder'
  <2>1. started \o Append(tasks_, t) = Append(started \o tasks_, t)
    BY AppendToConcat
  <2>. QED  BY <1>2, <2>1 DEF OfferPush, PushBack
<1>3. CASE DestroyJoin
  <2>1. started \o tasks_ = offered
    BY <1>3 DEF DestroyJoin
  <2>2. /\ Len(started) \in 0 .. Len(offered)
        /\ started = SubSeq(offered, 1, Len(started))
    BY <2>1, ConcatPrefix
  <2>. QED  BY <1>3, <2>2 DEF DestroyJoin
<1>4. CASE /\ UNCHANGED <<offered, started, tasks_>>
           /\ owner' = "gone" <=> owner = "gone"
  BY <1>4
<1>5. ASSUME NEW S \in SUBSET Workers, Construct(S)  PROVE TasksStartInOrder'
  BY <1>4, <1>5 DEF Construct
<1>6. ASSUME NEW w \in Workers, Spawn(w)  PROVE TasksStartInOrder'
  BY <1>4, <1>6 DEF Spawn
<1>7. CASE ConstructThrows \/ DestroyMark \/ DestroyNotifyAll
  BY <1>4, <1>7 DEF ConstructThrows, DestroyMark, DestroyNotifyAll
<1>8. ASSUME NEW w \in Workers,
             FinishTask(w) \/ Sleep(w) \/ Exit(w) \/ SpuriousWakeup(w)
      PROVE  TasksStartInOrder'
  BY <1>4, <1>8 DEF FinishTask, Sleep, Exit, SpuriousWakeup
<1>9. ASSUME NEW o \in Offerers, OfferNotify(o)  PROVE TasksStartInOrder'
  BY <1>4, <1>9 DEF OfferNotify
<1>10. CASE UNCHANGED poolVars
  BY <1>4, <1>10 DEF poolVars
<1>. QED
  BY <1>1, <1>2, <1>3, <1>5, <1>6, <1>7, <1>8, <1>9, <1>10
     DEF Next, OwnerStep, WorkerStep, Terminated

(* A queued task keeps somebody awake.  Sleep is the step that could break *)
(* it, and its guard sees the queue; OfferNotify wakes a sleeper, and when *)
(* there is none some worker of the pool is awake already.                 *)
LEMMA NextNoLostWakeup == PoolInv /\ [Next]_poolVars => NoLostWakeup'
<1>. SUFFICES ASSUME PoolInv, [Next]_poolVars  PROVE NoLostWakeup'
  OBVIOUS
<1>. USE DEF PoolInv, TypeOK, NoLostWakeup, WorkerStates
<1>1. ASSUME NEW S \in SUBSET Workers, Construct(S)  PROVE NoLostWakeup'
  BY <1>1 DEF Construct, OwnerOrder
<1>2. ASSUME NEW w \in Workers, Spawn(w)  PROVE NoLostWakeup'
  BY <1>2 DEF Spawn
<1>3. CASE ConstructThrows \/ DestroyMark \/ DestroyJoin
  BY <1>3 DEF ConstructThrows, DestroyMark, DestroyJoin
<1>4. CASE DestroyNotifyAll
  BY <1>4 DEF DestroyNotifyAll, OwnerOrder
<1>5. ASSUME NEW w \in Workers, TakeTask(w)  PROVE NoLostWakeup'
  BY <1>5 DEF TakeTask
<1>6. ASSUME NEW w \in Workers, FinishTask(w)  PROVE NoLostWakeup'
  BY <1>6 DEF FinishTask
<1>7. ASSUME NEW w \in Workers, Sleep(w)  PROVE NoLostWakeup'
  BY <1>7 DEF Sleep, Predicate
<1>8. ASSUME NEW w \in Workers, Exit(w)  PROVE NoLostWakeup'
  BY <1>8 DEF Exit, Stops
<1>9. ASSUME NEW w \in Workers, SpuriousWakeup(w)  PROVE NoLostWakeup'
  BY <1>9 DEF SpuriousWakeup
<1>10. ASSUME NEW o \in Offerers, OfferNotify(o)  PROVE NoLostWakeup'
  <2>1. CASE \E w \in Waiting : threads_' = [threads_ EXCEPT ![w] = "locking"]
    BY <1>10, <2>1 DEF OfferNotify, Waiting
  <2>2. CASE Waiting = {} /\ UNCHANGED threads_
    <3>1. owner = "up"
      BY <1>10 DEF OfferNotify, OwnerOrder
    <3>2. PICK w \in Workers : threads_[w] # "absent"
      BY <3>1 DEF OwnerOrder
    <3>3. threads_[w] \in {"locking", "running"}
      BY <2>2, <3>1, <3>2 DEF OwnerOrder, Waiting
    <3>. QED  BY <2>2, <3>3
  <2>. QED  BY <1>10, <2>1, <2>2 DEF OfferNotify, NotifyOne
<1>11. ASSUME NEW o \in Offerers, NEW t \in Tasks, OfferPush(o, t)
       PROVE  NoLostWakeup'
  BY <1>11 DEF OfferPush
<1>12. CASE UNCHANGED poolVars
  BY <1>12 DEF poolVars
<1>. QED
  BY <1>1, <1>2, <1>3, <1>4, <1>5, <1>6, <1>7, <1>8, <1>9, <1>10, <1>11,
     <1>12 DEF Next, OwnerStep, WorkerStep, Terminated

(* After notify_all nobody goes to sleep, and after the joins nobody is    *)
(* left.                                                                   *)
LEMMA NextShutdown ==
  PoolInv /\ [Next]_poolVars => NobodySleepsThroughShutdown' /\ GoneMeansQuiet'
<1>. SUFFICES ASSUME PoolInv, [Next]_poolVars
              PROVE  NobodySleepsThroughShutdown' /\ GoneMeansQuiet'
  OBVIOUS
<1>. USE DEF PoolInv, TypeOK, NobodySleepsThroughShutdown, GoneMeansQuiet,
             Waiting, WorkerStates
<1>1. ASSUME NEW S \in SUBSET Workers, Construct(S)
      PROVE  NobodySleepsThroughShutdown' /\ GoneMeansQuiet'
  BY <1>1 DEF Construct
<1>2. ASSUME NEW w \in Workers, Spawn(w)
      PROVE  NobodySleepsThroughShutdown' /\ GoneMeansQuiet'
  BY <1>2 DEF Spawn
<1>3. CASE ConstructThrows \/ DestroyMark
  BY <1>3 DEF ConstructThrows, DestroyMark
<1>4. CASE DestroyNotifyAll
  BY <1>4 DEF DestroyNotifyAll, NotifyAll
<1>5. CASE DestroyJoin
  BY <1>5 DEF DestroyJoin, ThreadsJoined, OneTaskAtATime
<1>6. ASSUME NEW w \in Workers, TakeTask(w) \/ FinishTask(w) \/ Exit(w)
      PROVE  NobodySleepsThroughShutdown' /\ GoneMeansQuiet'
  BY <1>6 DEF TakeTask, FinishTask, Exit, Acquires
<1>7. ASSUME NEW w \in Workers, Sleep(w)
      PROVE  NobodySleepsThroughShutdown' /\ GoneMeansQuiet'
  BY <1>7 DEF Sleep, Acquires, Predicate, OwnerOrder
<1>8. ASSUME NEW w \in Workers, SpuriousWakeup(w)
      PROVE  NobodySleepsThroughShutdown' /\ GoneMeansQuiet'
  BY <1>8 DEF SpuriousWakeup
<1>9. ASSUME NEW o \in Offerers, OfferNotify(o)
      PROVE  NobodySleepsThroughShutdown' /\ GoneMeansQuiet'
  BY <1>9 DEF OfferNotify, OwnerOrder
<1>10. ASSUME NEW o \in Offerers, NEW t \in Tasks, OfferPush(o, t)
       PROVE  NobodySleepsThroughShutdown' /\ GoneMeansQuiet'
  BY <1>10 DEF OfferPush
<1>11. CASE UNCHANGED poolVars
  BY <1>11 DEF poolVars
<1>. QED
  BY <1>1, <1>2, <1>3, <1>4, <1>5, <1>6, <1>7, <1>8, <1>9, <1>10, <1>11
     DEF Next, OwnerStep, WorkerStep, Terminated

LEMMA PoolInvInvariant == SafeSpec => []PoolInv
<1>1. PoolInv /\ [Next]_poolVars => PoolInv'
  BY NextTypeOK, NextLock, NextOwnerOrder, NextTasksStartInOrder,
     NextNoLostWakeup, NextShutdown DEF PoolInv
<1>. QED  BY <1>1, InitPoolInv, PTL DEF SafeSpec

-----------------------------------------------------------------------------
(* Theorems about the pool. *)

(* The members and locals of the pool always have their types; in          *)
(* particular what a worker takes off tasks_ is a task.                    *)
THEOREM PoolTypeCorrect == SafeSpec => []TypeOK
BY PoolInvInvariant, PTL DEF PoolInv

(* Whatever the number of workers and of threads in Offer, tasks start in  *)
(* the order of the pushes, none twice and none lost before the            *)
(* destructor.                                                             *)
THEOREM PoolOrder == SafeSpec => []TasksStartInOrder
BY PoolInvInvariant, PTL DEF PoolInv

(* However many workers the pool has, ThreadRun runs tasks one at a time.  *)
THEOREM PoolMutualExclusion == SafeSpec => []OneTaskAtATime
BY PoolInvInvariant, PTL DEF PoolInv

(* notify_one without the lock loses no wakeup.                            *)
THEOREM PoolNoLostWakeup == SafeSpec => []NoLostWakeup
BY PoolInvInvariant, PTL DEF PoolInv

(* No worker is asleep when the destructor joins.                          *)
THEOREM PoolShutdownWakesAll == SafeSpec => []NobodySleepsThroughShutdown
BY PoolInvInvariant, PTL DEF PoolInv

(* No thread is left in ThreadRun when the destructor has returned.        *)
THEOREM PoolGoneMeansQuiet == SafeSpec => []GoneMeansQuiet
BY PoolInvInvariant, PTL DEF PoolInv

(* ThreadRun checks done_ before tasks_: nothing starts during shutdown.   *)
THEOREM PoolStopsAtOnce == SafeSpec => NothingStartsAfterDone
<1>1. PoolInv /\ [Next]_poolVars => [done_ => UNCHANGED started]_poolVars
  BY DEF Next, OwnerStep, WorkerStep, Terminated, Construct,
         ConstructThrows, Spawn, DestroyMark, DestroyNotifyAll, DestroyJoin,
         TakeTask, Stops, FinishTask, Sleep, Exit, SpuriousWakeup,
         OfferNotify, OfferPush
<1>. QED  BY <1>1, PoolInvInvariant, PTL DEF SafeSpec, NothingStartsAfterDone

-----------------------------------------------------------------------------
(***************************************************************************)
(* The refinement.  Only TakeTask, FinishTask, the push of an Offer, the   *)
(* first and the last step of the destructor are visible in the abstract   *)
(* executor, every other step of a thread is a stutter.  The invariant is  *)
(* needed to know that mux_ names the worker that runs the task, and that  *)
(* the destructor starts when none does.                                   *)
(***************************************************************************)
LEMMA StepRefines ==
  PoolInv /\ [Next]_poolVars => [Executor!Next]_Executor!vars
<1>. SUFFICES ASSUME PoolInv, [Next]_poolVars
              PROVE  [Executor!Next]_Executor!vars
  OBVIOUS
<1>. USE PoolAssumption
     DEF PoolInv, TypeOK, OneTaskAtATime, TaskWhileRunning, WorkerStates
<1>1. ASSUME NEW w \in Workers, TakeTask(w)  PROVE Executor!Begin
  BY <1>1 DEF TakeTask, Acquires, Predicate, Stops, Executor!Begin
<1>2. ASSUME NEW w \in Workers, FinishTask(w)  PROVE Executor!Complete
  BY <1>2 DEF FinishTask, Executor!Complete
<1>3. ASSUME NEW o \in Offerers, NEW t \in Tasks, OfferPush(o, t)
      PROVE  Executor!Submit(t)
  BY <1>3 DEF OfferPush, PushBack, OwnerOrder, Executor!Submit, Range,
            Executor!Range
<1>4. ASSUME DestroyMark  PROVE Executor!Close
  BY <1>4 DEF DestroyMark, OwnerOrder, Executor!Close
<1>5. ASSUME DestroyJoin  PROVE Executor!Discard
  BY <1>5 DEF DestroyJoin, OwnerOrder, Executor!Discard
<1>6. CASE UNCHANGED <<offered, tasks_, mux_, task, done_>>
  BY <1>6 DEF Executor!vars
<1>7. ASSUME NEW S \in SUBSET Workers, Construct(S)
      PROVE  UNCHANGED <<offered, tasks_, mux_, task, done_>>
  BY <1>7 DEF Construct
<1>8. ASSUME NEW w \in Workers,
             Spawn(w) \/ Sleep(w) \/ Exit(w) \/ SpuriousWakeup(w)
      PROVE  UNCHANGED <<offered, tasks_, mux_, task, done_>>
  BY <1>8 DEF Spawn, Sleep, Exit, SpuriousWakeup
<1>9. ASSUME ConstructThrows \/ DestroyNotifyAll
      PROVE  UNCHANGED <<offered, tasks_, mux_, task, done_>>
  BY <1>9 DEF ConstructThrows, DestroyNotifyAll
<1>10. ASSUME NEW o \in Offerers, OfferNotify(o)
       PROVE  UNCHANGED <<offered, tasks_, mux_, task, done_>>
  BY <1>10 DEF OfferNotify
<1>11. ASSUME UNCHANGED poolVars
       PROVE  UNCHANGED <<offered, tasks_, mux_, task, done_>>
  BY <1>11 DEF poolVars
<1>. QED
  BY <1>1, <1>2, <1>3, <1>4, <1>5, <1>6, <1>7, <1>8, <1>9, <1>10, <1>11
     DEF Next, OwnerStep, WorkerStep, Terminated, Executor!Next

(* The pool implements the safety part of the abstract serial executor.    *)
THEOREM PoolImplementsExecutor == SafeSpec => ImplementsSafeExecutor
<1>1. Init => Executor!Init
  BY DEF Init, Executor!Init
<1>. QED
  BY <1>1, StepRefines, PoolInvInvariant, PTL DEF SafeSpec, Executor!SafeSpec,
     ImplementsSafeExecutor
=============================================================================

----------------------------- MODULE ThreadPool -----------------------------
(***************************************************************************)
(* gabby::ThreadPool (src/http/thread_pool.{h,cc}): one mutex, one         *)
(* condition variable, a deque of tasks and a vector of threads that run   *)
(* ThreadRun.                                                              *)
(*                                                                         *)
(* The grain: what a thread does between acquiring mux_ and giving it up   *)
(* is one action, because nothing of it can be seen by another thread.     *)
(* The exception is a running task.  ThreadRun calls task() while `guard`  *)
(* is still in scope, so the worker keeps mux_ for as long as the task     *)
(* runs: TakeTask and FinishTask are two actions, and mux_ is held in      *)
(* between.                                                                *)
(***************************************************************************)
EXTENDS Integers, Sequences, Functions

CONSTANTS
  Workers,    \* threads the pool can be asked to start
  Offerers,   \* threads that call Offer
  Tasks,      \* tasks that can be offered, each at most once
  NoTask,     \* "this worker runs no task"
  Free        \* "nobody holds mux_"

ASSUME PoolAssumption == NoTask \notin Tasks /\ Free \notin Workers

VARIABLES
  mux_,       \* the worker holding the mutex while it runs a task, or Free
  done_,      \* set by the destructor
  tasks_,     \* the deque
  threads_,   \* where each worker thread is in ThreadRun
  task,       \* ThreadRun's local variable of that name, per worker
  owner,      \* where the thread that constructs and destroys the pool is
  offering,   \* where each caller of Offer is
  offered,    \* history: the tasks offered so far, in order
  started     \* history: the tasks started so far, in order

poolVars ==
  <<mux_, done_, tasks_, threads_, task, owner, offering, offered, started>>

(* Where a worker can be: not asked for, asked for but not yet spawned,    *)
(* about to (re)acquire mux_, asleep in cnd_.wait, in task(), returned.    *)
WorkerStates ==
  {"absent", "unborn", "locking", "waiting", "running", "exited"}

(* Where the owner can be: no pool yet, in the constructor, constructor    *)
(* has thrown, pool in use, in the destructor before notify_all, joining   *)
(* the threads, destructor has returned.                                   *)
OwnerStates ==
  {"none", "constructing", "threw", "up", "notifying", "joining", "gone"}

(***************************************************************************)
(* Types of the state, one conjunct per variable.  mux_ is never left with *)
(* a caller of Offer or with the destructor: both give it up again before  *)
(* they do anything that another thread could wait for.                    *)
(***************************************************************************)
TypeOK ==
  /\ mux_ \in Workers \cup {Free}
  /\ done_ \in BOOLEAN
  /\ tasks_ \in Seq(Tasks)
  /\ threads_ \in [Workers -> WorkerStates]
  /\ task \in [Workers -> Tasks \cup {NoTask}]
  /\ owner \in OwnerStates
  /\ offering \in [Offerers -> {"idle", "notifying"}]
  /\ offered \in Seq(Tasks)
  /\ started \in Seq(Tasks)

Init ==
  /\ mux_ = Free
  /\ done_ = FALSE
  /\ tasks_ = <<>>
  /\ threads_ = [w \in Workers |-> "absent"]
  /\ task = [w \in Workers |-> NoTask]
  /\ owner = "none"
  /\ offering = [o \in Offerers |-> "idle"]
  /\ offered = <<>>
  /\ started = <<>>

-----------------------------------------------------------------------------
(* The constructor.  `num` is the size of S. *)

Construct(S) ==
  /\ owner = "none"
  /\ S # {}
  /\ owner' = "constructing"
  /\ threads_' = [w \in Workers |-> IF w \in S THEN "unborn" ELSE "absent"]
  /\ UNCHANGED <<mux_, done_, tasks_, task, offering, offered, started>>

(* num < 1: std::invalid_argument, and no pool. *)
ConstructThrows ==
  /\ owner = "none"
  /\ owner' = "threw"
  /\ UNCHANGED <<mux_, done_, tasks_, threads_, task, offering, offered,
                 started>>

(* The threads already spawned run while the loop spawns the next one; the *)
(* constructor returns after the last.                                     *)
Spawn(w) ==
  /\ owner = "constructing"
  /\ threads_[w] = "unborn"
  /\ threads_' = [threads_ EXCEPT ![w] = "locking"]
  /\ owner' = IF \E v \in Workers \ {w} : threads_[v] = "unborn"
              THEN owner ELSE "up"
  /\ UNCHANGED <<mux_, done_, tasks_, task, offering, offered, started>>

-----------------------------------------------------------------------------
(* The condition variable. *)

Waiting == {w \in Workers : threads_[w] = "waiting"}

NotifyNobody == UNCHANGED threads_              \* Mutant of NotifyOne.
NotifyOne ==
  \/ \E w \in Waiting : threads_' = [threads_ EXCEPT ![w] = "locking"]
  \/ Waiting = {} /\ UNCHANGED threads_

NotifyAll ==
  threads_' = [w \in Workers |-> IF w \in Waiting THEN "locking"
                                 ELSE threads_[w]]

-----------------------------------------------------------------------------
(* ThreadRun.  A worker that is "locking" acquires mux_ and evaluates the  *)
(* predicate of cnd_.wait; TakeTask, Sleep or Exit is what follows.        *)

AcquiresNoLock(w) == threads_[w] = "locking"    \* Mutant of Acquires.
Acquires(w) == threads_[w] = "locking" /\ mux_ = Free

PredicateIgnoresTasks == done_                  \* Mutants of Predicate.
PredicateIgnoresDone == tasks_ # <<>>
Predicate == done_ \/ tasks_ # <<>>

(* `if (done_) break;` whether or not tasks are left. *)
StopsWhenDrained == done_ /\ tasks_ = <<>>      \* Mutant of Stops.
Stops == done_

(* Pop the front and run it, keeping mux_ meanwhile. *)
TakeTask(w) ==
  /\ Acquires(w)
  /\ Predicate
  /\ ~Stops
  /\ mux_' = w
  /\ task' = [task EXCEPT ![w] = Head(tasks_)]
  /\ tasks_' = Tail(tasks_)
  /\ started' = Append(started, Head(tasks_))
  /\ threads_' = [threads_ EXCEPT ![w] = "running"]
  /\ UNCHANGED <<done_, owner, offering, offered>>

(* task() returns; `task` and `guard` are destroyed at the end of the      *)
(* iteration, in this order.                                               *)
FinishTask(w) ==
  /\ threads_[w] = "running"
  /\ task' = [task EXCEPT ![w] = NoTask]
  /\ mux_' = Free
  /\ threads_' = [threads_ EXCEPT ![w] = "locking"]
  /\ UNCHANGED <<done_, tasks_, owner, offering, offered, started>>

(* cnd_.wait gives mux_ up and sleeps, atomically. *)
Sleep(w) ==
  /\ Acquires(w)
  /\ ~Predicate
  /\ threads_' = [threads_ EXCEPT ![w] = "waiting"]
  /\ UNCHANGED <<mux_, done_, tasks_, task, owner, offering, offered, started>>

Exit(w) ==
  /\ Acquires(w)
  /\ Predicate
  /\ Stops
  /\ threads_' = [threads_ EXCEPT ![w] = "exited"]
  /\ UNCHANGED <<mux_, done_, tasks_, task, owner, offering, offered, started>>

(* A condition variable may wake a waiter for no reason. *)
SpuriousWakeup(w) ==
  /\ w \in Waiting
  /\ threads_' = [threads_ EXCEPT ![w] = "locking"]
  /\ UNCHANGED <<mux_, done_, tasks_, task, owner, offering, offered, started>>

-----------------------------------------------------------------------------
(* Offer: push under the lock, then notify_one without it.  A pool may     *)
(* only be used between its constructor and its destructor.                *)

PushFront(t) == <<t>> \o tasks_                 \* Mutants of PushBack.
PushMovedFrom(t) == Append(tasks_, NoTask)
PushBack(t) == Append(tasks_, t)

OfferPush(o, t) ==
  /\ owner = "up"
  /\ offering[o] = "idle"
  /\ t \notin Range(offered)
  /\ mux_ = Free
  /\ tasks_' = PushBack(t)
  /\ offered' = Append(offered, t)
  /\ offering' = [offering EXCEPT ![o] = "notifying"]
  /\ UNCHANGED <<mux_, done_, threads_, task, owner, started>>

OfferNotify(o) ==
  /\ offering[o] = "notifying"
  /\ NotifyOne
  /\ offering' = [offering EXCEPT ![o] = "idle"]
  /\ UNCHANGED <<mux_, done_, tasks_, task, owner, offered, started>>

-----------------------------------------------------------------------------
(* The destructor: set done_ under the lock, notify_all, join.  It must    *)
(* wait for mux_, hence for a running task, and it may overtake tasks that *)
(* are still queued.                                                       *)

DestroyMark ==
  /\ owner = "up"
  /\ \A o \in Offerers : offering[o] = "idle"
  /\ mux_ = Free
  /\ done_' = TRUE
  /\ owner' = "notifying"
  /\ UNCHANGED <<mux_, tasks_, threads_, task, offering, offered, started>>

DestroyNotifyAll ==
  /\ owner = "notifying"
  /\ NotifyAll
  /\ owner' = "joining"
  /\ UNCHANGED <<mux_, done_, tasks_, task, offering, offered, started>>

ThreadsDetached == TRUE                         \* Mutant of ThreadsJoined.
ThreadsJoined == \A w \in Workers : threads_[w] \in {"absent", "exited"}

(* The members are destroyed, tasks_ with whatever is left in it. *)
DestroyJoin ==
  /\ owner = "joining"
  /\ ThreadsJoined
  /\ tasks_' = <<>>
  /\ owner' = "gone"
  /\ UNCHANGED <<mux_, done_, threads_, task, offering, offered, started>>

-----------------------------------------------------------------------------
WorkerStep(w) == TakeTask(w) \/ FinishTask(w) \/ Sleep(w) \/ Exit(w)

OwnerStep ==
  \/ \E S \in SUBSET Workers : Construct(S)
  \/ ConstructThrows
  \/ \E w \in Workers : Spawn(w)
  \/ DestroyMark
  \/ DestroyNotifyAll
  \/ DestroyJoin

(* Nothing is left to happen once the pool is gone or was never there. *)
Terminated == owner \in {"gone", "threw"} /\ UNCHANGED poolVars

Next ==
  \/ OwnerStep
  \/ \E w \in Workers : WorkerStep(w) \/ SpuriousWakeup(w)
  \/ \E o \in Offerers : OfferNotify(o) \/ \E t \in Tasks : OfferPush(o, t)
  \/ Terminated

SafeSpec == Init /\ [][Next]_poolVars

(***************************************************************************)
(* Fairness.  The scheduler runs every thread that can run, so a worker, a *)
(* thread inside Offer and an owner inside the constructor or the          *)
(* destructor go on.  FinishTask is among them: a task is assumed to       *)
(* return.  Nobody has to construct the pool, offer a task or destroy it,  *)
(* and there is no fairness on SpuriousWakeup.                             *)
(***************************************************************************)
Fairness ==
  /\ \A w \in Workers : WF_poolVars(WorkerStep(w)) /\ WF_poolVars(Spawn(w))
  /\ \A o \in Offerers : WF_poolVars(OfferNotify(o))
  /\ WF_poolVars(DestroyNotifyAll)
  /\ WF_poolVars(DestroyJoin)

Spec == SafeSpec /\ Fairness

-----------------------------------------------------------------------------
(* Properties. *)

(* Tasks start in the order in which they were offered, each once, and     *)
(* none is lost while the pool exists: whatever the interleaving of Offer  *)
(* calls and workers, what has started followed by what is queued is what  *)
(* was offered.  After the destructor only the order is left.              *)
TasksStartInOrder ==
  IF owner = "gone"
  THEN \E n \in 0 .. Len(offered) : started = SubSeq(offered, 1, n)
  ELSE started \o tasks_ = offered

(* The pool runs one task at a time, however many workers it has, and the  *)
(* worker that runs it holds mux_: Offer and the destructor wait for it.   *)
OneTaskAtATime ==
  \A w \in Workers : threads_[w] = "running" <=> mux_ = w

(* No wakeup is lost: as long as a task is queued, somebody is on the way  *)
(* to it - a worker that is not asleep, or a thread inside Offer that has  *)
(* yet to notify.  notify_one is called without the lock and may wake a    *)
(* worker that finds the queue empty again.                                *)
NoLostWakeup ==
  tasks_ # <<>> /\ ~done_ =>
    \/ \E w \in Workers : threads_[w] \in {"locking", "running"}
    \/ \E o \in Offerers : offering[o] = "notifying"

(* Once the destructor has notified everybody no worker sleeps any more:   *)
(* one that evaluated the predicate before done_ was set is woken by       *)
(* notify_all, one that evaluates it later does not sleep.                 *)
NobodySleepsThroughShutdown ==
  owner \in {"joining", "gone"} => Waiting = {}

(* When the destructor has returned no thread is inside ThreadRun, so none *)
(* touches the members that are destroyed with the pool.                   *)
GoneMeansQuiet ==
  owner = "gone" =>
    mux_ = Free /\ \A w \in Workers : threads_[w] \in {"absent", "exited"}

(* No task is started once done_ is set, even if tasks are queued. *)
NothingStartsAfterDone == [][done_ => UNCHANGED started]_poolVars

(* The pool implements SerialExecutor. *)
Executor == INSTANCE SerialExecutor WITH
  submitted <- offered,
  pending <- tasks_,
  current <- IF mux_ = Free THEN NoTask ELSE task[mux_],
  open <- ~done_

(* The safety part: tasks begin in order, one at a time, none after the    *)
(* destructor has set done_.                                               *)
ImplementsSafeExecutor == Executor!SafeSpec

(* Safety and liveness of the abstract executor: in particular, a pending  *)
(* task is begun, unless the pool is closed first.                         *)
ImplementsExecutor == Executor!Spec

(* The destructor returns: it waits for the running task and no other. *)
DestructorReturns == owner = "notifying" ~> owner = "gone"
=============================================================================

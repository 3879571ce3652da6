--------------------------- MODULE SerialExecutor ---------------------------
(***************************************************************************)
(* What the thread pool of src/http/thread_pool.{h,cc} promises to its     *)
(* user, however many threads it was given: tasks are begun in the order   *)
(* in which they were submitted, at most one is in progress at any time,   *)
(* and after the pool has been closed none is begun any more.  Tasks that  *)
(* are still pending when the pool is closed may be discarded.             *)
(*                                                                         *)
(* ThreadPool (the threads, the mutex and the condition variable)          *)
(* implements this module: see Executor in ThreadPool.tla.                 *)
(***************************************************************************)
EXTENDS Integers, Sequences, Functions

CONSTANTS
  Tasks,    \* the tasks that can be submitted, each at most once
  NoTask    \* "no task is in progress", not a member of Tasks

VARIABLES
  submitted,  \* the tasks submitted so far, in order
  pending,    \* the tasks not yet begun, in order
  current,    \* the task in progress, or NoTask
  open        \* TRUE until the pool is closed

vars == <<submitted, pending, current, open>>

TypeOK ==
  /\ submitted \in Seq(Tasks)
  /\ pending \in Seq(Tasks)
  /\ current \in Tasks \cup {NoTask}
  /\ open \in BOOLEAN

Init ==
  /\ submitted = <<>>
  /\ pending = <<>>
  /\ current = NoTask
  /\ open = TRUE

Submit(t) ==
  /\ open
  /\ t \notin Range(submitted)
  /\ submitted' = Append(submitted, t)
  /\ pending' = Append(pending, t)
  /\ UNCHANGED <<current, open>>

Begin ==
  /\ open
  /\ current = NoTask
  /\ pending # <<>>
  /\ current' = Head(pending)
  /\ pending' = Tail(pending)
  /\ UNCHANGED <<submitted, open>>

Complete ==
  /\ current # NoTask
  /\ current' = NoTask
  /\ UNCHANGED <<submitted, pending, open>>

(* A pool is closed between tasks, never while one is in progress. *)
Close ==
  /\ open
  /\ current = NoTask
  /\ open' = FALSE
  /\ UNCHANGED <<submitted, pending, current>>

Discard ==
  /\ ~open
  /\ pending' = <<>>
  /\ UNCHANGED <<submitted, current, open>>

Next ==
  \/ \E t \in Tasks : Submit(t)
  \/ Begin
  \/ Complete
  \/ Close
  \/ Discard

(* The safety part, which ThreadPool is proved to implement. *)
SafeSpec == Init /\ [][Next]_vars

(* A submitted task does not stay pending for ever while the pool is open  *)
(* and every task in progress completes.                                   *)
Spec == SafeSpec /\ WF_vars(Begin) /\ WF_vars(Complete)
=============================================================================

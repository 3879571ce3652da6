-------------------------- MODULE MCThreadPoolSlow --------------------------
(***************************************************************************)
(* A pool in which one task may never return, because its client keeps the *)
(* connection busy.  Everything else is as fair as in ThreadPool.          *)
(***************************************************************************)
EXTENDS ThreadPool

CONSTANT SlowTask    \* a member of Tasks

OtherWorkerStep(w) ==
  \/ TakeTask(w)
  \/ FinishTask(w) /\ task[w] # SlowTask
  \/ Sleep(w)
  \/ Exit(w)

(* The fairness of ThreadPool, without a promise about the slow task. *)
SlowSpec ==
  /\ SafeSpec
  /\ \A w \in Workers :
       WF_poolVars(OtherWorkerStep(w)) /\ WF_poolVars(Spawn(w))
  /\ \A o \in Offerers : WF_poolVars(OfferNotify(o))
  /\ WF_poolVars(DestroyNotifyAll)
  /\ WF_poolVars(DestroyJoin)

(* README.md:20 and README.md:63 promise a multithreaded server with       *)
(* several worker threads: in a pool of two workers, a single slow task    *)
(* does not keep the others from being started.  The code breaks it:       *)
(* ThreadRun calls task() with mux_ locked (thread_pool.cc:22-28).         *)
WorkersRunInParallel ==
  \A t \in Tasks \ {SlowTask} :
    t \in Range(offered) /\ (\A w \in Workers : threads_[w] # "absent")
      ~> t \in Range(started) \/ done_
=============================================================================

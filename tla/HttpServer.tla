----------------------------- MODULE HttpServer -----------------------------
(***************************************************************************)
(* gabby::http::HttpServer (src/http/server.{h,cc}) in the program of      *)
(* src/main.cc: the main thread that starts the server and waits for it,   *)
(* the listener thread, the thread pool (Pool, an instance of ThreadPool   *)
(* whose tasks are the accepted clients), and Stop, which main.cc calls    *)
(* from its handler of SIGINT and SIGTERM.                                 *)
(*                                                                         *)
(* A signal handler runs on a thread, on top of what the thread was doing: *)
(* handlers[t] is the stack of calls of Stop in progress on thread t, and  *)
(* t itself goes on only when the stack is empty.  While a handler runs    *)
(* its signal is blocked on that thread; Linux delivers a signal sent to   *)
(* the process to the main thread unless that is busy with a signal, and   *)
(* to any thread that does not block it otherwise.                         *)
(*                                                                         *)
(* A test (http/server_test.cc, TestServer) that calls Start, Stop and     *)
(* Wait on one thread is the behaviour in which the only signal comes      *)
(* between Start and Wait.                                                 *)
(***************************************************************************)
EXTENDS Integers, Sequences, FiniteSets, Functions

CONSTANTS
  Workers,       \* threads the pool can be asked to start
  Clients,       \* clients, each of which connects at most once
  Signals,       \* the signals that are handled by Stop
  Main,          \* the main thread
  Listener,      \* the listener thread
  NoClient,      \* "no client"
  Free,          \* "nobody holds mux_"
  MaxSends,      \* how often the program is sent a signal
  EarlySignals,  \* are signals sent before Start has returned?
  FixedPort,     \* do clients know the port before Start has returned?
  FdLimit,       \* how many clients may be open before accept fails
  AcceptErrors,  \* may accept fail because of the network or of a client?
  TasksMayKill   \* may a client being handled end the program?

ASSUME ServerAssumption ==
  /\ NoClient \notin Clients
  /\ Free \notin Workers
  /\ Main # Listener
  /\ {Main, Listener} \cap Workers = {}
  /\ {MaxSends, FdLimit} \subseteq Nat
  /\ {EarlySignals, FixedPort, AcceptErrors, TasksMayKill} \subseteq BOOLEAN

VARIABLES
  mux_, done_, tasks_, threads_, task, owner, offering, offered, started,
               \* the pool, see ThreadPool
  run_,        \* cleared to shut down
  running_,    \* set while the listener is in its loop
  main,        \* where the main thread is
  listener,    \* where the listener thread is
  client,      \* the client the listener has accepted, until Offer returns
  piped,       \* there is something to read in pipe_[0]
  handlers,    \* per thread, the stack of calls of Stop in progress
  sent,        \* how many signals have been sent
  stopped,     \* history: a Stop that found the server running has returned
  backlog,     \* the connections the kernel holds for accept
  conn,        \* the state of each client's socket on the server's side
  connected,   \* history: the clients in the order they connected
  process      \* "up", "exited", "terminated" (std::terminate, SIGSEGV), or
               \* "killed" by a client

poolVars ==
  <<mux_, done_, tasks_, threads_, task, owner, offering, offered, started>>
stopVars == <<piped, handlers, sent, stopped>>
netVars == <<backlog, conn, connected>>
vars == <<poolVars, run_, running_, main, listener, client, stopVars, netVars,
          process>>

Pool == INSTANCE ThreadPool WITH
  Offerers <- {Listener}, Tasks <- Clients, NoTask <- NoClient

Threads == {Main, Listener} \cup Workers

(* pool_ is set after the pool's constructor has returned, and             *)
(* unique_ptr::reset clears it before it runs the destructor.              *)
PoolIsSet == owner = "up"

MainStates == {"init", "starting", "serving", "resetting"}
ListenerStates == {"absent", "binding", "bound", "loop", "poll", "offer",
                   "notify", "returning", "leaving", "exited"}
StopSteps == {"check", "clear", "write", "wait"}

(* Types of the server's own state; the pool's are Pool!TypeOK. *)
TypeOK ==
  /\ Pool!TypeOK
  /\ {run_, running_, piped, stopped} \subseteq BOOLEAN
  /\ main \in MainStates
  /\ listener \in ListenerStates
  /\ client \in Clients \cup {NoClient}
  /\ handlers \in [Threads -> Seq([signal : Signals, at : StopSteps])]
  /\ sent \in 0 .. MaxSends
  /\ {backlog, connected} \subseteq Seq(Clients)
  /\ conn \in [Clients -> {"none", "backlog", "open", "closed"}]
  /\ process \in {"up", "exited", "terminated", "killed"}

Init ==
  /\ Pool!Init
  /\ run_ = FALSE
  /\ running_ = FALSE
  /\ main = "init"
  /\ listener = "absent"
  /\ client = NoClient
  /\ piped = FALSE
  /\ handlers = [t \in Threads |-> <<>>]
  /\ sent = 0
  /\ stopped = FALSE
  /\ backlog = <<>>
  /\ conn = [c \in Clients |-> "none"]
  /\ connected = <<>>
  /\ process = "up"

(* Thread t can take a step of its own. *)
Runs(t) == process = "up" /\ handlers[t] = <<>>

Terminate ==
  /\ process' = "terminated"
  /\ UNCHANGED <<poolVars, run_, running_, main, listener, client, stopVars,
                 netVars>>

-----------------------------------------------------------------------------
(* The main thread: Start, then Wait, then the end of the program. *)

Start ==
  /\ Runs(Main)
  /\ main = "init"
  /\ run_' = TRUE
  /\ listener' = "binding"
  /\ main' = "starting"
  /\ UNCHANGED <<poolVars, running_, client, stopVars, netVars, process>>

(* make_unique<ThreadPool>, while the listener already runs. *)
StartPool ==
  /\ Runs(Main)
  /\ main = "starting"
  /\ \/ \E S \in SUBSET Workers : Pool!Construct(S)
     \/ \E w \in Workers : Pool!Spawn(w)
  /\ UNCHANGED <<run_, running_, main, listener, client, stopVars, netVars,
                 process>>

(* No worker threads: the exception leaves Start, Run and main.  Or one of *)
(* them cannot be created, and those before it have not been joined.       *)
StartThrows ==
  /\ Runs(Main)
  /\ main = "starting"
  /\ \/ Pool!ConstructThrows
     \/ owner = "constructing" /\ UNCHANGED poolVars
  /\ process' = "terminated"
  /\ UNCHANGED <<run_, running_, main, listener, client, stopVars, netVars>>

(* running_.wait(false) *)
StartReturns ==
  /\ Runs(Main)
  /\ main = "starting"
  /\ PoolIsSet
  /\ running_
  /\ main' = "serving"
  /\ UNCHANGED <<poolVars, run_, running_, listener, client, stopVars, netVars,
                 process>>

ListenerNotJoined == TRUE                       \* Mutant of ListenerJoined.
ListenerJoined == listener = "exited"

(* Wait: join the listener, then pool_.reset(), which runs the destructor. *)
WaitJoin ==
  /\ Runs(Main)
  /\ main = "serving"
  /\ PoolIsSet
  /\ ListenerJoined
  /\ main' = "resetting"
  /\ UNCHANGED <<poolVars, run_, running_, listener, client, stopVars, netVars,
                 process>>

LeaveOpen(S) == conn                            \* Mutant of Close.
(* The sockets of the clients of S are closed. *)
Close(S) == [c \in Clients |-> IF c \in S THEN "closed" ELSE conn[c]]

ResetPool ==
  /\ Runs(Main)
  /\ main = "resetting"
  /\ \/ Pool!DestroyMark /\ UNCHANGED conn
     \/ Pool!DestroyNotifyAll /\ UNCHANGED conn
     \/ Pool!DestroyJoin /\ conn' = Close(Range(tasks_))
  /\ UNCHANGED <<run_, running_, main, listener, client, stopVars, backlog,
                 connected, process>>

Exit ==
  /\ Runs(Main)
  /\ owner = "gone"
  /\ process' = "exited"
  /\ UNCHANGED <<poolVars, run_, running_, main, listener, client, stopVars,
                 netVars>>

-----------------------------------------------------------------------------
(* The listener thread. *)

ListenerAt(l) == Runs(Listener) /\ listener = l

Listen ==
  /\ ListenerAt("binding")
  /\ listener' = "bound"
  /\ UNCHANGED <<poolVars, run_, running_, main, client, stopVars, netVars,
                 process>>

(* bind fails if the port is taken; the exception leaves the thread. *)
ListenThrows ==
  /\ ListenerAt("binding")
  /\ FixedPort
  /\ Terminate

Announce ==
  /\ ListenerAt("bound")
  /\ running_' = TRUE
  /\ listener' = "loop"
  /\ UNCHANGED <<poolVars, run_, main, client, stopVars, netVars, process>>

(* while (run_) *)
CheckRun ==
  /\ ListenerAt("loop")
  /\ listener' = IF run_ THEN "poll" ELSE "leaving"
  /\ UNCHANGED <<poolVars, run_, running_, main, client, stopVars, netVars,
                 process>>

(* poll returns because of the pipe alone. *)
PollPipe ==
  /\ ListenerAt("poll")
  /\ piped
  /\ backlog = <<>>
  /\ listener' = "loop"
  /\ UNCHANGED <<poolVars, run_, running_, main, client, stopVars, netVars,
                 process>>

OpenClients == {c \in Clients : conn[c] = "open"}

AcceptsNothing == backlog # <<>> /\ piped       \* Mutant of Acceptable.
Acceptable == backlog # <<>>

AcceptLast == backlog[Len(backlog)]             \* Mutant of AcceptNext.
AcceptNext == Head(backlog)

(* poll returns because of a connection, whether or not the pipe has       *)
(* something too, and Accept takes it.                                     *)
Accept ==
  /\ ListenerAt("poll")
  /\ Acceptable
  /\ Cardinality(OpenClients) < FdLimit
  /\ client' = AcceptNext
  /\ conn' = [conn EXCEPT ![AcceptNext] = "open"]
  /\ backlog' = Tail(backlog)
  /\ listener' = "offer"
  /\ UNCHANGED <<poolVars, run_, running_, main, stopVars, connected, process>>

(* accept fails (EMFILE, ECONNABORTED, ...); the exception leaves the      *)
(* thread.                                                                 *)
AcceptThrows ==
  /\ ListenerAt("poll")
  /\ Acceptable
  /\ AcceptErrors \/ Cardinality(OpenClients) >= FdLimit
  /\ Terminate

(* The queue gets a copy of the task, which shares the client's socket     *)
(* with the listener's own.                                                *)
Offer ==
  /\ ListenerAt("offer")
  /\ Pool!OfferPush(Listener, client)
  /\ listener' = "notify"
  /\ UNCHANGED <<run_, running_, main, client, stopVars, netVars, process>>

(* pool_->Offer without a pool. *)
OfferToNull ==
  /\ ListenerAt("offer")
  /\ ~PoolIsSet
  /\ Terminate

Notify ==
  /\ ListenerAt("notify")
  /\ Pool!OfferNotify(Listener)
  /\ listener' = "returning"
  /\ UNCHANGED <<run_, running_, main, client, stopVars, netVars, process>>

ClosesAnyway == {client}                        \* Mutant of LastCopy.
(* Nobody but the listener has the client's task any more. *)
LastCopy == {client} \ (Range(tasks_) \cup Range(task))

(* Offer returns, and the listener's copies of the task are destroyed; the *)
(* socket is closed here if the task is over by now.                       *)
OfferReturns ==
  /\ ListenerAt("returning")
  /\ conn' = Close(LastCopy)
  /\ client' = NoClient
  /\ listener' = "loop"
  /\ UNCHANGED <<poolVars, run_, running_, main, stopVars, backlog, connected,
                 process>>

Leave ==
  /\ ListenerAt("leaving")
  /\ running_' = FALSE
  /\ listener' = "exited"
  /\ UNCHANGED <<poolVars, run_, main, client, stopVars, netVars, process>>

-----------------------------------------------------------------------------
(* The workers.  The end of a task closes the client's socket, unless the  *)
(* listener has not returned from Offer.                                   *)

Worker(w) ==
  /\ Runs(w)
  /\ \/ Pool!TakeTask(w) /\ UNCHANGED conn
     \/ Pool!Sleep(w) /\ UNCHANGED conn
     \/ Pool!Exit(w) /\ UNCHANGED conn
     \/ Pool!FinishTask(w) /\ conn' = Close({task[w]} \ {client})
  /\ UNCHANGED <<run_, running_, main, listener, client, stopVars, backlog,
                 connected, process>>

Spurious(w) ==
  /\ process = "up"
  /\ Pool!SpuriousWakeup(w)
  /\ UNCHANGED <<run_, running_, main, listener, client, stopVars, netVars,
                 process>>

(* A client ends the program: Handle writes to one that has gone (SIGPIPE, *)
(* which the program does not handle), or reads a line that begins with a  *)
(* zero byte (an assertion).  See Connection.                              *)
TaskKills(w) ==
  /\ Runs(w)
  /\ TasksMayKill
  /\ threads_[w] = "running"
  /\ process' = "killed"
  /\ UNCHANGED <<poolVars, run_, running_, main, listener, client, stopVars,
                 netVars>>

-----------------------------------------------------------------------------
(* Signals and Stop. *)

Alive(t) ==
  \/ t = Main
  \/ t = Listener /\ listener \notin {"absent", "exited"}
  \/ t \in Workers /\ threads_[t] \notin {"absent", "unborn", "exited"}

Blocked(t, s) == \E i \in DOMAIN handlers[t] : handlers[t][i].signal = s

(* Signal s is sent, and thread t starts to handle it. *)
Deliver(s, t) ==
  /\ process = "up"
  /\ sent < MaxSends
  /\ EarlySignals \/ main \in {"serving", "resetting"}
  /\ Alive(t) /\ ~Blocked(t, s)
  /\ t = Main \/ handlers[Main] # <<>>
  /\ sent' = sent + 1
  /\ handlers' = [handlers EXCEPT ![t] =
                    Append(@, [signal |-> s, at |-> "check"])]
  /\ UNCHANGED <<poolVars, run_, running_, main, listener, client, piped,
                 stopped, netVars, process>>

(* The innermost call of Stop on thread t. *)
StopAt(t, l) ==
  /\ process = "up"
  /\ handlers[t] # <<>>
  /\ handlers[t][Len(handlers[t])].at = l

StopGoesTo(t, l) ==
  handlers' = [handlers EXCEPT ![t][Len(handlers[t])].at = l]

StopReturns(t) ==
  handlers' = [handlers EXCEPT ![t] = SubSeq(@, 1, Len(@) - 1)]

StopCheck(t) ==
  /\ StopAt(t, "check")
  /\ IF running_ THEN StopGoesTo(t, "clear") ELSE StopReturns(t)
  /\ UNCHANGED <<poolVars, run_, running_, main, listener, client, piped, sent,
                 stopped, netVars, process>>

StopClear(t) ==
  /\ StopAt(t, "clear")
  /\ run_' = FALSE
  /\ StopGoesTo(t, "write")
  /\ UNCHANGED <<poolVars, running_, main, listener, client, piped, sent,
                 stopped, netVars, process>>

WriteNothing == piped                           \* Mutant of Written.
Written == TRUE

StopWrite(t) ==
  /\ StopAt(t, "write")
  /\ piped' = Written
  /\ StopGoesTo(t, "wait")
  /\ UNCHANGED <<poolVars, run_, running_, main, listener, client, sent,
                 stopped, netVars, process>>

StopDoesNotWait == TRUE                         \* Mutant of NotRunning.
NotRunning == ~running_

(* running_.wait(true) *)
StopWait(t) ==
  /\ StopAt(t, "wait")
  /\ NotRunning
  /\ stopped' = TRUE
  /\ StopReturns(t)
  /\ UNCHANGED <<poolVars, run_, running_, main, listener, client, piped, sent,
                 netVars, process>>

-----------------------------------------------------------------------------
(* The network.  The socket accepts connections from listen(2) until the   *)
(* program ends, whatever the listener thread does.                        *)

Connect(c) ==
  /\ process = "up"
  /\ listener \notin {"absent", "binding"}
  /\ FixedPort \/ main \in {"serving", "resetting"}
  /\ conn[c] = "none"
  /\ conn' = [conn EXCEPT ![c] = "backlog"]
  /\ backlog' = Append(backlog, c)
  /\ connected' = Append(connected, c)
  /\ UNCHANGED <<poolVars, run_, running_, main, listener, client, stopVars,
                 process>>

-----------------------------------------------------------------------------
MainStep ==
  Start \/ StartPool \/ StartThrows \/ StartReturns \/ WaitJoin \/ ResetPool
  \/ Exit

ListenerStep ==
  Listen \/ ListenThrows \/ Announce \/ CheckRun \/ PollPipe \/ Accept
  \/ AcceptThrows \/ Offer \/ OfferToNull \/ Notify \/ OfferReturns \/ Leave

StopStep(t) == StopCheck(t) \/ StopClear(t) \/ StopWrite(t) \/ StopWait(t)

Ended == process # "up" /\ UNCHANGED vars

Next ==
  \/ MainStep
  \/ ListenerStep
  \/ \E w \in Workers : Worker(w) \/ Spurious(w) \/ TaskKills(w)
  \/ \E t \in Threads : StopStep(t) \/ \E s \in Signals : Deliver(s, t)
  \/ \E c \in Clients : Connect(c)
  \/ Ended

SafeSpec == Init /\ [][Next]_vars

(***************************************************************************)
(* Fairness.  Every thread that can run does, with its handlers on top; a  *)
(* task returns.  Nobody has to connect or to send a signal.               *)
(***************************************************************************)
Fairness ==
  /\ WF_vars(MainStep)
  /\ WF_vars(ListenerStep)
  /\ \A w \in Workers : WF_vars(Worker(w))
  /\ \A t \in Threads : WF_vars(StopStep(t))

Spec == SafeSpec /\ Fairness

-----------------------------------------------------------------------------
(* Properties. *)

(* The client the listener has accepted and not yet offered. *)
InHand == IF listener = "offer" THEN <<client>> ELSE <<>>

(* Every client is served at most once and in the order of connection, all *)
(* the way through the kernel's backlog, the listener and the pool, and    *)
(* none is lost on the way.  When the pool is destroyed its queue is       *)
(* dropped.                                                                *)
ServedInOrderOfConnection ==
  IF owner = "gone"
  THEN \E n \in 0 .. Len(connected) : started = SubSeq(connected, 1, n)
  ELSE started \o tasks_ \o InHand \o backlog = connected

Copies(c) ==
  Cardinality({i \in DOMAIN tasks_ : tasks_[i] = c})
  + Cardinality({w \in Workers : task[w] = c})

(* A client's descriptor is open exactly as long as somebody needs it: the *)
(* listener until Offer has returned, and the only copy of the task in the *)
(* pool, until it has been run or dropped with the queue.  Whoever is the  *)
(* last closes it, so that none is leaked, closed under its user, or       *)
(* closed twice.                                                           *)
OpenWhileNeeded ==
  \A c \in Clients :
    /\ Copies(c) <= 1
    /\ conn[c] = "open" <=> client = c \/ Copies(c) = 1

(* The pool is destroyed only when the listener, which uses pool_ without  *)
(* a lock, has ended.                                                      *)
PoolOutlivesListener ==
  owner \in {"notifying", "joining", "gone"} => listener = "exited"

(* When a Stop that found the server running has returned, the listener    *)
(* has left its loop: nothing is accepted any more.                        *)
NothingAcceptedAfterStop ==
  [][stopped => \A c \in Clients : conn'[c] = "open" => conn[c] = "open"]_vars

(* The server with its threads, signal handlers and pool implements        *)
(* SerialServer.  A client is handed over to the pool without anybody      *)
(* noticing, though the listener may be the one to close its socket in the *)
(* end; the server drains when the listener has left its loop and is       *)
(* closed when the pool's destructor has set done_.                        *)
Serial == INSTANCE SerialServer WITH
  waiting <- backlog,
  accepted <- tasks_ \o InHand,
  current <- IF mux_ = Free THEN NoClient ELSE task[mux_],
  stage <- IF done_ THEN "closed"
           ELSE IF listener = "exited" THEN "draining" ELSE "open"

(* The safety part: clients are handled one at a time in the order of      *)
(* connection, nobody is accepted after a Stop, nobody begun once the pool *)
(* goes away, and every connection is closed before the program exits.     *)
ImplementsSafeSerialServer == Serial!SafeSpec

(* Safety and liveness: a client that connects to an open server is        *)
(* handled, and a server that has left its loop comes to its end.          *)
ImplementsSerialServer == Serial!Spec

(* README.md:64-65: "note that it supports graceful shutdown via SIGINT    *)
(* and SIGTERM".  After a signal the program comes to its end, unless a    *)
(* client is quicker to end it.                                            *)
GracefulShutdown == sent > 0 ~> process \in {"exited", "killed"}

(* A client that has connected is given to the handler, unless a signal    *)
(* has been sent or another client has ended the program.                  *)
ClientsAreServed ==
  \A c \in Clients :
    conn[c] = "backlog" ~>
      c \in Range(started) \/ sent > 0 \/ process = "killed"

(* server.h:62: running_ is "set to indicate we can accept clients", and   *)
(* server.cc:301 "ready to accept connections".  A client that is accepted *)
(* finds a pool to be offered to.                                          *)
AcceptedClientsFindAPool == listener = "offer" => PoolIsSet
=============================================================================

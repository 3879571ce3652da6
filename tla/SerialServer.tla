---------------------------- MODULE SerialServer ----------------------------
(***************************************************************************)
(* What the server of src/http/server.{h,cc} promises to its clients and   *)
(* to whoever stops it: clients are accepted in the order in which they    *)
(* connected and handled in that order, one at a time; a client's          *)
(* connection is closed when it has been handled, not before, and at the   *)
(* latest before the next client is accepted or the server drains; once a  *)
(* Stop has returned nobody is accepted any more, and once the server is   *)
(* closed nobody's handler is begun.  Clients that were accepted and not   *)
(* begun by then are hung up on, and the program exits only with every     *)
(* accepted connection closed.  It may also crash.                         *)
(*                                                                         *)
(* HttpServer (the threads, the pipe, the signal handlers and the pool)    *)
(* implements this module: see Serial in HttpServer.tla.                   *)
(***************************************************************************)
EXTENDS Integers, Sequences, Functions

CONSTANTS
  Clients,  \* the clients, each of which connects at most once
  NoClient  \* "nobody is being handled", not a member of Clients

VARIABLES
  waiting,   \* the clients that have connected and are not accepted, in order
  accepted,  \* those accepted and not begun, in order
  current,   \* the client being handled, or NoClient
  conn,      \* the state of each client's connection
  stage,     \* "open"; "draining", with no more clients; "closed", no handlers
  stopped,   \* has a Stop of the running server returned?
  process    \* "up", "exited", "terminated" or "killed"

vars == <<waiting, accepted, current, conn, stage, stopped, process>>

Init ==
  /\ waiting = <<>>
  /\ accepted = <<>>
  /\ current = NoClient
  /\ conn = [c \in Clients |-> "none"]
  /\ stage = "open"
  /\ stopped = FALSE
  /\ process = "up"

Connect(c) ==
  /\ process = "up"
  /\ conn[c] = "none"
  /\ conn' = [conn EXCEPT ![c] = "backlog"]
  /\ waiting' = Append(waiting, c)
  /\ UNCHANGED <<accepted, current, stage, stopped, process>>

(* Clients that have been handled and whose connection is still open. *)
Lingering ==
  {c \in Clients : conn[c] = "open" /\ c # current /\ c \notin Range(accepted)}

Accept ==
  /\ process = "up"
  /\ stage = "open"
  /\ Lingering = {}
  /\ waiting # <<>>
  /\ conn[Head(waiting)] = "backlog"
  /\ conn' = [conn EXCEPT ![Head(waiting)] = "open"]
  /\ accepted' = Append(accepted, Head(waiting))
  /\ waiting' = Tail(waiting)
  /\ UNCHANGED <<current, stage, stopped, process>>

Begin ==
  /\ process = "up"
  /\ stage # "closed"
  /\ current = NoClient
  /\ accepted # <<>>
  /\ conn[Head(accepted)] = "open"
  /\ current' = Head(accepted)
  /\ accepted' = Tail(accepted)
  /\ UNCHANGED <<waiting, conn, stage, stopped, process>>

(* A client has been handled; its connection may be left open. *)
Complete ==
  /\ process = "up"
  /\ current # NoClient
  /\ current' = NoClient
  /\ \/ conn' = [conn EXCEPT ![current] = "closed"]
     \/ UNCHANGED conn
  /\ UNCHANGED <<waiting, accepted, stage, stopped, process>>

Release(c) ==
  /\ process = "up"
  /\ c \in Lingering
  /\ conn' = [conn EXCEPT ![c] = "closed"]
  /\ UNCHANGED <<waiting, accepted, current, stage, stopped, process>>

Drain ==
  /\ process = "up"
  /\ stage = "open"
  /\ Lingering = {}
  /\ stage' = "draining"
  /\ UNCHANGED <<waiting, accepted, current, conn, stopped, process>>

StopReturns ==
  /\ process = "up"
  /\ stage # "open"
  /\ stopped' = TRUE
  /\ UNCHANGED <<waiting, accepted, current, conn, stage, process>>

(* The server is closed between two clients, never under a handler. *)
Close ==
  /\ process = "up"
  /\ stage = "draining"
  /\ current = NoClient
  /\ stage' = "closed"
  /\ UNCHANGED <<waiting, accepted, current, conn, stopped, process>>

HangUp ==
  /\ process = "up"
  /\ stage = "closed"
  /\ accepted' = <<>>
  /\ conn' = [c \in Clients |-> IF c \in Range(accepted) THEN "closed"
                                ELSE conn[c]]
  /\ UNCHANGED <<waiting, current, stage, stopped, process>>

Exit ==
  /\ process = "up"
  /\ stage = "closed"
  /\ \A c \in Clients : conn[c] # "open"
  /\ process' = "exited"
  /\ UNCHANGED <<waiting, accepted, current, conn, stage, stopped>>

Crash ==
  /\ process = "up"
  /\ process' \in {"terminated", "killed"}
  /\ UNCHANGED <<waiting, accepted, current, conn, stage, stopped>>

Next ==
  \/ \E c \in Clients : Connect(c) \/ Release(c)
  \/ Accept \/ Begin \/ Complete
  \/ Drain \/ StopReturns \/ Close \/ HangUp
  \/ Exit \/ Crash

(* The safety part, which HttpServer is proved to implement. *)
SafeSpec == Init /\ [][Next]_vars

(* An open server does not leave a client waiting for ever, nor one that   *)
(* it has accepted, and once it drains it comes to its end.                *)
Spec ==
  /\ SafeSpec
  /\ WF_vars(Accept) /\ WF_vars(Begin) /\ WF_vars(Complete)
  /\ \A c \in Clients : WF_vars(Release(c))
  /\ WF_vars(Close) /\ WF_vars(HangUp) /\ WF_vars(Exit)
=============================================================================

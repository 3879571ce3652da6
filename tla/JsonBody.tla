------------------------------ MODULE JsonBody ------------------------------
(***************************************************************************)
(* The body of a request: a client sends a document, with pauses longer    *)
(* than the read timeout, cut off or followed by something else, and       *)
(* ChatCompletions parses as much of it as Content-Length says.            *)
(*                                                                         *)
(* Sources are what the client may mean; the field text of a source is the *)
(* document that it writes for it.                                         *)
(***************************************************************************)
EXTENDS JsonParser

CONSTANTS
  Sources,      \* what the client may mean
  MaxLate       \* how often in a row a read times out

ASSUME JsonBodyAssumption ==
  /\ MaxLate \in Nat
  /\ \A s \in Sources : s.text \in Seq(Characters)

VARIABLES
  source,       \* what the client means
  stream,       \* what it sends, and when
  size,         \* Content-Length
  result        \* what Parse ends with

vars == <<source, stream, size, result>>

document == source.text

(* A pause, or the end of the connection, at one place. *)
Pauses == {[n \in 1 .. k |-> Late] : k \in 1 .. MaxLate} \cup {<<Reset>>}
PausedAt(d, i, pause) == SubSeq(d, 1, i) \o pause \o SubSeq(d, i + 1, Len(d))
Disturbed(d) ==
  {PausedAt(d, i, pause) : i \in 0 .. Len(d), pause \in Pauses}
  \cup Prefixes(d)

NoResult == [err |-> "pending", val |-> <<>>, taken |-> 0]

Unsent == <<Eof>>

Init ==
  /\ source \in Sources
  /\ stream = Unsent
  /\ size = Len(document)
  /\ result = NoResult

Send ==
  /\ stream = Unsent
  /\ \/ stream' \in Disturbed(document) /\ UNCHANGED size
     \/ stream' = document \o <<"}">> /\ UNCHANGED size
     \/ stream' = document /\ size' = size - 1
  /\ UNCHANGED <<source, result>>

(* What fgetc has returned: the characters before pos_ and lookahead_. *)
Taken(s) == s.pos + (IF s.look THEN 1 ELSE 0)
ResultOf(s) == [err |-> s.err, val |-> s.val, taken |-> Taken(s)]

ParseBody ==
  /\ stream # Unsent /\ result = NoResult
  /\ result' = ResultOf(Parse(stream, size))
  /\ UNCHANGED <<source, stream, size>>

Answered == result # NoResult /\ UNCHANGED vars

Next == Send \/ ParseBody \/ Answered

Spec == Init /\ [][Next]_vars

-----------------------------------------------------------------------------
(* Properties. *)

(* The parts of a value, n lists below it. *)
Parts(v) ==
  CASE DOMAIN v = {"array"}  -> Range(v.array)
    [] DOMAIN v = {"object"} -> Range(v.object)
    [] OTHER                 -> {}
PartsOf(S) == UNION {Parts(v) : v \in S}
PartsAt(v, depth) ==
  LET parts[n \in 0 .. depth] ==
        IF n = 0 THEN {v} ELSE PartsOf(parts[n - 1])
  IN parts[depth]

IsScalar(v) ==
  \/ DOMAIN v = {"num"} /\ IsNumeral(v.num)
  \/ DOMAIN v \in {{"str"}, {"bool"}, {"nil"}}

TypeOK ==
  /\ size \in -1 .. Len(document)
  /\ result.err \in {"pending", "none", "parse", "system"}
  /\ result.err = "none" =>
       \A n \in 0 .. size : \A v \in PartsAt(result.val, n) :
         IsScalar(v) \/ DOMAIN v \in {{"array"}, {"object"}}

Undisturbed == stream = document /\ size = Len(document)
Accepted == result.err = "none"

(* Timeouts, a reset, a connection closed early: they can make Parse fail, *)
(* but they never change the value.  Peek takes a timeout for the end of   *)
(* the input, so that a pause may cut a number in two; what follows is     *)
(* then never accepted as the rest of the document.                        *)
Gives(s, val) == Ok(s) /\ s.val = val
DisturbancesNeverChangeTheValue ==
  Accepted => Gives(Parse(document, size), result.val)

(* Parse never asks for more than Content-Length: it neither waits for     *)
(* bytes that the client does not owe nor takes what comes after.  A body  *)
(* that has been accepted has been read completely, so that nothing of it  *)
(* is left in the FILE to keep the response from being flushed.            *)
TakesExactlyTheBody ==
  /\ result.taken <= Max({size, 0})
  /\ Accepted => result.taken = size
=============================================================================

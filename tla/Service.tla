------------------------------- MODULE Service -------------------------------
(***************************************************************************)
(* The handler that InferenceService::Start (src/service.cc) installs: the *)
(* Router (src/http/router.cc) with HealthCheck and ChatCompletions, on a  *)
(* connection of module Connection.  Each step is one of Connection's, or  *)
(* changes only the variables that this module adds.                       *)
(*                                                                         *)
(* req says what the lines of Connection stand for, from when the handler  *)
(* first looks at them: the request line gives method and path;            *)
(* contentLength tells whether there is a header Content-Length and        *)
(* whether it is a number, and size is this number, in pieces of body;     *)
(* they make up the value body.  JSON values are records with one field,   *)
(* named for the type (as in JsonParser, with strings for sequences of     *)
(* characters).                                                            *)
(***************************************************************************)
EXTENDS Connection, FiniteSetsExt

CONSTANTS
  Routes,      \* the Router's routes_: each with the paths it matches and a
               \* handler; "any" is one of a test, whatever Connection allows
  Requests,    \* what clients may ask for
  Malformed,   \* a body that is not JSON, or longer or shorter than JSON
  None         \* no request has been routed, no question has been asked

VARIABLES
  req,         \* the request
  at,          \* where the handler is
  question     \* history: what Generate was given

serviceVars == <<vars, req, at, question>>

ServiceInit ==
  /\ Init
  /\ req = None
  /\ at = "routing"
  /\ question = None

Stay == UNCHANGED <<req, at, question>>
GoTo(l) == at' = l /\ UNCHANGED <<req, question>>
HandlerAt(l) == pc = "handling" /\ at = l
Throws(e) == HandlerThrows /\ error' = e /\ Stay
Writes(code) == HandlerWritesStatus /\ status' = code

-----------------------------------------------------------------------------
(* Router::handle: the first route that matches. *)

Matching(r) == {i \in DOMAIN Routes : r.path \in Routes[i].paths}
FirstMatch(r) == Routes[Min(Matching(r))].handler

(* The requests that the head can stand for. *)
Fitting ==
  {r \in Requests : r.contentLength # "missing" => Contains(taken, "header")}

Route ==
  /\ HandlerAt("routing")
  /\ req' \in Fitting
  /\ at' = IF Matching(req') = {} THEN "no handler" ELSE FirstMatch(req')
  /\ UNCHANGED <<vars, question>>

NotFound == HandlerAt("no handler") /\ Writes(404) /\ GoTo("returning")
HealthCheck == HandlerAt("HealthCheck") /\ Writes(200) /\ GoTo("returning")
AnyHandler == HandlerAt("any") /\ HandlerStep /\ Stay
Return == HandlerAt("returning") /\ HandlerReturns /\ Stay

-----------------------------------------------------------------------------
(* ChatCompletions, up to the body. *)

CheckMethod ==
  /\ HandlerAt("ChatCompletions")
  /\ IF req.method = "POST"
     THEN UNCHANGED vars /\ GoTo("Content-Length")
     ELSE Throws("notfound")

RespondsEarly == Writes(200)                    \* Mutant of BeginParsing.
BeginParsing == UNCHANGED vars

GetIntHeader ==
  /\ HandlerAt("Content-Length")
  /\ IF req.contentLength = "number"
     THEN BeginParsing /\ GoTo("Parse")
     ELSE Throws("bad")

(* json::Parse (module JsonParser), by the piece: it takes all of a        *)
(* document and no more, and a malformed one up to some place.  When it    *)
(* waits, the read may time out or fail.                                   *)
BodyPieces(s) == Cardinality({i \in DOMAIN s : s[i] = "body"})
BodyTaken == BodyPieces(taken)
AtEndTooEarly == BodyTaken + 1 >= req.size      \* Mutant of AtEnd.
AtEnd == BodyTaken >= req.size

ParsePiece ==
  /\ HandlerAt("Parse")
  /\ ~AtEnd
  /\ TakeLine
  /\ UNCHANGED <<pc, error>>
  /\ Stay

ParseThrows ==
  /\ HandlerAt("Parse")
  /\ req.body = Malformed
  /\ BodyTaken > 0 \/ AtEnd
  /\ Throws("json")

ParseReturns ==
  /\ HandlerAt("Parse")
  /\ req.body # Malformed
  /\ AtEnd
  /\ UNCHANGED vars
  /\ GoTo("ExtractRequest")

-----------------------------------------------------------------------------
(* ExtractRequest: the downcasts and ObjectValue::at of json.h throw       *)
(* JSONError.                                                              *)

Error(e) == [error |-> e]
Failed(r) == DOMAIN r = {"error"}

Is(v, type) == DOMAIN v = {type}
Has(v, key, type) ==
  Is(v, "object") /\ key \in DOMAIN v.object /\ Is(v.object[key], type)

(* Mutant of Stops. *)
StopsAtRole(msgs, role) ==
  {i \in DOMAIN msgs :
     Has(msgs[i], "role", "str") /\ msgs[i].object.role.str = role}
(* Where find_if ends: at the role, or by an exception. *)
Stops(msgs, role) ==
  {i \in DOMAIN msgs :
     Has(msgs[i], "role", "str") => msgs[i].object.role.str = role}

FindMessageForRole(msgs, role) ==
  LET stops == Stops(msgs, role)
      m == msgs[Min(stops)]
  IN IF stops = {} THEN Error("bad")
     ELSE IF Has(m, "role", "str") /\ Has(m, "content", "str")
     THEN [role |-> role, content |-> m.object.content.str]
     ELSE Error("json")

Extract(v) ==
  IF ~Has(v, "messages", "array") THEN Error("json")
  ELSE LET system == FindMessageForRole(v.object.messages.array, "system")
           user == FindMessageForRole(v.object.messages.array, "user")
       IN IF Failed(system) THEN system
          ELSE IF Failed(user) THEN user
          ELSE [system_message |-> system, user_message |-> user]

(* The routes, with known handlers, and the messages of a body are         *)
(* sequences; None is none of the requests and questions.                  *)
ASSUME ServiceAssumption ==
  /\ DOMAIN Routes = 1 .. Len(Routes) /\ Len(Routes) \in Nat
  /\ \A i \in DOMAIN Routes :
       Routes[i].handler \in {"HealthCheck", "ChatCompletions", "any"}
  /\ None \notin Requests
  /\ \A r \in Requests : r.size \in Int
  /\ \A r \in Requests :
       r.body # Malformed =>
         /\ Extract(r.body) # None
         /\ Has(r.body, "messages", "array") =>
              LET msgs == r.body.object.messages.array
              IN DOMAIN msgs = 1 .. Len(msgs) /\ Len(msgs) \in Nat

ExtractRequest ==
  /\ HandlerAt("ExtractRequest")
  /\ Failed(Extract(req.body))
  /\ Throws(Extract(req.body).error)

(* generator_->Generate, which does not fail. *)
Generate ==
  /\ HandlerAt("ExtractRequest")
  /\ ~Failed(Extract(req.body))
  /\ question' = Extract(req.body)
  /\ at' = "WriteStatus"
  /\ UNCHANGED <<vars, req>>

WriteOK == HandlerAt("WriteStatus") /\ Writes(200) /\ GoTo("WriteData")

(* The answer may be longer than the buffer of the stream. *)
WriteAnswer ==
  /\ HandlerAt("WriteData")
  /\ HandlerWritesData \/ HandlerWritesMuchData
  /\ GoTo("returning")

-----------------------------------------------------------------------------
ChatCompletions ==
  \/ CheckMethod \/ GetIntHeader \/ ParsePiece \/ ParseThrows \/ ParseReturns
  \/ ExtractRequest \/ Generate \/ WriteOK \/ WriteAnswer

ServiceHandler ==
  \/ Route \/ NotFound \/ HealthCheck \/ AnyHandler \/ Return
  \/ ChatCompletions

MayRead == pc = "handling" => at = "any" \/ (at = "Parse" /\ ~AtEnd)

ServiceStep ==
  \/ /\ \/ SetUp \/ ReadRequestLine \/ ReadHeaderLine \/ Flush \/ Catch
        \/ CloseWriter
        \/ MayRead /\ (Receive \/ ReadTimesOut \/ ReadFails)
     /\ Stay
  \/ ServiceHandler

ServiceNext ==
  \/ ServiceStep
  \/ ((MayRead /\ ReadInterrupted) \/ ClientStep \/ Finished) /\ Stay

ServiceSafeSpec == ServiceInit /\ [][ServiceNext]_serviceVars

(* As in Connection: the worker runs, and a read ends. *)
ServiceSpec == ServiceSafeSpec /\ WF_serviceVars(ServiceStep)

-----------------------------------------------------------------------------
(* Properties. *)

(* The service keeps to what Connection assumes of handlers, so that what  *)
(* holds of every handler holds of it: it reads before it writes and calls *)
(* the ResponseWriter in the order that src/http/types.h asks for.  That   *)
(* it comes to an end as well is EveryConnectionEnds.                      *)
ImplementsConnection == SafeSpec

IsFor(handler) ==
  req # None /\ Matching(req) # {} /\ FirstMatch(req) = handler

(* The chat completion API as README.md describes it: the first message of *)
(* either role has a content, and those before it a role.                  *)
IsConversation(v) ==
  /\ Has(v, "messages", "array")
  /\ \A role \in {"system", "user"} :
       LET msgs == v.object.messages.array
       IN \E i \in DOMAIN msgs :
            /\ \A j \in 1 .. i : Has(msgs[j], "role", "str")
            /\ \A j \in 1 .. i : (msgs[j].object.role.str = role) <=> j = i
            /\ Has(msgs[i], "content", "str")

Answerable ==
  /\ req.method = "POST"
  /\ req.contentLength = "number"
  /\ req.body # Malformed /\ IsConversation(req.body)

BodyArrived == BodyTaken >= req.size

(* code is what a request deserves that has gone through the router.       *)
Deserves(code) ==
  /\ Matching(req) = {} => code = 404
  /\ IsFor("HealthCheck") => code = 200
  /\ IsFor("ChatCompletions") /\ req.method # "POST" => code = 404
  /\ IsFor("ChatCompletions") /\ req.method = "POST" =>
       IF Answerable /\ BodyArrived
       THEN code = 200
       ELSE /\ code \in {400, 500}
            /\ code = 500 \/ Answerable => ~BodyArrived

(* A response has the status that the request deserves, whichever of its   *)
(* faults is found first and however the body arrived: 500, and 400 for a  *)
(* request without a fault, stand for a body that did not arrive.          *)
StatusFitsRequest ==
  pc = "done" /\ HeadTaken /\ at # "any" => Deserves(status)

(* No client is told 200 by the chat route before the generator has been   *)
(* asked, and the generator is asked about a whole and correct request,    *)
(* about the first messages of the two roles.                              *)
SuccessMeansAnswered ==
  /\ IsFor("ChatCompletions") /\ at # "any" /\ status = 200
       => question # None
  /\ question # None =>
       /\ Answerable /\ BodyArrived
       /\ \A m \in {question.system_message, question.user_message} :
            \E i \in DOMAIN req.body.object.messages.array :
              LET msgs == req.body.object.messages.array
              IN /\ msgs[i].object.role.str = m.role
                 /\ msgs[i].object.content.str = m.content
                 /\ \A j \in 1 .. i - 1 : msgs[j].object.role.str # m.role

(* A client that stays, and sends no more than it announced, gets the      *)
(* whole completion: parsing has emptied the stream, and after the 200     *)
(* nothing fails any more.                                                 *)
CompletionReachesClient ==
  /\ pc = "done" /\ ~faulty
  /\ question # None
  /\ BodyPieces(taken \o received \o coming) <= req.size
  => \E n \in 0 .. MaxPieces :
       wire = Preamble(200) \o <<Blank, <<"data", n>>>>
=============================================================================

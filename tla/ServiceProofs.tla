---------------------------- MODULE ServiceProofs ----------------------------
(***************************************************************************)
(* The service is a handler as Connection has it, so that what is proved   *)
(* of every handler holds of it; and every request gets the status that it *)
(* deserves, 200 only with an answer, whatever routes and requests there   *)
(* are.                                                                    *)
(***************************************************************************)
EXTENDS Service, ConnectionProofs, FiniteSetTheorems, WellFoundedInduction

(* Nothing has been written while the service may still read the body.     *)
ReadsBeforeWriting ==
  /\ pc \in {"setup", "requestLine", "headers"} => at = "routing"
  /\ /\ pc \in {"setup", "requestLine", "headers", "handling"}
     /\ at \notin {"any", "WriteData", "returning"}
     => Silent

(* What the connection does on its own. *)
ConnectionStep ==
  \/ SetUp \/ Receive \/ ReadTimesOut \/ ReadInterrupted \/ ReadFails
  \/ ReadRequestLine \/ ReadHeaderLine \/ Flush \/ Catch \/ CloseWriter
  \/ ClientStep \/ Finished

LEMMA ServiceCases ==
  ASSUME [ServiceNext]_serviceVars
  PROVE  \/ ConnectionStep /\ Stay
         \/ UNCHANGED serviceVars
         \/ Route \/ AnyHandler \/ Return
         \/ NotFound \/ HealthCheck \/ WriteOK \/ WriteAnswer
         \/ CheckMethod \/ GetIntHeader \/ ParsePiece \/ ParseThrows
         \/ ParseReturns \/ ExtractRequest \/ Generate
BY DEF ServiceNext, ServiceStep, ServiceHandler, ChatCompletions,
       ConnectionStep

(* Every step of the service is one of its connection, or none. *)
LEMMA ServiceStepsAreConnectionSteps ==
  ReadsBeforeWriting /\ [ServiceNext]_serviceVars => [Next]_vars
<1>. SUFFICES ASSUME ReadsBeforeWriting, [ServiceNext]_serviceVars
              PROVE  [Next]_vars
  OBVIOUS
<1>1. CASE \/ CheckMethod \/ GetIntHeader \/ ParseThrows \/ ParseReturns
           \/ ExtractRequest \/ Generate
  BY <1>1 DEF CheckMethod, GetIntHeader, BeginParsing, ParseThrows,
       ParseReturns, ExtractRequest, Generate, Throws, Next, HandleStep,
       HandlerStep
<1>2. CASE ParsePiece
  <2>1. Handling /\ written = <<>>
    BY <1>2 DEF ParsePiece, HandlerAt, Handling, ReadsBeforeWriting, Silent
  <2>. QED
    BY <1>2, <2>1 DEF ParsePiece, HandlerReads, Next, HandleStep, HandlerStep
<1>3. CASE WriteOK \/ WriteAnswer
  BY <1>3 DEF WriteOK, WriteAnswer, Writes, Next, HandleStep, HandlerStep
<1>4. CASE Route \/ NotFound \/ HealthCheck \/ AnyHandler \/ Return
  BY <1>4 DEF Route, NotFound, HealthCheck, AnyHandler, Return, Writes, Next,
       HandleStep, HandlerStep
<1>5. CASE UNCHANGED serviceVars
  BY <1>5 DEF serviceVars
<1>6. CASE ConnectionStep
  BY <1>6 DEF ConnectionStep, Next, HandleStep
<1>. QED  BY <1>1, <1>2, <1>3, <1>4, <1>5, <1>6, ServiceCases

LEMMA NextReadsBeforeWriting ==
  ReadsBeforeWriting /\ [ServiceNext]_serviceVars => ReadsBeforeWriting'
<1>. SUFFICES ASSUME ReadsBeforeWriting, [ServiceNext]_serviceVars
              PROVE  ReadsBeforeWriting'
  OBVIOUS
<1>. USE DEF ReadsBeforeWriting, Silent, HandlerAt
<1>1. CASE ConnectionStep /\ Stay
  BY <1>1 DEF ConnectionStep, Stay, SetUp, Receive, ReadTimesOut,
       ReadInterrupted, ReadFails, ReadRequestLine, ReadHeaderLine, TakeLine,
       Throw, Flush, Catch, CloseWriter, FlushTo, Killed, ClientStep,
       ClientStalls, ClientResumes, ClientHangsUp, Finished, Over, vars,
       respVars
<1>2. CASE UNCHANGED serviceVars
  BY <1>2 DEF serviceVars, vars, respVars
<1>3. CASE Route
  BY <1>3 DEF Route, vars, respVars
<1>4. CASE AnyHandler
  <2>1. pc' \notin {"setup", "requestLine", "headers"}
    BY <1>4 DEF AnyHandler, HandlerStep, HandlerReads, HandlerWritesStatus,
         HandlerWritesHeader, WriterRefuses, HandlerWritesNoData,
         HandlerWritesData, HandlerWritesMuchData, HandlerWriteFails,
         HandlerFlushes, FlushTo, HandlerThrows, HandlerReturns, Throw, Killed
  <2>2. at' = "any"
    BY <1>4 DEF AnyHandler, Stay
  <2>. QED  BY <2>1, <2>2
<1>5. CASE Return
  BY <1>5 DEF Return, HandlerReturns
<1>6. CASE NotFound \/ HealthCheck \/ WriteOK
  <2>1. HandlerWritesStatus /\ at' \in {"returning", "WriteData"}
    BY <1>6 DEF NotFound, HealthCheck, WriteOK, Writes, GoTo
  <2>2. pc = "handling" /\ pc' = pc
    BY <2>1 DEF HandlerWritesStatus, CanWrite, Handling
  <2>. QED  BY <2>1, <2>2
<1>7. CASE WriteAnswer
  <2>1. pc' \in {"handling", "killed"} /\ at' = "returning"
    BY <1>7 DEF WriteAnswer, HandlerWritesData, HandlerWritesMuchData, GoTo,
         Killed
  <2>. QED  BY <2>1
<1>8. CASE CheckMethod \/ GetIntHeader \/ ParseThrows \/ ExtractRequest
  <2>1. CASE \E e \in DOMAIN CodeOf : Throw(e)
    BY <2>1 DEF Throw
  <2>2. CASE UNCHANGED vars /\ at' \in {"Content-Length", "Parse"}
    BY <1>8, <2>2 DEF CheckMethod, GetIntHeader, ParseThrows, ExtractRequest,
         vars, respVars
  <2>. QED
    BY <1>8, <2>1, <2>2 DEF CheckMethod, GetIntHeader, BeginParsing,
         ParseThrows, ExtractRequest, Throws, HandlerThrows, GoTo
<1>9. CASE ParsePiece \/ ParseReturns \/ Generate
  BY <1>9 DEF ParsePiece, TakeLine, ParseReturns, Generate, GoTo, Stay, vars,
       respVars
<1>. QED
  BY <1>1, <1>2, <1>3, <1>4, <1>5, <1>6, <1>7, <1>8, <1>9, ServiceCases

(* The service implements the connection with any handler that keeps to    *)
(* the ResponseWriter's contract.                                          *)
THEOREM ServiceImplementsConnection == ServiceSafeSpec => ImplementsConnection
<1>1. ServiceInit => Init /\ ReadsBeforeWriting
  BY DEF ServiceInit, Init, ReadsBeforeWriting, Silent
<1>. QED
  BY <1>1, ServiceStepsAreConnectionSteps, NextReadsBeforeWriting, PTL
     DEF ServiceSafeSpec, ImplementsConnection, SafeSpec

(* The service is asked about whole heads only, answers the others as they *)
(* deserve, keeps its responses in order whatever a route leads to, and a  *)
(* client that stays and leaves nothing unread gets all of them.           *)
THEOREM ServiceConnectionSafety ==
  ServiceSafeSpec =>
    /\ []HandlerSeesWholeHead
    /\ []BadHeadIsReported
    /\ []ResponseKeepsOrder
    /\ []NothingIsHeldBack
BY ServiceImplementsConnection, ConnectionHandlerSeesWholeHead,
   ConnectionBadHeadIsReported, ConnectionResponseKeepsOrder,
   ConnectionNothingIsHeldBack, PTL DEF ImplementsConnection

-----------------------------------------------------------------------------
(* What ExtractRequest makes of a body. *)

(* Min of FiniteSetsExt, for sets of numbers that need not be finite. *)
LEMMA MinOf ==
  ASSUME NEW S \in SUBSET Nat, S # {}
  PROVE  Min(S) \in S /\ \A n \in S : Min(S) <= n
<1>1. PICK m \in S : \A n \in S : <<n, m>> \notin OpToRel(<, Nat)
  BY WFMin, NatLessThanWellFounded, Zenon
<1>2. \A n \in S : <<n, m>> \in Nat \X Nat /\ ~(n < m)
  BY <1>1 DEF OpToRel
<1>3. \A n \in S : m <= n
  <2>. SUFFICES ASSUME NEW n \in S  PROVE m <= n
    OBVIOUS
  <2>1. m \in Nat /\ n \in Nat /\ ~(n < m)
    BY <1>1, <1>2
  <2>. QED  BY <2>1
<1>. QED  BY <1>3, Zenon DEF Min

(* find_if stops at a message of the role, all of those before it having   *)
(* another one; or FindMessageForRole throws.                              *)
LEMMA MessageFound ==
  ASSUME NEW msgs, DOMAIN msgs = 1 .. Len(msgs), Len(msgs) \in Nat,
         NEW role, ~Failed(FindMessageForRole(msgs, role))
  PROVE  \E i \in DOMAIN msgs :
           /\ \A j \in 1 .. i : Has(msgs[j], "role", "str")
           /\ \A j \in 1 .. i : (msgs[j].object.role.str = role) <=> j = i
           /\ Has(msgs[i], "content", "str")
           /\ FindMessageForRole(msgs, role) =
                [role |-> role, content |-> msgs[i].object.content.str]
<1> DEFINE stops == Stops(msgs, role)
           i == Min(stops)
<1>1. \A e : Failed(Error(e))
  BY DEF Failed, Error
<1>2. /\ stops # {}
      /\ Has(msgs[i], "role", "str") /\ Has(msgs[i], "content", "str")
      /\ FindMessageForRole(msgs, role) =
           [role |-> role, content |-> msgs[i].object.content.str]
  BY <1>1, Zenon DEF FindMessageForRole
<1>3. stops \in SUBSET Nat
  BY DEF Stops
<1>4. i \in stops /\ \A j \in stops : i <= j
  BY <1>2, <1>3, MinOf
<1>5. /\ i \in 1 .. Len(msgs)
      /\ msgs[i].object.role.str = role
  BY <1>2, <1>4 DEF Stops
<1>6. ASSUME NEW j \in 1 .. i, j # i
      PROVE  Has(msgs[j], "role", "str") /\ msgs[j].object.role.str # role
  <2>1. j \in 1 .. Len(msgs) /\ ~(i <= j)
    BY <1>5, <1>6
  <2>2. j \notin stops
    BY <1>4, <2>1
  <2>. QED  BY <2>1, <2>2 DEF Stops
<1> HIDE DEF i
<1>. QED  BY <1>2, <1>5, <1>6

LEMMA ExtractSucceeds ==
  ASSUME NEW v, ~Failed(Extract(v))
  PROVE  /\ Has(v, "messages", "array")
         /\ ~Failed(FindMessageForRole(v.object.messages.array, "system"))
         /\ ~Failed(FindMessageForRole(v.object.messages.array, "user"))
         /\ Extract(v).system_message =
              FindMessageForRole(v.object.messages.array, "system")
         /\ Extract(v).user_message =
              FindMessageForRole(v.object.messages.array, "user")
<1> DEFINE system == FindMessageForRole(v.object.messages.array, "system")
           user == FindMessageForRole(v.object.messages.array, "user")
<1>1. \A e : Failed(Error(e))
  BY DEF Failed, Error
<1>2. /\ Has(v, "messages", "array") /\ ~Failed(system) /\ ~Failed(user)
      /\ Extract(v) = [system_message |-> system, user_message |-> user]
  BY <1>1, Zenon DEF Extract
<1> HIDE DEF system, user
<1>3. /\ Extract(v).system_message = system
      /\ Extract(v).user_message = user
  BY <1>2
<1>. QED  BY <1>2, <1>3 DEF system, user

(* The errors of ExtractRequest. *)
LEMMA ExtractErrors ==
  ASSUME NEW v, Failed(Extract(v))
  PROVE  Extract(v).error \in {"bad", "json"}
<1>1. \A e : Error(e).error = e /\ Failed(Error(e))
  BY DEF Error, Failed
<1>2. ASSUME NEW msgs, NEW role, Failed(FindMessageForRole(msgs, role))
      PROVE  FindMessageForRole(msgs, role).error \in {"bad", "json"}
  <2>1. \A c : ~Failed([role |-> role, content |-> c])
    BY DEF Failed
  <2>2. \/ FindMessageForRole(msgs, role) = Error("bad")
        \/ FindMessageForRole(msgs, role) = Error("json")
    BY <1>2, <2>1, Zenon DEF FindMessageForRole
  <2>. QED  BY <1>1, <2>2
<1>3. \A s, u : ~Failed([system_message |-> s, user_message |-> u])
  BY DEF Failed
<1> DEFINE system == FindMessageForRole(v.object.messages.array, "system")
           user == FindMessageForRole(v.object.messages.array, "user")
<1>4. \/ Extract(v) = Error("json")
      \/ Failed(system) /\ Extract(v) = system
      \/ Failed(user) /\ Extract(v) = user
  BY <1>3, Zenon DEF Extract
<1>. QED  BY <1>1, <1>2, <1>4

LEMMA ConversationFound ==
  ASSUME NEW msgs, DOMAIN msgs = 1 .. Len(msgs), Len(msgs) \in Nat,
         NEW role, NEW i \in DOMAIN msgs,
         \A j \in 1 .. i : Has(msgs[j], "role", "str"),
         \A j \in 1 .. i : (msgs[j].object.role.str = role) <=> j = i,
         Has(msgs[i], "content", "str")
  PROVE  ~Failed(FindMessageForRole(msgs, role))
<1> DEFINE stops == Stops(msgs, role)
<1>1. i \in 1 .. i /\ i \in Nat
  OBVIOUS
<1>2. i \in stops
  BY <1>1 DEF Stops
<1>3. stops \in SUBSET Nat
  BY DEF Stops
<1>4. Min(stops) \in stops /\ Min(stops) \in 1 .. i
  <2>1. Min(stops) \in stops /\ \A n \in stops : Min(stops) <= n
    BY <1>2, <1>3, MinOf, Zenon
  <2>2. Min(stops) <= i
    BY <1>2, <2>1, Zenon
  <2>3. Min(stops) \in 1 .. Len(msgs)
    BY <2>1 DEF Stops
  <2>4. PICK m : m = Min(stops)
    OBVIOUS
  <2>5. m \in 1 .. i
    BY <1>1, <2>2, <2>3, <2>4
  <2>. QED  BY <2>1, <2>4, <2>5, Zenon
<1>5. Min(stops) = i
  <2>1. msgs[Min(stops)].object.role.str = role
    BY <1>4 DEF Stops
  <2>. QED  BY <1>4, <2>1
<1>6. FindMessageForRole(msgs, role) =
        [role |-> role, content |-> msgs[i].object.content.str]
  BY <1>1, <1>2, <1>5, Zenon DEF FindMessageForRole
<1>. QED  BY <1>6 DEF Failed

(* ExtractRequest succeeds for conversations, and for them only. *)
LEMMA ExtractsConversations ==
  ASSUME NEW v,
         Has(v, "messages", "array") =>
           LET msgs == v.object.messages.array
           IN DOMAIN msgs = 1 .. Len(msgs) /\ Len(msgs) \in Nat
  PROVE  IsConversation(v) <=> ~Failed(Extract(v))
<1> DEFINE msgs == v.object.messages.array
           Find(role) == FindMessageForRole(msgs, role)
<1>1. ASSUME ~Failed(Extract(v))  PROVE IsConversation(v)
  <2>1. /\ Has(v, "messages", "array")
        /\ ~Failed(Find("system")) /\ ~Failed(Find("user"))
    BY <1>1, ExtractSucceeds
  <2>2. DOMAIN msgs = 1 .. Len(msgs) /\ Len(msgs) \in Nat
    BY <2>1
  <2> HIDE DEF msgs
  <2>3. \A role \in {"system", "user"} :
          \E i \in DOMAIN msgs :
            /\ \A j \in 1 .. i : Has(msgs[j], "role", "str")
            /\ \A j \in 1 .. i : (msgs[j].object.role.str = role) <=> j = i
            /\ Has(msgs[i], "content", "str")
    <3>. SUFFICES ASSUME NEW role \in {"system", "user"}
                  PROVE  \E i \in DOMAIN msgs :
            /\ \A j \in 1 .. i : Has(msgs[j], "role", "str")
            /\ \A j \in 1 .. i : (msgs[j].object.role.str = role) <=> j = i
            /\ Has(msgs[i], "content", "str")
      OBVIOUS
    <3>1. ~Failed(FindMessageForRole(msgs, role))
      BY <2>1
    <3>. QED  BY <2>2, <3>1, MessageFound
  <2>. QED  BY <2>1, <2>3 DEF IsConversation, msgs
<1>2. ASSUME IsConversation(v)  PROVE ~Failed(Extract(v))
  <2>1. /\ Has(v, "messages", "array")
        /\ DOMAIN msgs = 1 .. Len(msgs) /\ Len(msgs) \in Nat
    BY <1>2 DEF IsConversation
  <2>2. ASSUME NEW role \in {"system", "user"}  PROVE ~Failed(Find(role))
    <3>1. PICK i \in DOMAIN msgs :
            /\ \A j \in 1 .. i : Has(msgs[j], "role", "str")
            /\ \A j \in 1 .. i : (msgs[j].object.role.str = role) <=> j = i
            /\ Has(msgs[i], "content", "str")
      BY <1>2 DEF IsConversation
    <3> HIDE DEF msgs
    <3>. QED  BY <2>1, <3>1, ConversationFound
  <2>3. ~Failed(Find("system")) /\ ~Failed(Find("user"))
    BY <2>2
  <2>4. Extract(v) =
          [system_message |-> Find("system"), user_message |-> Find("user")]
    BY <2>1, <2>3, Zenon DEF Extract
  <2> HIDE DEF Find
  <2>. QED  BY <2>4 DEF Failed
<1>. QED  BY <1>1, <1>2

-----------------------------------------------------------------------------
(* Where the handler is, and what it knows by then. *)

AfterHeader == {"Parse", "ExtractRequest", "WriteStatus", "WriteData"}
ChatPlaces == AfterHeader \cup {"ChatCompletions", "Content-Length"}

Parsed == req.body # Malformed /\ BodyArrived

Asks(q) ==
  /\ req.method = "POST" /\ req.contentLength = "number"
  /\ Parsed
  /\ ~Failed(Extract(req.body)) /\ q = Extract(req.body)

(* Where the handler is tells what it has found out about the request.     *)
Progress ==
  /\ at = "routing" => req = None /\ question = None
  /\ at # "routing" => req \in Requests
  /\ at = "no handler" => Matching(req) = {}
  /\ at = "HealthCheck" => IsFor("HealthCheck")
  /\ at \in ChatPlaces => IsFor("ChatCompletions")
  /\ at \in ChatPlaces \ {"ChatCompletions"} => req.method = "POST"
  /\ at \in AfterHeader => req.contentLength = "number"
  /\ at = "ExtractRequest" => Parsed
  /\ at \in {"WriteStatus", "WriteData"} => question # None
  /\ question # None =>
       /\ at \in {"WriteStatus", "WriteData", "returning"}
       /\ IsFor("ChatCompletions")
       /\ Asks(question)

(* 200 comes from HealthCheck or after Generate; an exception never has    *)
(* that code.                                                              *)
Success ==
  IsFor("ChatCompletions") /\ at # "any" /\ status = 200 => question # None

LEMMA NoErrorIsOK == \A e \in DOMAIN CodeOf : CodeOf[e] # 200
BY DEF CodeOf

LEMMA FirstHandler ==
  ASSUME NEW r, Matching(r) # {}
  PROVE  FirstMatch(r) \in {"HealthCheck", "ChatCompletions", "any"}
<1>1. Matching(r) \in SUBSET Nat /\ Matching(r) \subseteq DOMAIN Routes
  BY ServiceAssumption DEF Matching
<1>2. Min(Matching(r)) \in DOMAIN Routes
  BY <1>1, MinOf
<1>. QED  BY <1>2, ServiceAssumption DEF FirstMatch

LEMMA SameRequest ==
  ASSUME UNCHANGED req
  PROVE  /\ \A h : IsFor(h)' <=> IsFor(h)
         /\ Matching(req)' = Matching(req)
BY DEF IsFor, Matching, FirstMatch

LEMMA SameQuestion ==
  ASSUME UNCHANGED <<req, taken, question>>
  PROVE  (Parsed' <=> Parsed) /\ (Asks(question)' <=> Asks(question))
<1>1. Parsed' <=> Parsed
  BY DEF Parsed, BodyArrived, BodyTaken
<1>. QED  BY <1>1 DEF Asks

(* Once the handler runs, lines are taken by the handler only. *)
LEMMA ConnectionStepsTakeNothing ==
  ASSUME ReadsBeforeWriting, ConnectionStep, at # "routing"
  PROVE  UNCHANGED taken
<1>1. pc \notin {"requestLine", "headers"}
  BY DEF ReadsBeforeWriting
<1>. QED
  BY <1>1 DEF ConnectionStep, SetUp, Receive, ReadTimesOut, ReadInterrupted,
     ReadFails, ReadRequestLine, ReadHeaderLine, Throw, Flush, Catch,
     CloseWriter, FlushTo, Killed, ClientStep, ClientStalls, ClientResumes,
     ClientHangsUp, Finished, vars, streamVars, WriteStatus, Put

(* What a step of the handler does not change. *)
LEMMA HandlerTakesNothing ==
  ASSUME \/ HandlerWritesStatus \/ HandlerWritesData \/ HandlerWritesMuchData
         \/ HandlerReturns \/ UNCHANGED vars
  PROVE  UNCHANGED taken
BY DEF HandlerWritesStatus, HandlerWritesData, HandlerWritesMuchData,
   HandlerReturns, Killed, vars, streamVars, Push

LEMMA NextProgress ==
  Progress /\ ReadsBeforeWriting /\ [ServiceNext]_serviceVars => Progress'
<1>. SUFFICES ASSUME Progress, ReadsBeforeWriting, [ServiceNext]_serviceVars
              PROVE  Progress'
  OBVIOUS
<1>1. ASSUME Stay, at = "routing" \/ UNCHANGED taken  PROVE Progress'
  <2>1. UNCHANGED <<req, at, question>>
    BY <1>1 DEF Stay
  <2>2. CASE at = "routing"
    BY <2>1, <2>2 DEF Progress, ChatPlaces, AfterHeader
  <2>3. CASE UNCHANGED taken
    BY <2>1, <2>3, SameRequest, SameQuestion DEF Progress
  <2>. QED  BY <1>1, <2>2, <2>3
<1>2. CASE ConnectionStep /\ Stay
  BY <1>1, <1>2, ConnectionStepsTakeNothing
<1>3. CASE UNCHANGED serviceVars
  BY <1>1, <1>3 DEF serviceVars, vars, streamVars, Stay
<1>4. CASE Route
  <2>1. /\ at = "routing" /\ req' \in Requests /\ UNCHANGED question
        /\ at' = IF Matching(req') = {} THEN "no handler" ELSE FirstMatch(req')
    BY <1>4 DEF Route, Fitting, HandlerAt
  <2>2. question' = None /\ req' # None
    BY <2>1, ServiceAssumption DEF Progress
  <2>3. CASE Matching(req') = {}
    <3>1. Matching(req)' = {}
      BY <2>3 DEF Matching
    <3>. QED  BY <2>1, <2>2, <2>3, <3>1 DEF Progress, ChatPlaces, AfterHeader
  <2>4. CASE Matching(req') # {}
    <3>1. PICK h \in {"HealthCheck", "ChatCompletions", "any"} :
            h = FirstMatch(req')
      BY <2>4, FirstHandler
    <3>2. IsFor(h)'
      BY <2>2, <2>4, <3>1 DEF IsFor, Matching, FirstMatch
    <3>. QED
      BY <2>1, <2>2, <2>4, <3>1, <3>2 DEF Progress, ChatPlaces, AfterHeader
  <2>. QED  BY <2>3, <2>4
<1>5. CASE AnyHandler
  BY <1>5 DEF AnyHandler, Stay, HandlerAt, Progress, ChatPlaces, AfterHeader
<1>6. CASE Return
  BY <1>1, <1>6, HandlerTakesNothing DEF Return
<1>7. CASE NotFound \/ HealthCheck
  <2>1. /\ at' = "returning" /\ UNCHANGED <<req, question>>
        /\ at \in {"no handler", "HealthCheck"}
    BY <1>7 DEF NotFound, HealthCheck, HandlerAt, GoTo
  <2>. QED  BY <2>1 DEF Progress, ChatPlaces, AfterHeader
<1>8. CASE WriteOK \/ WriteAnswer
  <2>1. /\ UNCHANGED <<req, question>> /\ at \in {"WriteStatus", "WriteData"}
        /\ at' \in {"WriteData", "returning"}
    BY <1>8 DEF WriteOK, WriteAnswer, HandlerAt, GoTo
  <2>2. UNCHANGED taken
    BY <1>8, HandlerTakesNothing DEF WriteOK, WriteAnswer, Writes
  <2>. QED
    BY <2>1, <2>2, SameRequest, SameQuestion
       DEF Progress, ChatPlaces, AfterHeader
<1>9. CASE CheckMethod \/ GetIntHeader \/ ParseThrows \/ ExtractRequest
  <2>1. UNCHANGED taken
    BY <1>9 DEF CheckMethod, GetIntHeader, BeginParsing, ParseThrows,
       ExtractRequest, Throws, HandlerThrows, Throw, vars, streamVars
  <2>2. CASE Stay
    BY <1>1, <2>1, <2>2
  <2>3. CASE CheckMethod /\ req.method = "POST" /\ GoTo("Content-Length")
    BY <2>3, SameRequest
       DEF CheckMethod, HandlerAt, GoTo, Progress, ChatPlaces, AfterHeader
  <2>4. CASE GetIntHeader /\ req.contentLength = "number" /\ GoTo("Parse")
    BY <2>4, SameRequest
       DEF GetIntHeader, HandlerAt, GoTo, Progress, ChatPlaces, AfterHeader
  <2>. QED
    BY <1>9, <2>2, <2>3, <2>4 DEF CheckMethod, GetIntHeader, ParseThrows,
       ExtractRequest, Throws
<1>10. CASE ParsePiece
  BY <1>10, SameRequest
     DEF ParsePiece, Stay, HandlerAt, Progress, ChatPlaces, AfterHeader
<1>11. CASE ParseReturns
  <2>1. UNCHANGED taken /\ at = "Parse" /\ Parsed
    BY <1>11 DEF ParseReturns, vars, streamVars, HandlerAt, AtEnd, Parsed,
       BodyArrived
  <2>2. UNCHANGED <<req, question>> /\ at' = "ExtractRequest"
    BY <1>11 DEF ParseReturns, GoTo
  <2>. QED
    BY <2>1, <2>2, SameRequest, SameQuestion
       DEF Progress, ChatPlaces, AfterHeader
<1>12. CASE Generate
  <2>1. /\ UNCHANGED <<taken, req>> /\ at = "ExtractRequest"
        /\ at' = "WriteStatus"
        /\ ~Failed(Extract(req.body)) /\ question' = Extract(req.body)
    BY <1>12 DEF Generate, vars, streamVars, HandlerAt
  <2>2. Parsed /\ req \in Requests /\ req.method = "POST"
        /\ req.contentLength = "number" /\ IsFor("ChatCompletions")
    BY <2>1 DEF Progress, ChatPlaces, AfterHeader
  <2>3. question' # None
    BY <2>1, <2>2, ServiceAssumption DEF Parsed
  <2>4. Parsed'
    BY <2>1, <2>2 DEF Parsed, BodyArrived, BodyTaken
  <2>5. Asks(question)'
    BY <2>1, <2>2, <2>4 DEF Asks
  <2>. QED
    BY <2>1, <2>2, <2>3, <2>5, SameRequest
       DEF Progress, ChatPlaces, AfterHeader
<1>. QED
  BY <1>2, <1>3, <1>4, <1>5, <1>6, <1>7, <1>8, <1>9, <1>10, <1>11, <1>12,
     ServiceCases

-----------------------------------------------------------------------------
(* The answer 200. *)

(* No error that Handle reports is 200. *)
LEMMA NoErrorSucceeds ==
  ASSUME ConnectionStep, ErrorCaught, status' = 200
  PROVE  status = 200
BY NoErrorIsOK, FailedStatus
   DEF ConnectionStep, ErrorCaught, SetUp, Receive, ReadTimesOut,
       ReadInterrupted, ReadFails, ReadRequestLine, ReadHeaderLine, TakeLine,
       Throw, Flush, Catch, CloseWriter, FlushTo, Killed, ClientStep,
       ClientStalls, ClientResumes, ClientHangsUp, Finished, vars, respVars,
       WriteStatus

LEMMA NextSuccess ==
  /\ Success /\ Progress /\ ReadsBeforeWriting /\ ErrorCaught
  /\ [ServiceNext]_serviceVars
  => Success'
<1>. SUFFICES ASSUME Success, Progress, ReadsBeforeWriting, ErrorCaught,
                     [ServiceNext]_serviceVars
              PROVE  Success'
  OBVIOUS
<1>1. ASSUME UNCHANGED req, question # None, UNCHANGED question
      PROVE  Success'
  BY <1>1 DEF Success
<1>2. ASSUME Stay, status' = 200 => status = 200  PROVE Success'
  BY <1>2, SameRequest DEF Stay, Success
<1>3. ASSUME status' # 200  PROVE Success'
  BY <1>3 DEF Success
<1>4. CASE ConnectionStep /\ Stay
  BY <1>2, <1>4, NoErrorSucceeds
<1>5. CASE UNCHANGED serviceVars
  BY <1>2, <1>5 DEF serviceVars, vars, respVars, Stay
<1>6. CASE AnyHandler
  BY <1>6 DEF AnyHandler, HandlerAt, Stay, Success
<1>7. CASE Return
  BY <1>2, <1>7 DEF Return, HandlerReturns, respVars
<1>8. CASE \/ Route \/ CheckMethod \/ GetIntHeader \/ ParsePiece \/ ParseThrows
           \/ ParseReturns \/ ExtractRequest \/ Generate
  <2>1. status' = status
    BY <1>8 DEF Route, CheckMethod, GetIntHeader, ParsePiece, ParseThrows,
       ParseReturns, ExtractRequest, Generate, BeginParsing, Throws,
       HandlerThrows, TakeLine, vars, respVars
  <2>2. pc = "handling" /\ at \notin {"any", "WriteData", "returning"}
    BY <1>8 DEF HandlerAt, Route, CheckMethod, GetIntHeader, ParsePiece,
       ParseThrows, ParseReturns, ExtractRequest, Generate
  <2>3. status = NoStatus
    BY <2>2 DEF ReadsBeforeWriting, Silent
  <2>. QED  BY <1>3, <2>1, <2>3, ConnectionAssumption
<1>9. CASE NotFound
  <2>1. UNCHANGED req /\ Matching(req) = {}
    BY <1>9 DEF NotFound, HandlerAt, GoTo, Progress
  <2>2. ~IsFor("ChatCompletions")
    BY <2>1 DEF IsFor
  <2>. QED  BY <2>1, <2>2, SameRequest DEF Success
<1>10. CASE HealthCheck
  <2>1. UNCHANGED req /\ IsFor("HealthCheck")
    BY <1>10 DEF HealthCheck, HandlerAt, GoTo, Progress
  <2>2. ~IsFor("ChatCompletions")
    BY <2>1 DEF IsFor
  <2>. QED  BY <2>1, <2>2, SameRequest DEF Success
<1>11. CASE WriteOK \/ WriteAnswer
  BY <1>1, <1>11 DEF WriteOK, WriteAnswer, HandlerAt, GoTo, Progress
<1>. QED
  BY <1>4, <1>5, <1>6, <1>7, <1>8, <1>9, <1>10, <1>11, ServiceCases

(* What the generator is asked about. *)
LEMMA AskedAboutConversation ==
  ASSUME Progress, question # None
  PROVE  /\ Answerable /\ BodyArrived
         /\ question.system_message =
              FindMessageForRole(req.body.object.messages.array, "system")
         /\ question.user_message =
              FindMessageForRole(req.body.object.messages.array, "user")
<1>1. Asks(question) /\ req \in Requests
  BY DEF Progress
<1>2. /\ req.method = "POST" /\ req.contentLength = "number"
      /\ req.body # Malformed /\ BodyArrived
      /\ ~Failed(Extract(req.body)) /\ question = Extract(req.body)
  BY <1>1 DEF Asks, Parsed
<1>3. IsConversation(req.body)
  BY <1>1, <1>2, ServiceAssumption, ExtractsConversations
<1>. QED  BY <1>2, <1>3, ExtractSucceeds DEF Answerable

(* The message found is the first of its role. *)
LEMMA AskedAboutFirstMessage ==
  ASSUME NEW msgs, DOMAIN msgs = 1 .. Len(msgs), Len(msgs) \in Nat,
         NEW role, ~Failed(FindMessageForRole(msgs, role))
  PROVE  LET m == FindMessageForRole(msgs, role)
         IN \E i \in DOMAIN msgs :
                 /\ msgs[i].object.role.str = m.role
                 /\ msgs[i].object.content.str = m.content
                 /\ \A j \in 1 .. i - 1 : msgs[j].object.role.str # m.role
<1> DEFINE m == FindMessageForRole(msgs, role)
<1>1. PICK i \in DOMAIN msgs :
        /\ \A j \in 1 .. i : (msgs[j].object.role.str = role) <=> j = i
        /\ m = [role |-> role, content |-> msgs[i].object.content.str]
  BY MessageFound
<1>2. /\ m.role = role /\ m.content = msgs[i].object.content.str
  BY <1>1
<1> HIDE DEF m
<1>3. /\ msgs[i].object.role.str = role
      /\ \A j \in 1 .. i - 1 : msgs[j].object.role.str # role
  <2>1. i \in 1 .. i /\ \A j \in 1 .. i - 1 : j \in 1 .. i /\ j # i
    OBVIOUS
  <2>. QED  BY <1>1, <2>1
<1>4. \E k \in DOMAIN msgs :
                 /\ msgs[k].object.role.str = m.role
                 /\ msgs[k].object.content.str = m.content
                 /\ \A j \in 1 .. k - 1 : msgs[j].object.role.str # m.role
  BY <1>2, <1>3
<1>. QED  BY <1>4 DEF m

(* What Success and Progress say together. *)
LEMMA SuccessIsAnswered == Success /\ Progress => SuccessMeansAnswered
<1>. SUFFICES ASSUME Success, Progress  PROVE SuccessMeansAnswered
  OBVIOUS
<1> DEFINE msgs == req.body.object.messages.array
           First(m) ==
            \E i \in DOMAIN msgs :
                 /\ msgs[i].object.role.str = m.role
                 /\ msgs[i].object.content.str = m.content
                 /\ \A j \in 1 .. i - 1 : msgs[j].object.role.str # m.role
<1>1. ASSUME question # None
      PROVE  First(question.system_message) /\ First(question.user_message)
  <2>1. /\ req \in Requests /\ req.body # Malformed
        /\ ~Failed(Extract(req.body))
    BY <1>1 DEF Progress, Asks, Parsed
  <2>2. /\ ~Failed(FindMessageForRole(msgs, "system"))
        /\ ~Failed(FindMessageForRole(msgs, "user"))
        /\ Has(req.body, "messages", "array")
    BY <2>1, ExtractSucceeds
  <2>3. DOMAIN msgs = 1 .. Len(msgs) /\ Len(msgs) \in Nat
    BY <2>1, <2>2, ServiceAssumption
  <2>4. /\ question.system_message = FindMessageForRole(msgs, "system")
        /\ question.user_message = FindMessageForRole(msgs, "user")
    BY <1>1, AskedAboutConversation
  <2> HIDE DEF msgs
  <2>5. /\ First(FindMessageForRole(msgs, "system"))
        /\ First(FindMessageForRole(msgs, "user"))
    BY <2>2, <2>3, AskedAboutFirstMessage
  <2> HIDE DEF First
  <2>. QED  BY <2>4, <2>5
<1>2. question # None => Answerable /\ BodyArrived
  BY AskedAboutConversation
<1>3. SuccessMeansAnswered <=>
        /\ Success
        /\ question # None =>
             /\ Answerable /\ BodyArrived
             /\ \A m \in {question.system_message,
                          question.user_message} : First(m)
  BY DEF SuccessMeansAnswered, Success
<1> HIDE DEF First
<1>. QED  BY <1>1, <1>2, <1>3

(* Nobody is told 200 by the chat route before the generator has been      *)
(* asked, and it is asked about whole and correct requests, about the      *)
(* first messages of the two roles.                                        *)
THEOREM ServiceSuccessMeansAnswered ==
  ServiceSafeSpec => []SuccessMeansAnswered
<1>1. ServiceInit => Init /\ ReadsBeforeWriting /\ Progress /\ Success
  BY DEF ServiceInit, Init, ReadsBeforeWriting, Silent, Progress, Success,
         ChatPlaces, AfterHeader, IsFor
<1>. QED
  BY <1>1, ServiceStepsAreConnectionSteps, NextReadsBeforeWriting,
     InitResponseSoFar, NextErrorCaught, NextProgress, NextSuccess,
     SuccessIsAnswered, PTL
     DEF ServiceSafeSpec

-----------------------------------------------------------------------------
(* The other answers. *)

(* A request that was never routed had no head. *)
HeadMissing ==
  at = "routing" /\ pc \in {"catching", "flushing", "closing", "done"}
    => ~HeadTaken

(* The exceptions and statuses of a routed request are what it deserves. *)
Verdict ==
  at \notin {"any", "routing"} =>
    /\ pc = "catching" =>
         status = NoStatus /\ outbuf = <<>> /\ Deserves(CodeOf[error])
    /\ \/ pc \in {"flushing", "closing", "done"}
       \/ pc = "handling" /\ at \in {"WriteData", "returning"}
       => Deserves(status)

LEMMA NextHeadMissing ==
  /\ HeadMissing /\ HeadProgress /\ ReadsBeforeWriting
  /\ [ServiceNext]_serviceVars
  => HeadMissing'
<1>. SUFFICES ASSUME HeadMissing, HeadProgress, ReadsBeforeWriting,
                     [ServiceNext]_serviceVars
              PROVE  HeadMissing'
  OBVIOUS
<1>1. ASSUME at' # "routing"  PROVE HeadMissing'
  BY <1>1 DEF HeadMissing
<1>2. ASSUME UNCHANGED <<taken, at>>,
             \/ pc' = pc
             \/ pc' \notin {"catching", "flushing", "closing", "done"}
             \/ pc \in {"catching", "flushing", "closing", "done"}
      PROVE  HeadMissing'
  BY <1>2 DEF HeadMissing, HeadTaken
<1>3. ASSUME CutShort, UNCHANGED taken  PROVE HeadMissing'
  <2>1. ~HeadTaken'
    <3>1. \A n \in 2 .. Len(taken) : taken[n] # "blank"
      BY <1>3, LenProperties DEF CutShort
    <3>. QED  BY <1>3, <3>1 DEF HeadTaken
  <2>. QED  BY <2>1 DEF HeadMissing
<1>4. CASE UNCHANGED serviceVars
  BY <1>2, <1>4 DEF serviceVars, vars, streamVars
<1>5. CASE (ReadTimesOut \/ ReadInterrupted \/ ReadFails) /\ Stay /\ MayRead
  <2>1. CASE pc \in {"requestLine", "headers"}
    BY <1>3, <1>5, <2>1
       DEF ReadTimesOut, ReadInterrupted, ReadFails, streamVars, HeadProgress,
           CutShort
  <2>2. CASE pc = "handling"
    BY <1>1, <1>5, <2>2 DEF MayRead, Stay
  <2>. QED  BY <1>5, <2>1, <2>2 DEF ReadTimesOut, ReadInterrupted, ReadFails,
       Reading
<1>6. CASE ReadRequestLine \/ ReadHeaderLine
  <2>1. CASE pc' = "catching"
    <3>1. /\ TakeLine /\ received # <<>> /\ StreamsTyped /\ CutShort
          /\ taken = <<>> \/ Head(received) # "blank"
      BY <1>6, <2>1
         DEF ReadRequestLine, ReadHeaderLine, Aborts, Throw, TakeLine,
             HeadProgress, CutShort
    <3>2. /\ Len(taken) \in Nat
          /\ Len(taken') = Len(taken) + 1
          /\ \A i \in 1 .. Len(taken) : taken'[i] = taken[i]
          /\ taken'[Len(taken) + 1] = Head(received)
      BY <3>1, TakeOne
    <3>3. \A n \in 2 .. Len(taken') : taken'[n] # "blank"
      <4>1. CASE taken = <<>>
        BY <3>2, <4>1, EmptySeq
      <4>2. CASE Head(received) # "blank"
        <5>1. \A i \in 1 .. Len(taken) : taken[i] # "blank"
          BY <3>1, LenProperties DEF CutShort, StreamsTyped
        <5>. QED  BY <3>2, <4>2, <5>1
      <4>. QED  BY <3>1, <4>1, <4>2
    <3>4. ~HeadTaken'
      BY <3>3 DEF HeadTaken
    <3>. QED  BY <3>4 DEF HeadMissing
  <2>2. CASE pc' # "catching"
    BY <1>6, <2>2
       DEF ReadRequestLine, ReadHeaderLine, Aborts, Throw, HeadMissing
  <2>. QED  BY <2>1, <2>2
<1>7. CASE /\ \/ SetUp \/ Receive \/ Flush \/ Catch \/ CloseWriter
              \/ ClientStep \/ Finished
           /\ Stay
  BY <1>2, <1>7 DEF Stay, SetUp, Receive, Flush, Catch, CloseWriter, FlushTo,
     Killed, ClientStep, ClientStalls, ClientResumes, ClientHangsUp, Finished,
     vars, streamVars
<1>8. CASE ServiceHandler
  <2>1. CASE at # "routing"
    BY <1>1, <1>8, <2>1 DEF ServiceHandler, NotFound,
       HealthCheck, AnyHandler, Return, ChatCompletions, CheckMethod,
       GetIntHeader, ParsePiece, ParseThrows, ParseReturns, ExtractRequest,
       Generate, WriteOK, WriteAnswer, HandlerAt, Throws, GoTo, Stay, Route
  <2>2. CASE at = "routing"
    <3>1. Route
      BY <1>8, <2>2 DEF ServiceHandler, NotFound,
       HealthCheck, AnyHandler, Return, ChatCompletions, CheckMethod,
       GetIntHeader, ParsePiece, ParseThrows, ParseReturns, ExtractRequest,
       Generate, WriteOK, WriteAnswer, HandlerAt
    <3>. QED  BY <3>1 DEF Route, HandlerAt, vars, HeadMissing
  <2>. QED  BY <2>1, <2>2
<1>. QED
  BY <1>4, <1>5, <1>6, <1>7, <1>8 DEF ServiceNext, ServiceStep

LEMMA SameDeserts ==
  ASSUME UNCHANGED <<req, taken>>, NEW code, code = status', Deserves(code)
  PROVE  Deserves(status)'
<1>1. BodyArrived' <=> BodyArrived
  BY DEF BodyArrived, BodyTaken
<1>2. Answerable' <=> Answerable
  BY DEF Answerable
<1>. QED  BY <1>1, <1>2, SameRequest DEF Deserves

LEMMA SameSentence ==
  ASSUME UNCHANGED <<req, taken>>, NEW code, code = CodeOf[error'],
         Deserves(code)
  PROVE  Deserves(CodeOf[error])'
<1>1. BodyArrived' <=> BodyArrived
  BY DEF BodyArrived, BodyTaken
<1>2. Answerable' <=> Answerable
  BY DEF Answerable
<1>3. CodeOf' = CodeOf
  BY DEF CodeOf
<1>. QED  BY <1>1, <1>2, <1>3, SameRequest DEF Deserves

(* What a request of the chat route deserves. *)
LEMMA ChatDeserves ==
  ASSUME IsFor("ChatCompletions")
  PROVE  /\ req.method # "POST" => Deserves(404)
         /\ req.method = "POST" =>
              /\ ~Answerable => Deserves(400)
              /\ ~BodyArrived => Deserves(400) /\ Deserves(500)
              /\ Answerable /\ BodyArrived => Deserves(200)
BY DEF IsFor, Deserves

LEMMA OthersDeserve ==
  /\ Matching(req) = {} => Deserves(404)
  /\ IsFor("HealthCheck") => Deserves(200)
BY DEF IsFor, Deserves

LEMMA NextVerdict ==
  /\ Verdict /\ Progress /\ ReadsBeforeWriting /\ ErrorCaught
  /\ [ServiceNext]_serviceVars
  => Verdict'
<1>. SUFFICES ASSUME Verdict, Progress, ReadsBeforeWriting, ErrorCaught,
                     [ServiceNext]_serviceVars
              PROVE  Verdict'
  OBVIOUS
<1>1. ASSUME at' \in {"any", "routing"}  PROVE Verdict'
  BY <1>1 DEF Verdict
<1>2. ASSUME pc' \notin {"catching", "flushing", "closing", "done"},
             pc' # "handling" \/ at' \notin {"WriteData", "returning"}
      PROVE  Verdict'
  BY <1>2 DEF Verdict
<1>3. ASSUME UNCHANGED <<taken, error, status, req, at>>,
             \/ pc' = pc /\ UNCHANGED outbuf
             \/ pc \in {"flushing", "closing"} /\ pc' \in {"closing", "done"}
      PROVE  Verdict'
  <2>1. ASSUME Deserves(status)  PROVE Deserves(status)'
    <3>1. PICK c : c = status
      OBVIOUS
    <3>. QED  BY <1>3, <2>1, <3>1, SameDeserts
  <2>2. ASSUME Deserves(CodeOf[error])  PROVE Deserves(CodeOf[error])'
    <3>1. PICK c : c = CodeOf[error]
      OBVIOUS
    <3>. QED  BY <1>3, <2>2, <3>1, SameSentence
  <2>. QED  BY <1>3, <2>1, <2>2 DEF Verdict
<1>4. ASSUME NEW code, UNCHANGED <<taken, req>>, pc' # "catching",
             status' = code, Deserves(code)
      PROVE  Verdict'
  <2>1. Deserves(status)'
    BY <1>4, SameDeserts
  <2>. QED  BY <1>4, <2>1 DEF Verdict
<1>5. ASSUME NEW e, UNCHANGED <<taken, status, outbuf, req, at>>, Throw(e),
             at \in ChatPlaces \ {"WriteData"}, pc = "handling",
             Deserves(CodeOf[e])
      PROVE  Verdict'
  <2>1. PICK c : c = CodeOf[e]
    OBVIOUS
  <2>2. Deserves(CodeOf[error])'
    BY <1>5, <2>1, SameSentence DEF Throw
  <2>3. status = NoStatus /\ outbuf = <<>>
    BY <1>5 DEF ReadsBeforeWriting, Silent, ChatPlaces, AfterHeader
  <2>. QED  BY <1>5, <2>2, <2>3 DEF Throw, Verdict
<1>6. CASE UNCHANGED serviceVars
  BY <1>3, <1>6 DEF serviceVars, vars, streamVars, respVars
<1>7. CASE (ReadTimesOut \/ ReadInterrupted \/ ReadFails) /\ Stay /\ MayRead
  <2>1. CASE at \in {"any", "routing"}
    BY <1>1, <1>7, <2>1 DEF Stay
  <2>2. CASE at \notin {"any", "routing"}
    <3>1. pc = "handling" /\ at = "Parse" /\ ~AtEnd
      BY <1>7, <2>2
         DEF ReadTimesOut, ReadInterrupted, ReadFails, Reading, MayRead,
             ReadsBeforeWriting
    <3>2. PICK e \in {"json", "other"} : Throw(e)
      BY <1>7, <3>1 DEF ReadTimesOut, ReadInterrupted, ReadFails,
           TimeoutErrors, InterruptErrors, FailureErrors
    <3>3. /\ IsFor("ChatCompletions") /\ req.method = "POST"
          /\ ~BodyArrived
      BY <3>1 DEF Progress, ChatPlaces, AfterHeader, AtEnd, BodyArrived
    <3>4. Deserves(CodeOf[e])
      BY <3>2, <3>3, ChatDeserves DEF CodeOf
    <3>5. UNCHANGED <<taken, status, outbuf, req, at>>
      BY <1>7 DEF Stay, ReadTimesOut, ReadInterrupted, ReadFails, streamVars,
           respVars
    <3>. QED
      BY <1>5, <3>1, <3>2, <3>4, <3>5 DEF ChatPlaces, AfterHeader
  <2>. QED  BY <2>1, <2>2
<1>8. CASE (ReadRequestLine \/ ReadHeaderLine) /\ Stay
  BY <1>1, <1>8
     DEF ReadRequestLine, ReadHeaderLine, Stay, ReadsBeforeWriting
<1>9. CASE Catch /\ Stay
  <2>1. CASE at \in {"any", "routing"}
    BY <1>1, <1>9, <2>1 DEF Stay
  <2>2. CASE at \notin {"any", "routing"}
    <3>1. status = NoStatus /\ outbuf = <<>> /\ Deserves(CodeOf[error])
      BY <1>9, <2>2 DEF Catch, Verdict
    <3>2. PICK c : c = CodeOf[error]
      OBVIOUS
    <3>3. status' = c /\ UNCHANGED <<taken, req>> /\ pc' = "flushing"
      BY <1>9, <3>1, <3>2
         DEF Catch, MaySend, WriteStatus, WriteFails, Stay, streamVars
    <3>. QED  BY <1>4, <3>1, <3>2, <3>3
  <2>. QED  BY <2>1, <2>2
<1>10. CASE (Flush \/ CloseWriter) /\ Stay
  <2>1. CASE pc' = "killed"
    BY <1>2, <2>1
  <2>2. CASE pc' # "killed"
    BY <1>3, <1>10, <2>2
       DEF Flush, CloseWriter, FlushTo, Killed, Stay, streamVars
  <2>. QED  BY <2>1, <2>2
<1>11. CASE (SetUp \/ Receive \/ ClientStep \/ Finished) /\ Stay
  <2>1. CASE SetUp
    BY <1>2, <2>1 DEF SetUp
  <2>2. CASE Receive \/ ClientStep \/ Finished
    BY <1>3, <1>11, <2>2 DEF Receive, ClientStep, ClientStalls,
       ClientResumes, ClientHangsUp, Finished, vars, streamVars, respVars,
       Stay
  <2>. QED  BY <1>11, <2>1, <2>2
<1>12. CASE AnyHandler
  BY <1>1, <1>12 DEF AnyHandler, HandlerAt, Stay
<1>13. CASE Route
  <2>1. pc' = "handling"
    BY <1>13 DEF Route, HandlerAt, vars
  <2>2. at' \in {"no handler", "HealthCheck", "ChatCompletions", "any"}
    <3>1. CASE Matching(req') = {}
      BY <1>13, <3>1 DEF Route
    <3>2. CASE Matching(req') # {}
      <4>1. PICK r : r = req'
        OBVIOUS
      <4>. QED  BY <1>13, <3>2, <4>1, FirstHandler DEF Route
    <3>. QED  BY <3>1, <3>2
  <2>. QED  BY <1>2, <2>1, <2>2
<1>14. CASE NotFound \/ HealthCheck \/ WriteOK
  <2>1. UNCHANGED <<taken, req>> /\ pc' = "handling"
    BY <1>14 DEF NotFound, HealthCheck, WriteOK, Writes, GoTo,
       HandlerWritesStatus, HandlerAt, streamVars
  <2>2. CASE NotFound
    <3>1. status' = 404 /\ Deserves(404)
      BY <2>2, OthersDeserve DEF NotFound, HandlerAt, Writes, Progress
    <3>. QED  BY <1>4, <2>1, <3>1
  <2>3. CASE HealthCheck
    <3>1. status' = 200 /\ Deserves(200)
      BY <2>3, OthersDeserve DEF HealthCheck, HandlerAt, Writes, Progress
    <3>. QED  BY <1>4, <2>1, <3>1
  <2>4. CASE WriteOK
    <3>1. status' = 200 /\ question # None /\ IsFor("ChatCompletions")
      BY <2>4
         DEF WriteOK, HandlerAt, Writes, Progress, ChatPlaces, AfterHeader
    <3>2. Deserves(200)
      BY <3>1, AskedAboutConversation, ChatDeserves DEF Answerable
    <3>. QED  BY <1>4, <2>1, <3>1, <3>2
  <2>. QED  BY <1>14, <2>2, <2>3, <2>4
<1>15. CASE WriteAnswer
  <2>1. CASE pc' = "killed"
    BY <1>2, <2>1
  <2>2. CASE pc' # "killed"
    <3>1. /\ pc = "handling" /\ at = "WriteData" /\ Deserves(status)
          /\ question # None
      BY <1>15 DEF WriteAnswer, HandlerAt, Verdict, Progress
    <3>2. /\ IsFor("ChatCompletions") /\ req.method = "POST"
          /\ Answerable /\ BodyArrived
      BY <3>1, AskedAboutConversation DEF Progress, Answerable
    <3>3. status = 200
      BY <3>1, <3>2 DEF Deserves
    <3>4. UNCHANGED <<taken, req>> /\ pc' = "handling" /\ status' = 200
      BY <1>15, <2>2, <3>1, <3>3
         DEF WriteAnswer, HandlerAt, GoTo, HandlerWritesData,
             HandlerWritesMuchData, DataBegun, Killed, streamVars
    <3>. QED  BY <1>4, <3>1, <3>3, <3>4
  <2>. QED  BY <2>1, <2>2
<1>16. CASE Return
  <2>1. PICK c : c = status
    OBVIOUS
  <2>2. /\ UNCHANGED <<taken, req>> /\ pc' = "flushing" /\ status' = c
        /\ Deserves(c)
    BY <1>16, <2>1 DEF Return, HandlerAt, HandlerReturns, Stay, streamVars,
       respVars, Verdict
  <2>. QED  BY <1>4, <2>2
<1>17. CASE ParsePiece \/ ParseReturns \/ Generate
  BY <1>2, <1>17 DEF ParsePiece, ParseReturns, Generate, HandlerAt, GoTo,
     Stay, vars
<1>18. CASE CheckMethod \/ GetIntHeader \/ ParseThrows \/ ExtractRequest
  <2>1. /\ pc = "handling" /\ IsFor("ChatCompletions")
        /\ at \in ChatPlaces \ {"WriteData"}
    BY <1>18 DEF CheckMethod, GetIntHeader, ParseThrows, ExtractRequest,
       HandlerAt, Progress, ChatPlaces, AfterHeader
  <2>2. CASE UNCHANGED vars /\ at' \in {"Content-Length", "Parse"}
    BY <1>2, <2>1, <2>2 DEF vars
  <2>3. ASSUME NEW e, Throws(e), Deserves(CodeOf[e])  PROVE Verdict'
    <3>1. Throw(e) /\ UNCHANGED <<taken, status, outbuf, req, at>>
      BY <2>3 DEF Throws, HandlerThrows, Throw, Stay, streamVars, respVars
    <3>. QED  BY <1>5, <2>1, <2>3, <3>1
  <2>4. CASE CheckMethod /\ req.method # "POST"
    <3>1. Throws("notfound") /\ Deserves(CodeOf["notfound"])
      BY <2>1, <2>4, ChatDeserves DEF CheckMethod, CodeOf
    <3>. QED  BY <2>3, <3>1
  <2>5. ASSUME req.method = "POST", ~Answerable
        PROVE  Deserves(CodeOf["bad"]) /\ Deserves(CodeOf["json"])
    BY <2>1, <2>5, ChatDeserves DEF CodeOf
  <2>6. CASE GetIntHeader /\ req.contentLength # "number"
    <3>1. Throws("bad") /\ req.method = "POST" /\ ~Answerable
      BY <2>6 DEF GetIntHeader, HandlerAt, Progress, ChatPlaces, AfterHeader,
         Answerable
    <3>. QED  BY <2>3, <2>5, <3>1
  <2>7. CASE ParseThrows
    <3>1. Throws("json") /\ req.method = "POST" /\ ~Answerable
      BY <2>7 DEF ParseThrows, HandlerAt, Progress, ChatPlaces, AfterHeader,
         Answerable
    <3>. QED  BY <2>3, <2>5, <3>1
  <2>8. CASE ExtractRequest
    <3>1. /\ req \in Requests /\ req.body # Malformed
          /\ req.method = "POST" /\ Failed(Extract(req.body))
      BY <2>8 DEF ExtractRequest, HandlerAt, Progress, ChatPlaces,
         AfterHeader, Parsed
    <3>2. ~Answerable
      BY <3>1, ServiceAssumption, ExtractsConversations DEF Answerable
    <3>3. PICK e \in {"bad", "json"} : e = Extract(req.body).error
      BY <3>1, ExtractErrors
    <3>4. Throws(e)
      BY <2>8, <3>3 DEF ExtractRequest
    <3>. QED  BY <2>3, <2>5, <3>1, <3>2, <3>3, <3>4
  <2>. QED
    BY <1>18, <2>2, <2>4, <2>6, <2>7, <2>8
       DEF CheckMethod, GetIntHeader, BeginParsing, GoTo
<1>. QED
  BY <1>6, <1>7, <1>8, <1>9, <1>10, <1>11, <1>12, <1>13, <1>14, <1>15, <1>16,
     <1>17, <1>18
     DEF ServiceNext, ServiceStep, ServiceHandler, ChatCompletions

(* Every response has the status that its request deserves.                *)
THEOREM ServiceStatusFits == ServiceSafeSpec => []StatusFitsRequest
<1>1. ServiceInit =>
        /\ Init /\ ReadsBeforeWriting /\ Progress /\ HeadMissing /\ Verdict
  BY DEF ServiceInit, Init, ReadsBeforeWriting, Silent, Progress, ChatPlaces,
         AfterHeader, HeadMissing, Verdict
<1>2. HeadMissing /\ Verdict => StatusFitsRequest
  BY DEF HeadMissing, Verdict, StatusFitsRequest
<1>. QED
  BY <1>1, <1>2, ServiceStepsAreConnectionSteps, NextReadsBeforeWriting,
     InitHeadProgress, NextHeadProgress, InitResponseSoFar, NextErrorCaught,
     NextProgress, NextHeadMissing, NextVerdict, PTL
     DEF ServiceSafeSpec

-----------------------------------------------------------------------------
(***************************************************************************)
(* A client that stays gets its completion: from the body that has been    *)
(* taken off the stream to the response that is on the wire.               *)
(***************************************************************************)
HasBlankLine(s) == \E i \in DOMAIN s : s[i] = "blank"
AllBody(s) == \A i \in DOMAIN s : s[i] = "body"

(* What follows an empty line is body, wherever it is by now.              *)
BodyFollows ==
  /\ HasBlankLine(taken) => AllBody(received)
  /\ HasBlankLine(taken) \/ HasBlankLine(received) => AllBody(coming)
  /\ \A i \in DOMAIN received :
       received[i] = "blank" =>
         \A j \in DOMAIN received : i < j => received[j] = "body"
  /\ \A i \in DOMAIN coming :
       coming[i] = "blank" =>
         \A j \in DOMAIN coming : i < j => coming[j] = "body"

(* The service's own handlers run after the head.                          *)
AfterHead == at \notin {"routing", "any"} => HeadTaken

Answer(n) == Preamble(200) \o <<Blank, <<"data", n>>>>

(* How much of the completion has been written.  Nothing fails any more.   *)
Answering ==
  /\ at = "WriteStatus" => pc = "handling" /\ status = NoStatus
  /\ at = "WriteData" =>
       pc = "handling" /\ status = 200 /\ written = Preamble(200)
  /\ question # None /\ at = "returning" =>
       /\ pc \in {"handling", "flushing", "closing", "done", "killed"}
       /\ \/ pc = "killed"
          \/ status # NoStatus /\ \E n \in 0 .. MaxPieces : written = Answer(n)

-----------------------------------------------------------------------------
LEMMA InitBodyFollows == Init /\ StreamsTyped => BodyFollows
<1>. SUFFICES ASSUME Init, StreamsTyped  PROVE BodyFollows
  OBVIOUS
<1>1. /\ received = <<>> /\ taken = <<>>
      /\ \A i \in DOMAIN coming :
           coming[i] = "body" <=> \E j \in 1 .. i - 1 : coming[j] = "blank"
  BY DEF Init, Inputs
<1>2. DOMAIN coming = 1 .. Len(coming) /\ Len(coming) \in Nat
  BY LenProperties DEF StreamsTyped
<1>3. \A i, j \in DOMAIN coming :
        coming[i] = "blank" /\ i < j => coming[j] = "body"
  BY <1>1, <1>2
<1>. QED
  BY <1>1, <1>3, EmptySeq DEF BodyFollows, HasBlankLine, AllBody

(* read(2) moves the beginning of what is coming into the buffer. *)
LEMMA ReceiveKeepsOrder ==
  ASSUME StreamsTyped, BodyFollows, Receive
  PROVE  BodyFollows'
<1>1. PICK n \in 1 .. Len(coming) :
        /\ received' = SubSeq(coming, 1, n)
        /\ coming' = SubSeq(coming, n + 1, Len(coming))
  BY DEF Receive
<1>2. /\ Len(coming) \in Nat /\ DOMAIN coming = 1 .. Len(coming)
      /\ \A i \in 1 .. Len(coming) : coming[i] \in Lines
  BY LenProperties, ElementOfSeq DEF StreamsTyped
<1>3. /\ DOMAIN received' = 1 .. n
      /\ \A i \in 1 .. n : received'[i] = coming[i]
  <2>1. \A i \in 1 .. n : coming[i] \in Lines
    BY <1>2
  <2>2. /\ received' \in Seq(Lines)
        /\ Len(received') = n
        /\ \A i \in 1 .. n : received'[i] = coming[i]
    BY <1>1, <2>1, SubSeqProperties
  <2>. QED  BY <2>2, LenProperties
<1>4. /\ DOMAIN coming' = 1 .. Len(coming) - n
      /\ \A i \in 1 .. Len(coming) - n : coming'[i] = coming[n + i]
  <2>1. PICK m \in 2 .. Len(coming) + 1 : m = n + 1
    BY <1>2
  <2>2. \A i \in m .. Len(coming) : coming[i] \in Lines
    BY <1>2, <2>1
  <2>3. PICK rest : rest = SubSeq(coming, m, Len(coming))
    OBVIOUS
  <2>4. /\ rest \in Seq(Lines)
        /\ Len(rest) = IF m <= Len(coming) THEN Len(coming) - m + 1 ELSE 0
        /\ \A i \in 1 .. Len(coming) - m + 1 : rest[i] = coming[m + i - 1]
    BY <1>2, <2>1, <2>2, <2>3, SubSeqProperties
  <2>5. DOMAIN rest = 1 .. Len(coming) - n
    <3>1. PICK l \in Nat : l = Len(coming)
      BY <1>2
    <3>2. n \in 1 .. l /\ m = n + 1
      BY <2>1, <3>1
    <3>3. Len(rest) = l - n
      <4>1. CASE m <= l
        BY <2>4, <3>1, <3>2, <4>1
      <4>2. CASE ~(m <= l)
        BY <2>4, <3>1, <3>2, <4>2
      <4>. QED  BY <4>1, <4>2
    <3>4. DOMAIN rest = 1 .. Len(rest)
      BY <2>4, LenProperties
    <3>. QED  BY <3>1, <3>3, <3>4
  <2>6. ASSUME NEW i \in 1 .. Len(coming) - n
        PROVE  rest[i] = coming[n + i]
    <3>1. i \in 1 .. Len(coming) - m + 1 /\ m + i - 1 = n + i
      BY <1>2, <2>1
    <3>. QED  BY <2>4, <3>1
  <2>. QED  BY <1>1, <2>1, <2>3, <2>5, <2>6
<1>5. UNCHANGED taken
  BY DEF Receive
<1>6. ASSUME AllBody(coming)  PROVE AllBody(received') /\ AllBody(coming')
  <2>1. AllBody(received')
    BY <1>2, <1>3, <1>6 DEF AllBody
  <2>2. AllBody(coming')
    <3>. SUFFICES ASSUME NEW i \in DOMAIN coming'  PROVE coming'[i] = "body"
      BY DEF AllBody
    <3>1. n + i \in DOMAIN coming /\ coming'[i] = coming[n + i]
      BY <1>2, <1>4
    <3>. QED  BY <1>6, <3>1 DEF AllBody
  <2>. QED  BY <2>1, <2>2
<1>7. HasBlankLine(received') => AllBody(coming')
  BY <1>2, <1>3, <1>4 DEF BodyFollows, AllBody, HasBlankLine
<1>8. \A i, j \in DOMAIN received' :
        received'[i] = "blank" /\ i < j => received'[j] = "body"
  BY <1>2, <1>3 DEF BodyFollows
<1>9. \A i, j \in DOMAIN coming' :
        coming'[i] = "blank" /\ i < j => coming'[j] = "body"
  <2>. SUFFICES ASSUME NEW i \in DOMAIN coming', NEW j \in DOMAIN coming',
                       coming'[i] = "blank", i < j
                PROVE  coming'[j] = "body"
    OBVIOUS
  <2>1. /\ n + i \in DOMAIN coming /\ n + j \in DOMAIN coming
        /\ n + i < n + j /\ coming[n + i] = "blank"
        /\ coming'[j] = coming[n + j]
    BY <1>2, <1>4
  <2>. QED  BY <2>1 DEF BodyFollows
<1>10. HasBlankLine(taken)' <=> HasBlankLine(taken)
  BY <1>5 DEF HasBlankLine
<1>11. HasBlankLine(taken) => AllBody(coming)
  BY DEF BodyFollows
<1> HIDE DEF HasBlankLine, AllBody
<1>. QED
  BY <1>5, <1>6, <1>7, <1>8, <1>9, <1>10, <1>11 DEF BodyFollows

LEMMA TakeLineKeepsOrder ==
  ASSUME StreamsTyped, BodyFollows, TakeLine
  PROVE  BodyFollows'
<1>1. /\ received # <<>> /\ received' = Tail(received)
      /\ UNCHANGED coming
  BY DEF TakeLine
<1>2. /\ Len(taken) \in Nat
      /\ DOMAIN taken = 1 .. Len(taken)
      /\ DOMAIN taken' = 1 .. Len(taken) + 1
      /\ taken'[Len(taken) + 1] = Head(received)
      /\ \A i \in 1 .. Len(taken) : taken'[i] = taken[i]
  <2>1. /\ StreamsTyped'
        /\ Len(taken) \in Nat /\ Len(taken') = Len(taken) + 1
        /\ taken'[Len(taken')] = Head(received)
        /\ \A i \in 1 .. Len(taken) : taken'[i] = taken[i]
    BY <1>1, TakeOne
  <2>. QED  BY <2>1, LenProperties DEF StreamsTyped
<1>3. /\ Len(received) \in Nat \ {0}
      /\ DOMAIN received = 1 .. Len(received)
      /\ Head(received) = received[1]
      /\ DOMAIN received' = 1 .. Len(received) - 1
      /\ \A i \in 1 .. Len(received) - 1 : received'[i] = received[i + 1]
  <2>1. /\ Tail(received) \in Seq(Lines)
        /\ Len(Tail(received)) = Len(received) - 1
        /\ \A i \in 1 .. Len(Tail(received)) :
             Tail(received)[i] = received[i + 1]
    BY <1>1, HeadTailProperties DEF StreamsTyped
  <2>2. Len(received) \in Nat \ {0} /\ DOMAIN received = 1 .. Len(received)
    BY <1>1, LenProperties, EmptySeq DEF StreamsTyped
  <2>. QED  BY <1>1, <2>1, <2>2, LenProperties
<1>4. HasBlankLine(taken') =>
        HasBlankLine(taken) \/ received[1] = "blank"
  BY <1>2, <1>3 DEF HasBlankLine
<1>5. HasBlankLine(taken') => AllBody(received')
  BY <1>3, <1>4 DEF BodyFollows, AllBody
<1>6. HasBlankLine(taken') \/ HasBlankLine(received') => AllBody(coming')
  BY <1>1, <1>3, <1>4 DEF BodyFollows, HasBlankLine, AllBody
<1>. QED
  BY <1>1, <1>3, <1>5, <1>6 DEF BodyFollows, HasBlankLine, AllBody

LEMMA NextBodyFollows ==
  HeadProgress /\ BodyFollows /\ [Next]_vars => BodyFollows'
<1>. SUFFICES ASSUME HeadProgress, BodyFollows, [Next]_vars
              PROVE  BodyFollows'
  OBVIOUS
<1>1. ASSUME UNCHANGED streamVars  PROVE BodyFollows'
  BY <1>1 DEF streamVars, BodyFollows, HasBlankLine, AllBody
<1>2. CASE Receive
  BY <1>2, ReceiveKeepsOrder DEF HeadProgress
<1>3. CASE ReadRequestLine \/ ReadHeaderLine \/ HandlerReads
  BY <1>3, TakeLineKeepsOrder
     DEF ReadRequestLine, ReadHeaderLine, HandlerReads, HeadProgress
<1>4. CASE ClientHangsUp
  <2>1. UNCHANGED <<received, taken>> /\ coming' \in {coming, <<>>}
    BY <1>4 DEF ClientHangsUp
  <2>2. CASE coming' = <<>>
    BY <2>1, <2>2, EmptySeq DEF BodyFollows, HasBlankLine, AllBody
  <2>3. CASE coming' = coming
    BY <1>1, <2>1, <2>3 DEF streamVars
  <2>. QED  BY <2>1, <2>2, <2>3
<1>5. CASE \/ SetUp \/ ReadTimesOut \/ ReadInterrupted \/ ReadFails
           \/ HandlerWritesStatus \/ HandlerWritesHeader \/ WriterRefuses
           \/ HandlerWritesNoData \/ HandlerWritesData \/ HandlerWriteFails
           \/ HandlerThrows \/ HandlerReturns \/ Catch \/ ClientStalls
           \/ ClientResumes \/ UNCHANGED vars
  BY <1>1, <1>5 DEF SetUp, ReadTimesOut, ReadInterrupted, ReadFails,
       HandlerWritesStatus, HandlerWritesHeader, WriterRefuses,
       HandlerWritesNoData, HandlerWritesData, HandlerWriteFails,
       HandlerThrows, HandlerReturns, Catch, ClientStalls, ClientResumes, vars
<1>6. CASE HandlerWritesMuchData \/ HandlerFlushes \/ Flush \/ CloseWriter
  BY <1>1, <1>6 DEF HandlerWritesMuchData, HandlerFlushes, Flush,
       CloseWriter, FlushTo, Killed
<1>. QED
  BY <1>2, <1>3, <1>4, <1>5, <1>6
     DEF Next, HandleStep, HandlerStep, ClientStep, Finished

-----------------------------------------------------------------------------
LEMMA NextAfterHead ==
  /\ AfterHead /\ HeadProgress /\ ReadsBeforeWriting
  /\ [ServiceNext]_serviceVars
  => AfterHead'
<1>. SUFFICES ASSUME AfterHead, HeadProgress, ReadsBeforeWriting,
                     [ServiceNext]_serviceVars
              PROVE  AfterHead'
  OBVIOUS
<1>1. ASSUME at' \in {"routing", "any"}  PROVE AfterHead'
  BY <1>1 DEF AfterHead
<1>2. ASSUME HeadTaken, UNCHANGED taken  PROVE AfterHead'
  BY <1>2 DEF AfterHead, HeadTaken
<1>3. CASE UNCHANGED serviceVars
  BY <1>1, <1>2, <1>3 DEF serviceVars, vars, streamVars, AfterHead
<1>4. CASE ConnectionStep /\ Stay
  <2>1. CASE at \in {"routing", "any"}
    BY <1>1, <1>4, <2>1 DEF Stay
  <2>2. CASE at \notin {"routing", "any"}
    BY <1>2, <1>4, <2>2, ConnectionStepsTakeNothing DEF AfterHead
  <2>. QED  BY <2>1, <2>2
<1>5. CASE AnyHandler
  BY <1>1, <1>5 DEF AnyHandler, HandlerAt, Stay
<1>6. CASE ParsePiece
  <2>1. TakeLine /\ received # <<>> /\ HeadTaken /\ StreamsTyped
    BY <1>6 DEF ParsePiece, TakeLine, HandlerAt, HeadProgress
  <2>2. HeadTaken'
    BY <2>1, TakeOne DEF HeadTaken
  <2>. QED  BY <2>2 DEF AfterHead
<1>7. CASE \/ Route \/ Return \/ NotFound \/ HealthCheck \/ WriteOK
           \/ WriteAnswer \/ CheckMethod \/ GetIntHeader \/ ParseThrows
           \/ ParseReturns \/ ExtractRequest \/ Generate
  <2>1. HeadTaken
    BY <1>7 DEF Route, Return, NotFound, HealthCheck, WriteOK, WriteAnswer,
       CheckMethod, GetIntHeader, ParseThrows, ParseReturns, ExtractRequest,
       Generate, HandlerAt, HeadProgress
  <2>2. UNCHANGED taken
    BY <1>7, HandlerTakesNothing
       DEF Route, Return, NotFound, HealthCheck, WriteOK, WriteAnswer, Writes,
           CheckMethod, GetIntHeader, BeginParsing, ParseThrows, ParseReturns,
           ExtractRequest, Generate, Throws, HandlerThrows, vars, streamVars
  <2>. QED  BY <1>2, <2>1, <2>2
<1>. QED  BY <1>3, <1>4, <1>5, <1>6, <1>7, ServiceCases

LEMMA AppendToOne ==
  ASSUME NEW a, NEW b
  PROVE  Append(<<a>>, b) = <<a, b>>
<1> DEFINE S == {a, b}
<1>1. <<a>> \in Seq(S) /\ Len(<<a>>) = 1 /\ <<a>>[1] = a
  OBVIOUS
<1>2. /\ <<a, b>> \in Seq(S) /\ Len(<<a, b>>) = 2
      /\ <<a, b>>[1] = a /\ <<a, b>>[2] = b
  OBVIOUS
<1>3. b \in S
  OBVIOUS
<1> HIDE DEF S
<1>4. PICK s \in Seq(S) : s = <<a>> /\ Len(s) = 1 /\ s[1] = a
  BY <1>1
<1>5. PICK t \in Seq(S) :
        t = <<a, b>> /\ Len(t) = 2 /\ t[1] = a /\ t[2] = b
  BY <1>2
<1>6. PICK u : u = Append(s, b)
  OBVIOUS
<1>7. /\ u \in Seq(S) /\ Len(u) = Len(s) + 1
      /\ \A i \in 1 .. Len(s) : u[i] = s[i]
      /\ u[Len(s) + 1] = b
  <2>1. s \in Seq(S) /\ b \in S
    BY <1>3
  <2>. QED  BY <1>6, <2>1, AppendProperties
<1>8. Len(u) = 2 /\ u[1] = a /\ u[2] = b
  BY <1>4, <1>7
<1>9. \A i \in 1 .. 2 : u[i] = t[i]
  BY <1>5, <1>8
<1>10. u = t
  BY <1>5, <1>7, <1>8, <1>9, SeqEqual
<1>. QED  BY <1>4, <1>5, <1>6, <1>10, Zenon

(* WriteData on a response that has a status and no empty line yet. *)
LEMMA DataCompletesAnswer ==
  ASSUME ResponseSoFar, status = 200, written = Preamble(200),
         Len(written) < MaxPieces, written' = written \o Append(Lead, Data)
  PROVE  \E n \in 0 .. MaxPieces : written' = Answer(n)
<1>1. Len(written) = 2
  BY DEF Preamble
<1>2. ~sending
  BY DEF ResponseSoFar, Includes, Preamble, StatusLine, Close, Blank
<1>3. Lead = <<Blank>>
  <2>1. status # NoStatus
    BY ConnectionAssumption
  <2>2. Lead = <<>> \o <<Blank>>
    BY <1>2, <2>1, Zenon DEF Lead
  <2>3. <<Blank>> \in Seq({Blank})
    OBVIOUS
  <2>. QED  BY <2>2, <2>3, ConcatEmptySeq
<1>4. Append(Lead, Data) = <<Blank, <<"data", 2>>>>
  <2>1. Data = <<"data", 2>>
    BY <1>1 DEF Data
  <2>. QED  BY <1>3, <2>1, AppendToOne
<1>5. 2 \in 0 .. MaxPieces
  <2>1. MaxPieces \in Nat
    BY ConnectionAssumption
  <2>2. 2 < MaxPieces
    BY <1>1, Zenon
  <2>. QED  BY <2>1, <2>2
<1>6. written' = Preamble(200) \o <<Blank, <<"data", 2>>>>
  BY <1>4, Zenon
<1>7. written' = Answer(2)
  BY <1>6 DEF Answer
<1>. QED  BY <1>5, <1>7

LEMMA NextAnswering ==
  /\ Answering /\ Progress /\ ReadsBeforeWriting /\ ResponseSoFar
  /\ [ServiceNext]_serviceVars
  => Answering'
<1>. SUFFICES ASSUME Answering, Progress, ReadsBeforeWriting, ResponseSoFar,
                     [ServiceNext]_serviceVars
              PROVE  Answering'
  OBVIOUS
<1>1. ASSUME at' \notin {"WriteStatus", "WriteData", "returning"}
      PROVE  Answering'
  BY <1>1 DEF Answering
<1>2. CASE UNCHANGED serviceVars
  BY <1>2 DEF serviceVars, vars, respVars, Answering
<1>3. CASE (ReadTimesOut \/ ReadInterrupted \/ ReadFails) /\ Stay /\ MayRead
  <2>1. at \in {"routing", "any", "Parse"}
    BY <1>3 DEF ReadTimesOut, ReadInterrupted, ReadFails, Reading, MayRead,
         ReadsBeforeWriting
  <2>. QED  BY <1>1, <1>3, <2>1 DEF Stay
<1>4. CASE /\ \/ SetUp \/ Receive \/ ReadRequestLine \/ ReadHeaderLine
              \/ Flush \/ Catch \/ CloseWriter \/ ClientStep \/ Finished
           /\ Stay
  <2>1. CASE at \notin {"WriteStatus", "WriteData", "returning"}
    BY <1>1, <1>4, <2>1 DEF Stay
  <2>2. CASE at \in {"WriteStatus", "WriteData", "returning"}
    <3>1. UNCHANGED <<at, question>>
      BY <1>4 DEF Stay
    <3>2. CASE SetUp \/ ReadRequestLine \/ ReadHeaderLine
      BY <2>2, <3>2
         DEF SetUp, ReadRequestLine, ReadHeaderLine, ReadsBeforeWriting
    <3>3. CASE Receive \/ ClientStep \/ Finished
      BY <3>1, <3>3 DEF Receive, ClientStep, ClientStalls, ClientResumes,
         ClientHangsUp, Finished, vars, respVars, Answering
    <3>4. CASE Catch
      <4>1. pc = "catching"
        BY <3>4 DEF Catch
      <4>. QED  BY <2>2, <3>1, <4>1 DEF Answering
    <3>5. CASE Flush \/ CloseWriter
      BY <2>2, <3>1, <3>5
         DEF Flush, CloseWriter, FlushTo, Killed, respVars, Answering
    <3>. QED  BY <1>4, <3>2, <3>3, <3>4, <3>5
  <2>. QED  BY <2>1, <2>2
<1>5. CASE Route
  BY <1>1, <1>5, FirstHandler DEF Route
<1>6. CASE AnyHandler \/ ParsePiece \/ ParseReturns
  BY <1>1, <1>6
     DEF AnyHandler, ParsePiece, ParseReturns, HandlerAt, Stay, GoTo
<1>7. CASE CheckMethod \/ GetIntHeader \/ ParseThrows \/ ExtractRequest
  BY <1>1, <1>7 DEF CheckMethod, GetIntHeader, ParseThrows, ExtractRequest,
     HandlerAt, Throws, Stay, GoTo
<1>8. CASE NotFound \/ HealthCheck
  <2>1. at' = "returning" /\ UNCHANGED question
    BY <1>8 DEF NotFound, HealthCheck, GoTo
  <2>2. question = None
    BY <1>8 DEF NotFound, HealthCheck, HandlerAt, Progress
  <2>. QED  BY <2>1, <2>2 DEF Answering
<1>9. CASE Generate
  BY <1>9 DEF Generate, HandlerAt, ReadsBeforeWriting, Silent, Answering,
     vars, respVars
<1>10. CASE WriteOK
  <2>1. pc = "handling" /\ at = "WriteStatus" /\ status = NoStatus
    BY <1>10 DEF WriteOK, HandlerAt, Answering
  <2>2. written = <<>>
    BY <2>1 DEF ReadsBeforeWriting, Silent
  <2>3. /\ at' = "WriteData" /\ pc' = "handling" /\ status' = 200
        /\ \E code \in {200, 404} : WriteStatus(code)
    BY <1>10, <2>1 DEF WriteOK, Writes, HandlerWritesStatus, GoTo
  <2>4. written' = written \o Preamble(200)
    BY <2>3 DEF WriteStatus, Put
  <2>5. written' = Preamble(200)
    BY <2>2, <2>4 DEF Preamble
  <2>. QED  BY <2>3, <2>5 DEF Answering
<1>11. CASE WriteAnswer
  <2>1. /\ pc = "handling" /\ status = 200 /\ written = Preamble(200)
        /\ at' = "returning" /\ CanWrite
    BY <1>11 DEF WriteAnswer, HandlerAt, GoTo, Answering,
         HandlerWritesData, HandlerWritesMuchData
  <2>2. CASE pc' = "killed"
    BY <2>1, <2>2 DEF Answering
  <2>3. CASE pc' # "killed"
    <3>1. /\ pc' = "handling" /\ DataBegun
          /\ written' = written \o Append(Lead, Data)
      BY <1>11, <2>1, <2>3
         DEF WriteAnswer, HandlerWritesData, HandlerWritesMuchData, Put,
             Killed
    <3>2. status' = 200
      BY <2>1, <3>1, ConnectionAssumption DEF DataBegun
    <3>3. \E n \in 0 .. MaxPieces : written' = Answer(n)
      BY <2>1, <3>1, DataCompletesAnswer DEF CanWrite
    <3>4. status' # NoStatus
      BY <3>2, ConnectionAssumption
    <3>5. (\E n \in 0 .. MaxPieces : written = Answer(n))'
      BY <3>3 DEF Answer, Preamble, StatusLine, Close, Blank
    <3>. QED  BY <2>1, <3>1, <3>4, <3>5 DEF Answering
  <2>. QED  BY <2>2, <2>3
<1>12. CASE Return
  <2>1. /\ UNCHANGED <<question, status, written>> /\ at = "returning"
        /\ at' = "returning" /\ pc = "handling" /\ pc' = "flushing"
    BY <1>12 DEF Return, HandlerAt, HandlerReturns, Stay, respVars
  <2>. QED  BY <2>1 DEF Answering
<1>. QED
  BY <1>2, <1>3, <1>4, <1>5, <1>6, <1>7, <1>8, <1>9, <1>10, <1>11, <1>12
     DEF ServiceNext, ServiceStep, ServiceHandler, ChatCompletions

-----------------------------------------------------------------------------
(* The body has been taken, and there is no more: the stream is empty. *)
LEMMA NothingLeftUnread ==
  ASSUME StreamsTyped, BodyFollows, HeadTaken, BodyArrived,
         req.size \in Int,
         BodyPieces(taken \o received \o coming) <= req.size
  PROVE  received = <<>>
<1> DEFINE before == {i \in DOMAIN taken : taken[i] = "body"}
           sent == taken \o received \o coming
           all == {i \in DOMAIN sent : sent[i] = "body"}
<1>. SUFFICES ASSUME received # <<>>  PROVE FALSE
  OBVIOUS
<1>1. /\ Len(taken) \in Nat /\ DOMAIN taken = 1 .. Len(taken)
      /\ Len(received) \in Nat \ {0}
      /\ DOMAIN received = 1 .. Len(received)
      /\ Len(coming) \in Nat
  BY LenProperties, EmptySeq DEF StreamsTyped
<1>2. received[1] = "body"
  <2>1. HasBlankLine(taken)
    BY <1>1 DEF HeadTaken, HasBlankLine
  <2>. QED  BY <1>1, <2>1 DEF BodyFollows, AllBody
<1>3. /\ DOMAIN sent = 1 .. Len(taken) + Len(received) + Len(coming)
      /\ \A i \in 1 .. Len(taken) : sent[i] = taken[i]
      /\ sent[Len(taken) + 1] = received[1]
  <2>1. /\ taken \o received \in Seq(Lines)
        /\ Len(taken \o received) = Len(taken) + Len(received)
        /\ \A i \in 1 .. Len(taken) + Len(received) :
             (taken \o received)[i] =
               IF i <= Len(taken) THEN taken[i] ELSE received[i - Len(taken)]
    BY ConcatProperties DEF StreamsTyped
  <2>2. PICK s \in Seq(Lines) : s = taken \o received
    BY <2>1
  <2>3. /\ s \o coming \in Seq(Lines)
        /\ Len(s \o coming) = Len(s) + Len(coming)
        /\ \A i \in 1 .. Len(s) + Len(coming) :
             (s \o coming)[i] =
               IF i <= Len(s) THEN s[i] ELSE coming[i - Len(s)]
    BY ConcatProperties DEF StreamsTyped
  <2>4. DOMAIN (s \o coming) = 1 .. Len(s) + Len(coming)
    BY <2>3, LenProperties
  <2>. QED  BY <1>1, <2>1, <2>2, <2>3, <2>4
<1> HIDE DEF sent
<1>4. Len(taken) + 1 \in all /\ Len(taken) + 1 \notin before
  BY <1>1, <1>2, <1>3
<1>5. before \subseteq all
  BY <1>1, <1>3
<1>6. IsFiniteSet(all)
  <2>1. IsFiniteSet(1 .. Len(taken) + Len(received) + Len(coming))
    BY <1>1, FS_Interval
  <2>. QED  BY <1>3, <2>1, FS_Subset
<1>7. /\ Cardinality(before) \in Nat /\ Cardinality(all) \in Nat
      /\ Cardinality(before) < Cardinality(all)
  <2>1. IsFiniteSet(before) /\ Cardinality(before) <= Cardinality(all)
        /\ Cardinality(all) # Cardinality(before)
    BY <1>4, <1>5, <1>6, FS_Subset
  <2>. QED  BY <1>6, <2>1, FS_CardinalityType
<1>8. Cardinality(before) >= req.size /\ Cardinality(all) <= req.size
  BY DEF BodyArrived, BodyTaken, BodyPieces, sent
<1>. QED  BY <1>7, <1>8

LEMMA AnswerArrives ==
  /\ Answering /\ AfterHead /\ BodyFollows
  /\ Progress /\ HeadProgress /\ Delivery
  => CompletionReachesClient
<1>. SUFFICES ASSUME Answering, AfterHead, BodyFollows,
                     Progress, HeadProgress, Delivery,
                     pc = "done", ~faulty, question # None,
                     BodyPieces(taken \o received \o coming) <= req.size
              PROVE  \E n \in 0 .. MaxPieces : wire = Answer(n)
  BY DEF CompletionReachesClient, Answer
<1>1. at = "returning"
  BY DEF Progress, Answering
<1>2. PICK n \in 0 .. MaxPieces : written = Answer(n)
  BY <1>1 DEF Answering
<1>3. BodyArrived /\ req.size \in Int
  BY <1>1, AskedAboutConversation, ServiceAssumption DEF Progress
<1>4. received = <<>>
  BY <1>1, <1>3, NothingLeftUnread DEF AfterHead, HeadProgress
<1>5. wire = written
  BY <1>4, ConcatEmptySeq DEF Delivery, OutputTyped
<1>. QED  BY <1>2, <1>5

(* A client that stays, and sends no more than it announced, gets the      *)
(* whole completion.                                                       *)
THEOREM ServiceCompletionReachesClient ==
  ServiceSafeSpec => []CompletionReachesClient
<1>1. ServiceInit =>
        /\ Init /\ ReadsBeforeWriting /\ Progress /\ AfterHead /\ Answering
  BY DEF ServiceInit, Init, ReadsBeforeWriting, Silent, Progress, ChatPlaces,
         AfterHeader, AfterHead, Answering
<1>2. Init => Delivery
  BY EmptySeq, ConcatEmptySeq DEF Init, Delivery, OutputTyped
<1>3. HeadProgress => StreamsTyped
  BY DEF HeadProgress
<1>. QED
  BY <1>1, <1>2, <1>3, InitBodyFollows, InitHeadProgress, InitResponseSoFar,
     ServiceStepsAreConnectionSteps, NextReadsBeforeWriting, NextHeadProgress,
     NextErrorCaught, NextResponseSoFar, NextDelivery, NextBodyFollows,
     NextProgress, NextAfterHead, NextAnswering, AnswerArrives, PTL
     DEF ServiceSafeSpec
=============================================================================

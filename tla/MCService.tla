----------------------------- MODULE MCService -----------------------------
(***************************************************************************)
(* Small instances of Service: the routes of InferenceService::Start,      *)
(* behind them a route of a test that matches everything, and documents    *)
(* whose messages have each of the faults that ExtractRequest notices.     *)
(***************************************************************************)
EXTENDS Service

MCRoutes ==
  <<[paths |-> {"/healthz"}, handler |-> "HealthCheck"],
    [paths |-> {"/v1/chat/completions"}, handler |-> "ChatCompletions"],
    [paths |-> {"/v1/chat/completions", "/test"}, handler |-> "any"]>>

Str(s) == [str |-> s]
Message(role, content) ==
  [object |-> [role |-> Str(role), content |-> Str(content)]]

MCMessages ==
  {Message("system", "a"), Message("user", "b"), Message("user", "c"),
   [object |-> [role |-> Str("user")]],
   [object |-> [content |-> Str("d")]],
   Str("e")}

Messages(s) == [object |-> [messages |-> [array |-> s]]]

(* Messages after, before and between those that count. *)
LongDocuments ==
  {Messages(<<Message("user", "b"), Message("user", "c"),
              Message("system", "a")>>),
   Messages(<<[object |-> [content |-> Str("d")]],
              Message("system", "a"), Message("user", "b")>>),
   Messages(<<Message("system", "a"), [object |-> [role |-> Str("user")]],
              Message("user", "b")>>)}

MCDocuments ==
  {Messages(s) : s \in SeqOf(MCMessages, 2)}
  \cup {[object |-> [messages |-> Str("f")]], [array |-> <<>>]}

Chat(method, length, size, body) ==
  [method |-> method, path |-> "/v1/chat/completions",
   contentLength |-> length, size |-> size, body |-> body]
Other(path, length) ==
  [method |-> "POST", path |-> path, contentLength |-> length, size |-> 0,
   body |-> Malformed]

(* A header in the requests for "/test" keeps the instance small. *)
MCRequests ==
  {Other(p, "missing") : p \in {"/healthz", "/"}}
  \cup {Other("/test", "invalid")}
  \cup {Chat("POST", l, 0, Malformed) : l \in {"missing", "invalid"}}
  \cup {Chat("POST", "number", n, Malformed) : n \in -1 .. 2}
  \cup {Chat("POST", "number", 1, v) : v \in MCDocuments}
  \cup {Chat("POST", "number", n, v) : n \in 1 .. 2, v \in LongDocuments}
  \cup {Chat("GET", "missing", 0, Malformed),
        Chat("GET", "number", 1, Message("system", "a"))}
=============================================================================

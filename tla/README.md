# gabby in TLA+

A specification of gabby, an inference server written in C++ from scratch:
the thread pool, the HTTP server with its listener, its shutdown by signals,
the handling of one client connection, the router and the inference service
behind it, the JSON parser that reads the body of a request, and the files from
which a model is loaded.  The modules follow the source
(`src/src/...`), not the documentation; where the two disagree, a run shows it.

Run anything from this directory:

    tlc -workers 2 -config MCHttpServer.cfg MCHttpServer.tla    # a model
    tlapm ThreadPoolProofs.tla                                  # proofs

`PROJECT.json` lists the components, the runs with their properties, for every
property a mutant of the code that breaks it, the source lines behind every
definition, the findings, the hazards and the theorems.

## 1. The system

A process has one *main thread*, one *listener thread* and a pool of *worker threads*.
`main` builds an `InferenceService`, installs a handler for SIGINT and SIGTERM that
calls `Stop`, calls `Start` and then `Wait`.  `Start` spawns the listener and the pool.
The listener polls the listening socket and a pipe; it accepts a client and offers a
task that owns the client's descriptor to the pool; the queue gets a copy of the task,
so until `Offer` has returned the listener and the pool share the descriptor.  A worker
runs the task: it parses the request, calls the handler built by the router, and the
handler writes the response through a `ResponseWriter`. `Stop` clears `run_`, writes to
the pipe and waits until `running_` is false. `Wait` joins the listener and destroys the
pool.

| component | source | state | operations | talks to |
|---|---|---|---|---|
| thread pool | `http/thread_pool.{h,cc}` | `mux_`, `cnd_`, `done_`, `tasks_`, `threads_` | constructor, `ThreadRun`, `Offer`, destructor | offered tasks by the listener; runs tasks with the mutex locked |
| HTTP server | `http/server.{h,cc}` | `run_`, `running_`, `pool_`, `listener_`, `sock_`, `pipe_` | `Start`, `Stop`, `Wait`, `Listen`, `Accept` | kernel's queue of connections, the pool, signal handlers on any thread |
| connection | `http/server.cc` (`Handle`, `ParseRequest`, `ReadLine`, `SocketWriter`, `MustSend`), `http/types.h` | a stdio stream "r+" on the socket, `status_`, `sending_data_` | read lines, call the handler, write, flush, report an exception as a status | the client, by a socket with timeouts; the handler, by callbacks in both directions |
| program | `main.cc` | `config`, `service` | flags, `shutdown` (signal handler), `Run` | server |
| router | `http/router.{h,cc}` | list of (pattern, handler) | `route`, `build`, `handle` | called by `Handle`, calls a handler |
| inference service | `service.{h,cc}` | server, generator | `HealthCheck`, `ChatCompletions`, `Start`, `Stop`, `Wait` | JSON parser on the request's stream; generator |
| JSON parser | `json/parser.{h,cc}` | position, one character and one token of lookahead | `Scanner::Scan`, `Parser::Value`, `Parse`, `ParseFile` | reads the body from the stream of the connection, or a file |
| JSON values | `json/json.{h,cc}` | trees | equality, downcasts, printing | parser, service, configuration |
| configuration | `inference/config.{h,cc}` | none | find and load the model's parameters | file system, JSON |
| generator, tokenizer | `inference/generator.*`, `inference/tokenizer.*` | none (stubs) | `Generate` returns a constant | service |
| safetensors | `inference/safetensors.{h,cc}` | a mapped file | size of the header, load | file system |
| descriptors | `utils/pointers.{h,cc}` | ownership of an fd, a stream, a mapping | close on destruction | everywhere |
| logging | `utils/logging.{h,cc}` | level | output | everywhere |
| test client, tests, test framework | `http/test_client.*`, `*_test.cc`, `test/` | – | – | not part of the program |

### What is hard about it

* **Interleavings.**  `Offer` notifies without holding the mutex.  The listener
  is started before `pool_` is assigned and uses it without synchronisation.
  `run_`, `running_` and the pipe are written by a signal handler that may run
  on *any* thread, on top of whatever that thread was doing - including the
  listener, which the handler waits for.
* **A descriptor with two owners.**  `Offer` takes the `std::function` by value and
  copies it into the queue, so the listener's copies live until it has returned.  A
  worker may be through with the client by then; the last one to let go closes.
* **A lock held across a callback.**  `ThreadRun` calls `task()` with `mux_`
  locked.  One slow client therefore stops all workers, the listener (in
  `Offer`) and the destructor.
* **Failure and time.**  Clients stall, hang up in the middle and reset; reads
  and writes time out; descriptors run out; the port can be taken.  Exceptions
  on the listener thread end the program, and so does a line that begins with a zero
  byte: `assert(read > 0)` (`server.cc:39`) is compiled in unless the build sets
  `NDEBUG`, which the one of README.md:57-58 does not.
* **Results that nobody looks at.**  `fflush` and short counts of `fwrite` are
  ignored, so a response can be lost, or have a hole, silently.
* **A parser on a socket.**  The JSON parser reads the body straight from the
  client, so a read may time out between any two characters, and the parser goes
  on after it.  It must take exactly `Content-Length` bytes.
* **An answer that cannot be taken back.**  After `WriteStatus(OK)` an exception
  is only logged.  `ChatCompletions` checks method, header, body and messages in
  that order, with an exception for each, and a `find_if` whose predicate throws.
* **Bytes put together by hand.**  The size of the safetensors header is built
  from bytes that have been promoted to `int`: a sign bit from 2^31 on, and
  shifts past the width of `int`.  The sizes of header and files become `int`s when
  they are given to `Parse`, and nobody compares the first with the file's.
* **Numbers on their way through text.**  `std::stod` reads as far as it likes, and
  `operator<<` prints six digits: `created` (`service.cc:84`) is sent as
  `1.11111e+09`.
* **Nothing is persisted**, so there is no recovery after a crash to model.

### What makes it correct

* *Pool*: tasks start in the order offered, each once; no wakeup is lost; the
  destructor returns, and when it has, no thread touches the pool; nothing
  starts once it has begun.  Abstractly: a serial executor that can be closed.
* *Server*: every client that connects is served at most once, in order; a descriptor is
  open exactly as long as the listener's copies or the pool's only copy of its task need
  it; nothing is accepted once a `Stop` has returned; the pool outlives the listener; a
  signal brings the program to its end.
* *Connection*: the handler runs only after a complete good head; what is written
  stays in order - headers, the empty line once, data, and no second status line after
  a first one - even when the handler begins with headers, or it or one of its calls
  fails in the middle; a bad or slow head is answered 400 or 408 and nothing
  else; a client that reads gets the whole response; every connection ends.
* *Service*: every request gets the status it deserves, whichever of its faults
  is found first; 200 on the chat route means that the generator was asked, about
  a whole and correct request; the completion reaches a client that stays; and
  the handlers keep to what `Handle` expects of a handler.
* *JSON body*: exactly the grammar is accepted; what is printed is read back, apart
  from strings that would need escaping and numbers that have lost digits;
  delays, resets and cuts make parsing fail but never change a value; exactly
  the body is taken from the stream; equality is equality.
* *Model files*: a model is loaded if and only if all of its files are whole, each
  value comes from its own file, and the size of the header is what the file
  says, as long as the sizes are positive `int`s; one that becomes negative is never
  misread.

## 2. The modules

    SerialExecutor          what the pool promises (abstract)
      ^ refined by
    ThreadPool  <-- MCThreadPool, MCThreadPoolSlow;  ThreadPoolProofs
      ^ instance of
    HttpServer  <-- MCHttpServer;                    HttpServerProofs
      v refines
    SerialServer            what the server promises (abstract)

    Program     <-- MCProgram;                       ProgramProofs
      v extends and refines HttpServer; a task is one behaviour of
    Connection  <-- MCConnection;                    ConnectionProofs
      ^ extended and refined by
    Service     <-- MCService;                       ServiceProofs
      . a body that the service parses is one behaviour of
    JsonBody                         JsonProofs <-- JsonBodyProofs
      ^ extends
    JsonParser              the scanner and the parser
      ^ extended by
    JsonValues              printing and equality of values
    Safetensors             the size of the header
      ^ with JsonBody, extended by
    ModelFiles  <-- MCJsonBody (with JsonValues);
                    ModelFilesProofs (with JsonBodyProofs)

### ThreadPool, SerialExecutor

The variables are the members of the C++ class, plus the program counters of
its threads (`threads_` for the workers, `owner` for the thread that constructs
and destroys the pool, `offering` for the callers of `Offer`) and two histories
(`offered`, `started`).  The grain is the critical section: what a thread does
between acquiring `mux_` and giving it up is one action, because no other
thread can see the middle of it.  The exception is a running task, which is why
`TakeTask` and `FinishTask` are two actions between which `mux_` is held.  The
condition variable follows the standard: `wait` releases and sleeps atomically,
`notify_one` wakes any waiter or, if there is none, is lost, and waiters may
wake for no reason (`SpuriousWakeup`).  A worker that has been woken has to
acquire the mutex and looks at the predicate again.

`SerialExecutor` is what all this promises to the user: submitted tasks begin
in order, one at a time, none after `Close`.  `ThreadPool!Executor` is the
refinement mapping: the task in progress is the local variable `task` of the
worker that holds the mutex, and the executor is open until `done_` is set.

### HttpServer, SerialServer

Composes the pool (`Pool`, an instance of `ThreadPool` whose tasks are the
accepted clients and whose only offerer is the listener) with the main thread
(`main`), the listener thread (`listener`), the kernel's queue of connections
(`backlog`), the pipe (`piped`) and signals.  Every operation of `ThreadPool` is
taken as it is: `Construct`/`Spawn` inside `Start`, `OfferPush`/`OfferNotify`
inside `Accept`, the destructor inside `Wait`.

`handlers[t]` is the stack of signal handlers on thread `t`, each a call of
`Stop` at one of its four steps (`if (!running_)`, `run_ = false`, `write`,
`running_.wait(true)`).  The thread goes on only when the stack is empty.  While
a handler runs, its own signal is blocked on its thread.  Linux gives a signal
for the process to the main thread unless that blocks it, and to some other
thread otherwise; the guard of `Deliver` is slightly weaker (another thread is
eligible as soon as the main thread runs any handler).

`std::atomic::wait(old)` is modelled by its effect: it returns when the value
differs from `old`.  A value that changes and changes back before the waiter
looks is missed, as in the library.  A running `poll` is never interrupted with
EINTR in a way that matters: the only handlers are calls of `Stop`, and one that
runs on the listener does not return while the listener is in its loop.

`conn[c]` is the server's end of a client's socket.  It is shared by the copies of the
client's task: that in the queue, which a worker moves out and destroys, and the
listener's, which live until `Offer` returns (`client`).  Closing it is part of the step
that destroys the last copy: the end of the task, the end of the queue in the pool's
destructor, or `OfferReturns`, if the task is over by then (`LastCopy`).

`process` is the program.  Exceptions that leave a thread end it - of `bind`, of
`accept` (no descriptors, or whatever else the network or a client makes it fail with,
`AcceptErrors`), of the pool's constructor, also halfway through its threads - and so do
the use of a null `pool_` and a client that ends the program while it is handled
(`TaskKills`: SIGPIPE or a failed assertion, both shown in `Connection`).

`SerialServer` is the whole server as its clients and the one who stops it see it,
without threads: clients wait, are accepted, are handled one at a time, and have
their connections closed; the server is open, then draining (nobody is accepted,
those accepted may still be begun), then closed (nobody is begun, who is left is
hung up on), and the program exits only when no connection is open.  Nothing in it
says how a Stop is noticed or who runs a handler.  The connection of a client that has
been handled may linger, but nobody is accepted, and the server does not drain, before
it has been released (`Lingering`, `Release`).  `HttpServer!Serial` is the
refinement mapping: the accepted clients are those in the deque and the one in the
listener's hands, so the push changes nothing; `OfferReturns` is a release if the task
is over, and nothing otherwise; the server drains when the listener
has left its loop and is closed when the pool's destructor has set `done_`.

### Connection

One call of `Handle` on one worker.  The lines of the request and the pieces of the
response (status line, header line, empty line, data) are the units; a line can be a
good request line, a good header, an empty line, body, "malformed", which is everything
that `ReadLine` or the parsing functions reject, or "nul": one that begins with a zero
byte has length 0 to `strnlen`, so that the assertion of `ReadLine` fails and ends the
program (`Aborts`).  The stream is modelled by what matters of the C library: `fgets`
reads ahead any amount (`Receive`), writes fill a buffer (`Put`), a big write is sent at
once (`HandlerWritesMuchData`), and a stream opened `"r+"` that has unread input cannot
be flushed when it is a socket, because the library first seeks back (`Clogged`).  Of
the kernel: reads and writes time out, a reset is reported once, and the next write
after it raises SIGPIPE, which ends the program.  A signal that is handled on the worker
makes its read or write fail with EINTR, in spite of `SA_RESTART`, because the socket
has a timeout (signal(7)); `ReadLine` turns that into a bad request, so a client who is
merely slow may then be told 400 (`"interrupted"`).  These library and kernel facts were
confirmed by experiments.

The client sends any sequence of lines, stalls, resumes, closes or resets at any
moment.  The handler is *any* function that keeps to the comments on
`ResponseWriter` (`types.h:86-99`): it may read the body before it writes, write
a status once, headers, data, flush, go on after the writer has refused, throw
any of the exceptions `Handle` knows, or return - also without having written
anything.  Nothing in these comments or in `SocketWriter` keeps it from writing headers
before the status or without one; the status line that `WriteData` or `MustSend` then
add comes after them.  Each call may fail halfway, between two of the pieces it writes
(`WriteFails`), and the handler may go on after that.

### Service

The handler that `InferenceService::Start` installs, in place of the arbitrary
one.  `Service` extends `Connection`: each of its steps is a step of `Connection`
for one call the code makes (`HandlerWritesStatus`, `HandlerThrows`, ...) or
leaves the connection alone; the service only decides which call comes next.
The refinement needs no mapping: `ImplementsConnection` is `Connection!SafeSpec`
itself, and what holds for every handler holds for this one.  That the service ends, too,
is `EveryConnectionEnds` of the same run.

`req` is what the lines of the connection stand for.  It is chosen among
`Requests` when the router looks at it, since nobody does before.  `at` is the
place in `Router::handle`, `HealthCheck` or `ChatCompletions`: `Route` takes the
first route in the order of registration that matches, `CheckMethod`,
`GetIntHeader`, `ParsePiece`/`ParseReturns`/`ParseThrows`, `ExtractRequest`,
`Generate`, `WriteOK` and `WriteAnswer` follow in the order of the code, and each
that throws names its exception, which `Catch` of `Connection` turns into a
status.  `question` is a history: what `Generate` was given.

A body is a number of pieces, which arrive, stall and get lost like the other
lines of `Connection`; its value is a tree, or `Malformed`.  That parsing a value
takes exactly `Content-Length`, that a malformed body fails at some place, and
that disturbances do not change a value is assumed here and shown in `JsonBody`.
`FindMessageForRole` is `find_if` with a predicate that throws: `Stops` is the set of
places where the search would end, by success or by the exception, and the first
of them decides.  Besides the three handlers of the program a route may lead to
`any`, a handler as arbitrary as in `Connection`; it keeps the steps that the
service does not take (headers, flushes, failing writes) in the checked model.

### Program

`HttpServer` lets a task be one step (`FinishTask`), and `Connection` is one task with
nothing around it.  `Program` puts them together: the worker that runs the task of a
client takes the steps of `Handle` (`GoesOn`), among all the steps of the other
threads, and the task ends (`EndTask`), which closes the socket, when `Handle` has
returned or has thrown what the lambda in `Accept` catches.  Two things cross the
border between the modules: SIGPIPE ends the whole program, and a signal handler that
returns on a worker interrupts its read (`IsInterrupted`).  The handler is the
arbitrary one of `Connection`; `ImplementsConnection` of `Service` says that the
program's own is one of those.

The pool runs one task at a time, so one set of `Connection`'s variables is enough:
it belongs to the client whose task is running, and is as in the beginning otherwise.
This is proved, not assumed (`AtRest`).  `coming`, what the client will send, is chosen
when its task begins.  What a client does before is left out, since it can do the
same when the task begins and nobody looks earlier.

`ImplementsServer` says that this is an `HttpServer`, fairness included: every task
returns, although its client stalls, or ends the program.  `ProgramAssumption` says when
it may: `TasksMayKill` if and only if clients may hang up or send a line that begins with
a zero byte.  That it does so for no other reason is part of `ProgramImplementsServer`.
What `HttpServer` takes for granted about tasks holds, then, and the liveness of the
server - it comes up, serves, shuts down - is checked of `Program`, with nothing assumed
of tasks.

### JsonParser, JsonValues, JsonBody

`JsonParser` translates the methods of `Scanner` and `Parser` one by one.  Each
is an operator from the state of the parser (stream, size, position, one
character and one token of lookahead) to its next state; an exception is a field
of the state after which nothing happens.  The stream is a sequence of
characters and of reads that time out (`Late`) or fail (`Reset`), so that the
model reproduces what the code does after a timeout: `Peek` takes it for the end
of the input, `Advance` throws, and the next call simply reads on.

A loop over characters of one class is the longest run of them (`RunOf`); the
loop of a string and that of `Parse` are functions of the number of rounds.  The
recursion of `Parser::Value` is a stack: `calls` holds the calls that have not
returned, each with the list it is building, and one `Round` looks at a token of
the innermost (`Value`), or is one round of its loop (`Element`); `Returns` hands a
value to the call below.  There is no RECURSIVE operator in it, so that it can be
proved about.

Characters are reduced to the classes the code tells apart: two digits, and one
letter for each of the words `true`, `false` and `null`.  `std::stod` is
modelled by "the longest numeral at the beginning", the value of a number by its
numeral; hexadecimal numbers, infinities and overflow are left out.

`JsonValues` is `operator<<` (`Printed`) and `operator==` (`Eq`) of values; the
latter loops over the members of one side only.  Both are recursive.  What a numeral
means is a sign, significant digits and the place of the point (`Number`), which is
what two equal doubles share (`SameNumber`) and what is printed: `PrintedNumber` cuts
the digits to `Precision` (6 in the program), takes zeros off the end, and writes the
number with an exponent if that is less than -4 or at least `Precision`, as `%g` does.

`JsonBody` lets a client mean one of `Sources`, write its document, and send it with a
pause, a reset or the end of the connection at one place, with a byte more than
`Content-Length` or with a `Content-Length` one byte short.  (To the parser a read that
a signal interrupts is like a reset: the exception ends it.)  `MCJsonBody` chooses the
sources - sequences of lexemes, lists of a few lexemes or members in brackets, numerals,
and printed values -, and compares the result with a
reference grammar on the lexemes, with the value that was printed, and with the parse
of the undisturbed document.

### Safetensors, ModelFiles

`Safetensors` is the arithmetic of `LoadFile`.  A number is the set of the
positions of its bits, so that `|` is union, and the widths of the types
(`ByteBits`, `IntBytes`, `SizeBytes`) are bounds on positions.  A byte is promoted
to `int` without a sign, shifted within the width of `int`, and widened *with* a
sign when it is combined with the `uint64_t`.  The last four bytes are shifted
by more than `int` is wide; each of them may wrap around, as the instruction does,
or contribute nothing (`HeaderSizes` is the set of all outcomes).  `Halves(n)` are
the numbers `n >> b`: from them come the bits of a number (`BitsOf`) and whether it
fits in a width (`Fits`).  `Narrowed` is the conversion of a size to the `int` that `Parse`
takes: the bits that fit, the uppermost of them being the sign.

`ModelFiles` is `LoadConfig`: five JSON files and the safetensors file, read in
the order of the fields; the first failure ends it.  Files are absent, empty or
have contents, of which one is an arbitrary document of `JsonBody`; the safetensors file
may also be cut off in the middle of the header, before its last character, or within
the bytes of the size (`Truncated`).  `ParseFile` narrows the size of the file,
`LoadFile` that of the header.  `LoadFile` compares the header size with nothing and
does not notice that an empty file cannot be mapped.  A header that is longer than the
rest of its file ends with the zeros that fill the last page, which are no JSON, or
behind that page, a fault (`beyond` chooses); a size that is no positive `int` makes no
string at all.

## 3. The runs

| run | question | bounds |
|---|---|---|
| `pool` | Order, mutual exclusion, lost wakeups, shutdown; refinement of `SerialExecutor` with liveness; does the destructor return? | 3 workers, 2 offerers, 3 tasks; no symmetry, since liveness is checked; 11342 states |
| `pool_slow_task` | *violation*: do the workers run in parallel? | 2 workers, 2 tasks of which one need not return |
| `server_safety` | What must hold in the harshest environment: early and repeated signals on any thread, port known in advance, port taken, no workers, a thread that cannot be started, descriptors running out, other errors of `accept`, clients that end the program, a listener that outlasts a task; refinement of `SerialServer` | 2 workers, 3 clients, 2 signals, 2 deliveries, 2 descriptors; symmetric; 153282 states |
| `server_no_pool` | *violation*: is `pool_` there when a client is accepted? | port known in advance, no early signals |
| `server_early_signal` | *violation*: is a signal during `Start` honoured? | 1 early signal |
| `server_second_signal` | *violation*: does a second SIGINT do harm? | 2 deliveries of one signal after `Start` |
| `connection` | Head before handler, order of the response, status of bad heads, delivery; the service: status of every request, no 200 without an answer, delivery of the completion; refinement of `Connection`; does every connection end? | every sequence of up to 5 lines, 4 pieces written by the handler `any`, 62 requests: every fault of a request, every sequence of up to 2 of 6 messages, some of 3; 1741050 states |
| `connection_unread` | *violation*: does the answer reach a client whose body is not read? | 3 lines, 5 pieces |
| `connection_hang_up` | *violation*: does the program survive a reset? | 3 lines, 5 pieces |
| `program_safety` | Does every connection keep the promises of `Connection` inside the server? Does its socket stay open, and is a slow client told 408? | 1 worker, 2 clients, 1 signal delivered twice, 2 lines, also with zero bytes, 1 piece, 2 descriptors; no hang-ups; symmetric; 2586126 states |
| `program_live` | One signal after `Start`: does the program come up, serve every client and shut down? Do tasks behave as `HttpServer` assumes? Refinement of `HttpServer` and `SerialServer`, all with liveness | 1 worker, 2 clients, 1 signal, 2 lines (request line, empty line, zero byte); no hang-ups; 116252 states |
| `json_body` | Which documents does the parser accept and with which value, do timeouts or a cut change a value, how much is read? Is equality equality? When is a model loaded, and is each value the one of its file? | every document of up to 3 lexemes, every list of up to 3 lexemes or members in brackets, 11 numerals (2933 documents in all, of which 2220 are lists and 70 are JSON), and the printed form of 127 values up to depth 3 (10 of them are not read back), each with up to 3 timeouts, a reset or the end at any place; each as one of the six files, that of the tensors also cut off, with types a quarter as wide; 2 significant digits for 6; 280783 states |

Why the bounds are enough.  *Pool*: the interesting races need two workers (one woken,
one that steals the task), two offerers between push and notify, and a third task behind
them; a third worker lets one sleep through all of it. *Server*: three clients with two
descriptors exhaust the descriptors while one client is queued, and one client can be
over while the listener still holds it and the next waits; two deliveries nest a handler
in a handler and put a second one on another thread.  *Connection*: five lines are a
request line, a header, an empty line and a body of two pieces, so each place can be cut
off, malformed, or followed by more; a handler may write as long as fewer than four
pieces are written, which is enough for a header, the status with its own header and the
empty line with data after them, or for a first call of `WriteData` without data, which
sends a status and the empty line, and a second one, each before or after a failure of a
call or of the handler.  *Body*: a number is peeked at up to three times when it ends,
so three timeouts in a row reach every one of these peeks; three units in brackets are
two elements or members with what separates them (`[1,1]`, `{"":1,"":1}`), or with what
must not (`["" 1]`, `{"":1 ""}`, `[1,]`); numbers have all parts, no more than two
digits, more than two - with two digits printed for six, 112 stands for 1111111111,
which is printed with an exponent -, and exponents on both sides of the limits of a
fixed point; values have nested lists and objects, and strings that contain the other
symbols, a quote, a backslash or a newline.  *Program*: a second client is what shows
that nothing of the first is left behind; a second delivery is what reaches the worker;
two lines are a request line and whatever ends the head, spoils it or ends the program,
and `connection` has the longer ones; a second worker would wait for the mutex, as in
`server_safety`.  For liveness two lines are enough to have connections that reach the
handler, are late, cut off, or end the program while another client waits; the handler
of this run writes nothing, and that any other ends, too, is `EveryConnectionEnds`, with
five lines; how several workers are woken is the liveness of `pool`.  *Service*: two
messages are enough for each outcome of the two searches, and the longer documents put a
message before, between and behind those that count; a body of two pieces can be cut in
the middle.  *Files*: with a `uint64_t` of eight bits, an `int` of four and a byte of
two, headers and files pass the sign bit and the width of `int`, which real ones would
need 2 GB for.

`CHECK_DEADLOCK FALSE` is set where the system really stops: a server that hangs
in a signal handler, which the violation runs are about and the safety run also
reaches.  Elsewhere deadlock is checked, and the regular end of the program is
an explicit stuttering step (`Terminated`, `Ended`, `Finished`).

### Fairness and why the code justifies it

Weak fairness for every thread: the scheduler runs a thread that can run.  Mutex
acquisition is only weakly fair as well, and that is enough here because tasks
are finitely many in every instance, so no one can be overtaken for ever.
`FinishTask` is under fairness: tasks return.  `Connection` is where this is
shown rather than assumed (`EveryConnectionEnds`), and `ImplementsServer` of `Program`
shows that it is enough for the server: the threads are fair in `Program`, its clients
are not.  In a connection, reads and writes time out and
the handler makes finitely many calls.  `Service` assumes the same and no more:
the worker runs, and the one step of another party under fairness, a read, ends
by a timeout at the latest.  `Connection` is also where it is *limited*: a
client that sends a line now and then delays each read by less than the timeout,
so the time a connection takes is bounded only by the number of lines; the
`pool_slow_task` run shows what this does to everybody else.  Nobody has to
connect, send signals or offer tasks, and spurious wakeups are not fair.

### What the violation runs show

1. **One task at a time** (`pool_slow_task`).  `task()` is called with the mutex
   held (`thread_pool.cc:22-28`), so a pool of seven workers serves one client
   at a time, against README.md:20 and 63-64.
2. **Accepted before there is a pool** (`server_no_pool`).  The listener starts
   before `pool_` is assigned (`server.cc:257-258`); a client of a fixed port can
   be offered to a null pointer.
3. **A signal during start-up** (`server_early_signal`).  `Stop` returns at once
   while `running_` is false and nothing remembers the request.  The same
   configuration holds a second trap: a `Stop` that comes after `running_` was
   set and ends before `Start` has looked makes `running_.wait(false)` miss the
   change, and `Start` waits for ever.
4. **A second SIGINT** (`server_second_signal`).  While the main thread waits in
   its handler a second signal is handled on another thread.  On the listener,
   `Stop` waits for the listener itself.
5. **An unread body** (`connection_unread`).  With unread input in the stream the
   response cannot be flushed, and nobody looks at the result of `fflush`.
6. **SIGPIPE** (`connection_hang_up`).  A reset is reported as a bad request;
   writing the 400 to the dead socket kills the program.

More things the models show without a run of their own. `WriteStatus` alone never writes
the empty line that ends a head, so `/healthz` and all error responses lack it, and the
repository's own client calls such a response invalid (`test_client.cc:114-117`).  A
handler that writes a header first has it sent before the status line.
`ResponseKeepsOrder` therefore does not say that a response is complete or begins with a
status; it says what the code does keep to: the empty line comes once, after headers and
a whole status line and before the first data, and a response that begins with a status
has no second one.  A line that begins with a zero byte ends the program by an assertion
(`server.cc:39`), an error of `accept` by an exception; no document speaks of either (of
hang-ups a test does, and they are the last run above).  The model also reaches
responses with a hole: a short `fwrite` counts as success, and a handler that writes on
sends what comes after.  No document promises otherwise to a client that stopped
reading, so no run is about it.

## 4. The proofs

All theorems hold for every value of the constants, from the named assumptions
(`PoolAssumption`: `NoTask` is no task and `Free` is no worker;
`ServerAssumption`: likewise, and the threads are distinct; `ConnectionAssumption`:
`NoStatus` is no number, the bounds are; `ServiceAssumption`: there are finitely many
routes, with the handlers that exist, sizes are integers, and what clients may ask
for is kept apart from `None`; `JsonBodyAssumption`: documents are made of the
characters that the code tells apart; `SafetensorsAssumption`: the widths are positive
and a `uint64_t` is wider than an `int`; `ProgramAssumption`: that of the connection,
inside the server, and that clients may end the program exactly if they may hang up or
send a line that begins with a zero byte).

**ThreadPoolProofs.**  `PoolInv` is the inductive invariant: the five safety properties
together with `TypeOK` and two parts that tie the program counters to the rest of the
state.  `TaskWhileRunning`: a worker has a task exactly while it runs one.
`OwnerOrder`: `done_` is set exactly from `DestroyMark` on, by which time nobody is
inside `Offer`; the queue is empty before the constructor has returned; unborn workers
exist only during construction; a worker has exited only if `done_` is set; and a pool
in use has at least one worker.  `NoLostWakeup` needs the last two: the step that could
break it, a worker going to sleep or away with a task queued, is impossible because the
predicate is evaluated with the mutex held, and a push finds either somebody awake or
its own notification still to come, which then wakes one of the sleepers that must
exist.  From `Init => PoolInv` and `PoolInv /\ [Next] => PoolInv'` (one step per action)
follow `PoolTypeCorrect`, `PoolOrder`, `PoolMutualExclusion`, `PoolNoLostWakeup`,
`PoolShutdownWakesAll`, `PoolGoneMeansQuiet`, `PoolStopsAtOnce` (an action property),
and `PoolImplementsExecutor`: every step is a step of `SerialExecutor` or a stutter
(`StepRefines`).

**HttpServerProofs.**  Every safety property of the server that the runs check,
with whatever signals arrive, on any number of clients, workers and threads:

* `ServerPoolOutlivesListener`: the destructor of the pool starts only after the
  listener has ended.  `ResetAfterJoin` adds where the main thread is, and that the
  listener never comes back.
* `ServerUsesPool` shows that every step of the server is a step of `ThreadPool` or
  leaves the pool alone (`HandOver`: what is offered is a client).  The theorems about
  the pool carry over (`ServerPoolSafety`), by instantiating `ThreadPoolProofs`.
* `ServerStopsAccepting`: nothing is accepted after a `Stop` has returned.
  `StopSeesTheLoop`: `running_` is set exactly while the listener is in its loop, so a
  call of `Stop` past its check has seen the loop begin and waits for its end.
* `ServerServesInOrder`: the clients offered, the one in the listener's hands and
  those the kernel holds are, in this order, those that connected (`NoneLost`);
  with `TasksStartInOrder` of the pool, clients are served in order.
* `ServerOpenWhileNeeded`: there is at most one copy of a client's task in the pool, and
  its descriptor is open exactly as long as the listener has not returned from `Offer` or
  that copy has not been run or dropped.  In `OnePlace` the kernel's queue, the
  listener's hands before the push, the deque and the workers are places of which a
  client is in one at most, while the client that the listener still shares after the
  push may be in the deque, at a worker or in none; with `OneWorker` there is no second
  copy (`OnePlaceIsOpen`).  `LastCopyIs`: the listener closes the socket exactly if it is
  alone with it.
* `ServerTypeCorrect`.
* `ServerImplementsSerialServer`: every step of the server is a step of `SerialServer`
  or is not noticed by it (`StepRefines`, one lemma per thread).  The invariant is the
  sum of those above (`SerialInv`), with the queue of a pool that is gone being empty:
  `ResetAfterJoin` makes the destructor's mark a step from draining to closed,
  `StopSeesTheLoop` puts the return of a Stop after the draining has begun, `OnePlace`
  says that the client a worker begins is still connected, that none is when the
  program exits, and that nobody's connection lingers when the listener is back in its
  loop (`NothingLingers`), and the pool's mutex lets nobody be begun or closed under a
  handler.

**ProgramProofs.**  The theorems about the parts are brought together.
`ProgramImplementsServer`: each step of the program is one of `HttpServer` or is not
noticed by it (`StepOfServer`).  The step at which `Handle` ends the program is one that
the server allows because it comes from a client that has hung up or from a line that
begins with a zero byte (`KilledByHangUp`, `AbortedByNul`), which there are only where
the constants say so (`NobodyHangsUp`, `OnlyLineKinds`).  So all that is proved of the
server holds of the program, and `ProgramIsSerialServer` follows.  In the other
direction, `AtRest` says that the connection's variables are as in the beginning while
nobody holds the pool's mutex; that a worker with a task holds it comes from the pool's
invariant.  Hence each step is one of the connection in progress, leaves it alone, or
begins a new one (`StepOfConnection`), and `ConnInv`, the invariant of
`ConnectionProofs`, holds for every connection in succession: `ProgramTypeCorrect`,
`ProgramConnectionsAreSafe`. `ProgramSocketOutlivesHandle` combines it with `OnePlace`
of the server: the client of a running task is in the hands of one worker, and nobody
else closes its socket. `ProgramSlowClientsAreToldSo` takes both sides: a read is
interrupted only when a handler returns on a worker (`Interrupted`), a signal reaches a
worker only while the main thread is in a handler of an earlier one (`SecondSignal`),
and a head that is late for any other reason is reported as 408 (`BadHeadIsReported`).

**ConnectionProofs.**  The safety properties of `Connection` for any client and any
handler, whatever the length of request and response. `HeadProgress` says how far the
head has been taken off the stream at each place of `Handle`
(`ConnectionHandlerSeesWholeHead`).  `ResponseSoFar` with `ErrorCaught` relates
`status_` and `sending_data_` to what has been written, whose order is `Ordered`; one
lemma for each piece says what it may follow (`AddStatusLine`, ..., `AddLead`), and
`FailureSoFar` what is left of a call that fails halfway
(`ConnectionResponseKeepsOrder`).  `Delivery`: as long as the client stays, what was
written is what is on the wire and what is in the buffer; the buffer is empty at the end
unless unread input has clogged the stream (`ConnectionNothingIsHeldBack`).  `Report`:
nothing is written before a head has failed, and the exception that `Handle` catches
explains what was taken (`ConnectionBadHeadIsReported`).

**ServiceProofs.**  `ServiceImplementsConnection`: every step of the service is a step
of `Connection` or a stutter.  It needs `ReadsBeforeWriting`, since an arbitrary handler
may read only before it writes.  `ServiceConnectionSafety` carries the theorems about
connections over.  `ServiceSuccessMeansAnswered` rests on `Progress` (where the handler
is tells what it has found out about the request) and `Success` (200 comes from
`HealthCheck` or after `Generate`), together with lemmas about `Extract`: it returns the
first message of either role exactly if the body is a conversation, which is stated
without reference to a search (`ExtractSucceeds`, `ExtractErrors`,
`ExtractsConversations`).  `ServiceStatusFits` adds `HeadMissing` (a request that was
never routed had no head) and `Verdict` (each exception and each status is what the
request deserves).

`ServiceCompletionReachesClient`: when parsing has taken
`Content-Length` and the client sends no more, the stream is empty, so nothing keeps
the response back.  `BodyFollows`: what comes after the empty line is body, in
whichever buffer it is; counting it on both sides of the stream shows that none is
left (`NothingLeftUnread`).  `Answering`: after `Generate` only the status and the
data are written and nothing fails.  With `Delivery` the completion is on the wire.

**JsonProofs.**  For documents of any length, with reads that time out or fail at any
place of the stream.

* `BodyTakenExactly`: what has been taken from the stream is never more than
  `Content-Length`, and all of it when the document is accepted.  The lookahead makes
  this delicate: a character that has been read counts as not read (`pos_` goes back)
  until it is taken.  `IsScanner` ties the two: a character is looked ahead at only if
  `pos_` is below the size, `pos_` never passes it, and the lookahead is the head of
  what is left.  Every method keeps that (`GetCharMoves`, `UngetCharMoves`, ...,
  `ScanGets`, `EatReads`).
* `TypeCorrect`: the result is a JSON value, in which every number is a numeral, at
  every depth.  The invariant of the parser (`IsParser`) says it of all the lists on
  the stack of calls; `GoodFromParts` lifts it from the parts of a list to the list.
  That `std::stod` gives a numeral whenever it gives anything is `StodIsNumeral`.
* Both need that the loops come to an end within the rounds that the model gives them.
  `Rounds` bounds what is left to do by what is left to read: each pair of rounds
  takes a token (`RoundParses`), so that after `2 * Len(stream) + 1` of them the stack
  is empty or an exception has been thrown (`ParseEnds`).  A read that times out
  is gone from the stream, so the bound holds for disturbed streams, too.
* Recursive functions (`after`, `parts`, the longest run) are shown to exist by a
  minimal counterexample (`LeastOf`), since the induction theorems of the library
  cannot be used.

**JsonBodyProofs.**  `ValueUndisturbed`: pauses, resets, a connection closed early and
what comes after the body never change the value that `Parse` accepts, for documents
of any length and pauses of any number.  The claim is about two runs of the parser, on
the stream and on the document, so the proof takes them side by side.

* A *reading* (`IsReading`) says which place of the document each element of a stream
  stands for; pauses and resets stand for none.  Every stream of `Send` is a reading
  (`SentForIsReading`), and so is the document (`Unbroken`).
* Inside a token the two scanners are `Together`.  Each method of the scanner keeps
  that, fails, or is `Cut`: a pause has ended its number or word early, so that the
  next character of the document is one that belongs inside (`PushWordTogether`,
  `ExponentTogether`, `ScanNumberTogether`).  A string cannot be cut, as `Advance`
  takes a timeout for an error (`ScanStringTogether`).
* Between tokens they are `Near`: they are apart by white space at most, because one
  of them may have skipped it already (`SkipNear`).  With the same lookahead and the
  same stack they are `Alike`, which `Peek`, `Eat`, `Value` and `Element` keep
  (`PeekAlike`, `EatAlike`, `ValueAlike`, `ElementAlike`).
* A parser whose token was cut is `Doomed`.  Its value is kept, but the next token is
  another number or word or none at all (`ScanCut`), never the comma, bracket or brace
  that a list needs, and at the end of the document `Trailing` finds the rest
  (`DoomedRound`).  This is the step that a test would not reach: the scanner does
  return a wrong number, `1` for `12`, and only what follows saves the parser.
* Both runs are counted in rounds of the same parser, of which the shorter one stands
  still when it has ended (`RoundsAbreast`, `ParseReading`).

**ModelFilesProofs.**  For every width of the types: a header whose size is a positive
`int` is read as what the file says, whatever the undefined shifts do
(`HeaderSizeIsLittleEndian`); one whose size has the sign bit gets all upper bits set
(`SignExtendedSize`).

`ModelReadWhole` carries this from bits to files, for documents of any length and files
that are cut off anywhere (`Directories` is what a directory may be, and
`DirectoryHasFiles` says what is in it).  A number that
fits is given back by its bits (`BitsGiveNumber`), every bit has its place in a byte
(`Places`), so `LoadFile` has the length of the header (`LengthIsRead`).  A size that
becomes an `int` stays what it is if it is positive, and is below zero if it has the sign
bit (`NarrowedIs`); with a negative size nothing is parsed, and nothing is no document
(`NothingToParse`).  With the sign bit, the header's size is more than what follows in the
file (`SignIsSet`), because its upper half is at
least three where that of the length is one, and halving keeps neighbours together
(`LengthTooLarge`, `HalvesClose`).  A file that ends within the size never makes a
document (`StubIsNotRead`), and the rest is a case for each kind of file (`FileIsParsed`,
`TensorsAreLoaded`).  Then a model is loaded exactly if every file is whole, and each value
is that of its own file (`LoadedIs`, `LoadConfigReadsWhole`).  `ModelBodySafety`: the three
theorems about bodies hold beside a model that is loaded, where `json_body` checks them.

**Only model-checked.**  All liveness (the prover has no fairness or ENABLED): the
pool's destructor, the program's end, that every connection ends, and the fairness parts
of the refinements, of `ImplementsServer` among them.  `AcceptsTheGrammar`,
`PrintedIsReadBack` and `EqualityTellsValuesApart`: the grammar, the printing and the
comparison of values are recursive over data, which is out of the prover's reach.

## 5. What is left out

Components that are not modelled, or not completely:

* *The command line* (`main.cc`, `ParseConfig`): one pass over `argv` before any
  thread runs, which keeps no state but the configuration.  What it may let through,
  a number of workers that cannot be started, is `StartThrows` of `HttpServer`.
* *`FindDefaultModelDir`* (`config.cc`) returns whichever entry the file system lists
  first; README.md says so too.
* *The operators of `ArrayValue`* that count or throw (`json.h`): nobody calls them
  out of range.  The `const` downcasts (`json.h:85-90`) call themselves; nobody
  calls one.
* *Generator and tokenizer* are stubs: a constant answer and an empty class.
* *Printing of requests and methods* (`http/types.cc`) is formatting.
* *Logging*: the level is set once, before any thread is started, and no decision
  depends on a message.
* *The test client*, the tests and their framework are not part of the program.  The
  client repeats a request after ECONNRESET; the server's side of this, a
  connection that ends anywhere, is in `Connection`.

Within the modelled components:

* Log output, texts of headers and messages, addresses, and the log line of
  `Handle`.  It reads `*resp.status()` even if the handler wrote nothing;
  `StatusFitsRequest` says that the program's own handlers always write a status.
* Memory: allocation failures, the leaked `FILE` of every connection, the
  allocator's lock that a signal handler may find taken.
* The data race on `pool_` is modelled by interleaving: the listener sees it
  null until the constructor has returned.
* `HttpServer`'s destructor (the program never deletes the service) and a
  second `Start` (no caller has one; the source has a TODO).
* In `JsonParser`: hexadecimal and overflowing numbers, which `std::stod` reads, and the
  end of the thread's stack.  `Parser::Value` calls itself without a limit
  (`parser.cc:235`, `251`), so a document that is nested deeply enough ends the program;
  the stack of `calls` has no limit.
* In `JsonValues`: digits above 2, with which printing would round up, and exponents of
  three digits.
* In `MCJsonBody`: two numbers in a row, which are one.
* In `ModelFiles`: the contents of memory behind the last page of a file, which are taken
  to fault or to spoil the document, and documents that the zeros within the page would
  complete (zeros are not JSON); what is parsed of a file of 2^32 bytes or more, as much
  as the lower bits of its size say.
* In `Service`: regular expressions (a route is the set of paths it matches) and
  the fields of a response other than its message, which are constants.

## 6. How the project is ordered

The most important behaviour comes first.

1. `SerialExecutor`, `ThreadPool`: state machine, refinement, liveness, proofs.
2. `HttpServer` over `ThreadPool`: lifecycle, signals, clients.
3. `Connection`: `Handle` against any client and any handler.
4. `ThreadPoolProofs`, `HttpServerProofs`, `ConnectionProofs`: the invariants and
   the transfer of the pool's theorems.
5. `JsonParser`, `JsonBody`: the scanner with its byte budget and the recursive
   descent parser against a grammar, timeouts inside a value, trailing data, equality.
6. `Service`: router and handlers as a refinement of the arbitrary handler of
   `Connection`; `ServiceProofs`.
7. `Safetensors`, `ModelFiles`: the files of a model; `JsonProofs`,
   `JsonBodyProofs`, `ModelFilesProofs`.
8. `Program`: the server with its connections; `ProgramProofs`.

When the code grows, the next things to model are a generator that takes time or
fails (`Generate` is one step that always succeeds), the tensors behind the header,
and a pool that runs its tasks without the mutex (then `OneTaskAtATime` goes, and
`SerialExecutor` becomes an executor of as many tasks as there are workers).

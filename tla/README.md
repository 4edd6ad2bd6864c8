# Verification of the socket.io stress test client

The repository is a stress test for socket.io servers. `manyclients.sh` starts
many `websocketclient` processes; each reads a script from a JSON file
(jsoncpp), fetches a token over HTTP (cpp-netlib), opens a WebSocket with
WebSocket++ (vendored, and partly modified, under `src/parts/websocketpp`) and
plays the script, one request per event that the server sends back. This
directory models that program in TLA+, model-checks it with TLC and proves the
safety of its connection (plain and over TLS), of the client with its script, of
the frame reader, of the request for the token, of the reader of the script file
and of the launcher with TLAPS.

Paths below are relative to the repository; `connection.hpp`, `client.hpp`
(in `roles/`), `endpoint.hpp` and `hybi.hpp` are those of
`src/parts/websocketpp/src`, `tls.hpp` is in its `sockets/`, `sync_base.hpp` in
`src/parts/cpp-netlib/boost/network/protocol/http/client/connection`, and
`json_reader.cpp` in `src/parts/jsoncpp/src/lib_json`.

## 1. The system

| Component | State it keeps | Operations | Module |
|---|---|---|---|
| Launcher `manyclients.sh` | `PIDLIST`, the trap, `FAIL` | spawn loop, trap, wait loop, report | `ManyClients` |
| Program `websocketclient.cpp` | exit status | usage, set-up, `run()`, exit | `SocketIOClient` |
| `ActionSequence` | `_actions`, `_lastIndex` | constructor, `nextAction()` | `JsonReader`, `SocketIOClient` |
| JSON reader (`json_reader.cpp`) | position, `nodes_`, `errors_` | `parse`, `readValue`, `readArray`, `readObject`, `recoverFromError`, `decodeNumber`, `decodeUnicodeCodePoint` | `JsonReader`, `JsonText` |
| `SocketIOHandler` | `sessionid`, `heartbeat` timer | `on_open`, `on_message`, `on_close`, `on_fail`, timer callback, `loadToken` | `SocketIOClient`, `TokenFetch` |
| HTTP client (`sync_base.hpp`) | response buffer, body | `init_socket`, `read_status`, `read_headers`, `read_body` and its three forms | `TokenFetch` |
| Connection (`connection.hpp`) | `m_state`, `m_detached`, `m_timer`, write queue and state, read buffer | `send`, `close`, `pong`, `send_close`, `send_close_ack`, `write_message`, `write`, `handle_write`, `handle_read_frame`, `terminate`, `fail_on_expire` | `WSConnection` |
| Client role (`client.hpp`) | the operation of the opening handshake | `connect`, `handle_connect`, `write_request`, `handle_write_request`, `read_response`, `handle_read_response`, `run` | `WSConnection` |
| Plain socket, endpoint | open or shut down; known connections | `async_init`, `shutdown`, `remove_connection` | `WSConnection` |
| TLS socket (`tls.hpp`) | the TLS stream | `async_init`, `handle_init`, `shutdown` | `TLSConnection` |
| Frame processor (`hybi.hpp`), header (`hybi_header.cpp`), messages (`data.cpp`, `control.hpp`) | header state, bytes needed, message under way, masking index | `consume`, `get_bytes_needed`, `reset`, `prepare_frame`, `process_payload`, `complete` | `FrameReader`, `FrameFormat`; `WSConnection` by outcomes |
| UTF-8 validator | state of the table | `decode` | `Utf8Validator` |
| Message pool, HTTP parser of WebSocket++, server role, `hybi_legacy`, hashes, base64, loggers, the rest of cpp-netlib and jsoncpp | | | not modelled, section 8 |

How they interact. A client process has one thread, in `io_service::run()`.
Everything after the set-up happens in completion handlers, which the
`io_service` runs one after another in the order they became ready: operations
on the socket, two timers (the close timer of the connection and the heartbeat
timer of the handler) and posts. The connection calls the handler object
(`on_open`, `on_message`, `on_close`, `on_fail`), and the handler calls back
into the connection (`send`, `close`), which posts more handlers. The launcher
sees a client only by its process id and exit status.

What is hard. `send()`, `pong()` and the two kinds of close do not write; they
post `write_message()`, which queues, while `handle_write()` of an earlier
frame may already be waiting. A read, a write, the close timer, a close of the
peer and a call of the handler can all be under way when `terminate()` runs,
and each of their handlers still runs afterwards. The reader keeps itself
going by a new `async_read` at the end of each handler. Timers that expire
just before they are cancelled or set again have their handlers queued
already. With TLS, `shutdown()` blocks the thread that would have to run the
close timer. Below the messages, a TCP stream cuts frames, HTTP responses and
characters where it likes, and every parser here keeps its own idea of where it
is. In the launcher, a signal can arrive between any two commands, and
the trap kills the process ids of the time it was set.

What makes the components correct:

* connection: frames leave in the order of submission, nothing follows a close
  frame, one write and one reader at a time, a closing connection has a
  deadline and does close, the handler hears of the end once;
* TLS: nothing is said before the handshake, the connection is shut down once,
  and only the peer can hold it up;
* frames: whatever the segments, the messages are those of the peer's frames;
  nothing legal is refused; text is UTF-8; no read waits for bytes that need
  not come;
* token and file: only bytes of the body get into the token; a file of JSON
  becomes its items, and what follows an error does not;
* handler and script: requests are sent in order, each once, and only as many
  as the script asks for; one session id fills all placeholders; nothing keeps
  the process alive once the connection is closed;
* program: the run completes with a cooperative server, and it exits in any
  case once the connection closes;
* launcher: the report is true and counts every crash, and no client is left
  running unnoticed.

The full list of hazards, each at its line, is in `PROJECT.json`.

## 2. The modules

```
WSConnection            the connection, for any handler object
  WSConnectionInvariant   its inductive invariant
    WSConnection_proofs     the queue, steps, theorems, messages   (proofs)
    MCWSConnection          the widest handler; run `connection`
  TLSConnection           the same with tls.hpp; implements WSConnection
    TLSConnection_proofs    its two phases, and the mapping        (proofs)
    MCTLSConnection         run `tls`
SocketIOClient          one run of websocketclient = WSConnection + handler + script + main()
  (INSTANCE ScriptRun)    what a run promises to the author of a script
  SocketIOClient_proofs   the handler's phases, the log, pacing    (proofs)
  MCSocketIOClient        scripts; run `client` and the four counterexamples
  SocketIORun             composed with the server it is meant for
    MCSocketIORun           run `run`
FrameFormat             frames and the headers the library writes
  FrameReader             bytes to messages; uses Utf8Validator
    (INSTANCE MessageStream)  what the reader promises
    FrameReader_proofs      the position and the stream            (proofs)
    MCFrameReader           run `frames`
Utf8Validator           the decoder table and what it ought to decide
  Utf8Validator_proofs    it decides that, byte by byte            (proofs)
TokenFetch              the HTTP request for the token
  TokenFetch_proofs       its place in the response, and the body (proofs)
  MCTokenFetch            responses; run `token`
JsonReader              the tokens of a file to the items of a script
JsonText                whole numbers and \u escapes; uses Utf8Validator
  MCJsonReader            JsonReader and JsonText; run `file`
    JsonReader_proofs       where each call's value ends; the texts (proofs)
ManyClients             the launcher; a client is its life from start to exit status
  ManyClients_proofs      its invariant                            (proofs)
  MCManyClients           run `launcher`
```

How the parts fit: `TokenFetch` ends with `"token"` where `SetUp` of
`SocketIOClient` goes on to `run()`, and otherwise where `SetUp` fails;
`JsonReader`'s `Items` are the `Script` of `SocketIOClient` (`IsText` tells the
items that are no text); `FrameReader` is the inside of what `WSConnection`
calls `processor`, which the property `ExpectsAsInConnection` checks; and
`TLSConnection` replaces `WSConnection` in an https run, which the property
`ImplementsPlain` justifies.

### WSConnection

`ready` is the queue of completion handlers of the `io_service`; a handler is
a record with its name, its error code and, for `write_message`, the message
bound to it. `chain`, `reads` and `writes` are the outstanding operations on
the socket, `m_timer` and `app_timer` the outstanding waits. The other
variables are the members of `connection` with their own names, and four
histories: `posted` numbers the messages as they are submitted, `wire` is what
has been written, `received` counts input and `ended` the calls of `on_fail()`
and `on_close()`.

There is one action per completion handler and outcome, and it takes the whole
handler with everything it calls: `HandleWriteClose` for instance is
`handle_write()` for a close frame with the `terminate()`, `on_close()`,
`remove_connection()` and timer cancellations that follow from it. Only
`handle_read_frame()` is split: `HandleReadFrame` enters its loop (`busy`),
each `Consume...` action takes one piece of input through the processor and
its callback, and `ReadLoopEnds` (or `ConsumeViolation`) starts the next read.
While `busy` holds no other handler runs, but the network and the timers go on
adding to `ready`, as they do in the program.

A callback of the user's handler is a record: the call it makes on the
connection (`send`, `close` or none), what it does to its timer before that
(keep, set again, cancel), and whether it leaves by `exit(1)` or an exception.
`Behaviours` is the set of callbacks that may happen; `CallbackReady` and
`CallbackEffects` translate a record into posts, timer changes and the fate of
the process. A callback that throws is taken to be the end of the process: the
destructors that run on the way out do nothing the properties speak of.

Exceptions are modelled by where they end: `"client_error"` for the string
thrown by `handle_connect()`, `"get_data_message"`, `"log_error"` and
`"log_close_result"` for the `websocketpp::exception`s that pass through `run()`,
`"log_open_result"` for the `system_error` of `remote_endpoint()`, `"handler"` for
whatever a callback throws.

The processor is abstracted to what it expects next: the header of a frame
(`"header"`), more of a data message (`"payload"`), bytes that will be
rejected, or nothing; `FrameReader` has its inside. A piece of input is whatever the processor turns into
one of the events of the loop; `ConsumeViolation` covers every
`processor::exception` with a close code.

### TLSConnection

Extends `WSConnection` by the state of the TLS handshake (`tls`), by `blocked`,
which is TRUE while `terminate()` waits in `shutdown()`, and by a count of
these calls. The steps of `WSConnection` are taken over unless they call
`terminate()` on a connection that is not closed: those are split into
`ShutdownBegins` and `ShutdownReturns`, between which nothing runs. (What
`terminate()` does before the call, cancelling the close timer, is taken with
the second half: the only thread is inside the call, so nobody can see the
difference.) A failed TLS handshake reaches `handle_socket_init()` as an error,
which `Plain` maps to a failed write of the upgrade request, and a `shutdown()`
that takes its time is a slow handler; with this mapping every behaviour is one
of `WSConnection`, which section 5 proves.
`tls.hpp` ends TLS only and leaves the TCP socket open, so, other than with the
plain socket, an outstanding read may keep `run()` going after the connection is
closed until the peer drops it; no liveness is claimed there.

### SocketIOClient

Instantiates `WSConnection` with the callbacks of `SocketIOHandler`: each
action is a step of the connection with the callback that this handler makes
in its present state, conjoined with the change of `_lastIndex` and
`sessionid`. `main` and `status` follow `main()`. A script item is given by its
kind: plain text, text with `%1%`, text that `boost::format` refuses, the text
`stop`, or a value that is no text (null counts as text, an array or an object
does not: `asString()`). An empty file, or one that cannot be read, is the
empty script, for which `on_open()` sends the text `stop`; `src/README.md:16` says
that the file has the exact requests. Exit status 1 stands for every status
other than 0 (an uncaught `throw "client error"` is an abort).

### ScriptRun

The abstract specification: requests are delivered in order, each once, the
session is closed normally only after all of them, nothing is delivered after
that, and the run ends with success or failure. `SocketIOClient` implements it
under the mapping `DeliveredRequests` (the requests among the frames of `wire`,
picked out by the recursive function `RequestsIn`),
`OnWire("CLOSE_NORMAL")` and the exit status; this is the property
`KeepsScript`.

### FrameFormat, FrameReader and MessageStream

A frame of the peer is known by its header fields. `frame` and `owed` say whose
bytes are at the reader's position, which no line of the code can see; the
reader's own variables (`m_state` and `m_bytes_needed` of the header, `m_state`,
`m_payload_left` and the two messages of `hybi`) change as the code changes
them. `wanted` is `transfer_at_least` of the outstanding `async_read`, `arrived`
what has come. `HeaderPart` is a header cut by the end of the buffer, and a
payload is taken byte by byte, its bytes chosen when they are read and checked
by `Utf8Validator!decode`. Each check that throws is an action or a branch of
its own, named in `violation`; after the first the model ends, because
`handle_read_frame()` fails the connection there and `WSConnection` allows any
outcome for what follows.

`MessageStream` is the abstract specification: frames one after another,
fragments put together, control frames in between, a message handed over once,
and a refusal only where the protocol's rules or the rules for the bytes are
broken. `StreamSpec` is the refinement; since neither `arrived` nor `m_buf`
occurs in `MessageStream`, it says in particular that segmentation is invisible.
`WritesWhatItReads` compares the parser with `prepare_frame()` of the same
library.

### Utf8Validator and JsonText

Pure functions with a reference definition. The validator's table is given by
the classes of its bytes and its rows; the reference (`Begins`) computes from
the range of code points that a beginning of a character can still become:
shortest encoding, no surrogates, at most 10FFFF. `First` is the first of these code
points (`CodePoint` with the missing bits 0) and `Choices` how many follow it.
`JsonText` has `decodeNumber()` for any width of the type (`maxLargestUInt`; 8 bits
in the run, 64 in the code), and the encoder of escapes, checked against the
validator: what the client puts into a text frame is what a peer with this
validator takes, and it is the character that the escapes stand for. What they stand for is
said without the decoder: they are the character's UTF-16 (`Utf16`, `FirstHalf`,
`SecondHalf`). `decodeUnicodeCodePoint()` does not check what follows the first half of
a pair, and the two exceptions that come of it are named in the property: a second
half that stands alone (`"\udc00"`) is encoded and sent and is not valid, and a first
half before an escape that is no second half (`"\ud800\u0041"`) takes it with it and
becomes some other character, valid but not in the file.

### TokenFetch

`pc` is the library call the thread is in. A call takes pieces of the response
from the network (`ReadSome`) until its completion condition (`Enough`) holds or
an error ends it, and the following step is the code up to the next call. The
response is a sequence of symbols, its body bytes (`Octets`) spelled out, so that a
line end cut in two, a chunk without its line end and two chunks in one piece all
occur. A head is well-formed but for a folded first line: what `read_status()` and
`read_headers()` throw of a status line that is none, or of a header without a value,
ends the fetch like any other failure of the head (`HeadFails`). The chunks of a body are given by where each of them ends in it
(`ChunkEnd`), and so is each one's place in the response (`ChunkStart`); a size line
is one symbol, `Digits[n]` announcing `n` bytes. A client has no timeout here. What the properties show about this code,
and where they name exceptions:

* A connection that breaks in a body with a length, or without one, is taken for
  its end; a token cut short in it is used.
* After a chunk, `consume(2)` drops as much of the line end as has arrived; when it
  comes with a later piece, the next size line reads as empty and ends the body.
  What has been read up to there is made of whole chunks (`WholeChunks`).
* `transfer_at_least(chunk_size)` counts new bytes only: a chunk that is in the
  buffer already is waited for again, until the server closes the connection.
* A Content-Length smaller than what has arrived makes `length` wrap: the loop then
  reads until the connection ends.

### JsonReader

The document is a sequence of tokens chosen as they are read, and `stack` the
calls of `readValue()`, `readArray()` and `readObject()` under way. `Recover` is
`recoverFromError()`, which each failing level runs for its own kind of bracket.
While a call recovers, `]`, `}` and one token for all the others are tried. (`{` or `[` makes
no difference to it: that nothing is opened in between is the point.)
`ActionSequence` keeps whatever the root is, whether or not `parse()` succeeded:
an unparsable file is played with the items up to the error and the one that was
begun (`ItemsOfFile`). A root that is an object with members is no script at all: the
first `nextAction()` fails the assertion of `Value::operator[]`, and `Items` says
nothing of it. `JsonIsAccepted` and `AcceptedIsJson` compare the reader
with the grammar (`ValueEnd`), over all documents of the bounded length. The grammar
is a recursive function on the places of a document, each from those behind it
(`GrammarAt`): where a value, an item or a member that begins there ends. The
liberties the reader takes are named in the properties: the token behind a comment
after a member is taken for the comma, whatever it is (`CommentForComma`), `{"":1,}`
is accepted (`LastComma`), one token after the value is read and ignored; a comment
before a colon and one in an otherwise empty array are refused (`CommentMisplaced`).
`AcceptedIsJson` and `ItemsOfFile` set aside the documents where this may happen,
which are more than those where it does: every document with comments behind a value
and then a token other than `,` and `}`, in an array as well, and every document with
a member whose name is empty and, anywhere, `,}`. Of all other documents, with
comments and with empty names, they speak.

### SocketIORun and ManyClients

`SocketIORun` restricts the environment of `SocketIOClient` to a server that
accepts, reads everything and answers each request with one event, and lets the
heartbeat expire at any time. `ManyClients` follows the script command by
command; bash runs a trap between commands and interrupts only `wait`.

## 3. The runs

| Run | Model | Shows |
|---|---|---|
| `connection` | any handler object at all, with fairness | the inductive invariant of the proofs; frames in order, a close frame last, one write and one reader at a time; a closing connection has a deadline and is closed |
| `client` | `stop` as first item, a placeholder, an item that is no text; with fairness | the promise of `ScriptRun`; the end is reported once; a closed connection leaves no timer behind (`ClientInv`); the process exits |
| `run` | five requests, and two items that are not to be sent, with a cooperative server and fairness | the run completes, one request per answer, one session id in all placeholders; the promise of `ScriptRun` up to the normal close, which `client` never reaches because its third item throws |
| `frames` | 71 frames of every kind, any segmentation, with fairness | the reader implements `MessageStream`; position (`ReaderInv`), masking and UTF-8 are right across fragments; reader and writer agree on headers; a frame that has come is handled without another; `WSConnection`'s view of the processor is right |
| `tls` | any handler object, a slow peer, with fairness | the https connection is a `WSConnection`; nothing before the TLS handshake; one `shutdown()` (`TLSInv`); only a silent peer holds up a closing connection |
| `token` | 38 responses in any pieces, with fairness | only the body's bytes get into the body (`FetchInv`); when a token is whole; the fetch ends |
| `file` | all documents of up to eight tokens | JSON is accepted and little else; a refused file yields the items before its error (`ParserInv`); numbers and escapes are converted right |
| `launcher` | four clients, three signals, with fairness | the report is true, crashes are counted, nobody is left running (`LauncherInv`), the launcher ends |
| `watched`, `success`, `reads`, `writes` | two plain requests | the counterexamples of section 7 |

The invariants named `...Inv` are the module's type invariant together with the
safety property given in the table.

Bounds of the connection. `MaxPieces` bounds the input a peer delivers and
`MaxChunk` how much of it one read brings, so that several frames in one read
(`run`), frames behind the handshake response and a message cut by a control
frame all occur. `MaxPosted` bounds how much has been submitted when the
handler's timer expires before the connection closes; without it a handler that
sends and sets its timer again would run for ever. With three or four pieces of
input there are runs with a message from `on_open()`, one from `on_message()`, a
pong, a close of ours and one or two of the peer queued together, which is more
than any of the properties needs for a counterexample: each of the wrong variants
in the modules is found within these bounds. For the safety of the connection
the bounds do not matter in the end, because section 5 proves it without them.
`tls` has two pieces: enough for a message and a close of the peer, or for a
close acknowledgement against our own close, with every order in which
handlers that would end the connection can queue up behind a `shutdown()`.

Bounds of `frames`. The limits 3, 4 and 5 stand for 125, 65535 and 100 MB, with
frames on both sides of each in every form of length, and `UInt64 = 16` for 2^64; the order of the limits is
what the code compares, and a real frame of 126 bytes adds only more of the same
payload bytes. Nothing bounds the number of frames, since each leaves only the
message under way behind. The read threshold is 2 where the code's default is
1, because 1 could never be more than a frame lacks; a segment is up to 3 bytes,
so headers of 2 to 14 bytes are cut at every place and two frames may share a
segment. Bytes of texts are those on the boundaries of the decoder's classes.

Bounds of `token`. The body has four bytes, which chunks cut in four ways;
Content-Length takes every value from 0 to two too many; `SizeT` is 8, so that a
difference that wraps is never taken for a right one. Heads have none, one or
two lines, one of them perhaps folded.

Bounds of `file`. Eight tokens hold two levels of nesting with an error inside
and the recovery of both levels; in recovery one kind of token stands for all that
are skipped. Numbers have up to four digits with limits of 255 and -128, so every
digit position meets the limit; escapes are those around which something changes,
in every pair.

Four clients and three signals allow a signal in every phase of the launcher and
one trap to meet what another left.

Deadlock is checked in every run: a process that has ended stutters explicitly
(`Ended`, `TLSEnded`, `Terminated`, `Finished`), so a model that stops elsewhere is an error.

`EndsOnce` is claimed for the handler of this program, not for every handler:
`close()` called in `on_fail()` posts a second `terminate()` for a connection
that never opened, and `on_fail()` is called again. `connection`
includes such handlers.

TLC evaluates the assumptions on the constants in every run. The wrong variants
defined next to some operators (named after the operator, each with a comment)
are not part of the models: putting one in the operator's place makes a property
of a run fail, which shows that the property depends on that code.

## 4. Fairness

* The thread runs: `WF(ThreadStep)`. It is in `run()`, and no handler blocks
  with the plain socket.
* The close timer expires: `WF(CloseTimerExpires)`, one second after it was
  started.
* A read or write that is outstanding on a socket after `shutdown()` completes
  with an error. `shutdown_both` makes the kernel do so.
* Launcher: bash goes on to the next command, and a client ends by itself or by
  the kill. The latter is an assumption about clients: a server that never
  answers the upgrade keeps one waiting for ever (`client.hpp:545`).
* `tls`: the thread takes its steps whenever it is not inside `shutdown()`, and the
  close timer expires when the thread is free to hear of it. Nothing else: a read
  need not complete, and `shutdown()` need not return.
* `frames`: the thread runs, and the peer finishes a frame it has begun
  (`FrameGoesOn`); it need not send another, so `FramesEnd` fails if the reader
  asks for more than the frame has.
* `token`: the thread runs; what the server has sent arrives, and its closing is
  noticed. That it answers or closes at all is not assumed, but named in
  `FetchEnds`.
* `SocketIORun` assumes the server and the network make progress
  (`WF(ServerStep)`). Nothing is assumed of the peer of `WSConnection`,
  `TLSConnection` and `SocketIOClient`, and nothing of the heartbeat timer.

## 5. Proofs

The theorems hold for every value of the constants that satisfies the named
assumptions, all evaluated by TLC: any handler with any texts, any script, any set
of frames with any limits, any read threshold, any number of clients, signals and
pieces of input, whole numbers of any width. The bounds of section 3 therefore matter for them no more.

| Theorem | Statement |
|---|---|
| `WSConnection_proofs` | for every handler object |
| `InductiveInvariant` | `Spec => []IInv` |
| `TypeCorrect` | `Spec => []TypeOK` |
| `FramesInOrder` | `Spec => []WireInOrder` |
| `CloseFrameIsLast` | `Spec => []CloseIsLast` |
| `WritesDoNotOverlap` | `Spec => []OneWriter` |
| `ReaderIsUnique` | `Spec => []OneReader` |
| `ClosingIsTimed` | `Spec => []ClosingHasDeadline` |
| `TLSConnection_proofs` | for every handler object |
| `TLSInductiveInvariant` | `TLSSpec => []TLSIInv` |
| `NothingBeforeTLS` | `TLSSpec => []TLSFirst` |
| `ShutdownIsOnce` | `TLSSpec => []TLSInv` |
| `TLSConnectionCorrect` | `TLSSpec => [](WireInOrder /\ CloseIsLast /\ OneWriter /\ OneReader /\ ClosingHasDeadline)` |
| `TLSImplementsPlain` | `TLSSpec => ImplementsPlain` |
| `SocketIOClient_proofs` | for every script and set of session ids |
| `ConnectionInvariant`, `InductiveInvariant` | `Spec => []P!IInv`, `Spec => []IInv` |
| `ConnectionEndsOnce` | `Spec => []EndsOnce` |
| `ClientCorrect` | `Spec => []ClientInv` |
| `SessionIsOne` | `Spec => []OneSession` |
| `ImplementsScriptRun` | `Spec => KeepsScript` |
| `RunIsClient` | `RunSpec => Spec` |
| `RequestsArePaced` | `RunSpec => []Paced` |
| `FrameReader_proofs` | for every set of frames and all limits |
| `FrameInvariant` | `Spec => []FrameInv` |
| `ReaderCorrect`, `PayloadUnmasked` | `Spec => []ReaderInv`, `Spec => []Unmasked` |
| `TextValidated` | `Spec => []TextIsUtf8` |
| `WritesAccepted` | `Spec => []WritesWhatItReads` |
| `ImplementsStream` | `Spec => StreamSpec` |
| `ExpectsFollows` | `Spec => ExpectsAsInConnection` |
| `TokenFetch_proofs` | for every set of responses, cut into any pieces |
| `InductiveInvariant` | `FairSpec => []IInv` |
| `BodyIsTheServers` | `FairSpec => []FetchInv` |
| `TokenIsWhole`, `ChunksAreWhole` | `FairSpec => []TokenFromWholeBody`, `FairSpec => []WholeChunks` |
| `JsonReader_proofs` | for every document, of any length and depth |
| `InductiveInvariant` | `Spec => []IInv` |
| `AllJsonIsAccepted`, `OnlyJsonIsAccepted` | `Spec => []JsonIsAccepted`, `Spec => []AcceptedIsJson` |
| `ItemsAreOfTheFile` | `Spec => []ParserInv` |
| `NumbersAreKept` | `Spec => []NumbersKept`, for numbers of any length and a type of any width |
| `EscapesAreValid` | `Spec => []EscapesAreUtf8`, for all 65536 escapes |
| `ManyClients_proofs` | for every number of clients and signals |
| `InductiveInvariant` | `Spec => []IInv` |
| `SuccessIsTruth`, `CrashesAreCounted`, `LauncherCorrect` | `Spec => []SuccessIsTrue`, `[]CrashesCounted`, `[]LauncherInv` |

### The connection

None of its properties is inductive. That the wire is in order depends on
where the messages not yet written are, that a close frame stays the last on
`handle_write()` having seen it, that there is one reader on there being no
other handler of a read. `WSConnectionInvariant` therefore describes the
connection by the phases it goes through:

* `HandshakeInv`: the opening handshake is one thread of operations, and while
  it goes on the handler has not been called.
* `ConnectingInv`: before the upgrade there is no session: no write, no read, no
  message, no timer, and no handler of these in `ready`.
* `WriterInv`, `FrontInv`: a write is outstanding, or it has completed and its
  `handle_write` is queued; in the second phase the frame is on the wire and
  still at the front of the queue.
* `CloseInv`: when the last frame on the wire is a close frame, the connection is
  closed or `handle_write` is about to close it.
* `OrderInv`: until the connection is closed, the numbers of the messages run on
  without a gap through the wire, the write queue and the posts in `ready`.
* `DetachedInv`, `DeadlineInv`, `ReaderInv`: the endpoint knows an open connection;
  a closing one has its timer or the queued expiry; the reader is in one of
  three phases.

`ready` occurs in these only through a few views (is there a handler of these
names, is there more than one, which numbers do the posts carry).
The first part of `WSConnection_proofs` proves what appending, taking the first
handler and the shared operators (`CallbackReady`, `Terminate`, `SendClose`) do to the views, so
that the lemma of each action (`HandleWriteInv`, `ConsumeCloseInv`, ...) is about
phases and not about sequences. `InitInv` and `InvStep` put them together, and
`TypeStep` carries the types. The last part adds which message, if any, a step
submits, and that what is on the wire has been submitted; the client needs
both.

### The connection over TLS

`TLSIInv` has two phases. In `Securing` the TLS handshake is outstanding, or has
completed and `handle_init()` waits, and nothing else has happened on the
connection; at any other time (`Settled`) the connection is in `IInv`, because
every step is one of `WSConnection` or leaves its variables alone. The second part,
`Unsaid`, says what a connection without a successful handshake cannot have: so
nothing is said before TLS. The third, `OnceInv`, counts: there has been one
`shutdown()` when the connection is closed or the thread is blocked in one, and
the handler that waits for it will close the connection. For `ImplementsPlain` the
mapping (`PlainReady`, `PlainChain`) is the identity while settled and shows the
request being written while securing. Starting TLS is a step of the plain
connection (the connection is made and the request is on its way), its failure a
failed write, and `ShutdownBegins` a stutter.

### The client

Its steps are built from those of `WSConnection`, with callbacks that have the types
`HandlerCallbacks` gives them (`ConnectionRuns`), so that the theorems of the
connection can be used through the instance `P`. What is not true of every handler but of this one is
added: `EndInv` and `TimersInv` (the end is reported once, by the step that closes
or detaches, and that step cancels both timers) and `SessionInv`.

`ImplementsScriptRun` needs the order of requests to be carried from the script to
the wire through posts and queue. The invariant (`ScriptInv`) says that there is a
log: a sequence of all messages ever submitted, in which the requests are those
of the script in order and a normal close comes after the last. Every message in
a post, in the queue and on the wire is the entry of the log with its number
(`Logged`). `WireInOrder` then says that the wire is the beginning of the log, and what
has been delivered follows. The log is an existential variable of the invariant,
extended by the step that submits (`LogExtended`), and not a variable of the
model. Where a function is defined by recursion (`RequestsIn`), its equations are
solved by `SolutionExists` and `SolutionUnique`, with induction over a set of numbers
(`Induction`, from the least number not in it).

`RequestsArePaced` rests on an account of the input: what has been received is in
the read buffer, in the message under way, or has been answered by one request
(`InputInv`).

### The frame reader

* The decoder (`Utf8Validator_proofs`). `DecodeStep` says that for any beginning of a character and each of
  the 256 bytes, `decode()` accepts exactly when the byte completes a character,
  rejects exactly when no character begins so, and is otherwise in the state that
  the longer beginning has (`StateOf`). It compares the table, row by row and class
  by class, with the ranges of code points of `Begins`: `BeginsOne` to `BeginsFour`
  reduce these to conditions on single bytes. TLC has bytes on the boundaries
  only.
* The position. `FrameInv` says where in the peer's frame the reader is: between
  frames, in the first two bytes of a header, in the rest of it, in the payload of
  a control frame or in that of a data frame; and for each what is still owed,
  what the messages contain and where the masking index stands (`Done`, the
  number of payload bytes read, modulo 4). `TextState` joins the validator's state
  to the unfinished character, and `Refused` says what each refusal was for.
  `ReaderInv` alone is not inductive: that a header of a valid frame leaves exactly
  the payload depends on which header it is, and the index on the bytes read.
* The stream. `Mapped` lists what a step of the reader can be to `MessageStream`; each
  action's lemma (`DataHeaderMapped`, `ControlCharacterMapped`, ...) finds its case, and
  `MappedSteps` turns the cases into steps of the abstract specification. That the
  size of a message does not wrap where it is compared with the limit
  (`NotTooBig`) needs `FramesAssumption`.
* `ExpectsFollows`: an action property, from `FrameInv` before and after the step.
  While nothing is refused, some byte is always asked for (`NeededIs`).

### The token

What each call of the HTTP client does depends on where in the response the buffer
begins, and nothing in the program says where. `FetchInv` is therefore not
inductive: that what is appended to the body is the body's next byte follows only
from the place. `Holds(r, a)` says that the buffer and what is still on the network
are the response from symbol `a` on, in two pieces (or the first of them, once the
connection is gone), and `IInv` says for each call what `a` is:

* `HeadInv`: nothing or the status line has been taken off.
* `PlainInv`: the head and as much as the body has; `length` is what the header said
  less that, modulo `SizeT`. `LengthUsedUp` is the arithmetic of the loop's end: with a
  length that is not too small it comes to 0 exactly when the body is whole.
* `SizeLineInv`, `ChunkInv`: the beginning of a chunk, or of its bytes; when `cut`, the
  line end of the chunk before, or its last symbol.
* `EndInv`, `WholeInv`: what a body that has been read consists of, and when it may be
  less than the server's.

The lemmas about a chunk (`ChunkLaidOut` is what they conclude) say which symbols the
response has from its beginning on, so that reading a size line, a chunk's bytes and
the line end are each a move from one known place to the next. The assumptions are
those of the module: a byte of a body is no line of the head, a size line announces
one size, and the chunks of a response make up its body.

### The script file

The reader has seen the beginning of a document; whether that is JSON depends on
the rest. `IInv` of `JsonReader_proofs` speaks of all the documents that the tokens
read so far can become (`Futures`), and of their grammar:

* `CallersEnd`, `TopEnds`, `RootEnds`: there are places (`at`) where the values of the
  calls under way begin, such that in each of these documents the value of a
  caller ends behind the value it waits for, and that of the innermost call where
  the grammar finds the end of what the call expects next (`Continues`: behind an
  item, a name, a colon, ...). A call that recovers from an error has no value.
  When a call returns, what was known of its end is what its caller needs.
* `Agrees` weakens this where the reader differs from JSON: after a misplaced
  comment a value may be refused that the grammar has, after a liberty one may be
  read that it has not. `Liberties` says what the stack remembers of them: an object
  that may end where it should have a name, although it is not at its beginning, has
  had a member with an empty name, and one that takes any token for a comma has just
  read a comment behind a value; so when the liberty is taken, the document is one
  of those that `Liberal` describes.
* `ItemsRead`: the items so far are those of the places `done`, and in each of these
  documents the items are those and the ones still to come (`ToCome`).

None of the three properties is inductive: they speak of the end, and what the
end will be is known on the way only for every future. The sections of the module
follow one token: what the grammar does at it (`GrammarIs` and the lemmas after
it), what a step does to the stack (`Stays`, `Calls`, `Returns`), and what that does to
each part of the invariant. The equations of the recursive functions are solved
by induction over a set of numbers (`GrammarExists`, `StripsExists`).

Numbers and escapes do not depend on the state. `Exact` is what is true of the loop
of `decodeNumber()` after each digit: the number is exact so far, or it has been
given up and what the digits stand for is above the limit, or will be with the
next digit, for a number given up at the threshold before its last digit has one
more. That last case needs a limit of two digits (`WidthAssumption`: five bits or
more). `EncodesOne` to `EncodesFour` follow the bytes of an escape through the states
of the validator with the lemmas about its table (`Utf8Validator_proofs`), for every
code point.

### The launcher

`IInv` of `ManyClients_proofs` follows the script: which clients have been started
and are known to the trap at each command (`Started`), that whoever has been waited
for is gone or has been told to go (`Waited`), and that `FAIL` counts at least the
clients that failed and exactly those if no signal came (`Counted`); after a trap a
`wait` that was interrupted counts too. The cardinalities need
`FiniteSetTheorems`.

## 6. What is only model-checked

* Liveness (`ClosingEnds`, `ClosedExits`, `Completes`, `ClosingEndsOrWaits`,
  `FramesEnd`, `FetchEnds`, `LauncherEnds`): TLAPS proves nothing about fairness or
  `ENABLED` here.

Every other property of the runs is a theorem.

## 7. Disagreements between the code and its documentation

Four runs have a counterexample as their result:

* `reads`: `connection.hpp:716` says that `handle_read_frame()` is valid in
  CLOSING. A data frame that crosses the client's own close makes
  `get_data_message()` throw (`connection.hpp:498`), and the process ends with
  status 1.
* `writes`: `connection.hpp:1138` says that `handle_write()` is ignored when the
  connection is closed. The test in `log_error()` (`connection.hpp:1249`) is the
  opposite of what the other functions do, so a write that fails after
  `terminate()` throws and ends the process.
* `watched`: `SocketIOHandler.hpp:216` says that the socket is checked in every
  interval without a message. `_on_heartbeat_timeout()` sends one heartbeat and
  does not set the timer again.
* `success`: `src/README.md:24` says that all requests are executed, and
  `manyclients.sh:62` reports success. A client whose upgrade is refused or
  whose connection drops exits with status 0.

## 8. What is not modelled, and the plan

Done: the connection, the same over TLS, the client, the cooperative run, the frame
reader down to its bytes, the token, the script file and the launcher, each with
its inductive invariant, its safety properties and its refinements proved, and the
numbers and the escapes of the script file.

Not modelled, and why:

* `message::pool`: the pool of outgoing messages has no limit (`endpoint.hpp:137`),
  and of the 1000 incoming ones a single connection uses one at a time, so the
  waiting list and `OUT_OF_MESSAGES` never come into play in this program.
* `http/parser.hpp` of WebSocket++: string handling without state between calls;
  a response to the upgrade is taken by its three outcomes.
* `ping()`, `set_handler()`, `stop()`, `reset()`, perpetual mode, the interrupted
  write state (never set), several threads in `run()`: this program uses none.
* The server role and `hybi_legacy`: the client never instantiates them.
* The greater part of the lines in the repository is vendored code that the
  program never runs: the servers, the asynchronous client, the tests and the
  examples of cpp-netlib (with a copy of rapidxml), and the writers and the tests
  of jsoncpp. A model of them would say nothing about the stress test client. What
  the client does run of them, one blocking GET and one `parse()`, is in
  `TokenFetch` and `JsonReader`; the URI parser and the value tree serve as
  conversion and container.
* Doubles, the characters inside a token, and comments kept in the value tree
  (`json_reader.cpp`); the texts of HTTP header lines; the TLS protocol; the format
  library; hashes, base64, URIs and logging: conversions and data that no property
  here depends on.
* What `hybi_header` makes of bytes behind a header it has refused
  (`hybi_header.cpp:55`): it only meets input that `WSConnection` takes as arbitrary.
* Frames that announce a length near 2^64. `new_size` in `data.cpp:52` is a 64-bit
  sum (`TooBig` takes it modulo `UInt64`), so the limit of a message holds only for
  frames whose announced length does not make it wrap; `FramesAssumption` says so,
  and `StreamSpec` is claimed under it.

`handle_write()` treats `operation_aborted` like success; nothing in the client
cancels a write, so the case does not arise.

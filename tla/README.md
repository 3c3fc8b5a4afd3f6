# IOTMP-Embedded in TLA+

TLA+ models of the IOTMP client in `src/include/thinger/iotmp/core/`, the TLC runs that
check them on small instances, and TLAPS proofs of their main safety properties for every
value of the constants. Line numbers refer to `src/include/thinger/iotmp/core/` unless a
path is given; `PROJECT.json` maps every definition to the lines it models.

    tlc -config Session.cfg MCIotmpSession       # any other run: see "Runs"
    tlapm IotmpSessionProofs.tla                 # any other proofs: see "Proofs"

## 1. The system

IOTMP-Embedded is a header-only client for a binary request/response and streaming protocol.
A device registers *resources* (callbacks with input, output, both or neither), connects to a
server, authenticates, and then calls `handle()` again and again. The server runs resources,
asks for descriptions and opens *streams* of a resource's data; the device can also call the
server (properties, buckets, endpoints). The platform supplies the transport, the clock and,
where there are tasks, a recursive lock.

| Component | State | Operations | Interacts with |
|---|---|---|---|
| Connection lifecycle (`iotmp_client.hpp`: `handle`, `authenticate`, `disconnect`, backoff, keepalive) | `connected_`, `last_keepalive_`, `last_connection_attempt_`, `reconnect_ms_`; where the running `handle()` stands | connect, authenticate, receive loop, keepalive, disconnect | calls the transport, the state callback and the request handlers; all of them may call back |
| Requests and streams (`handle_message` and its handlers, `stream_resource`, `check_streams`, `stream`, `clear_streams`; `iotmp_resource.hpp`) | `streams_` (id to resource, interval, last sample), `stream_id_` and `stream_echo_` of each resource | RUN, DESCRIBE, START_STREAM, STOP_STREAM, STREAM_DATA, sampling, `stream()` | called by the receive loop and by calls that wait for an answer; cleared by `disconnect()` |
| Server API (`set_property`, `get_property`, `write_bucket`, `call_endpoint` over `send_and_wait_response`) | the id a call waits for, its attempts; the I/O lock | write a RUN, read until the answer, handle what is not the answer | runs in any task; shares socket, `connected_` and the handlers with `handle()` |
| Codec (`iotmp_encoder/decoder.hpp`, `pson_*.hpp`, framing in `read_message`/`encode_message`) | none beyond position and error flag | encode, decode | bytes of the transport |
| Message fields (`iotmp_message.hpp`) | array of fields and a mask | get, set, aliases | codec, handlers |
| Dynamic values (`iotmp_value.hpp`) | a tagged union | container operations, JSON text | codec, callbacks |
| I/O adapters, macros, logging, umbrella headers | – | – | – |
| Platform transports | socket, lock, clock | `connect_impl`, `recv_bytes_impl`, `io_lock`, ... | not in the repository |

### What is hard, and what makes each component right

* **Connection lifecycle.** Control leaves `handle()` at every call of the transport and of a
  callback; the link may drop, the application may call `disconnect()`, bytes may come and time
  passes there. `get_millis()` wraps. Right means: the states an application is told follow one
  order and each end of a session is told once; no socket stays open behind a client that
  is not connected; attempts keep their distance and the client recovers from any history of
  faults; a session is never silent longer than its keepalive period.
* **Requests and streams.** The relation between streams and resources is kept twice, from
  the ids' side and from the resources' side, and the second side holds one id only. Right means: data
  goes only to a stream the server has open, of the resource it was opened for; periodic
  streams go on; nothing survives the session.
* **Server API with tasks.** The lock covers reads and writes, while `connected_`,
  `data_available_()` and `disconnect()` are used without it. Right means: the answer goes to
  the task that waits for it, a call returns whatever the server does, and returns true only for
  its own accepted request.
* **Callbacks.** A resource's callback runs in the middle of a handler or of `check_streams()`, and may
  stream, disconnect, or call the server, whose answer is read by a loop that handles further requests.
  Right means: what a handler read before its callback still holds where it is used after it, every call
  returns, and every request is answered.
* **Codec and JSON text.** Two encodings with escape values at 31 and 128 and three widths; a parser and a
  printer of text. Right means: what is written is read, what is printed is parsed, and a frame or text cut
  short is refused.
* **Requests over bytes.** Paths, intervals and payloads come in several forms, and the same callback serves
  requests, samples, echoes and descriptions. Right means: every form of a request does what was asked, data
  shows the state, and only input changes it.

`PROJECT.json` lists each hazard at its line, with the properties that cover it or why none
does yet.

## 2. Modules

| Module | Models | Kind |
|---|---|---|
| `ConnectionStates` | what an application that watches the client is promised | abstract specification |
| `IotmpSession` | `handle()`, `authenticate()`, `disconnect()`, backoff, keepalive | detailed; implements `ConnectionStates` |
| `IotmpSessionProofs` | | proofs about `IotmpSession` |
| `Subscriptions` | what a server that opens streams is promised | abstract specification |
| `IotmpStreams` | request handlers and the two views of the streams | detailed; implements `Subscriptions` |
| `IotmpStreamsProofs` | | proofs about `IotmpStreams` |
| `IotmpClient` | session and streams on one clock, `disconnect()` cut at its state callback | composition by `INSTANCE`; implements `Subscriptions` |
| `IotmpClientProofs` | | proofs about `IotmpClient` |
| `RemoteCalls` | what the caller of the server API is promised | abstract specification |
| `IotmpTasks` | `handle()` and `send_and_wait_response()` in several tasks | detailed; implements `RemoteCalls` |
| `IotmpTasksProofs` | | proofs about `IotmpTasks` |
| `IotmpCallbacks` | callbacks that go back into the client: the call stack of one task | detailed; implements `Subscriptions` if no data callback closes streams |
| `IotmpCallbacksProofs` | | proofs about `IotmpCallbacks` |
| `IotmpValues` | `iotmp_value`: conversion, lookup, insertion, lists | operators |
| `IotmpMessage` | `iotmp_message`: fields, ids, answers | operators over `IotmpValues` |
| `IotmpDevice` | handlers, resource wrappers and an application's callbacks over the contents of messages | detailed; its steps implement those of `IotmpStreams` |
| `IotmpVarint` | variable-length integers on bytes | recursive functions |
| `IotmpWire` | fields and PSON on bytes | recursive functions over `IotmpMessage`, `IotmpVarint` |
| `IotmpWireProofs` | | proofs about `IotmpVarint` and `IotmpWire` |
| `IotmpLink` | frames in a stream of bytes, with the bodies of `IotmpWire`, before `IotmpDevice` | detailed; implements `IotmpDevice` |
| `IotmpJson` | `dump()` and `parse()` on bytes | recursive functions over `IotmpValues` |
| `IotmpJsonProofs` | | proofs about `IotmpJson` |
| `IotmpExchange` | server calls, and the application's use of text | `IotmpLink` with `IotmpJson`; implements `IotmpLink` |
| `IotmpExchangeProofs` | | proofs about `IotmpDevice`, `IotmpLink` and `IotmpExchange` |
| `MC*` | values for the constants | for TLC |

### IotmpSession

`pc` is the point of `handle()` at which the core calls out: `connecting` in `connect_()`,
`opened` and `authenticating` in the state callbacks before and in the write of CONNECT,
`awaiting` in the read of its answer, `authenticated` in the callback after it, `linkcheck`
before `is_connected_()`, `loop` in the receive loop, `keepalive` and `streams` behind it,
`idle` between two calls. What the core does between two of these is one step, with every assignment it
makes. The environment steps are `AppDisconnects` (between calls and inside the state
callback), `Arrives`, `LinkDrops` (what was received may stay readable or not) and `Tick`. A
callback of the application that disconnects in the middle of a request is
`ProcessDisconnect`.

`clock` is `get_millis()` modulo `TimeMod`; differences are unsigned as in the code.
`age` and `silence` count the same ticks without wrapping and are read by no action: they are
what the timer properties compare the wrapping clock with. `unpolled` bounds the ticks
between two looks at the timers (`MaxUnpolled`): a transport or callback that blocks
for a whole clock period would break any timer. `age` stops at `LongestWait`, beyond which
no guard and no property tells values apart.

A message is its type; `UNREADABLE` stands for a frame whose read fails (cut short, oversized
or malformed), after which the code disconnects.

### IotmpStreams

One step is one handler with everything it calls. `streams` is `streams_`, `stream_id` the id
of each resource, and `out` what the step wrote. A payload is its presence; a callback is the
`io_type` of its resource and whether it may report failure. `stream_resource()` sends nothing
for `none` and `run` resources. `StreamEcho` is fixed at registration. The echo after RUN
tests `has_payload()` after the callback, which has created the field for every resource that
reads its input (`iotmp_resource.hpp:162,176`): `HasPayloadAfterRun`.

The server is assumed not to open an id that is open for another resource (`ServerSends`);
without that `StreamIdsAgree` fails, which is listed among the hazards.

### IotmpClient

Instances of both modules share the clock. A message the loop reads is given to its handler; the end of
`handle()` is `check_streams()`. It is here that one sees streams end with their session.

`disconnect()` of a session takes two steps (554-562). The first (`DisconnectBegins`, `AppDisconnects`) clears `connected_` and
runs the state callback: `closing`. The transport is still open there and no stream is cleared, so `stream()` called
from the callback writes STREAM_DATA although `connected_` is false; messages may arrive and the link may drop.
The second (`DisconnectReturns`) closes the transport, which drops what has arrived, and clears the streams. The callback may
call `disconnect()` itself (the last disjunct of `AppDisconnects`). An attempt without a session is ended in one step, since
no state callback is in between.

A request whose callback disconnects is cut at that callback (`HandlerIsCut`). What the handler wrote before it is `out`; what it
still writes when the callback has returned is `rest`, which `HandlerGoesOn` writes: the answer of a RUN or DESCRIBE, the
echo of a RUN or of stream input, the first sample of a new stream (308, 315, 340, 397, 416). It goes to a transport that is closed. A
sample of `check_streams()` whose callback disconnects is left to `IotmpCallbacks`, since the iteration then stands at an
erased entry.

`AppStreams` is `stream()` of any resource, between two calls of `handle()`, in the state callback, also that of `disconnect()`,
and in the callback of a resource. Handlers change no stream after their callback has begun, so what their callback streams is a
step of its own, before or after that of the handler. Only in the read of the answer to CONNECT and in the write of a keepalive
does nothing of the application run.

`View` is the session as `IotmpSession` has it, where a `disconnect()` is one step: `closing` shows it closed already. Through it the
invariants of `IotmpSession` are carried over (section 5).

`SubscriptionsSpec` says that over all sessions of a client data reaches the server only where it wants it. What is written to
a closed transport is not published. The server is again assumed not to open an id that is open for another resource, nor one
it has just asked to be opened for another: it waits until the stream is closed. `Client.cfg` gives
both resources one id, so that it passes from one to the other.

### IotmpTasks

One task runs `handle()`, `Users` call the server API. A step ends wherever another task can
come in: before each acquisition of the lock and after each release, and after each
unlocked look at `connected_` and `data_available_()` (so a call may look at `connected_`, start to
read, and find that the client task has closed the link or opened the next). A write or read under a guard of its
own is one step. `for` in a request or answer names the call it belongs to and is
on no wire; it says whose answer an answer is. When a call gives up, its request may still be
answered later (`MaxLate`), which is how late and stray answers come about; `first` is the
type of the first message of a connection.

### IotmpCallbacks

`stack` holds the activations of the client in the one task that runs it, the innermost last: the receive
loop, `check_streams()` at an entry, a handler or `stream_resource()` in the callback of its resource, a server
call that waits, and `disconnect()` in the state callback. A step ends where a callback begins or ends or a
message is read; what a handler read before its callback is kept in its frame. `may` is the application: what
the callback of each resource does, chosen at the start. An entry of `streams_` that is erased while an
iteration stands at it turns its frame to `dangling`, from where `check_streams()` goes on anywhere. `asked`
and `answers` name calls by their depth, so that the answer of an outer call may be read by an inner one,
which drops it. Ids and their matching are left to `IotmpTasks`, time to `IotmpStreams`.

Streams can be taken from an activation that uses them: a callback that disconnects, or makes a call whose loop reads a STOP_STREAM,
erases the entry `check_streams()` stands at (464) or closes the stream on whose id `stream_resource()` will send (450). The model has
all of this. `StreamsAreTakenFromWithin` says, of every application, from where it can come: only from the callback of a sample
or of stream input that does more than `stream()`, of the activation itself or of one above it. Handlers, other samples, the
state callback and the callbacks of actions never take a stream from an activation below them.

A *quiet* application has no such callbacks; those of its actions, and the state
callback, may do anything. `DataIsWanted` and `ServesSubscriptions` are about quiet applications: in others a callback can close
its own stream, and the data it was asked for is then sent on that id. The code says nowhere that callbacks of sampled resources
must not disconnect or call. `ServesSubscriptions` says of quiet applications what `SubscriptionsSpec` says of
`IotmpStreams`, where handlers are single steps.

### IotmpValues, IotmpJson, IotmpWire

A value is its type and content, an object a sequence of pairs, a string a sequence of bytes; ownership is left
out. Keys are looked up as C strings, containers replace what a value was, and `get<bool>()` of anything but a
boolean is any boolean. Bytes are bytes; the types `uint16_t`, `uint32_t` and `uint64_t` have `Uint16`, `Uint32` and
`Uint64` values, strings at most `MaxString` bytes. The layout of tags and varint groups is that
of the code. A whole float is a number; any other is opaque bytes. Fields are addressed by the low
eight bits of their number.

What recurses in the code is a function in `IotmpWire` and `IotmpJson`, so that it can be proved about. `Encoded[n]` writes the values
with at most n containers inside each other, `Values[n]`; a message has at most `MaxNesting` of them (the code has no limit
but its stack, and the proofs hold for every `MaxNesting`). The reader has no such limit: `Items` recurses on the bytes that
are left, since each item takes one at least, and `Fields[n]` is what the loop of `decode()` has read after n fields.
`Normal` is what a reader can tell of a value: a whole number has lost its type, and of equal keys
one is left. `Portable` messages are those a reader must be able to take over; what the code
writes beyond them is what `ExchangeNegative` is about.

In `IotmpJson`, `Texts(space)[n]` prints the values with at most n containers inside each other, `Printable[n]`, with `space`
around every part: `dump()` is the case without. `parse()` reads a C string and ignores what stands behind the value. Its
recursion, as that of the reader of PSON, is on what is left to read: `Strings(text)[left]` is the rest of a string of at most
`left` characters, `Rest(text)[left]` that of an array or object of at most `left` members, and a text has no more of either
than its length. A number of too many digits is `Thrown`, which is no value: the call ends with an exception there.
`JsonNormal` is what text can tell of a value.

### IotmpMessage, IotmpDevice

The application is that of the repository's README: a pin, a sensor that may fail, a setting and an action,
with their callbacks as operators on the values the wrappers hand them and on `app`, the application's
state. `flight` is what the server wrote and the device has not read, as messages with their fields, and `out` what
the device's last step wrote. The server asks in each form a request of `IotmpStreams` has (`Forms`): a path as one
string or in segments, an interval under its key, bare or absent, a payload of each kind. `Probes` are other
messages, which the device must bear. `Str` is the instance
of `IotmpStreams` the device implements: streams, ids and answers are mapped to its variables, and the data of a
message to the resource it shows. `CallServer` stands for whatever the device asks by itself.

### IotmpVarint, IotmpLink

`wire` holds the bytes of `flight`: type, size and body of each message. `Receive` is `process_incoming()` over
bytes: it reads a frame off the stream and hands the message to the handlers of `IotmpDevice`, or ends the
connection. A varint is read into a type with `room` values left above the bits read so far, and the reader refuses
a group for which there is no room, as the code does by counting bits. A message is `Readable` if its type has eight
bits, it is `Portable`, and its body is within `max_message_size_`. The server is assumed to write readable messages
of the types a reader makes of numbers (`FramesAssumption`).

### IotmpExchange

`IotmpLink` with what it leaves out: calls with contents, and text. `AppCall` makes the calls to the server, `GetText` and `SendText` a call with a value
parsed from text. The texts an application may have (`Given`) are those of its `Documents`, from `dump()` or with one of `Spaces`
around every part, and strings with one of `CodePoints` as `\uXXXX`, next to the UTF-8 bytes of that character, which are defined
apart from the code's `Utf8` (`IsUtf8`). `Probe` writes messages with all kinds of contents one behind the other. Of values that
have the same bytes, such as 5 as an `int` and as an `unsigned`, one is probed, since no reader can tell them
apart; `MessagesRoundTrip` still makes the device write each of them.

## 3. Runs

| Run | Question | Bounds |
|---|---|---|
| `Session` | timers, leaks, the callback's order, recovery | clock of 6, backoff 1 to 3, keepalive 2, 2 messages, 2 ticks between looks |
| `SessionDisconnected` | is no keepalive sent when disconnected? *No* | the same |
| `Streams` | do both views of the streams agree, where does data go, are periodic streams sampled for ever? | 2 resources, ids 0 to 2, interval 2, clock of 4 |
| `StreamsLostEcho` | is input of every watched resource echoed? *No* | ids 1 and 2 |
| `StreamsSpuriousEcho` | is only input echoed? *No* | the same |
| `Client` | do streams end with their session and flow within it, and what is still written around its end? | 2 resources that share 1 id, clock of 3, timers and interval 1, 2 messages |
| `Tasks` | do calls return, with their own answer? | 2 users, 2 ids, 2 messages, 2 attempts, 1 late answer |
| `TasksStolenRead` | does the lock protect what was seen? *No* | the same, 3 ids, 1 message |
| `TasksHandshake` | does CONNECT come first? *No* | the same |
| `Callbacks` | callbacks that stream, disconnect and call anywhere | 2 resources (data, action), 2 streams, 2 applications, the client called at depth 3 at most, 1 message of others per call |
| `Exchange` | do frames stay in step, are messages and text read as written, prefixes refused, requests understood in all their forms? | values on both sides of every boundary, 4 resources, 2 ids, 2 messages on their way |
| `ExchangeNegative` | is every message read? *No* | contents that are a negative number |

**Why these bounds suffice.** The clock is longer than each timer with its slack
(`TimersFitTheClock`) and short enough to wrap between any two events; every timer sees
"not due", "due exactly" and "overdue" on both sides of a wrap. The backoff starts below its
reset value and reaches its cap by doubling past it (1, 2, 3). Two waiting messages are what it
takes for one to be handled after another ended the session. Two streams on one resource need two
ids; id 0 is the value the code uses for "no stream" and what a message without an id has, so
`Streams` includes it. Two attempts make the loop of a call end by its limit; two
users and the client task show each pair of tasks. 375 thousand states are reached in `Tasks`,
216 thousand in `Client`, 154 thousand in `Session`, 55 thousand in `Streams`, 51 thousand in `Exchange`,
46 thousand in `Callbacks`.
In `Callbacks`, depth 3 at which the application still calls is a call in the callback of a request read by a call in a callback of
the receive loop or of `check_streams()`; one message of others lets a call be read past its own
answer and end by its limit.
In `Exchange`, probes, server calls and texts are used by a device that did nothing yet (`Fresh`), since what
they are encoded to does not depend on its state, and the server waits for its answers before it asks again; a stream
that is not sampled is asked for of the sensor alone. Two probes on their way are what it takes for one to be read past its end.
`Uint32 = 512` (9 bits) and `Uint64 = 65536` (16 bits) are not powers of 128, like 32 and 64 bits: the last group of a
varint is partly beyond the width. Strings have 0, 1, 31 and `MaxString = 130` bytes, so that sizes take one byte and
two, numbers are 0, 1, 30 to 32, 127,
128 and the largest of each width. Ids have 8 bits (`Uint16 = 256`). The texts hold every character that is escaped,
code points at both ends of each length of UTF-8, and containers nested in each other, up to `MaxNesting = 3`. One document is
a number whose digits alone are out of range, so that a part of its text is.

No run turns deadlock checking off: time, the network or a call can always take a step.

### Properties

* `NoLeakedTransport`: wherever `handle()` is left without a session, the transport is closed.
* `SessionIsKeptAlive`, `AttemptsAreSpaced`: true time against the wrapping clock.
* `ObserverSpec`: the state callback and `is_connected()` implement `ConnectionStates`, and no
  announced attempt stays undecided.
* `Reconnects`: once no more faults happen the client gets a session and keeps it.
* `StreamIdsAgree`: the id a resource remembers is that of an open stream of that resource.
* `SubscriptionsSpec`: the streams implement `Subscriptions`, in `Streams` and, over many sessions, in `Client`.
* `PeriodicStreamsFlow`, `OpenStreamsFlow`: samples go on for ever, alone and within `handle()`.
* `StreamsBelongToTheSession`: no stream, and no id of one, is left when a `disconnect()` returns.
* `DataReachesSessionsOnly`: data is written to an open transport only in a session and in the state callback that
  tells its end. A transport the server has not accepted yet never gets any. (In that callback data does go out while
  `connected_` is false; `SubscriptionsSpec` says that it goes to streams that are open.)
* `AnswersReachTheirCaller`, `RemoteCallsSpec`: the purpose of the lock, and what a call promises.
* `StreamIdsAgree` of `IotmpCallbacks`: the same at every point at which a callback can look.
* `StreamsAreTakenFromWithin`: in any application, only a data callback that goes back into the client takes a stream from
  the iteration, sample or handler that goes on with it.
* `DataIsWanted`: in a quiet application the id taken before a callback is still that of its resource when data is
  sent on it.
* `ServesSubscriptions`: each step of a quiet application, however deep, is one of `Subscriptions`.
* `CallsReturn`, `RequestsAreAnswered`: nested calls return, also those whose answer went to another, and each
  RUN is answered however deep its callback goes back into the client.
* `FramesStayInStep`: the stream holds the frames of what was not read, and reading one ends where the next begins.
* `MessagesRoundTrip`, `PrefixesAreRefused`: the codec, in both directions. `MessagesRoundTrip` says of everything that is
  `Readable` that it is read; what the device writes beyond that is `EveryMessageIsRead` of `ExchangeNegative`.
* `DeviceSpec` of `Exchange`: over bytes the device does only what `IotmpDevice` does over messages.
* `TextIsUnderstood`, `TruncatedTextIsDiscarded`: `dump()` and `parse()`, up to what text cannot tell (signedness
  of numbers that are not negative, contents of binaries, all but one of equal keys). `TruncatedTextIsDiscarded` is about documents that have a size. It
  admits `Thrown`: a whole number too large for 64 bits is printed with a point, and cut before it, is out of range. A part
  never passes for another value.
* `RequestsAreHandledAsMeant`: from message to message, each step of the device is the step `IotmpStreams` has for
  the request that was meant.
* `DataShowsTheState`, `OnlyInputChangesTheState`: data sent on a stream is the state after the step, and
  descriptions, samples and echoes do not change it.

Each property is broken by at least one small change of the code (`PROJECT.json`, "mutants"): a
difference that is computed signed or as a deadline, a backoff without its cap, a timer that is not
armed, a transport left open, a stream that is not cleared, an absent lock, an id not compared, an
off-by-one in a tag, a size written in one byte, an echo made before the input is applied, a backslash that is not escaped.

### Fairness

* `IotmpSession`, `IotmpClient`: `WF(Handle)` because the application calls `handle()` in its loop
  and the transport's calls return (they have timeouts; `Authenticate` and
  `ConnectUnanswered` are both ways on), and `WF(Tick)` because time passes. Nothing is assumed of the
  server, the network or the application. `Reconnects` is conditional on an end of faults, and `OpenStreamsFlow` on a
  receive loop that ends again and again: `while(data_available_())` has no limit, so a peer
  that never pauses starves keepalive and streams.
* `IotmpStreams`: `WF(CheckStreams)` and `WF(Tick)`, for the same reason.
* `IotmpTasks`: weak fairness of each task, since platform tasks are scheduled, and strong fairness of
  taking the lock (`Send`): the lock is the platform's mutex (629-634), whose queue serves a waiting task.
  Without it a user task can wait for ever while others take the lock. No answer is assumed to come.
* `IotmpCallbacks`: `WF(CallReadsNothing)`, since the transport's reads have timeouts, and at each depth strong fairness of
  the callback there returning: a callback may call the client often but not for ever. Strong, because a server that
  keeps the client busy in deeper activations disables it again and again. No message is assumed to come.

## 4. What the runs found

Six places where the code does not do what its comments or tests say; each has a run with
`expect: violation`, and an entry with the quotation under `findings`.

1. `SessionDisconnected` (`iotmp_client.hpp:547`). After a DISCONNECT in the receive loop `handle()`
   goes on to the keepalive and writes it to the closed transport; a test is named "does not
   process messages or keepalive when disconnected".
2. `StreamsLostEcho` (430). A resource with two streams forgets its id when either is stopped; its input
   is not echoed any more although a stream is open.
3. `StreamsSpuriousEcho` (312). A RUN without payload is echoed as if it had carried input.
4. `TasksStolenRead` (539). Data is seen without the lock; a call in another task can read it first, and
   the client task's read then times out and ends the session.
5. `TasksHandshake` (661). A call that saw `connected_` before it waited for the lock may write
   its RUN on the next connection before that one's CONNECT.
6. `ExchangeNegative` (`iotmp_encoder.hpp:54`). A field that is a negative integer, as `write_bucket(id, -5)`
   makes it, is written with 64 bits and refused by the decoder, which reads 32.

A seventh came out of a proof and has no run of its own. That every part of a text is discarded could not be proved, and TLC shows
why: the text of a whole number too large for 64 bits, cut before its point, is a number out of range, for which `std::stoull` throws
(`iotmp_value.hpp:620`), although 500 says that `parse()` "returns a discarded value on error" if exceptions are not allowed;
the code does not look at that argument. `TruncatedTextIsDiscarded` therefore admits `Thrown`.

## 5. Proofs

Assumptions, by module:

| Module | Named assumptions |
|---|---|
| `IotmpSession` | `TimersAssumption`, `TimersFitTheClock`, `MessagesAssumption` |
| `IotmpStreams` | `ResourcesAssumption`, `IdsAssumption`, `TimeAssumption`, `NoStreamAssumption` |
| `IotmpClient` | `SessionAssumptions`, `StreamsAssumptions`: those of its two instances |
| `IotmpTasks` | `TasksAssumption`, `BoundsAssumption` |
| `IotmpCallbacks` | `ResourcesAssumption`, `IdsAssumption`, `BoundsAssumption` |
| `IotmpValues` | `ValuesAssumption`: `Uint64` and `MaxNesting` are natural numbers |
| `IotmpMessage` | `IntegersAssumption`: the unsigned types have values |
| `IotmpDevice` | `IdsAssumption`, `IntervalsAssumption`, `ProbesAssumption`: ids and intervals are in the range of their types; `NoStreamAssumption` |
| `IotmpWire` | `WidthsAssumption`: `Uint32` has eight bits at least, `Uint64` no fewer, and the length of a string fits `Uint64` |
| `IotmpLink` | `FramesAssumption`: sizes fit `uint32_t`, what the server writes is `Readable` and has no types that are lost |
| `IotmpExchange` | `TextsAssumption`: documents are `Printable`, white space is JSON's, and code points come with their UTF-8 |

TLC evaluates them in the runs. Nothing else is assumed, no theorem about a specification has a further
hypothesis, and no proof uses fairness.

**`IotmpStreamsProofs`.** `TypeCorrect`; `StreamIdsAlwaysAgree`, where `StreamIdsAgree` with the types is
inductive: a start sets both views to the same stream and cannot take an id from another
resource (`ServerSends`), a stop clears the view of the stream's resource even when that names another
of its streams, so whatever id a resource still remembers is untouched; `ImplementsSubscriptions`: every step is a `Subscribe`,
`Unsubscribe`, `UnsubscribeAll`, `Publish` or a stutter. The last needs the invariant: the echo of RUN and `stream()`
go to the remembered id, and only the invariant says it is open for that resource.

**`IotmpSessionProofs`.** `TypeCorrect` bounds the backoff. The other theorems need an invariant that is
stronger than what they state:

* `Announced` ties `pc` and `connected` to the last notified state: what an attempt
  has told so far is what its place in `handle()` says, also when the application disconnects inside it.
  From it, `ObserverIsSafe`: each notification follows the one before.
* `Closed`: a client without a session holds the transport open only between a successful
  `connect_()` and the end of that attempt, and has nothing to read otherwise. From it, `TransportIsNotLeaked`.
* `AgeShown`: what the clock shows since `last_connection_attempt_`, cut at the longest wait, is
  at most the true age: a wrap makes an old attempt look younger, never older. From it,
  `AttemptsAreAlwaysSpaced`. This is where modular arithmetic is argued, with lemmas about `Elapsed` and `%`.
* `SilenceShown`: in a session `silence` is what the wrapping clock shows since `last_keepalive`,
  and was less than the period at the last look. From it and `TimersFitTheClock`,
  `SessionIsAlwaysKeptAlive`.

**`IotmpTasksProofs`.** `TypeCorrect`, `AnswersAlwaysReachTheirCaller` and `ImplementsRemoteCalls` (the steps of
`RemoteCalls`, without its liveness), for any number of tasks, rest on five facts that are inductive together
with the types:

* `LockHeld`: the lock is held exactly by a task in the middle of an exchange, so there is one at most.
* `Owned`: a request or answer of a user belongs to the call that user is in, carries its id, and an answer has
  the type of the verdict. A call has one request, hence one answer.
* `Recognised`: whatever carries the id of a call is that call's. This is where the freshness of the random id is used.
* `WithinLimit`: a call that reads has attempts left.

The step lemmas follow the code: `ClientMoves` and `ClientTransfers` say what the client task does to the lock and
to the messages, `QuietStep` that steps which begin and end no call keep what is owned; `SendKeeps`,
`ReturnKeeps` and `ServerAnswersKeeps` treat the three that do.

**`IotmpCallbacksProofs`.** `TypeCorrect`, `StreamIdsAlwaysAgree`, `StreamsAlwaysTakenFromWithin` and `DataAlwaysWanted`, for any
resources, ids, applications and depth. The first two are inductive as in `IotmpStreams`, now over steps that end
inside handlers. For the other two, what matters is what can happen *above* an activation before control comes
back to it.

`StreamsAlwaysTakenFromWithin` is about every application. An activation `Holds` a stream if it is `check_streams()`,
`stream_resource()` or the handler of stream input. A stack is `Guarded` if between such an activation and any activation above it
that is not itself a sample there is one that `Reenters`: a data callback that may disconnect or call. A callback that at most
streams pushes samples only, which is why each step keeps the stack guarded (`NextGuarded`). Whatever erases or replaces an
entry begins where the innermost activation reenters or holds nothing (`Open`); in the second case the stack being
guarded gives the activation the theorem asks for.

`DataAlwaysWanted` is about quiet applications. An activation is `Exposed` if it holds a stream across a callback:
`check_streams()`, `stream_resource()`, and a STREAM_DATA of a resource with data. A stack is `Sound` if no iteration dangles, each
exposed handler's stream is open for its resource, and above an exposed activation there is nothing but `stream_resource()`:
a quiet data callback can only stream, so no message is read there and nothing disconnects. It is `Free`
without an exposed activation. `SoundIsFree`: a sound stack whose innermost activation is not exposed is free.
Hence whatever erases a stream (`HandleStopStream`, `Clear`) works on a free stack, and leaves a sound one.
`QuietInv` says that the stack of a quiet application is sound, and each step preserves it.

`SubscriptionsAreServed` follows from that invariant: data leaves the stack only through `stream_resource()`, whose
frame is exposed, so its stream is open for the resource it names.

**`IotmpClientProofs`.** Three groups of theorems. What concerns both parts:
`StreamsEndWithTheirSession` and `DataStaysInItsSession` from `Ended`: without a session, and when no `disconnect()` is going on, there
are no streams and, outside of an attempt, the transport is closed with nothing to read. Hence the rest of a receive loop after a
disconnect handles no request that would open a stream, the `check_streams()` behind it finds none, and what a cut handler
still writes (`GoesOnKeeps`) finds the transport closed: `rest` is written before the next attempt.

The session: `NextIsSessions` shows that a step of the client is, seen through `View`, a step of `IotmpSession` or none; where no
`disconnect()` is going on the view is the session itself (`ViewIsSession`), and while one is in its callback nothing the
network does is seen. The step lemmas of `IotmpSessionProofs` are then applied to an instance with the variables of the
view, which gives `ClientKeepsItsTransport` and `ClientFollowsTheSession`.

The streams: `ClientServesSubscriptions` cannot be had in this way. The client handles a request steps after
the server sent it, when what the server saw may have changed. `QueueAgrees` closes the gap: a start on its way
names an id that is open for no other resource, and no two of them open one id for different resources. Handling one
request keeps that for those behind it (`OpensQueued`). With `StreamIdsAgree` it makes each step one of `Subscriptions`
(`Serves`). Handlers that are cut are no steps of `IotmpStreams`: `CutServes` shows that what they write before their callback serves
the subscriptions too, `GoesOnServes` that what they write after it reaches nobody.

**`IotmpExchangeProofs`, the device.** `OnlyInputEverChangesTheState` and `DataAlwaysShowsTheState` are about steps: a wrapper run
on empty values leaves the application's state as it is (`RunIdle`, `SampleIdle`, `DescriptionIdle`), and what it
leaves in a message is the state after it (`SampleShows`, `HandledShows`). A stream has a resource the device has
(`StreamsInv`). `RequestsAreAlwaysHandledAsMeant` puts together what a request means and what a handler reads:
`FormsAreUnderstood` shows for each form of each request that the path, the id and the interval the handler
extracts are those of the request; `RunAsMeant` and its siblings, that the handler then does
what the handler of `IotmpStreams` does with it. `DeviceInv` has what that takes: the
queue holds messages a server may send, streams are of resources, remembered ids and intervals fit their types.

`StepsSendFew` says that a step of the device writes one message at most besides the answer to a request; the
round trip below is about all of them.

**`IotmpWireProofs`.** The code of numbers, values, fields and bodies, each wherever its bytes lie and whatever is around
them. `VarintIsRead`: the bytes of a number are read as that number by any type it fits into. `CutVarintIsRefused`: if
their end is missing they are not read. `ValueIsRead`: a value of any nesting is read as its `Normal`, and the reader stops
behind it. `BodyIsRead`: the body of a `Portable` message is decoded into its fields, each in its normal form.

Two things had to be derived first. The induction theorems of the library take operators, so `Induction` and
`CompleteInduction` are derived for sets from the well-foundedness of `<` on numbers. And a recursive function is only what
`CHOOSE` finds, so for each one existence and uniqueness are proved before it is unfolded (`UptoExists`, `ReadExists`;
`RecursionExists` for any function whose value at n is made of that at n - 1, from which `ValuesUnfold`, `EncodedUnfolds`,
`NormalsUnfold`, `ItemsUnfold` and `FieldsUnfold` follow). `FlattenSeq` of the community modules is recursive as well:
`FlattenUnfolds`, and from it what it does to the first and the last element.

The argument about values is an induction on the nesting. `TagIsRead` treats numbers below 31 and those behind an
escape; `ScalarIsRead` has a lemma for each type that is no container. `ItemsAreRead` is the inner induction, on the number
of items: if each lies in the bytes behind the one before and is read alone, all are read, and the bytes left
suffice because each item has one or more. `ArrayIsRead` and `ObjectIsRead` apply it to elements of one nesting less. The
loop of `decode()` reads one more field with each turn (`OneMoreIsRead`), in the order of their numbers, and ends with the
last one (`AllIsRead`, `EndsAgree`).

**`IotmpExchangeProofs`, the link.** `LinkInv`: what waits are messages, and the stream is the concatenation of their frames.
`FrameIsTaken` reads one frame with anything behind it and leaves just that, from `VarintIsRead` for type and size; with
`BytesOfFirst` it keeps the stream in step, hence `FramesAlwaysStayInStep`. `CutFrameIsRefused` follows a
cut through type, size and body, hence `PrefixesAreAlwaysRefused`. `ReadableIsRead` puts frame and body together: a
readable message is read as its normal form and leaves what is behind it, so a sequence of them is read one by one
(`SequencesAreRead`). With the fields of what a step writes (`FewAreRead`) and `FramesAssumption` for what the server
writes, this is `MessagesAlwaysRoundTrip`. It also shows that each step over bytes is one over messages:
`LinkImplementsDevice`, from which `BytesAreHandledAsMeant` carries the theorems about `IotmpDevice` over to bytes.

**`IotmpJsonProofs`, what was printed.** `SpacedIsParsed`: for every value of any nesting and any white space around its parts,
the text is parsed into its `JsonNormal`; `DumpIsSpaced`: that is so for `dump()`; `EscapedIsParsed`: a character written as
`\uXXXX` is parsed into its UTF-8. First each recursion is unfolded, as for PSON (`TextsUnfold`, `StringsUnfold`, `RestUnfolds`
and others). `IsText(b, T, x)` says that T is read as x wherever it stands in b, with white space before it and behind it
nothing or what can follow a value. It is shown for
digits (`DigitsAreRead`: a number ends where no digit follows), whole floats, negative numbers, words, and strings
(`StringsAreRead`, by induction on their characters, each read from what `Escape` made of it), together `ScalarIsText`. `MembersAreRead`
is the induction on the members of a container: if each is read alone, in front of white space, comma or
bracket, then all are, and the length of the text suffices since each takes one character at least.
`ContainerIsText` joins it with the brackets, and `ValuesAreTexts` is the induction on the nesting.

**`IotmpJsonProofs`, text that ends too early.** `PartIsDiscarded` is about *any* text, whatever stands in it: if it is parsed into a value
that has a size, its first n characters are discarded, throw, or give the same value (they may end behind it). `CutFrom(b, s)`:
b is what s begins with. `Kept(b, r, r2)`: if r could be read from b, then r2, what is read from s at the same place, is the same.
That is so of everything that ends with a character of its own: code points, strings (`StringsCut`, by induction on what
is left), words. A number ends where no digit follows, and behind the cut one may, so it is kept only if something stands behind it in
b (`KeptIfBehind`, `NumberCut`). Inside a container something must, a comma or a bracket: hence containers are kept
(`MembersCut`, and `RestsCut` by induction on the members left). Outside of one, a number has no size, nor has a failure
(`NumbersHaveNoSize`). So what is parsed from the part either fails or is kept.

**`IotmpExchangeProofs`, the text and the calls.** `Stood(text, document)`, that the text is parsed into what it can tell of the document, and has a
size if the document has, is an invariant (`TextsStand`): `GivenIsUnderstood` shows it for each text of `Given`, where `Utf8IsUnique`
says that `IsUtf8` and the code's `Utf8` are the same. From it `TextIsAlwaysUnderstood` and, with `PartIsDiscarded`,
`TruncatedTextIsAlwaysDiscarded`. `ExchangeImplementsLink`: a call of the server API and a call with parsed text are `CallServer` steps
of the device (`CallIsSent`: whatever the contents, the request is a RUN with the fields of one), and everything else is a step
of `IotmpLink` as it stands. `ExchangeIsSafe` states what follows for the specification that the run checks.

Each of the inductive facts was checked by TLC as an invariant before it was proved. A temporal theorem ends in a step
that combines the initial case, the step and the implication by propositional temporal logic.

**Only model-checked.** Liveness under fairness (`Reconnects`, `PeriodicStreamsFlow`, `OpenStreamsFlow`, the
fairness of `ObserverSpec` and `RemoteCallsSpec`, `CallsReturn`, `RequestsAreAnswered`) and anything with ENABLED, which
are out of the prover's reach. Every other property of a passing run is a theorem.

## 6. Not modelled

* The platform's transports: not in the repository. What is assumed of them is said in the modules:
  `disconnect_impl()` drops what was received, a read returns a whole frame or fails.
* Macros and logging: no state.
* Copying, moving and destroying `iotmp_value`: sequential container code, without interaction.
* The JSON text of floats that are no whole numbers: `std::to_string` and `std::stod` decide it.
* Bytes that no encoder of the repository writes: the decoders are total in the model, but what they make of such
  bytes is not a property of any run.
* `memory_writer`, which the client does not use; conversions of floating-point numbers.
* Changing settings (`set_keepalive`, `set_reconnect_timeout`) while a session runs: the constants
  are what they were set to before the first `handle()`, at which `get_millis()` is 0.
* Shared containers, reads cut inside a frame, ids that meet by chance; see the plan.

## 7. Plan

Done: `IotmpSession`, `IotmpStreams`, `IotmpClient`, `IotmpTasks` and `IotmpCallbacks` with their abstract
specifications and proofs; `IotmpDevice`, `IotmpVarint` and `IotmpLink` with theirs; `IotmpExchange` over values, JSON
text and the wire. Next, by importance:

1. *Streams and tasks.* `stream()` and `clear_streams()` from other tasks while `check_streams()` iterates
   (478): what each access of the shared containers sees. Extends `IotmpTasks`.
2. *Reads in pieces.* A call whose read fails inside a frame leaves the connection open and out of step (678).
   Bytes instead of messages in `rx`, with the framing of `IotmpLink`.
3. *Ids.* Calls whose random ids meet those of late answers, and an OK of any id taken for the answer to
   CONNECT (250): what `RemoteCalls` keeps without the freshness of ids.
4. *Numbers in text.* A run of its own for what throws although it should be discarded.
5. *Proofs.* That the answers of the device are always `Readable`; `IotmpCallbacks` without callbacks that call back
   implements `IotmpStreams`; liveness, when the prover can.

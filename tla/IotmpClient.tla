----------------------------- MODULE IotmpClient -----------------------------
(***************************************************************************)
(* The client as the application runs it from one task: the connection of  *)
(* IotmpSession and the streams of IotmpStreams, on one clock.  A message  *)
(* the receive loop reads is dispatched to its handler, and handle() ends  *)
(* with check_streams().                                                   *)
(*                                                                         *)
(* disconnect() is cut at its state callback: connected_ is false there,   *)
(* but the transport is open and the streams are not cleared yet.  Called  *)
(* by the callback of a resource, it is followed by what the handler of    *)
(* that resource still writes.                                             *)
(***************************************************************************)
EXTENDS Naturals, Sequences

CONSTANTS
    TimeMod, ReconnectStart, ReconnectReset, ReconnectMax, KeepaliveMs, MaxRx, MaxUnpolled,
    Resources, Unknown, IoType, StreamEcho, Ids, Intervals, NoStream,
    Messages   \* what a transport can deliver: requests and session messages

VARIABLES
    pc, connected, link, rx, clock, last_connection_attempt, reconnect_ms, last_keepalive,
    notified, sent, unpolled, age, silence,
    streams, stream_id, out,
    closing,  \* disconnect() is in its state callback, the session has ended
    rest      \* what the handler whose callback disconnects has still to write

session == <<pc, connected, link, rx, last_connection_attempt, reconnect_ms, last_keepalive,
             notified, sent, unpolled, age, silence>>

vars == <<session, clock, streams, stream_id, out, closing, rest>>

Ses == INSTANCE IotmpSession

\* The session as IotmpSession has it, where a disconnect() is one step: its first.
View == INSTANCE IotmpSession WITH
    link <- IF closing THEN FALSE ELSE link,
    rx <- IF closing THEN <<>> ELSE rx

\* The session bounds how long handle() is away; unsampled is not needed.
Str == INSTANCE IotmpStreams WITH MaxUnsampled <- MaxUnpolled, unsampled <- 0

ASSUME SessionAssumptions ==
    Ses!MessagesAssumption /\ Ses!TimersAssumption /\ Ses!TimersFitTheClock

ASSUME StreamsAssumptions ==
    /\ Str!ResourcesAssumption /\ Str!IdsAssumption
    /\ Str!TimeAssumption /\ Str!NoStreamAssumption

Init == Ses!Init /\ Str!Init /\ closing = FALSE /\ rest = {}

-----------------------------------------------------------------------------

StreamsIdle == out' = {} /\ UNCHANGED <<streams, stream_id>>

\* No disconnect() is going on, neither before nor after the step.
Settled == ~closing /\ rest = {} /\ UNCHANGED <<closing, rest>>

\* Steps of handle() that neither read a message nor disconnect.
Proceed ==
    /\ \/ Ses!HandleTooSoon \/ Ses!HandleReconnect \/ Ses!ConnectFails \/ Ses!ConnectSucceeds
       \/ Ses!StartAuthentication \/ Ses!SendConnect \/ Ses!Authenticate \/ Ses!BecomeReady
       \/ Ses!HandleConnected \/ Ses!LinkIsUp \/ Ses!LoopDone \/ Ses!ProcessKeepalive
    /\ StreamsIdle

\* Steps of handle() that go through disconnect() when there is no session.
Disconnects ==
    /\ ~connected
    /\ \/ Ses!ConnectNotWritten \/ Ses!ConnectRefused \/ Ses!ConnectUnanswered
       \/ Ses!LinkIsDown
    /\ Str!ClearStreams

\* process_incoming(): read one message and run its handler.
ProcessRequest ==
    \E m \in Messages \cap Str!Requests : Ses!ProcessMessage(m) /\ Str!HandleMessage(m)

\* An answer nobody waits for, or a keepalive, is dropped.
DropMessage ==
    /\ \E m \in Messages \ Str!Requests : Ses!ProcessMessage(m)
    /\ StreamsIdle

\* No callback of a sample disconnects here: IotmpCallbacks shows what that does.
SampleStreams == Ses!HandleReturns /\ Str!CheckStreams

-----------------------------------------------------------------------------
(* The end of a session. *)

\* disconnect() up to its state callback; what it does to the session is in View.
SessionEnds == connected /\ rest = {} /\ closing' = TRUE /\ UNCHANGED link

\* What a handler answers once the callback of its resource has run.
AnswersTo(m) ==
    {Str!Answer("OK", m.stream)}
      \cup (IF m.type = "RUN" /\ Str!HasOutput(m.resource) THEN {Str!Answer("ERROR", m.stream)} ELSE {})

\* The handlers that begin with a callback: a RUN of anything that can be run.
BeginsWithCallback(m) ==
    /\ m.resource # Unknown
    /\ IoType[m.resource] \notin (IF m.type = "RUN" THEN {"none"} ELSE {"none", "run"})

(***************************************************************************)
(* The handler of m as far as the callback that disconnects.  A RUN is     *)
(* answered after its callback and echoed by a second one; a stream is     *)
(* registered and confirmed before its first sample; and both samples and  *)
(* echoes are written on the id from before the callback.                  *)
(***************************************************************************)
HandlerIsCut(m) ==
    \/ /\ m.type \in {"RUN", "DESCRIBE"} /\ BeginsWithCallback(m)
       /\ \E a \in AnswersTo(m) : rest' = {a}
       /\ StreamsIdle
    \/ /\ m.type = "RUN" /\ m.resource # Unknown
       /\ Str!stream_enabled(m.resource) /\ StreamEcho[m.resource] /\ Str!HasInput(m.resource)
       /\ \E a \in AnswersTo(m) : out' = {a}
       /\ rest' = Str!StreamResource(m.resource, stream_id[m.resource])
       /\ UNCHANGED <<streams, stream_id>>
    \/ /\ m.type = "START_STREAM" /\ m.resource # Unknown
       /\ rest' = Str!StreamResource(m.resource, m.stream) /\ rest' # {}
       /\ out' = {Str!Answer("OK", m.stream)}
       /\ stream_id' = [stream_id EXCEPT ![m.resource] = m.stream]
       /\ streams' = [streams EXCEPT ![m.stream] =
                        [resource |-> m.resource, interval_ms |-> m.interval,
                         last_sample |-> clock]]
    \/ /\ m.type = "STREAM_DATA" /\ m.stream \in Str!Active
       /\ IoType[streams[m.stream].resource] # "none"
       /\ LET r == streams[m.stream].resource
          IN  rest' = IF StreamEcho[r] THEN Str!StreamResource(r, m.stream) ELSE {}
       /\ StreamsIdle

\* handle() finds the link closed, cannot read, or handles m.
DisconnectBegins ==
    /\ SessionEnds
    /\ \/ rx' = rx /\ View!LinkIsDown /\ rest' = {} /\ StreamsIdle
       \/ /\ rx # <<>> /\ rx' = Tail(rx)
          /\ \/ View!ProcessUnreadable /\ rest' = {} /\ StreamsIdle
             \/ \E m \in Messages :
                  /\ View!ProcessDisconnect(m)
                  /\ \/ m.type = "DISCONNECT" /\ rest' = {} /\ StreamsIdle
                     \/ m \in Str!Requests /\ HandlerIsCut(m)

\* Mutant: the transport is left to whoever connects next.
ClosesLeavingOpen ==
    /\ closing
    /\ Str!ClearStreams
    /\ UNCHANGED session

\* Mutant: streams are cleared by a STOP_STREAM only.
ClosesKeepingStreams ==
    /\ closing
    /\ Ses!disconnect_impl
    /\ StreamsIdle
    /\ UNCHANGED <<pc, connected, clock, last_connection_attempt, reconnect_ms, last_keepalive,
                   notified, sent, unpolled, age, silence>>

\* Mutant: clear_streams() leaves the resources their stream ids.
ClosesKeepingIds ==
    /\ closing
    /\ Ses!disconnect_impl
    /\ streams' = [s \in Ids |-> NoStream] /\ out' = {}
    /\ UNCHANGED <<pc, connected, clock, last_connection_attempt, reconnect_ms, last_keepalive,
                   notified, sent, unpolled, age, silence, stream_id>>

\* The rest of disconnect().
Closes ==
    /\ closing
    /\ Ses!disconnect_impl
    /\ Str!ClearStreams
    /\ UNCHANGED <<pc, connected, last_connection_attempt, reconnect_ms, last_keepalive,
                   notified, sent, unpolled, age, silence>>

DisconnectReturns == Closes /\ closing' = FALSE /\ UNCHANGED rest

\* What the handler still writes; the transport is closed.
HandlerGoesOn ==
    /\ ~closing /\ rest # {}
    /\ out' = rest /\ rest' = {}
    /\ UNCHANGED <<session, clock, streams, stream_id, closing>>

Handle ==
    \/ Settled /\ (Proceed \/ Disconnects \/ ProcessRequest \/ DropMessage \/ SampleStreams)
    \/ DisconnectBegins \/ DisconnectReturns \/ HandlerGoesOn

-----------------------------------------------------------------------------
(* The application, the peer, the network and the clock. *)

\* disconnect(), called between two calls of handle() or from the state
\* callback: of a session, of an attempt, or of a disconnect().
AppDisconnects ==
    \/ SessionEnds /\ rx' = rx /\ View!AppDisconnects /\ rest' = {} /\ StreamsIdle
    \/ Settled /\ ~connected /\ Ses!AppDisconnects /\ Str!ClearStreams
    \/ Closes /\ UNCHANGED <<closing, rest>>

(***************************************************************************)
(* stream(r), called between two calls of handle(), from the state         *)
(* callback or from the callback of a resource.  No handler changes a      *)
(* stream after its callback has begun, so what that one streams is a step *)
(* before or after the step of its handler.                                *)
(***************************************************************************)
AppStreams ==
    /\ pc \notin {"awaiting", "keepalive"}
    /\ \E r \in Resources : Str!StreamCall(r)
    /\ UNCHANGED <<session, closing, rest>>

\* m opens stream s, or opens it again.
Starts(m, s) == m.type = "START_STREAM" /\ m.stream = s /\ m.resource # Unknown

\* The messages on their way to the handlers.
Waiting == {rx[i] : i \in DOMAIN rx}

(***************************************************************************)
(* The server does not open a stream under an id that is open for another  *)
(* resource, or that it has asked to be opened for one: it waits until the *)
(* stream is closed.                                                       *)
(***************************************************************************)
ServerSends(m) ==
    \A s \in Ids : Starts(m, s) =>
        /\ Str!ServerSends(m)
        /\ \A n \in Waiting : Starts(n, s) => n.resource = m.resource

Outside ==
    /\ \/ \E m \in Messages : ServerSends(m) /\ Ses!Arrives(m)
       \/ Ses!LinkDrops
       \/ Ses!Tick
    /\ StreamsIdle
    /\ UNCHANGED <<closing, rest>>

Next == Handle \/ AppDisconnects \/ AppStreams \/ Outside

\* handle() is called again and again, callbacks return, and time passes.
Fairness == WF_vars(Handle) /\ WF_vars(Outside /\ Ses!Tick)

Spec == Init /\ [][Next]_vars /\ Fairness

-----------------------------------------------------------------------------
(* Properties. *)

(***************************************************************************)
(* Streams live no longer than the session that opened them: whichever way *)
(* a session ends, also in the middle of the receive loop, no entry of     *)
(* streams_ and no stream id of a resource is left when disconnect()       *)
(* returns, not even of a stream whose handler disconnected.               *)
(***************************************************************************)
StreamsBelongToTheSession ==
    ~connected /\ ~closing => Str!Active = {} /\ \A r \in Resources : ~Str!stream_enabled(r)

(***************************************************************************)
(* No data reaches the server outside of a session.  stream() and handlers *)
(* whose callback disconnected do write without one, but to a transport    *)
(* that is closed, or in the state callback of a session that ends: never  *)
(* to a transport the server has not accepted yet.                         *)
(***************************************************************************)
DataReachesSessionsOnly ==
    [][link' /\ (\E d \in out' : d.type = "STREAM_DATA") => connected \/ closing]_vars

(***************************************************************************)
(* The client serves the subscriptions of its server: data reaches it only *)
(* on a stream that is open, with data of the resource it was opened for,  *)
(* also when an id is used for another resource after a lost link, a       *)
(* disconnect() or a stop that is still waiting to be read, and also from  *)
(* a state callback that streams, or a handler whose callback disconnects. *)
(***************************************************************************)
Subs == INSTANCE Subscriptions WITH
    NoResource <- Unknown,
    subscribed <- [s \in Ids |-> IF s \in Str!Active THEN streams[s].resource ELSE Unknown],
    published <- IF link THEN {<<d.stream, d.resource>> : d \in {m \in out : m.type = "STREAM_DATA"}}
                         ELSE {}

SubscriptionsSpec == Subs!Spec

Periodic(s) ==
    /\ s \in Str!Active
    /\ streams[s].interval_ms # 0
    /\ Str!HasInput(streams[s].resource) \/ Str!HasOutput(streams[s].resource)

(***************************************************************************)
(* A stream with an interval, in a session that lasts and whose peer lets  *)
(* the receive loop end again and again, is sampled for ever: the message  *)
(* loop and the keepalive do not keep check_streams() from running.        *)
(***************************************************************************)
OpenStreamsFlow ==
    \A s \in Ids :
        []<>(pc # "loop") /\ <>[](connected /\ Periodic(s)) => []<>Str!Sampled(s)

=============================================================================

---------------------------- MODULE IotmpSession ----------------------------
(***************************************************************************)
(* The life of one connection as iotmp_client_base runs it from one task:  *)
(* handle(), authenticate(), disconnect(), the reconnect backoff and the   *)
(* keepalive timer.  handle() is cut where it calls out of the core (the   *)
(* transport, the state callback, a resource callback), because time       *)
(* passes, bytes arrive, the link drops and the application calls          *)
(* disconnect() only there; pc says where the call stands.                 *)
(*                                                                         *)
(* What a received message does to the streams is in IotmpStreams; here    *)
(* only its effect on the connection counts.                               *)
(***************************************************************************)
EXTENDS Naturals, Sequences

CONSTANTS
    Messages,         \* what a transport can deliver: records with a field type
    TimeMod,          \* get_millis() counts modulo TimeMod (2^32 where long has 32 bits)
    ReconnectStart,   \* reconnect_ms_ at start (5000, or set_reconnect_timeout's base)
    ReconnectReset,   \* the literal of reset_backoff() (5000)
    ReconnectMax,     \* reconnect_max_ms_
    KeepaliveMs,      \* keepalive_ms_
    MaxRx,            \* bound: messages waiting in the transport
    MaxUnpolled       \* bound: ticks between two looks at the timers

ASSUME MessagesAssumption == \A m \in Messages : m.type \in STRING

ASSUME TimersAssumption ==
    /\ {TimeMod, ReconnectStart, ReconnectReset, ReconnectMax, KeepaliveMs} \subseteq Nat \ {0}
    /\ MaxRx \in Nat /\ MaxUnpolled \in Nat

(***************************************************************************)
(* No timer is as long as the clock's period, less the longest time handle *)
(* may be kept from looking at it: 60 s and a few seconds against 49 days. *)
(***************************************************************************)
ASSUME TimersFitTheClock ==
    \A t \in {ReconnectStart, ReconnectReset, ReconnectMax, KeepaliveMs} :
        t + MaxUnpolled < TimeMod

VARIABLES
    pc,                       \* where the running call of handle() stands
    connected,                \* connected_
    link,                     \* is_connected_impl(): the transport is open
    rx,                       \* whole messages the transport holds, unread
    clock,                    \* get_millis()
    last_connection_attempt,  \* last_connection_attempt_
    reconnect_ms,             \* reconnect_ms_
    last_keepalive,           \* last_keepalive_
    notified,                 \* last argument of the state callback
    sent,                     \* what this step wrote to the transport, or "NOTHING"
    unpolled,                 \* ticks since the timers were last looked at
    age,                      \* true ticks since the last attempt (saturated)
    silence                   \* true ticks since the session's last keepalive

timers == <<last_connection_attempt, reconnect_ms, last_keepalive>>
ages == <<unpolled, age, silence>>
vars == <<pc, connected, link, rx, clock, timers, notified, sent, ages>>

Pcs == {"idle", "connecting", "opened", "authenticating", "awaiting",
        "authenticated", "linkcheck", "loop", "keepalive", "streams"}

ClientStates == {"NONE", "SOCKET_CONNECTING", "SOCKET_CONNECTED", "SOCKET_CONNECTION_ERROR",
                 "SOCKET_DISCONNECTED", "AUTHENTICATING", "AUTHENTICATED", "AUTH_FAILED", "READY"}

Time == 0 .. TimeMod - 1

Least(a, b) == IF a <= b THEN a ELSE b

LongestWait == CHOOSE w \in {ReconnectStart, ReconnectReset, ReconnectMax} :
                  \A t \in {ReconnectStart, ReconnectReset, ReconnectMax} : t <= w

Init ==
    /\ pc = "idle"
    /\ connected = FALSE /\ link = FALSE /\ rx = <<>>
    /\ clock = 0
    /\ last_connection_attempt = 0 /\ reconnect_ms = ReconnectStart /\ last_keepalive = 0
    /\ notified = "NONE" /\ sent = "NOTHING"
    /\ unpolled = 0 /\ age = 0 /\ silence = 0

-----------------------------------------------------------------------------
(* Helpers of the client. *)

\* now - then in unsigned arithmetic.
Elapsed(then) == IF clock >= then THEN clock - then ELSE clock + TimeMod - then

\* Mutant: a signed difference, negative once the clock has wrapped.
ReconnectSigned == clock - last_connection_attempt >= reconnect_ms

\* Mutant: the end of the wait is computed and compared with the clock.
ReconnectDeadlinePassed == clock >= (last_connection_attempt + reconnect_ms) % TimeMod

should_reconnect == Elapsed(last_connection_attempt) >= reconnect_ms

\* Mutant: the backoff doubles without its cap.
UpdateBackoffUncapped == reconnect_ms' = reconnect_ms * 2

update_backoff == reconnect_ms' = Least(reconnect_ms * 2, ReconnectMax)

reset_backoff == reconnect_ms' = ReconnectReset

notify_state(s) == notified' = s

\* Closing the transport drops what it had received.
disconnect_impl == link' = FALSE /\ rx' = <<>>

\* Mutant: a disconnect without a session is announced too.
DisconnectAnnouncingAlways ==
    /\ connected' = FALSE /\ silence' = 0
    /\ notify_state("SOCKET_DISCONNECTED")
    /\ disconnect_impl

\* disconnect(); its clear_streams() is in IotmpStreams.
disconnect ==
    /\ connected' = FALSE
    /\ IF connected THEN notify_state("SOCKET_DISCONNECTED") ELSE UNCHANGED notified
    /\ silence' = 0
    /\ disconnect_impl

-----------------------------------------------------------------------------
(* handle(): connect and authenticate. *)

HandleTooSoon ==
    /\ pc = "idle" /\ ~connected /\ ~should_reconnect
    /\ sent' = "NOTHING" /\ unpolled' = 0
    /\ UNCHANGED <<pc, connected, link, rx, clock, timers, notified, age, silence>>

HandleReconnect ==
    /\ pc = "idle" /\ ~connected /\ should_reconnect
    /\ pc' = "connecting"
    /\ last_connection_attempt' = clock
    /\ notify_state("SOCKET_CONNECTING")
    /\ sent' = "NOTHING" /\ unpolled' = 0 /\ age' = 0
    /\ UNCHANGED <<connected, link, rx, clock, reconnect_ms, last_keepalive, silence>>

ConnectFails ==
    /\ pc = "connecting"
    /\ pc' = "idle"
    /\ notify_state("SOCKET_CONNECTION_ERROR")
    /\ update_backoff
    /\ sent' = "NOTHING"
    /\ UNCHANGED <<connected, link, rx, clock, last_connection_attempt, last_keepalive, ages>>

ConnectSucceeds ==
    /\ pc = "connecting"
    /\ pc' = "opened"
    /\ link' = TRUE
    /\ notify_state("SOCKET_CONNECTED")
    /\ sent' = "NOTHING"
    /\ UNCHANGED <<connected, rx, clock, timers, ages>>

StartAuthentication ==
    /\ pc = "opened"
    /\ pc' = "authenticating"
    /\ notify_state("AUTHENTICATING")
    /\ sent' = "NOTHING"
    /\ UNCHANGED <<connected, link, rx, clock, timers, ages>>

\* The first half of authenticate(): the CONNECT message is written.
SendConnect ==
    /\ pc = "authenticating" /\ link
    /\ pc' = "awaiting"
    /\ sent' = "CONNECT"
    /\ UNCHANGED <<connected, link, rx, clock, timers, notified, ages>>

\* The second half reads one message; any OK is taken for the answer.
Authenticate ==
    /\ pc = "awaiting" /\ rx # <<>> /\ Head(rx).type = "OK"
    /\ pc' = "authenticated"
    /\ rx' = Tail(rx)
    /\ notify_state("AUTHENTICATED")
    /\ sent' = "NOTHING"
    /\ UNCHANGED <<connected, link, clock, timers, ages>>

\* Mutant: the transport is left open when the server refuses.
FailAuthenticationLeavingOpen ==
    /\ pc' = "idle"
    /\ connected' = FALSE
    /\ notify_state("AUTH_FAILED")
    /\ update_backoff
    /\ sent' = "NOTHING"
    /\ UNCHANGED <<link, rx, clock, last_connection_attempt, last_keepalive, ages>>

\* handle() after authenticate() returned false.
FailAuthentication ==
    /\ pc' = "idle"
    /\ connected' = FALSE
    /\ notify_state("AUTH_FAILED")
    /\ disconnect_impl
    /\ update_backoff
    /\ sent' = "NOTHING"
    /\ UNCHANGED <<clock, last_connection_attempt, last_keepalive, ages>>

\* CONNECT could not be written: the link is closed already.
ConnectNotWritten == pc = "authenticating" /\ ~link /\ FailAuthentication

\* The first message is not an OK.
ConnectRefused == pc = "awaiting" /\ rx # <<>> /\ Head(rx).type # "OK" /\ FailAuthentication

\* The read of the answer times out or finds the link closed.
ConnectUnanswered == pc = "awaiting" /\ rx = <<>> /\ FailAuthentication

\* Mutant: a session starts with the keepalive timer of the one before.
BecomeReadyUnarmed ==
    /\ pc = "authenticated"
    /\ pc' = "linkcheck"
    /\ connected' = TRUE
    /\ reset_backoff
    /\ notify_state("READY")
    /\ sent' = "NOTHING" /\ silence' = 0
    /\ UNCHANGED <<link, rx, clock, last_connection_attempt, last_keepalive, unpolled, age>>

BecomeReady ==
    /\ pc = "authenticated"
    /\ pc' = "linkcheck"
    /\ connected' = TRUE
    /\ last_keepalive' = clock
    /\ reset_backoff
    /\ notify_state("READY")
    /\ sent' = "NOTHING" /\ silence' = 0
    /\ UNCHANGED <<link, rx, clock, last_connection_attempt, unpolled, age>>

-----------------------------------------------------------------------------
(* handle(): the part that runs while connected. *)

HandleConnected ==
    /\ pc = "idle" /\ connected
    /\ pc' = "linkcheck"
    /\ sent' = "NOTHING"
    /\ UNCHANGED <<connected, link, rx, clock, timers, notified, ages>>

LinkIsUp ==
    /\ pc = "linkcheck" /\ link
    /\ pc' = "loop"
    /\ sent' = "NOTHING"
    /\ UNCHANGED <<connected, link, rx, clock, timers, notified, ages>>

LinkIsDown ==
    /\ pc = "linkcheck" /\ ~link
    /\ pc' = "idle"
    /\ disconnect
    /\ sent' = "NOTHING"
    /\ UNCHANGED <<clock, timers, unpolled, age>>

\* Handling these runs a callback of the application.
RunsCallback(m) == m.type \in {"RUN", "DESCRIBE", "START_STREAM", "STREAM_DATA"}

\* process_incoming() reads a message whose handling leaves the connection alone.
ProcessMessage(m) ==
    /\ pc = "loop" /\ rx # <<>> /\ m = Head(rx)
    /\ m.type \notin {"DISCONNECT", "UNREADABLE"}
    /\ rx' = Tail(rx)
    /\ sent' = "NOTHING"
    /\ UNCHANGED <<pc, connected, link, clock, timers, notified, ages>>

\* handle_message() disconnects, for a DISCONNECT or from the application's
\* callback; handle() stays in its loop.
ProcessDisconnect(m) ==
    /\ pc = "loop" /\ rx # <<>> /\ m = Head(rx)
    /\ m.type = "DISCONNECT" \/ RunsCallback(m)
    /\ disconnect
    /\ sent' = "NOTHING"
    /\ UNCHANGED <<pc, clock, timers, unpolled, age>>

\* process_incoming() returns false: the frame is cut short or malformed.
ProcessUnreadable ==
    /\ pc = "loop" /\ rx # <<>> /\ Head(rx).type = "UNREADABLE"
    /\ pc' = "idle"
    /\ disconnect
    /\ sent' = "NOTHING"
    /\ UNCHANGED <<clock, timers, unpolled, age>>

LoopDone ==
    /\ pc = "loop" /\ rx = <<>>
    /\ pc' = "keepalive"
    /\ sent' = "NOTHING"
    /\ UNCHANGED <<connected, link, rx, clock, timers, notified, ages>>

\* process_keepalive(); it does not look at connected_.
ProcessKeepalive ==
    /\ pc = "keepalive"
    /\ pc' = "streams"
    /\ IF Elapsed(last_keepalive) >= KeepaliveMs
         THEN /\ sent' = "KEEP_ALIVE" /\ silence' = 0
              /\ last_keepalive' = clock
         ELSE /\ sent' = "NOTHING" 
              /\ UNCHANGED <<last_keepalive, silence>>
    /\ unpolled' = 0
    /\ UNCHANGED <<connected, link, rx, clock, last_connection_attempt, reconnect_ms,
                   notified, age>>

\* check_streams() and the return of handle().
HandleReturns ==
    /\ pc = "streams"
    /\ pc' = "idle"
    /\ sent' = "NOTHING"
    /\ UNCHANGED <<connected, link, rx, clock, timers, notified, ages>>

-----------------------------------------------------------------------------
(* The application, the peer, the network and the clock. *)

\* disconnect() called between two calls of handle() or from the state callback.
AppDisconnects ==
    /\ pc \in {"idle", "connecting", "opened", "authenticating", "authenticated", "linkcheck"}
    /\ disconnect
    /\ sent' = "NOTHING"
    /\ UNCHANGED <<pc, clock, timers, unpolled, age>>

Arrives(m) ==
    /\ link /\ Len(rx) < MaxRx
    /\ rx' = Append(rx, m)
    /\ sent' = "NOTHING"
    /\ UNCHANGED <<pc, connected, link, clock, timers, notified, ages>>

\* The peer closes or the network fails; what was received may still be read.
LinkDrops ==
    /\ link
    /\ link' = FALSE
    /\ rx' \in {rx, <<>>}
    /\ sent' = "NOTHING"
    /\ UNCHANGED <<pc, connected, clock, timers, notified, ages>>

Tick ==
    /\ unpolled < MaxUnpolled
    /\ clock' = (clock + 1) % TimeMod
    /\ unpolled' = unpolled + 1
    /\ age' = Least(age + 1, LongestWait)
    /\ silence' = IF connected THEN silence + 1 ELSE 0
    /\ sent' = "NOTHING"
    /\ UNCHANGED <<pc, connected, link, rx, timers, notified>>

-----------------------------------------------------------------------------

\* A step of handle() itself.
Handle ==
    \/ HandleTooSoon \/ HandleReconnect \/ ConnectFails \/ ConnectSucceeds
    \/ StartAuthentication \/ SendConnect \/ Authenticate
    \/ ConnectNotWritten \/ ConnectRefused \/ ConnectUnanswered \/ BecomeReady
    \/ HandleConnected \/ LinkIsUp \/ LinkIsDown
    \/ \E m \in Messages : ProcessMessage(m) \/ ProcessDisconnect(m)
    \/ ProcessUnreadable \/ LoopDone \/ ProcessKeepalive \/ HandleReturns

Environment ==
    \/ AppDisconnects
    \/ \E m \in Messages : Arrives(m)
    \/ LinkDrops
    \/ Tick

Next == Handle \/ Environment

(***************************************************************************)
(* The application keeps calling handle(), every call of the transport and *)
(* of a callback returns, and time passes.  Of the server, the network and *)
(* the application's own disconnect() nothing is assumed.                  *)
(***************************************************************************)
Fairness == WF_vars(Handle) /\ WF_vars(Tick)

Spec == Init /\ [][Next]_vars /\ Fairness

-----------------------------------------------------------------------------
(* Properties. *)

TypeOK ==
    /\ pc \in Pcs
    /\ connected \in BOOLEAN /\ link \in BOOLEAN
    /\ rx \in Seq(Messages)
    /\ clock \in Time
    /\ last_connection_attempt \in Time /\ last_keepalive \in Time
    /\ reconnect_ms \in 1 .. LongestWait
    /\ notified \in ClientStates
    /\ sent \in {"NOTHING", "CONNECT", "KEEP_ALIVE"}
    /\ unpolled \in 0 .. MaxUnpolled
    /\ age \in 0 .. LongestWait /\ silence \in Nat

(***************************************************************************)
(* Every way out of handle() that leaves the client disconnected has also  *)
(* closed the transport: a refused or unanswered CONNECT, a closed link, a *)
(* malformed frame and a DISCONNECT leave no socket open behind them, and  *)
(* the next connect_impl() starts from a closed transport.                 *)
(***************************************************************************)
NoLeakedTransport == pc \in {"idle", "connecting"} /\ ~connected => ~link /\ rx = <<>>

(***************************************************************************)
(* The client reports itself connected only after an attempt that was      *)
(* announced, opened and authenticated, and every end of a session is      *)
(* announced once: the callback and is_connected() follow ConnectionStates.*)
(***************************************************************************)
Observer == INSTANCE ConnectionStates WITH notified <- notified, online <- connected

ObserverSafety == Observer!Init /\ [][Observer!Notify]_(Observer!states)

\* ... and no attempt stays undecided: the whole abstract specification.
ObserverSpec == Observer!Spec

(***************************************************************************)
(* Two attempts to connect are reconnect_ms_ of real time apart, whatever  *)
(* get_millis() does in between: it may wrap past last_connection_attempt_.*)
(***************************************************************************)
AttemptsAreSpaced ==
    [][notified' = "SOCKET_CONNECTING" /\ notified # notified' => age >= reconnect_ms]_vars

(***************************************************************************)
(* A session never stays silent longer than the keepalive period and one   *)
(* pass of handle(): READY arms the timer, and process_keepalive() fires   *)
(* it, also across a wrap of get_millis().                                 *)
(***************************************************************************)
SessionIsKeptAlive == connected => silence < KeepaliveMs + MaxUnpolled

\* What can keep the client from a session, or take one from it.
Fault ==
    \/ ConnectFails \/ ConnectNotWritten \/ ConnectRefused \/ ConnectUnanswered
    \/ \E m \in Messages : ProcessDisconnect(m)
    \/ ProcessUnreadable \/ AppDisconnects \/ LinkDrops

(***************************************************************************)
(* Once the faults stop, the client gets a session and keeps it: whatever  *)
(* the failures before did to the backoff and wherever the clock stands.   *)
(***************************************************************************)
Reconnects == <>[][~Fault]_vars => <>[]connected

(***************************************************************************)
(* tests/test_client.cpp:1851, "handle: does not process messages or       *)
(* keepalive when disconnected".                                           *)
(***************************************************************************)
NoKeepaliveWhenDisconnected == [][sent' = "KEEP_ALIVE" => connected]_vars

=============================================================================

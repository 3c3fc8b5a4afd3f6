-------------------------- MODULE IotmpSessionProofs --------------------------
(***************************************************************************)
(* Proofs about IotmpSession, for any timers, clock and messages: its      *)
(* types, the order in which the application sees the client's states, the *)
(* transport that is closed with every session, the spacing of attempts    *)
(* and the keepalives across a wrap of the clock.                          *)
(***************************************************************************)
EXTENDS IotmpSession, TLAPS

\* The clock steps to the next value of its period.
NextTime == IF clock + 1 = TimeMod THEN 0 ELSE clock + 1

-----------------------------------------------------------------------------
(* The inductive invariants. *)

\* Where handle() is busy with an attempt to connect.
AttemptPcs == {"connecting", "opened", "authenticating", "awaiting", "authenticated"}

\* The state announced last, as pc and connected_ determine it.
Announced ==
    /\ pc \in AttemptPcs => ~connected
    /\ connected => notified = "READY"
    /\ pc = "connecting" => notified = "SOCKET_CONNECTING"
    /\ pc = "opened" => notified = "SOCKET_CONNECTED"
    /\ pc \in {"authenticating", "awaiting"} => notified = "AUTHENTICATING"
    /\ pc = "authenticated" => notified = "AUTHENTICATED"
    /\ ~connected /\ pc \notin AttemptPcs => notified \in Observer!AtRest

\* Without a session only an attempt may hold the transport open.
Closed == ~connected /\ pc \notin AttemptPcs \ {"connecting"} => ~link /\ rx = <<>>

\* The clock shows at most the true age of the last attempt.
AgeShown == Least(Elapsed(last_connection_attempt), LongestWait) <= age

\* During a session the clock shows its silence exactly, and it is bounded.
SilenceShown ==
    connected => /\ Elapsed(last_keepalive) = silence
                 /\ silence < KeepaliveMs + unpolled

-----------------------------------------------------------------------------
(* Arithmetic of the clock and of the waits. *)

\* The longest wait is one of the three, and none is longer.
LEMMA LongestWaitFact ==
    /\ LongestWait \in Nat \ {0}
    /\ ReconnectStart <= LongestWait /\ ReconnectReset <= LongestWait
    /\ ReconnectMax <= LongestWait
<1> DEFINE Waits == {ReconnectStart, ReconnectReset, ReconnectMax}
           IsLongest(w) == \A t \in Waits : t <= w
<1>1. Waits \subseteq Nat \ {0}
  BY TimersAssumption
<1>2. \E w \in Waits : IsLongest(w)
  BY <1>1
<1>3. LongestWait \in Waits /\ IsLongest(LongestWait)
  <2> HIDE DEF Waits
  <2>1. LongestWait = CHOOSE w \in Waits : \A t \in Waits : t <= w
    BY DEF LongestWait, Waits
  <2> QED
    BY <1>2, <2>1
<1> QED
  BY <1>1, <1>3

\* One tick takes the clock to the next value of its period.
LEMMA TickStep ==
    ASSUME clock \in Time, clock' = (clock + 1) % TimeMod
    PROVE  clock' = NextTime /\ clock' \in Time
BY TimersAssumption DEF Time, NextTime

\* What the clock shows of an instant grows by one with a tick, or wraps to zero.
LEMMA ElapsedStep ==
    ASSUME clock \in Time, NEW then \in Time, clock' = (clock + 1) % TimeMod
    PROVE  /\ Elapsed(then) \in 0 .. TimeMod - 1
           /\ Elapsed(then)' = IF Elapsed(then) + 1 = TimeMod THEN 0 ELSE Elapsed(then) + 1
BY TickStep, TimersAssumption DEF Time, NextTime, Elapsed

\* A doubled wait stays within the longest.
LEMMA BackoffType ==
    ASSUME reconnect_ms \in 1 .. LongestWait, update_backoff
    PROVE  reconnect_ms' \in 1 .. LongestWait
BY LongestWaitFact, TimersAssumption DEF update_backoff, Least

-----------------------------------------------------------------------------
(* Types. *)

\* A closed transport holds no message.
LEMMA NoMessages == <<>> \in Seq(Messages)
OBVIOUS

\* The client starts with variables of their types.
LEMMA InitType == Init => TypeOK
<1>1. /\ 0 \in Time /\ 0 \in 0 .. MaxUnpolled
      /\ ReconnectStart \in 1 .. LongestWait /\ 0 \in 0 .. LongestWait
  BY LongestWaitFact, TimersAssumption DEF Time
<1>2. ASSUME Init
      PROVE  /\ pc \in Pcs /\ connected \in BOOLEAN /\ link \in BOOLEAN
             /\ rx \in Seq(Messages)
  BY <1>2, NoMessages DEF Init, Pcs
<1>3. ASSUME Init
      PROVE  /\ clock \in Time /\ last_connection_attempt \in Time /\ last_keepalive \in Time
             /\ unpolled \in 0 .. MaxUnpolled /\ age \in 0 .. LongestWait /\ silence \in Nat
             /\ reconnect_ms \in 1 .. LongestWait
  BY <1>1, <1>3 DEF Init
<1>4. ASSUME Init
      PROVE  notified \in ClientStates /\ sent \in {"NOTHING", "CONNECT", "KEEP_ALIVE"}
  BY <1>4 DEF Init, ClientStates
<1> QED
  BY <1>2, <1>3, <1>4 DEF TypeOK

\* Every step of handle(), of the application, the network and the clock keeps them.
LEMMA NextType == TypeOK /\ [Next]_vars => TypeOK'
<1> SUFFICES ASSUME TypeOK, [Next]_vars PROVE TypeOK'
  OBVIOUS
<1> USE DEF TypeOK, Pcs, ClientStates, timers, ages, notify_state
<1>1. CASE HandleTooSoon
  BY <1>1, TimersAssumption DEF HandleTooSoon
<1>2. CASE HandleReconnect
  BY <1>2, LongestWaitFact, TimersAssumption DEF HandleReconnect
<1>3. CASE ConnectFails
  BY <1>3, BackoffType DEF ConnectFails
<1>4. CASE ConnectSucceeds
  BY <1>4 DEF ConnectSucceeds
<1>5. CASE StartAuthentication
  BY <1>5 DEF StartAuthentication
<1>6. CASE SendConnect
  BY <1>6 DEF SendConnect
<1>7. CASE Authenticate
  BY <1>7 DEF Authenticate
<1>8. CASE ConnectNotWritten \/ ConnectRefused \/ ConnectUnanswered
  <2>1. FailAuthentication
    BY <1>8 DEF ConnectNotWritten, ConnectRefused, ConnectUnanswered
  <2> QED
    BY <2>1, BackoffType, NoMessages DEF FailAuthentication, disconnect_impl
<1>9. CASE BecomeReady
  BY <1>9, LongestWaitFact, TimersAssumption DEF BecomeReady, reset_backoff
<1>10. CASE HandleConnected \/ LinkIsUp \/ LoopDone \/ HandleReturns
  BY <1>10 DEF HandleConnected, LinkIsUp, LoopDone, HandleReturns
<1>11. ASSUME disconnect, pc' \in Pcs, sent' = "NOTHING",
              UNCHANGED <<clock, timers, unpolled, age>>
       PROVE  TypeOK'
  BY <1>11, NoMessages DEF disconnect, disconnect_impl
<1>12. CASE LinkIsDown \/ ProcessUnreadable \/ AppDisconnects
  BY <1>11, <1>12 DEF LinkIsDown, ProcessUnreadable, AppDisconnects
<1>13. ASSUME NEW m \in Messages, ProcessMessage(m) PROVE TypeOK'
  BY <1>13 DEF ProcessMessage
<1>14. ASSUME NEW m \in Messages, ProcessDisconnect(m) PROVE TypeOK'
  BY <1>11, <1>14 DEF ProcessDisconnect
<1>15. CASE ProcessKeepalive
  BY <1>15, TimersAssumption DEF ProcessKeepalive
<1>16. ASSUME NEW m \in Messages, Arrives(m) PROVE TypeOK'
  BY <1>16 DEF Arrives
<1>17. CASE LinkDrops
  BY <1>17, NoMessages DEF LinkDrops
<1>18. CASE Tick
  <2>1. clock' \in Time
    BY <1>18, TickStep DEF Tick
  <2>2. /\ age' \in 0 .. LongestWait /\ silence' \in Nat
        /\ unpolled' \in 0 .. MaxUnpolled
    BY <1>18, LongestWaitFact, TimersAssumption DEF Tick, Least
  <2> QED
    BY <1>18, <2>1, <2>2 DEF Tick
<1>19. CASE UNCHANGED vars
  BY <1>19 DEF vars
<1> QED
  BY <1>1, <1>2, <1>3, <1>4, <1>5, <1>6, <1>7, <1>8, <1>9, <1>10, <1>12, <1>13, <1>14,
     <1>15, <1>16, <1>17, <1>18, <1>19
     DEF Next, Handle, Environment

\* The variables keep their types, for any timers and any clock that fits them.
THEOREM TypeCorrect == Spec => []TypeOK
BY InitType, NextType, PTL DEF Spec

-----------------------------------------------------------------------------
(* What the application observes. *)

\* Announced holds before the first attempt.
LEMMA InitAnnounced == Init => Announced
BY DEF Init, Announced, AttemptPcs, Observer!AtRest

(***************************************************************************)
(* A step keeps Announced, and what it announces is what ConnectionStates  *)
(* lets follow: pc remembers how far the attempt went, so each call of the *)
(* callback finds the state it needs before it.                            *)
(***************************************************************************)
LEMMA NextAnnounced ==
    TypeOK /\ Announced /\ [Next]_vars => Announced' /\ [Observer!Notify]_(Observer!states)
<1> SUFFICES ASSUME TypeOK, Announced, [Next]_vars
             PROVE  Announced' /\ [Observer!Notify]_(Observer!states)
  OBVIOUS
<1>0. connected \in BOOLEAN
  BY DEF TypeOK
<1> USE <1>0 DEF Announced, AttemptPcs, notify_state, Observer!states, Observer!AtRest
<1>1. CASE HandleReconnect
  BY <1>1 DEF HandleReconnect, Observer!Notify, Observer!Follows
<1>2. CASE ConnectFails
  BY <1>2 DEF ConnectFails, Observer!Notify, Observer!Follows
<1>3. CASE ConnectSucceeds
  BY <1>3 DEF ConnectSucceeds, Observer!Notify, Observer!Follows
<1>4. CASE StartAuthentication
  BY <1>4 DEF StartAuthentication, Observer!Notify, Observer!Follows
<1>5. CASE Authenticate
  BY <1>5 DEF Authenticate, Observer!Notify, Observer!Follows
<1>6. CASE ConnectNotWritten \/ ConnectRefused \/ ConnectUnanswered
  BY <1>6 DEF ConnectNotWritten, ConnectRefused, ConnectUnanswered, FailAuthentication,
              Observer!Notify, Observer!Follows
<1>7. CASE BecomeReady
  BY <1>7 DEF BecomeReady, Observer!Notify, Observer!Follows
<1>8. ASSUME disconnect, pc' = pc \/ (pc' = "idle" /\ pc \notin AttemptPcs)
      PROVE  Announced' /\ [Observer!Notify]_(Observer!states)
  <2>1. CASE connected
    BY <1>8, <2>1 DEF disconnect, Observer!Notify, Observer!Follows
  <2>2. CASE ~connected
    BY <1>8, <2>2 DEF disconnect
  <2> QED
    BY <2>1, <2>2
<1>9. CASE LinkIsDown
  BY <1>8, <1>9 DEF LinkIsDown
<1>10. CASE ProcessUnreadable
  BY <1>8, <1>10 DEF ProcessUnreadable
<1>11. CASE AppDisconnects
  BY <1>8, <1>11 DEF AppDisconnects
<1>12. ASSUME NEW m \in Messages, ProcessDisconnect(m)
       PROVE  Announced' /\ [Observer!Notify]_(Observer!states)
  BY <1>8, <1>12 DEF ProcessDisconnect
<1>13. CASE UNCHANGED <<connected, notified>> /\
            (pc' = pc \/ (pc \notin AttemptPcs /\ pc' \notin AttemptPcs))
  BY <1>13
<1>14. CASE SendConnect
  BY <1>14 DEF SendConnect
<1>15. CASE HandleTooSoon \/ HandleConnected \/ LinkIsUp \/ LoopDone
  BY <1>15 DEF HandleTooSoon, HandleConnected, LinkIsUp, LoopDone
<1>16. CASE ProcessKeepalive \/ HandleReturns
  BY <1>16 DEF ProcessKeepalive, HandleReturns
<1>17. CASE \E m \in Messages : ProcessMessage(m) \/ Arrives(m)
  BY <1>13, <1>17 DEF ProcessMessage, Arrives
<1>18. CASE LinkDrops \/ Tick \/ UNCHANGED vars
  BY <1>13, <1>18 DEF LinkDrops, Tick, vars
<1> QED
  BY <1>1, <1>2, <1>3, <1>4, <1>5, <1>6, <1>7, <1>9, <1>10, <1>11, <1>12,
     <1>14, <1>15, <1>16, <1>17, <1>18
     DEF Next, Handle, Environment

(***************************************************************************)
(* The state callback and is_connected() follow ConnectionStates: READY    *)
(* only after every step of an attempt, SOCKET_DISCONNECTED once for each. *)
(***************************************************************************)
THEOREM ObserverIsSafe == Spec => ObserverSafety
<1>1. Init => Observer!Init
  BY DEF Init, Observer!Init
<1> QED
  BY <1>1, TypeCorrect, InitAnnounced, NextAnnounced, PTL DEF Spec, ObserverSafety

-----------------------------------------------------------------------------
(* The transport. *)

\* A closed transport stays so but for connect_impl(), and every end of a session closes it.
LEMMA NextClosed == TypeOK /\ Announced /\ Closed /\ [Next]_vars => Closed'
<1> SUFFICES ASSUME TypeOK, Announced, Closed, [Next]_vars PROVE Closed'
  OBVIOUS
<1>0. connected \in BOOLEAN /\ link \in BOOLEAN
  BY DEF TypeOK
<1> USE <1>0 DEF Closed, AttemptPcs, disconnect_impl
<1>1. CASE ~link' /\ rx' = <<>>
  BY <1>1
<1>2. CASE pc' \in AttemptPcs \ {"connecting"}
  BY <1>2
<1>3. CASE ConnectNotWritten \/ ConnectRefused \/ ConnectUnanswered \/ ConnectFails
  BY <1>3 DEF ConnectNotWritten, ConnectRefused, ConnectUnanswered, FailAuthentication,
              ConnectFails
<1>4. CASE LinkIsDown \/ ProcessUnreadable \/ AppDisconnects
            \/ \E m \in Messages : ProcessDisconnect(m)
  BY <1>1, <1>4 DEF LinkIsDown, ProcessUnreadable, AppDisconnects, ProcessDisconnect, disconnect
<1>5. CASE HandleTooSoon \/ HandleReconnect \/ HandleConnected \/ LinkIsUp \/ LoopDone
  BY <1>5 DEF HandleTooSoon, HandleReconnect, HandleConnected, LinkIsUp, LoopDone
<1>6. CASE ProcessKeepalive \/ HandleReturns
  BY <1>6 DEF ProcessKeepalive, HandleReturns
<1>7. CASE \E m \in Messages : ProcessMessage(m) \/ Arrives(m)
  BY <1>7 DEF ProcessMessage, Arrives
<1>8. CASE LinkDrops \/ Tick \/ UNCHANGED vars
  BY <1>8 DEF LinkDrops, Tick, vars
<1>9. CASE ConnectSucceeds \/ StartAuthentication \/ SendConnect \/ Authenticate
  BY <1>2, <1>9 DEF ConnectSucceeds, StartAuthentication, SendConnect, Authenticate
<1>10. CASE BecomeReady
  BY <1>10 DEF BecomeReady
<1> QED
  BY <1>3, <1>4, <1>5, <1>6, <1>7, <1>8, <1>9, <1>10 DEF Next, Handle, Environment

\* No session, refused attempt or malformed frame leaves the transport open behind it.
THEOREM TransportIsNotLeaked == Spec => []NoLeakedTransport
<1>1. Init => Closed
  BY DEF Init, Closed
<1>2. Closed => NoLeakedTransport
  BY DEF Closed, NoLeakedTransport, AttemptPcs
<1>3. TypeOK /\ Announced /\ [Next]_vars => Announced'
  BY NextAnnounced
<1> QED
  BY <1>1, <1>2, <1>3, TypeCorrect, InitAnnounced, NextClosed, PTL DEF Spec

-----------------------------------------------------------------------------
(* Time. *)

\* Before the first attempt the clock and the age are both zero.
LEMMA InitAgeShown == Init => AgeShown
<1> SUFFICES ASSUME Init PROVE AgeShown
  OBVIOUS
<1>1. Elapsed(last_connection_attempt) = 0
  BY DEF Init, Elapsed
<1> QED
  BY <1>1, LongestWaitFact DEF Init, AgeShown, Least

(***************************************************************************)
(* The clock never shows more than the true age: a tick adds one to both,  *)
(* and where the clock wraps it shows less.                                *)
(***************************************************************************)
LEMMA NextAgeShown == TypeOK /\ AgeShown /\ [Next]_vars => AgeShown'
<1> SUFFICES ASSUME TypeOK, AgeShown, [Next]_vars PROVE AgeShown'
  OBVIOUS
<1>1. CASE UNCHANGED <<clock, last_connection_attempt, age>>
  BY <1>1 DEF AgeShown, Elapsed
<1>2. CASE HandleReconnect
  <2>1. clock \in Nat /\ clock' = clock /\ last_connection_attempt' = clock /\ age' = 0
    BY <1>2, TimersAssumption DEF HandleReconnect, TypeOK, Time
  <2>2. Elapsed(last_connection_attempt)' = 0
    BY <2>1 DEF Elapsed
  <2> QED
    BY <2>1, <2>2, LongestWaitFact DEF AgeShown, Least
<1>3. CASE Tick
  <2> DEFINE shown == Elapsed(last_connection_attempt)
  <2>1. /\ shown \in Nat /\ shown' \in Nat /\ shown' <= shown + 1
    <3>1. last_connection_attempt' = last_connection_attempt
      BY <1>3 DEF Tick, timers
    <3>2. /\ shown \in 0 .. TimeMod - 1
          /\ shown' = IF shown + 1 = TimeMod THEN 0 ELSE shown + 1
      BY <1>3, <3>1, ElapsedStep DEF TypeOK, Tick, Elapsed
    <3> HIDE DEF shown
    <3> QED
      BY <3>2, TimersAssumption
  <2>2. age' = Least(age + 1, LongestWait) /\ age \in 0 .. LongestWait
    BY <1>3 DEF Tick, TypeOK
  <2>3. Least(shown, LongestWait) <= age
    BY DEF AgeShown
  <2>4. Least(shown', LongestWait) <= age'
    <3> HIDE DEF shown
    <3> QED
      BY <2>1, <2>2, <2>3, LongestWaitFact DEF Least
  <2> QED
    BY <2>4 DEF AgeShown
<1> QED
  BY <1>1, <1>2, <1>3
     DEF Next, Handle, Environment, HandleTooSoon, ConnectFails, ConnectSucceeds,
         StartAuthentication, SendConnect, Authenticate, ConnectNotWritten, ConnectRefused,
         ConnectUnanswered, FailAuthentication, BecomeReady, HandleConnected, LinkIsUp,
         LinkIsDown, ProcessMessage, ProcessDisconnect, ProcessUnreadable, LoopDone,
         ProcessKeepalive, HandleReturns, AppDisconnects, Arrives, LinkDrops, timers, ages, vars

(***************************************************************************)
(* An attempt is announced by HandleReconnect alone, which waits for the   *)
(* clock to show reconnect_ms_; the true age is no less.                   *)
(***************************************************************************)
LEMMA AttemptIsSpaced ==
    TypeOK /\ AgeShown /\ [Next]_vars
      => [notified' = "SOCKET_CONNECTING" /\ notified # notified' => age >= reconnect_ms]_vars
<1> SUFFICES ASSUME TypeOK, AgeShown, [Next]_vars,
                    notified' = "SOCKET_CONNECTING", notified # notified'
             PROVE  age >= reconnect_ms
  OBVIOUS
<1>1. HandleReconnect
  BY DEF Next, Handle, Environment, HandleTooSoon, ConnectFails, ConnectSucceeds,
         StartAuthentication, SendConnect, Authenticate, ConnectNotWritten, ConnectRefused,
         ConnectUnanswered, FailAuthentication, BecomeReady, HandleConnected, LinkIsUp,
         LinkIsDown, ProcessMessage, ProcessDisconnect, ProcessUnreadable, LoopDone,
         ProcessKeepalive, HandleReturns, AppDisconnects, Arrives, LinkDrops, Tick, vars,
         disconnect, notify_state
<1> DEFINE shown == Elapsed(last_connection_attempt)
<1>2. shown >= reconnect_ms /\ reconnect_ms \in 1 .. LongestWait /\ age \in Nat
  BY <1>1, LongestWaitFact DEF HandleReconnect, should_reconnect, TypeOK
<1>3. shown \in Nat
  BY TimersAssumption DEF TypeOK, Time, Elapsed
<1>4. Least(shown, LongestWait) <= age
  BY DEF AgeShown
<1> HIDE DEF shown
<1> QED
  BY <1>2, <1>3, <1>4, LongestWaitFact DEF Least

\* Attempts are reconnect_ms_ of real time apart, wherever the clock wraps.
THEOREM AttemptsAreAlwaysSpaced == Spec => AttemptsAreSpaced
BY TypeCorrect, InitAgeShown, NextAgeShown, AttemptIsSpaced, PTL DEF Spec, AttemptsAreSpaced

(***************************************************************************)
(* READY arms the timer, a tick adds one to what the clock shows and to    *)
(* the silence, and process_keepalive() resets both or finds the period    *)
(* not over.  No timer is as long as the clock's period, so no wrap hides  *)
(* the silence.                                                            *)
(***************************************************************************)
LEMMA NextSilenceShown == TypeOK /\ SilenceShown /\ [Next]_vars => SilenceShown'
<1> SUFFICES ASSUME TypeOK, SilenceShown, [Next]_vars, connected'
             PROVE  Elapsed(last_keepalive)' = silence' /\ silence' < KeepaliveMs + unpolled'
  BY DEF SilenceShown
<1>0. /\ connected \in BOOLEAN /\ unpolled \in 0 .. MaxUnpolled /\ silence \in Nat
      /\ KeepaliveMs \in Nat \ {0} /\ MaxUnpolled \in Nat /\ TimeMod \in Nat \ {0}
  BY TimersAssumption DEF TypeOK
<1>1. CASE UNCHANGED <<connected, clock, last_keepalive, silence, unpolled>>
  BY <1>1 DEF SilenceShown, Elapsed
<1>2. CASE BecomeReady
  <2>1. /\ clock \in Nat /\ clock' = clock /\ last_keepalive' = clock
        /\ silence' = 0 /\ unpolled' = unpolled
    BY <1>2, TimersAssumption DEF BecomeReady, TypeOK, Time
  <2>2. Elapsed(last_keepalive)' = 0
    BY <2>1 DEF Elapsed
  <2> QED
    BY <1>0, <2>1, <2>2
<1>3. CASE ProcessKeepalive
  <2>1. connected /\ clock \in Nat /\ clock' = clock /\ unpolled' = 0
    BY <1>3, TimersAssumption DEF ProcessKeepalive, TypeOK, Time
  <2>2. CASE Elapsed(last_keepalive) >= KeepaliveMs
    <3>1. silence' = 0 /\ last_keepalive' = clock
      BY <1>3, <2>2 DEF ProcessKeepalive
    <3>2. Elapsed(last_keepalive)' = 0
      BY <2>1, <3>1 DEF Elapsed
    <3> QED
      BY <1>0, <2>1, <3>1, <3>2
  <2>3. CASE ~(Elapsed(last_keepalive) >= KeepaliveMs)
    <3>1. UNCHANGED <<silence, last_keepalive>>
      BY <1>3, <2>3 DEF ProcessKeepalive
    <3>2. Elapsed(last_keepalive)' = Elapsed(last_keepalive)
      BY <2>1, <3>1 DEF Elapsed
    <3>3. Elapsed(last_keepalive) = silence
      BY <2>1 DEF SilenceShown
    <3> QED
      BY <1>0, <2>1, <2>3, <3>1, <3>2, <3>3
  <2> QED
    BY <2>2, <2>3
<1>4. CASE Tick
  <2> DEFINE shown == Elapsed(last_keepalive)
  <2>1. /\ connected /\ silence' = silence + 1 /\ unpolled' = unpolled + 1
        /\ unpolled < MaxUnpolled /\ last_keepalive' = last_keepalive
    BY <1>4 DEF Tick, timers
  <2>2. shown = silence /\ silence < KeepaliveMs + unpolled
    BY <2>1 DEF SilenceShown
  <2>3. shown' = IF shown + 1 = TimeMod THEN 0 ELSE shown + 1
    BY <1>4, <2>1, ElapsedStep DEF TypeOK, Tick, Elapsed
  <2>4. KeepaliveMs + MaxUnpolled < TimeMod
    BY TimersFitTheClock
  <2> HIDE DEF shown
  <2>5. shown' = silence' /\ silence' < KeepaliveMs + unpolled'
    BY <1>0, <2>1, <2>2, <2>3, <2>4
  <2> QED
    BY <2>5 DEF shown
<1>5. ~connected' \/ UNCHANGED <<connected, clock, last_keepalive, silence, unpolled>>
        \/ BecomeReady \/ ProcessKeepalive \/ Tick
  BY <1>0
     DEF Next, Handle, Environment, HandleTooSoon, HandleReconnect, ConnectFails,
         ConnectSucceeds, StartAuthentication, SendConnect, Authenticate, ConnectNotWritten,
         ConnectRefused, ConnectUnanswered, FailAuthentication, HandleConnected, LinkIsUp,
         LinkIsDown, ProcessMessage, ProcessDisconnect, ProcessUnreadable, LoopDone,
         HandleReturns, AppDisconnects, Arrives, LinkDrops, disconnect, timers, ages, vars
<1> QED
  BY <1>1, <1>2, <1>3, <1>4, <1>5

\* A silence the clock shows exactly, and has just looked at, is short.
LEMMA ShownIsShort == TypeOK /\ SilenceShown => SessionIsKeptAlive
BY TimersAssumption DEF TypeOK, SilenceShown, SessionIsKeptAlive

\* No session is silent for longer than the period and one pass of handle().
THEOREM SessionIsAlwaysKeptAlive == Spec => []SessionIsKeptAlive
<1>1. Init => SilenceShown
  BY DEF Init, SilenceShown
<1> QED
  BY <1>1, ShownIsShort, TypeCorrect, NextSilenceShown, PTL DEF Spec

=============================================================================

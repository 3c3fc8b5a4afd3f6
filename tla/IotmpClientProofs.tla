-------------------------- MODULE IotmpClientProofs --------------------------
(***************************************************************************)
(* Proofs about IotmpClient, for any resources, ids, messages and timers:  *)
(* streams end with the session that opened them, and data reaches no      *)
(* server without one; and the client, which cuts disconnect() at its      *)
(* state callback, keeps what was proved of the session and serves the     *)
(* subscriptions of its server.                                            *)
(***************************************************************************)
EXTENDS IotmpClient, TLAPS

\* The proofs about the parts; those of the session are about its view.
SesP == INSTANCE IotmpSessionProofs WITH
    link <- IF closing THEN FALSE ELSE link,
    rx <- IF closing THEN <<>> ELSE rx
StrP == INSTANCE IotmpStreamsProofs WITH MaxUnsampled <- MaxUnpolled, unsampled <- 0

\* Where an attempt holds a transport without a session.
Undecided == {"opened", "authenticating", "awaiting", "authenticated"}

(***************************************************************************)
(* A client without a session has no streams; it has nothing left to read  *)
(* either, unless it is in the middle of an attempt or of a disconnect(),  *)
(* so no request of the server can open one.  A disconnect(), and a        *)
(* handler whose callback called it, are over before the next attempt.     *)
(***************************************************************************)
Ended ==
    /\ connected \in BOOLEAN /\ closing \in BOOLEAN
    /\ pc \in Undecided \cup {"connecting"} => ~connected
    /\ closing \/ rest # {} => ~connected /\ pc \notin Undecided \cup {"connecting"}
    /\ ~connected /\ ~closing /\ pc \notin Undecided => ~link /\ rx = <<>>
    /\ StreamsBelongToTheSession

\* Data only goes out in a session, where it ends, or to a closed transport.
Contained == link' /\ (\E d \in out' : d.type = "STREAM_DATA") => connected \/ closing

-----------------------------------------------------------------------------

\* A client starts without a session and without streams.
LEMMA InitEnded == Init => Ended
BY DEF Init, Ses!Init, Str!Init, Ended, Undecided, StreamsBelongToTheSession, Str!Active,
       Str!stream_enabled

\* A step that leaves the streams alone keeps them with their session.
LEMMA IdleKeeps ==
    ASSUME StreamsBelongToTheSession, StreamsIdle,
           UNCHANGED <<connected, closing>> \/ connected' \/ closing'
    PROVE  StreamsBelongToTheSession' /\ Contained
BY DEF StreamsBelongToTheSession, StreamsIdle, Str!Active, Str!stream_enabled, Contained

\* A step that clears the streams leaves none for the next session.
LEMMA ClearKeeps ==
    ASSUME Str!ClearStreams
    PROVE  StreamsBelongToTheSession' /\ Contained
BY DEF StreamsBelongToTheSession, Str!ClearStreams, Str!Active, Str!stream_enabled, Contained

\* Steps of handle() that neither read a message nor disconnect.
LEMMA ProceedKeeps == ASSUME Ended, Settled, Proceed PROVE Ended' /\ Contained
<1> USE DEF Ended, Undecided
<1>1. StreamsIdle /\ ~closing /\ ~closing' /\ rest' = {} /\ UNCHANGED <<closing, rest>>
  BY DEF Proceed, Settled
<1>2. CASE Ses!HandleTooSoon \/ Ses!HandleReconnect \/ Ses!ConnectFails \/ Ses!ConnectSucceeds
  BY <1>1, <1>2, IdleKeeps
     DEF Ses!HandleTooSoon, Ses!HandleReconnect, Ses!ConnectFails, Ses!ConnectSucceeds
<1>3. CASE Ses!StartAuthentication \/ Ses!SendConnect \/ Ses!Authenticate
  BY <1>1, <1>3, IdleKeeps DEF Ses!StartAuthentication, Ses!SendConnect, Ses!Authenticate
<1>4. CASE Ses!BecomeReady
  <2>1. pc' = "linkcheck" /\ connected' = TRUE
    BY <1>4 DEF Ses!BecomeReady
  <2>2. StreamsBelongToTheSession' /\ Contained
    BY <1>1, <2>1, IdleKeeps
  <2> QED
    BY <1>1, <2>1, <2>2
<1>5. CASE Ses!HandleConnected \/ Ses!LinkIsUp \/ Ses!LoopDone \/ Ses!ProcessKeepalive
  BY <1>1, <1>5, IdleKeeps
     DEF Ses!HandleConnected, Ses!LinkIsUp, Ses!LoopDone, Ses!ProcessKeepalive
<1> QED
  BY <1>2, <1>3, <1>4, <1>5 DEF Proceed

\* Every attempt that fails, and every disconnect() without a session.
LEMMA DisconnectsKeeps ==
    ASSUME Ended, Settled, Disconnects \/ (~connected /\ Ses!AppDisconnects /\ Str!ClearStreams)
    PROVE  Ended' /\ Contained
<1>1. Str!ClearStreams
  BY DEF Disconnects
<1>2. connected' = FALSE /\ link' = FALSE /\ rx' = <<>>
  BY DEF Disconnects, Ses!ConnectNotWritten, Ses!ConnectRefused, Ses!ConnectUnanswered,
         Ses!FailAuthentication, Ses!LinkIsDown, Ses!AppDisconnects, Ses!disconnect,
         Ses!disconnect_impl
<1>3. closing' = FALSE /\ rest' = {}
  BY DEF Settled, Ended
<1> QED
  BY <1>1, <1>2, <1>3, ClearKeeps DEF Ended

\* The state callback is called for a session only, and never in an attempt.
LEMMA BeginsKeeps == ASSUME Ended, DisconnectBegins \/ AppDisconnects, SessionEnds
                     PROVE  Ended' /\ Contained
<1>0. connected /\ ~closing /\ closing' = TRUE
  BY DEF SessionEnds, Ended
<1>1. \/ View!LinkIsDown \/ View!ProcessUnreadable \/ View!AppDisconnects
      \/ \E m \in Messages : View!ProcessDisconnect(m)
  BY <1>0 DEF DisconnectBegins, AppDisconnects, Closes
<1>2. connected' = FALSE /\ pc' \in {pc, "idle"}
  BY <1>1 DEF View!LinkIsDown, View!ProcessUnreadable, View!ProcessDisconnect,
              View!AppDisconnects, View!disconnect
<1> QED
  BY <1>0, <1>2 DEF Ended, Undecided, StreamsBelongToTheSession, Contained

\* The end of disconnect() leaves nothing to read and no stream.
LEMMA ClosesKeeps ==
    ASSUME Ended, Closes, closing' \in BOOLEAN, UNCHANGED rest
    PROVE  Ended' /\ Contained
<1>1. /\ link' = FALSE /\ rx' = <<>> /\ UNCHANGED <<pc, connected>>
      /\ Str!ClearStreams /\ closing
  BY DEF Closes, Ses!disconnect_impl
<1> QED
  BY <1>1, ClearKeeps DEF Ended

\* What a handler still writes goes to a transport that is closed.
LEMMA GoesOnKeeps == ASSUME Ended, HandlerGoesOn PROVE Ended' /\ Contained
<1>1. /\ ~closing /\ rest # {} /\ rest' = {}
      /\ UNCHANGED <<pc, connected, link, rx, streams, stream_id, closing>>
  BY DEF HandlerGoesOn, session
<1>2. StreamsBelongToTheSession'
  BY <1>1 DEF Ended, StreamsBelongToTheSession, Str!Active, Str!stream_enabled
<1> QED
  BY <1>1, <1>2 DEF Ended, Contained

\* A message is only read in a session: without one nothing is waiting.
LEMMA MessageInSession ==
    ASSUME Ended, Settled, NEW m \in Messages, Ses!ProcessMessage(m)
    PROVE  /\ connected /\ UNCHANGED <<pc, connected, link>>
           /\ pc = "loop"
BY DEF Ended, Settled, Undecided, Ses!ProcessMessage

\* Requests are handled in a session, whatever they do to its streams.
LEMMA MessagesKeep ==
    ASSUME Ended, Settled, ProcessRequest \/ DropMessage PROVE Ended' /\ Contained
<1>1. PICK m \in Messages : Ses!ProcessMessage(m)
  BY DEF ProcessRequest, DropMessage
<1>2. connected /\ connected' /\ pc' = "loop" /\ connected' \in BOOLEAN
  BY <1>1, MessageInSession DEF Ended
<1> QED
  BY <1>2 DEF Ended, Settled, Undecided, StreamsBelongToTheSession, Contained

\* check_streams() finds nothing to sample when the session has ended.
LEMMA SampleKeeps == ASSUME Ended, Settled, SampleStreams PROVE Ended' /\ Contained
<1>1. /\ UNCHANGED <<connected, link, rx, closing, rest>> /\ pc' = "idle" /\ pc = "streams"
      /\ ~closing /\ rest = {}
  BY DEF SampleStreams, Settled, Ses!HandleReturns
<1>2. CASE connected
  BY <1>1, <1>2 DEF Ended, Undecided, StreamsBelongToTheSession, Contained
<1>3. CASE ~connected
  <2>1. \A s \in Ids : ~Str!Due(s)
    BY <1>1, <1>3 DEF Ended, StreamsBelongToTheSession, Str!Due
  <2>2. streams' = [s \in Ids |-> streams[s]] /\ out' = {} /\ UNCHANGED stream_id
    BY <2>1 DEF SampleStreams, Str!CheckStreams
  <2>3. StreamsBelongToTheSession'
    BY <1>1, <1>3, <2>2 DEF Ended, StreamsBelongToTheSession, Str!Active, Str!stream_enabled
  <2> QED
    BY <1>1, <1>3, <2>2, <2>3 DEF Ended, Undecided, Contained
<1> QED
  BY <1>2, <1>3

\* stream() finds no stream where there is no session, nor the end of one.
LEMMA AppStreamsKeeps == ASSUME Ended, AppStreams PROVE Ended' /\ Contained
<1>1. UNCHANGED <<pc, connected, link, rx, streams, stream_id, closing, rest>>
  BY DEF AppStreams, Str!StreamCall, session
<1>2. Ended'
  BY <1>1 DEF Ended, StreamsBelongToTheSession, Str!Active, Str!stream_enabled
<1>3. ~connected /\ ~closing => out' = {}
  BY DEF Ended, StreamsBelongToTheSession, AppStreams, Str!StreamCall
<1> QED
  BY <1>2, <1>3 DEF Ended, Contained

\* The transport delivers and the link drops only where it is open.
LEMMA OutsideKeeps == ASSUME Ended, Outside PROVE Ended' /\ Contained
<1>1. StreamsIdle /\ UNCHANGED <<closing, rest>>
  BY DEF Outside
<1>2. CASE \E m \in Messages : Ses!Arrives(m)
  BY <1>1, <1>2, IdleKeeps DEF Ended, Ses!Arrives
<1>3. CASE Ses!LinkDrops
  BY <1>1, <1>3, IdleKeeps DEF Ended, Ses!LinkDrops
<1>4. CASE Ses!Tick
  BY <1>1, <1>4, IdleKeeps DEF Ended, Ses!Tick
<1> QED
  BY <1>2, <1>3, <1>4 DEF Outside

\* Every step keeps streams and data within a session.
LEMMA NextEnded == Ended /\ [Next]_vars => Ended' /\ [Contained]_vars
<1> SUFFICES ASSUME Ended, [Next]_vars PROVE Ended' /\ [Contained]_vars
  OBVIOUS
<1>1. CASE Settled /\ (Proceed \/ Disconnects \/ ProcessRequest \/ DropMessage \/ SampleStreams)
  BY <1>1, ProceedKeeps, DisconnectsKeeps, MessagesKeep, SampleKeeps
<1>2. CASE DisconnectBegins \/ DisconnectReturns \/ HandlerGoesOn
  BY <1>2, BeginsKeeps, ClosesKeeps, GoesOnKeeps DEF DisconnectBegins, DisconnectReturns
<1>3. CASE AppDisconnects
  BY <1>3, BeginsKeeps, DisconnectsKeeps, ClosesKeeps DEF AppDisconnects, Ended
<1>4. CASE AppStreams \/ Outside
  BY <1>4, AppStreamsKeeps, OutsideKeeps
<1>5. CASE UNCHANGED vars
  BY <1>5 DEF vars, session, Ended, StreamsBelongToTheSession, Str!Active, Str!stream_enabled
<1> QED
  BY <1>1, <1>2, <1>3, <1>4, <1>5 DEF Next, Handle

(***************************************************************************)
(* Whichever way a session ends, streams_ and the ids of the resources are *)
(* empty before another can begin: disconnect() clears them, whatever its  *)
(* state callback did, and nothing is read after it.                       *)
(***************************************************************************)
THEOREM StreamsEndWithTheirSession == Spec => []StreamsBelongToTheSession
<1>1. Ended => StreamsBelongToTheSession
  BY DEF Ended
<1> QED
  BY <1>1, InitEnded, NextEnded, PTL DEF Spec

(***************************************************************************)
(* Data is written without a session by a state callback that streams, by  *)
(* a handler whose callback disconnected: never to a transport that is     *)
(* open for the next session, and check_streams() writes none at all.      *)
(***************************************************************************)
THEOREM DataStaysInItsSession == Spec => DataReachesSessionsOnly
<1>1. DataReachesSessionsOnly <=> [][Contained]_vars
  BY PTL DEF DataReachesSessionsOnly, Contained
<1> QED
  BY <1>1, InitEnded, NextEnded, PTL DEF Spec

-----------------------------------------------------------------------------
(* The parts as IotmpClient and as their proofs name them.                 *)

\* A step of the session is a step of the session its proofs are about.
LEMMA SameSessionNext == View!Next <=> SesP!Next
BY DEF View!Next, View!Handle, View!Environment, View!HandleTooSoon, View!HandleReconnect,
       View!ConnectFails, View!ConnectSucceeds, View!StartAuthentication, View!SendConnect,
       View!Authenticate, View!ConnectNotWritten, View!ConnectRefused, View!ConnectUnanswered,
       View!FailAuthentication, View!BecomeReady, View!HandleConnected, View!LinkIsUp,
       View!LinkIsDown, View!ProcessMessage, View!ProcessDisconnect, View!ProcessUnreadable,
       View!LoopDone, View!ProcessKeepalive, View!HandleReturns, View!AppDisconnects, View!Arrives,
       View!LinkDrops, View!Tick, View!disconnect, View!disconnect_impl, View!notify_state,
       View!update_backoff, View!reset_backoff, View!should_reconnect, View!Elapsed, View!Least,
       View!LongestWait, View!timers, View!ages, View!RunsCallback,
       SesP!Next, SesP!Handle, SesP!Environment, SesP!HandleTooSoon, SesP!HandleReconnect,
       SesP!ConnectFails, SesP!ConnectSucceeds, SesP!StartAuthentication, SesP!SendConnect,
       SesP!Authenticate, SesP!ConnectNotWritten, SesP!ConnectRefused, SesP!ConnectUnanswered,
       SesP!FailAuthentication, SesP!BecomeReady, SesP!HandleConnected, SesP!LinkIsUp,
       SesP!LinkIsDown, SesP!ProcessMessage, SesP!ProcessDisconnect, SesP!ProcessUnreadable,
       SesP!LoopDone, SesP!ProcessKeepalive, SesP!HandleReturns, SesP!AppDisconnects,
       SesP!Arrives, SesP!LinkDrops, SesP!Tick, SesP!disconnect, SesP!disconnect_impl,
       SesP!notify_state, SesP!update_backoff, SesP!reset_backoff, SesP!should_reconnect,
       SesP!Elapsed, SesP!Least, SesP!LongestWait, SesP!timers, SesP!ages, SesP!RunsCallback

\* Its variables, initial states and properties are the same.
LEMMA SameSession ==
    /\ View!vars = SesP!vars /\ View!vars' = SesP!vars'
    /\ View!Init <=> SesP!Init
    /\ View!TypeOK <=> SesP!TypeOK
    /\ View!NoLeakedTransport <=> SesP!NoLeakedTransport
    /\ View!SessionIsKeptAlive <=> SesP!SessionIsKeptAlive
    /\ View!Observer!Init <=> SesP!Observer!Init
    /\ [View!Observer!Notify]_(View!Observer!states) <=> [SesP!Observer!Notify]_(SesP!Observer!states)
BY DEF View!vars, SesP!vars, View!timers, SesP!timers, View!ages, SesP!ages, View!Init, SesP!Init,
       View!TypeOK, SesP!TypeOK, View!Pcs, SesP!Pcs, View!Time, SesP!Time, View!ClientStates,
       SesP!ClientStates, View!LongestWait, SesP!LongestWait, View!NoLeakedTransport,
       SesP!NoLeakedTransport, View!SessionIsKeptAlive, SesP!SessionIsKeptAlive,
       View!Observer!Init, SesP!Observer!Init, View!Observer!Notify, SesP!Observer!Notify,
       View!Observer!Follows, SesP!Observer!Follows, View!Observer!states, SesP!Observer!states,
       View!Observer!AtRest, SesP!Observer!AtRest

\* The same for the streams.
LEMMA SameStreamsNext == Str!Next <=> StrP!Next
BY DEF Str!Next, Str!Receive, Str!ServerSends, Str!HandleMessage, Str!HandleRun,
       Str!HandleDescribe, Str!HandleStartStream, Str!HandleStopStream, Str!HandleStreamData,
       Str!CheckStreams, Str!StreamCall, Str!ClearStreams, Str!Tick, Str!Due, Str!Elapsed,
       Str!Active, Str!StreamResource, Str!Data, Str!Answer, Str!HasInput, Str!HasOutput,
       Str!HasPayloadAfterRun, Str!stream_enabled, Str!Requests, Str!Paths,
       StrP!Next, StrP!Receive, StrP!ServerSends, StrP!HandleMessage, StrP!HandleRun,
       StrP!HandleDescribe, StrP!HandleStartStream, StrP!HandleStopStream, StrP!HandleStreamData,
       StrP!CheckStreams, StrP!StreamCall, StrP!ClearStreams, StrP!Tick, StrP!Due, StrP!Elapsed,
       StrP!Active, StrP!StreamResource, StrP!Data, StrP!Answer, StrP!HasInput, StrP!HasOutput,
       StrP!HasPayloadAfterRun, StrP!stream_enabled, StrP!Requests, StrP!Paths

LEMMA SameStreams ==
    /\ Str!Init <=> StrP!Init
    /\ Str!TypeOK <=> StrP!TypeOK
    /\ Str!StreamIdsAgree <=> StrP!StreamIdsAgree
    /\ Str!vars = StrP!vars
    /\ Str!Subs!Init <=> StrP!Subs!Init
    /\ [Str!Subs!Next]_(Str!Subs!subscriptions) <=> [StrP!Subs!Next]_(StrP!Subs!subscriptions)
BY DEF Str!Init, StrP!Init, Str!TypeOK, StrP!TypeOK, Str!Stream, StrP!Stream, Str!Time, StrP!Time,
       Str!Answers, StrP!Answers, Str!DataMessages, StrP!DataMessages, Str!StreamIdsAgree,
       StrP!StreamIdsAgree, Str!Active, StrP!Active, Str!stream_enabled, StrP!stream_enabled,
       Str!vars, StrP!vars, Str!Subs!Init, StrP!Subs!Init, Str!Subs!Next, StrP!Subs!Next,
       Str!Subs!Subscribe, StrP!Subs!Subscribe, Str!Subs!Unsubscribe, StrP!Subs!Unsubscribe,
       Str!Subs!UnsubscribeAll, StrP!Subs!UnsubscribeAll, Str!Subs!Publish, StrP!Subs!Publish,
       Str!Subs!Wanted, StrP!Subs!Wanted, Str!Subs!subscriptions, StrP!Subs!subscriptions

-----------------------------------------------------------------------------
(* The session. *)

\* disconnect() writes nothing but what its state callback and handler do.
Silent == closing => sent = "NOTHING"

\* Where no disconnect() is going on, the session is what its view shows.
LEMMA ViewIsSession == ASSUME ~closing, ~closing', Ses!Next PROVE View!Next
BY DEF Ses!Next, Ses!Handle, Ses!Environment, Ses!HandleTooSoon, Ses!HandleReconnect,
       Ses!ConnectFails, Ses!ConnectSucceeds, Ses!StartAuthentication, Ses!SendConnect,
       Ses!Authenticate, Ses!ConnectNotWritten, Ses!ConnectRefused, Ses!ConnectUnanswered,
       Ses!FailAuthentication, Ses!BecomeReady, Ses!HandleConnected, Ses!LinkIsUp,
       Ses!LinkIsDown, Ses!ProcessMessage, Ses!ProcessDisconnect, Ses!ProcessUnreadable,
       Ses!LoopDone, Ses!ProcessKeepalive, Ses!HandleReturns, Ses!AppDisconnects, Ses!Arrives,
       Ses!LinkDrops, Ses!Tick, Ses!disconnect, Ses!disconnect_impl, Ses!notify_state,
       Ses!update_backoff, Ses!reset_backoff, Ses!should_reconnect, Ses!Elapsed, Ses!Least,
       Ses!LongestWait, Ses!timers, Ses!ages, Ses!RunsCallback,
       View!Next, View!Handle, View!Environment, View!HandleTooSoon, View!HandleReconnect,
       View!ConnectFails, View!ConnectSucceeds, View!StartAuthentication, View!SendConnect,
       View!Authenticate, View!ConnectNotWritten, View!ConnectRefused, View!ConnectUnanswered,
       View!FailAuthentication, View!BecomeReady, View!HandleConnected, View!LinkIsUp,
       View!LinkIsDown, View!ProcessMessage, View!ProcessDisconnect, View!ProcessUnreadable,
       View!LoopDone, View!ProcessKeepalive, View!HandleReturns, View!AppDisconnects, View!Arrives,
       View!LinkDrops, View!Tick, View!disconnect, View!disconnect_impl, View!notify_state,
       View!update_backoff, View!reset_backoff, View!should_reconnect, View!Elapsed, View!Least,
       View!LongestWait, View!timers, View!ages, View!RunsCallback

(***************************************************************************)
(* Requests, streams and what the application does during a disconnect()   *)
(* are invisible to the session: a step of the client is a step of         *)
(* IotmpSession, which disconnects in one, or leaves its view alone.       *)
(***************************************************************************)
LEMMA NextIsSessions ==
    Ended /\ Silent /\ [Next]_vars => Silent' /\ [View!Next]_(View!vars)
<1> SUFFICES ASSUME Ended, Silent, [Next]_vars
             PROVE  Silent' /\ [View!Next]_(View!vars)
  OBVIOUS
<1>1. CASE Settled /\ (Proceed \/ Disconnects \/ ProcessRequest \/ DropMessage \/ SampleStreams)
  <2>1. Ses!Next
    BY <1>1 DEF Proceed, Disconnects, ProcessRequest, DropMessage, SampleStreams, Ses!Next,
                Ses!Handle
  <2> QED
    BY <1>1, <2>1, ViewIsSession DEF Settled, Silent
<1>2. CASE DisconnectBegins
  <2>1. View!Next
    BY <1>2 DEF DisconnectBegins, View!Next, View!Handle
  <2>2. sent' = "NOTHING"
    BY <1>2 DEF DisconnectBegins, View!LinkIsDown, View!ProcessUnreadable, View!ProcessDisconnect
  <2> QED
    BY <2>1, <2>2 DEF Silent
<1>3. CASE Closes
  <2>1. /\ closing /\ link' = FALSE /\ rx' = <<>>
        /\ UNCHANGED <<pc, connected, clock, last_connection_attempt, reconnect_ms,
                       last_keepalive, notified, sent, unpolled, age, silence>>
    BY <1>3 DEF Closes, Ses!disconnect_impl, Str!ClearStreams
  <2> QED
    BY <2>1 DEF Silent, View!vars, View!timers, View!ages
<1>4. CASE HandlerGoesOn \/ AppStreams \/ UNCHANGED vars
  <2>1. UNCHANGED <<session, clock, closing>>
    BY <1>4 DEF HandlerGoesOn, AppStreams, Str!StreamCall, vars
  <2> QED
    BY <2>1 DEF session, Silent, View!vars, View!timers, View!ages
<1>5. CASE AppDisconnects
  <2>1. CASE View!AppDisconnects
    BY <2>1 DEF View!Next, View!Environment, View!AppDisconnects, Silent
  <2>2. CASE Settled /\ Ses!AppDisconnects
    BY <2>2, ViewIsSession DEF Settled, Silent, Ses!Next, Ses!Environment
  <2> QED
    BY <1>3, <1>5, <2>1, <2>2 DEF AppDisconnects
<1>6. CASE Outside /\ ~closing
  <2>1. Ses!Next /\ closing' = closing
    BY <1>6 DEF Outside, Ses!Next, Ses!Environment
  <2> QED
    BY <1>6, <2>1, ViewIsSession DEF Silent
<1>7. CASE Outside /\ closing
  <2>1. closing' = closing /\ sent = "NOTHING"
    BY <1>7 DEF Outside, Silent
  <2>2. CASE Ses!Tick
    BY <1>7, <2>1, <2>2
       DEF View!Next, View!Environment, Ses!Tick, View!Tick, Ses!Least, View!Least,
           Ses!LongestWait, View!LongestWait, Ses!timers, View!timers, Silent
  <2>3. CASE \E m \in Messages : Ses!Arrives(m)
    BY <1>7, <2>1, <2>3
       DEF Ses!Arrives, Ses!timers, Ses!ages, View!vars, View!timers, View!ages, Silent
  <2>4. CASE Ses!LinkDrops
    BY <1>7, <2>1, <2>4
       DEF Ses!LinkDrops, Ses!timers, Ses!ages, View!vars, View!timers, View!ages, Silent
  <2> QED
    BY <1>7, <2>2, <2>3, <2>4 DEF Outside
<1> QED
  BY <1>1, <1>2, <1>3, <1>4, <1>5, <1>6, <1>7 DEF Next, Handle, DisconnectReturns

(***************************************************************************)
(* The invariant of the session, as its proofs have it: types, the state   *)
(* announced last, the closed transport, and what the clock shows.         *)
(***************************************************************************)
SessionInv ==
    SesP!TypeOK /\ SesP!Announced /\ SesP!Closed /\ SesP!AgeShown /\ SesP!SilenceShown

\* What the proofs of the session assume of the timers and the messages.
LEMMA SessionFacts ==
    SesP!MessagesAssumption /\ SesP!TimersAssumption /\ SesP!TimersFitTheClock
BY SessionAssumptions
   DEF Ses!MessagesAssumption, Ses!TimersAssumption, Ses!TimersFitTheClock,
       SesP!MessagesAssumption, SesP!TimersAssumption, SesP!TimersFitTheClock

\* The client starts as a session does.
LEMMA InitSessionInv == Init => SessionInv /\ Silent /\ View!Observer!Init
<1> SUFFICES ASSUME Init PROVE SessionInv /\ Silent /\ View!Observer!Init
  OBVIOUS
<1>1. View!Init /\ Silent
  BY DEF Init, Ses!Init, View!Init, Silent
<1>2. SesP!Init
  BY <1>1, SameSession
<1>3. SesP!TypeOK /\ SesP!Announced /\ SesP!AgeShown
  BY <1>2, SessionFacts, SesP!InitType, SesP!InitAnnounced, SesP!InitAgeShown
<1>4. SesP!Closed /\ SesP!SilenceShown
  BY <1>2 DEF SesP!Init, SesP!Closed, SesP!SilenceShown
<1>5. View!Observer!Init
  BY <1>1 DEF View!Init, View!Observer!Init
<1> QED
  BY <1>1, <1>3, <1>4, <1>5 DEF SessionInv

\* Every step keeps the session's invariant, and does what a session's may do.
LEMMA NextSessionInv ==
    SessionInv /\ Ended /\ Silent /\ [Next]_vars =>
        /\ SessionInv'
        /\ [SesP!Observer!Notify]_(SesP!Observer!states)
        /\ [notified' = "SOCKET_CONNECTING" /\ notified # notified'
              => age >= reconnect_ms]_(SesP!vars)
<1>1. Ended /\ Silent /\ [Next]_vars => [SesP!Next]_(SesP!vars)
  BY NextIsSessions, SameSession, SameSessionNext
<1> QED
  BY <1>1, SessionFacts, SesP!NextType, SesP!NextAnnounced, SesP!NextClosed, SesP!NextAgeShown,
     SesP!NextSilenceShown, SesP!AttemptIsSpaced
     DEF SessionInv

(***************************************************************************)
(* In the whole client too, no end of a session and no failed attempt      *)
(* leaves the transport open once disconnect() returns, and no session     *)
(* stays silent for longer than the keepalive period and one pass of       *)
(* handle().                                                               *)
(***************************************************************************)
THEOREM ClientKeepsItsTransport ==
    Spec => []((closing \/ Ses!NoLeakedTransport) /\ Ses!SessionIsKeptAlive)
<1>1. SesP!TypeOK /\ SesP!SilenceShown => SesP!SessionIsKeptAlive
  BY SessionFacts, SesP!ShownIsShort
<1>2. SesP!Closed => SesP!NoLeakedTransport
  BY DEF SesP!Closed, SesP!NoLeakedTransport, SesP!AttemptPcs
<1>3. SessionInv => (closing \/ Ses!NoLeakedTransport) /\ Ses!SessionIsKeptAlive
  BY <1>1, <1>2 DEF SessionInv, SesP!NoLeakedTransport, Ses!NoLeakedTransport,
                    SesP!SessionIsKeptAlive, Ses!SessionIsKeptAlive
<1> QED
  BY <1>3, InitEnded, NextEnded, InitSessionInv, NextSessionInv, NextIsSessions, PTL DEF Spec

(***************************************************************************)
(* ... the application is told of the client's states in the order of      *)
(* ConnectionStates, and attempts to connect are reconnect_ms_ apart.      *)
(***************************************************************************)
THEOREM ClientFollowsTheSession == Spec => View!ObserverSafety /\ View!AttemptsAreSpaced
<1>1. SessionInv /\ Ended /\ Silent /\ [Next]_vars =>
        /\ [View!Observer!Notify]_(View!Observer!states)
        /\ [notified' = "SOCKET_CONNECTING" /\ notified # notified'
              => age >= reconnect_ms]_(View!vars)
  BY NextSessionInv, SameSession
<1> QED
  BY <1>1, InitEnded, NextEnded, InitSessionInv, NextSessionInv, NextIsSessions, PTL
     DEF Spec, View!ObserverSafety, View!AttemptsAreSpaced

-----------------------------------------------------------------------------
(* The streams. *)

(***************************************************************************)
(* What waits to be read opens streams for the resource they are open for, *)
(* if they are, and for one resource only.                                 *)
(***************************************************************************)
QueueAgrees ==
    \A s \in Ids, m \in Waiting : Starts(m, s) =>
        /\ s \in Str!Active => streams[s].resource = m.resource
        /\ \A n \in Waiting : Starts(n, s) => n.resource = m.resource

StreamsInv ==
    /\ StrP!TypeOK /\ StrP!StreamIdsAgree /\ QueueAgrees
    /\ rx \in Seq(Messages)
    /\ rest \subseteq StrP!Answers \cup StrP!DataMessages

\* What the proofs of the streams assume of the resources and the ids.
LEMMA StreamsFacts ==
    /\ StrP!ResourcesAssumption /\ StrP!IdsAssumption
    /\ StrP!TimeAssumption /\ StrP!NoStreamAssumption
BY StreamsAssumptions
   DEF Str!ResourcesAssumption, Str!IdsAssumption, Str!TimeAssumption, Str!NoStreamAssumption,
       Str!IoTypes, Str!Stream, Str!Time,
       StrP!ResourcesAssumption, StrP!IdsAssumption, StrP!TimeAssumption,
       StrP!NoStreamAssumption, StrP!IoTypes, StrP!Stream, StrP!Time

\* The client starts without streams and with nothing to read.
LEMMA InitStreamsInv == Init => StreamsInv
<1> SUFFICES ASSUME Init PROVE StreamsInv
  OBVIOUS
<1>1. StrP!TypeOK /\ StrP!StreamIdsAgree
  BY StreamsFacts, SameStreams, StrP!InitType, StrP!InitAgree DEF Init
<1>2. QueueAgrees
  BY DEF Init, Ses!Init, QueueAgrees, Waiting
<1>3. rx \in Seq(Messages) /\ rest = {}
  BY DEF Init, Ses!Init
<1> QED
  BY <1>1, <1>2, <1>3 DEF StreamsInv

\* A step that opens no stream and lets no message in keeps the queue in order.
LEMMA QueueKeeps ==
    ASSUME QueueAgrees, Waiting' \subseteq Waiting,
           \A s \in Str!Active' : s \in Str!Active /\ streams'[s].resource = streams[s].resource
    PROVE  QueueAgrees'
BY DEF QueueAgrees, Starts

\* Reading a message takes it out of the queue.
LEMMA TailWaits ==
    ASSUME rx \in Seq(Messages), rx # <<>>, rx' = Tail(rx)
    PROVE  Waiting' \subseteq Waiting /\ Head(rx) \in Waiting
<1>1. \A i \in DOMAIN Tail(rx) : i + 1 \in DOMAIN rx /\ Tail(rx)[i] = rx[i + 1]
  OBVIOUS
<1>2. 1 \in DOMAIN rx /\ Head(rx) = rx[1]
  OBVIOUS
<1> QED
  BY <1>1, <1>2 DEF Waiting

(***************************************************************************)
(* A step that leaves the streams alone is, to the server, one that        *)
(* publishes nothing.                                                      *)
(***************************************************************************)
LEMMA IdleStreams ==
    ASSUME StreamsInv, StreamsIdle, clock' \in StrP!Time
    PROVE  StrP!TypeOK' /\ StrP!StreamIdsAgree' /\ StrP!Subs!Publish
<1>1. StrP!TypeOK' /\ StrP!StreamIdsAgree'
  BY DEF StreamsInv, StreamsIdle, StrP!TypeOK, StrP!StreamIdsAgree, StrP!stream_enabled, StrP!Active
<1>2. \A d \in out' : StrP!Justified(d)
  BY DEF StreamsIdle
<1> QED
  BY <1>1, <1>2, StreamsFacts, StrP!QuietStep DEF StreamsInv, StreamsIdle

\* A step of IotmpStreams keeps its invariant and serves the subscriptions.
LEMMA StreamsStep ==
    ASSUME StreamsInv, Str!Next
    PROVE  StrP!TypeOK' /\ StrP!StreamIdsAgree' /\ [StrP!Subs!Next]_(StrP!Subs!subscriptions)
BY SameStreamsNext, StreamsFacts, StrP!NextType, StrP!NextAgree, StrP!NextRefines DEF StreamsInv

(***************************************************************************)
(* What a step of the client must do for the streams.  A transport that    *)
(* opens or closes publishes nothing of what was sent before.              *)
(***************************************************************************)
Serves ==
    /\ StrP!TypeOK' /\ StrP!StreamIdsAgree' /\ QueueAgrees'
    /\ [Subs!Next]_(Subs!subscriptions)

\* Nothing more is published than what is sent, and nothing without a link.
LEMMA ServesSubs ==
    ASSUME [StrP!Subs!Next]_(StrP!Subs!subscriptions), link' = link \/ out' = {}
    PROVE  [Subs!Next]_(Subs!subscriptions)
<1> DEFINE subscribed == [s \in Ids |-> IF s \in StrP!Active THEN streams[s].resource ELSE Unknown]
           all == {<<d.stream, d.resource>> : d \in {m \in out : m.type = "STREAM_DATA"}}
           published == IF link THEN all ELSE {}
<1>1. /\ StrP!Subs!subscriptions = <<subscribed, all>>
      /\ StrP!Subs!subscriptions' = <<subscribed', all'>>
      /\ Subs!subscriptions = <<subscribed, published>>
      /\ Subs!subscriptions' = <<subscribed', published'>>
  BY DEF StrP!Subs!subscriptions, Subs!subscriptions, StrP!Active, Str!Active
<1>2. published' \in {all', {}} /\ (out' = {} => all' = {} /\ published' = {})
  OBVIOUS
<1> DEFINE Step(p) ==
      \/ \E s \in Ids, r \in Resources :
           subscribed' = [subscribed EXCEPT ![s] = r] /\ p \subseteq {<<s, r>>}
      \/ \E s \in Ids : subscribed' = [subscribed EXCEPT ![s] = Unknown] /\ p = {}
      \/ subscribed' = [s \in Ids |-> Unknown] /\ p = {}
      \/ p \subseteq {<<s, subscribed[s]>> : s \in {i \in Ids : subscribed[i] # Unknown}}
         /\ subscribed' = subscribed
<1>3. StrP!Subs!Next <=> Step(all')
  BY DEF StrP!Subs!Next, StrP!Subs!Subscribe, StrP!Subs!Unsubscribe, StrP!Subs!UnsubscribeAll,
         StrP!Subs!Publish, StrP!Subs!Wanted, StrP!Active
<1>4. Subs!Next <=> Step(published')
  BY DEF Subs!Next, Subs!Subscribe, Subs!Unsubscribe, Subs!UnsubscribeAll, Subs!Publish,
         Subs!Wanted, Str!Active, StrP!Active
<1>5. Step(all') => Step({})
  OBVIOUS
<1>6. subscribed' = subscribed => Step({})
  OBVIOUS
<1>7. subscribed' = subscribed /\ all' = all /\ link' = link => published' = published
  OBVIOUS
<1> HIDE DEF subscribed, all, published, Step
<1>8. CASE StrP!Subs!Next
  BY <1>2, <1>3, <1>4, <1>5, <1>8
<1>9. CASE UNCHANGED StrP!Subs!subscriptions
  BY <1>1, <1>2, <1>4, <1>6, <1>7, <1>9
<1> QED
  BY <1>8, <1>9

\* A step without streams, in which no message arrives.
LEMMA IdleServes ==
    ASSUME StreamsInv, StreamsIdle, clock' \in StrP!Time, Waiting' \subseteq Waiting
    PROVE  Serves
<1>1. QueueAgrees'
  BY QueueKeeps DEF StreamsInv, StreamsIdle, Str!Active
<1>2. [Subs!Next]_(Subs!subscriptions)
  BY IdleStreams, ServesSubs DEF StreamsIdle, StrP!Subs!Next
<1> QED
  BY <1>1, <1>2, IdleStreams DEF Serves

\* Steps of handle() that neither read a message nor disconnect.
LEMMA ProceedServes == ASSUME StreamsInv, Proceed PROVE Serves
<1>1. (rx' = rx \/ (rx # <<>> /\ rx' = Tail(rx))) /\ clock' = clock
  BY DEF Proceed, Ses!HandleTooSoon, Ses!HandleReconnect, Ses!ConnectFails, Ses!ConnectSucceeds,
         Ses!StartAuthentication, Ses!SendConnect, Ses!Authenticate, Ses!BecomeReady,
         Ses!HandleConnected, Ses!LinkIsUp, Ses!LoopDone, Ses!ProcessKeepalive
<1>2. Waiting' \subseteq Waiting
  BY <1>1, TailWaits DEF StreamsInv, Waiting
<1>3. clock' \in StrP!Time
  BY <1>1 DEF StreamsInv, StrP!TypeOK
<1> QED
  BY <1>2, <1>3, IdleServes DEF Proceed

\* Closing the streams drops what was waiting too.
LEMMA ClearServes == ASSUME StreamsInv, Str!ClearStreams, rx' = <<>> PROVE Serves
<1>1. QueueAgrees'
  BY DEF QueueAgrees, Waiting
<1>2. StrP!TypeOK' /\ StrP!StreamIdsAgree' /\ [StrP!Subs!Next]_(StrP!Subs!subscriptions)
  BY StreamsStep DEF Str!Next
<1>3. [Subs!Next]_(Subs!subscriptions)
  BY <1>2, ServesSubs DEF Str!ClearStreams
<1> QED
  BY <1>1, <1>2, <1>3 DEF Serves

\* A failed attempt, or the end of a disconnect().
LEMMA DisconnectsServe ==
    ASSUME StreamsInv,
           Disconnects \/ (Ses!AppDisconnects /\ Str!ClearStreams) \/ Closes
    PROVE  Serves
<1>1. Str!ClearStreams
  BY DEF Disconnects, Closes
<1>2. rx' = <<>>
  BY DEF Disconnects, Closes, Ses!ConnectNotWritten, Ses!ConnectRefused, Ses!ConnectUnanswered,
         Ses!FailAuthentication, Ses!LinkIsDown, Ses!AppDisconnects, Ses!disconnect,
         Ses!disconnect_impl
<1> QED
  BY <1>1, <1>2, ClearServes

\* m, which is read, opens its stream: nothing that waits does so for another resource.
LEMMA OpensQueued ==
    ASSUME StreamsInv, NEW m \in Waiting, m.stream \in Ids, Starts(m, m.stream),
           Waiting' \subseteq Waiting,
           streams' = [streams EXCEPT ![m.stream] =
                         [resource |-> m.resource, interval_ms |-> m.interval,
                          last_sample |-> clock]]
    PROVE  QueueAgrees'
<1>1. streams \in [Ids -> StrP!Stream \cup {NoStream}]
  BY DEF StreamsInv, StrP!TypeOK
<1>2. ASSUME NEW s \in Ids, NEW n \in Waiting', Starts(n, s), s \in Str!Active'
      PROVE  streams'[s].resource = n.resource
  <2>1. n \in Waiting
    OBVIOUS
  <2>2. CASE s = m.stream
    <3>1. n.resource = m.resource
      BY <1>2, <2>1, <2>2 DEF StreamsInv, QueueAgrees
    <3> QED
      BY <1>1, <2>2, <3>1
  <2>3. CASE s # m.stream
    BY <1>1, <1>2, <2>1, <2>3 DEF StreamsInv, QueueAgrees, Str!Active
  <2> QED
    BY <2>2, <2>3
<1> QED
  BY <1>2 DEF StreamsInv, QueueAgrees, Starts

(***************************************************************************)
(* A request that is read was sent by a server that knows which streams    *)
(* are open: what it opens is not open for another resource, nor is what   *)
(* still waits behind it.                                                  *)
(***************************************************************************)
LEMMA RequestServes == ASSUME StreamsInv, ProcessRequest PROVE Serves
<1>1. PICK m \in Messages \cap Str!Requests : Ses!ProcessMessage(m) /\ Str!HandleMessage(m)
  BY DEF ProcessRequest
<1>2. rx \in Seq(Messages) /\ rx # <<>> /\ m = Head(rx) /\ rx' = Tail(rx) /\ link' = link
  BY <1>1 DEF Ses!ProcessMessage, StreamsInv
<1>3. Waiting' \subseteq Waiting /\ m \in Waiting
  BY <1>2, TailWaits
<1>4. m.stream \in Ids
  BY <1>1 DEF Str!Requests
<1>5. Str!ServerSends(m)
  BY <1>3, <1>4 DEF StreamsInv, QueueAgrees, Starts, Str!ServerSends
<1>6. Str!Next
  BY <1>1, <1>5 DEF Str!Next, Str!Receive
<1>7. QueueAgrees'
  <2>1. CASE Starts(m, m.stream)
    <3>1. Str!HandleStartStream(m)
      BY <1>1, <2>1 DEF Starts, Str!HandleMessage, Str!HandleRun, Str!HandleDescribe,
             Str!HandleStopStream, Str!HandleStreamData
    <3>2. streams' = [streams EXCEPT ![m.stream] =
                        [resource |-> m.resource, interval_ms |-> m.interval,
                         last_sample |-> clock]]
      BY <2>1, <3>1 DEF Starts, Str!HandleStartStream
    <3> QED
      BY <1>3, <1>4, <2>1, <3>2, OpensQueued
  <2>2. CASE ~Starts(m, m.stream)
    <3>1. streams' = streams \/ streams' = [streams EXCEPT ![m.stream] = NoStream]
      BY <1>1, <2>2 DEF Starts, Str!HandleMessage, Str!HandleRun, Str!HandleDescribe,
             Str!HandleStartStream, Str!HandleStopStream, Str!HandleStreamData
    <3>2. \A s \in Str!Active' :
            s \in Str!Active /\ streams'[s].resource = streams[s].resource
      BY <3>1 DEF Str!Active, StreamsInv, StrP!TypeOK
    <3> QED
      BY <1>3, <3>2, QueueKeeps DEF StreamsInv
  <2> QED
    BY <2>1, <2>2
<1>8. [Subs!Next]_(Subs!subscriptions)
  BY <1>2, <1>6, StreamsStep, ServesSubs
<1> QED
  BY <1>6, <1>7, <1>8, StreamsStep DEF Serves

\* Samples and stream() send data of open streams, and open none.
LEMMA SamplesServe == ASSUME StreamsInv, SampleStreams \/ AppStreams PROVE Serves
<1>1. Str!Next /\ rx' = rx /\ link' = link
  BY DEF SampleStreams, AppStreams, Str!Next, Ses!HandleReturns, session
<1>2. \A s \in Str!Active' : s \in Str!Active /\ streams'[s].resource = streams[s].resource
  <2>1. CASE AppStreams
    BY <2>1 DEF AppStreams, Str!StreamCall, Str!Active
  <2>2. CASE SampleStreams
    <3>1. ASSUME NEW s \in Ids, Str!Due(s)
          PROVE  /\ s \in Str!Active
                 /\ [streams[s] EXCEPT !.last_sample = clock].resource = streams[s].resource
      BY <3>1 DEF Str!Due, StreamsInv, StrP!TypeOK, StrP!Stream, Str!Active
    <3> QED
      BY <2>2, <3>1 DEF SampleStreams, Str!CheckStreams, Str!Active
  <2> QED
    BY <2>1, <2>2
<1>3. QueueAgrees'
  BY <1>1, <1>2, QueueKeeps DEF StreamsInv, Waiting
<1>4. [Subs!Next]_(Subs!subscriptions)
  BY <1>1, StreamsStep, ServesSubs
<1> QED
  BY <1>1, <1>3, <1>4, StreamsStep DEF Serves

\* A message nobody handles is dropped.
LEMMA DropServes == ASSUME StreamsInv, DropMessage PROVE Serves
<1>1. rx \in Seq(Messages) /\ rx # <<>> /\ rx' = Tail(rx) /\ clock' = clock
  BY DEF DropMessage, Ses!ProcessMessage, StreamsInv
<1>2. Waiting' \subseteq Waiting /\ clock' \in StrP!Time
  BY <1>1, TailWaits DEF StreamsInv, StrP!TypeOK
<1> QED
  BY <1>2, IdleServes DEF DropMessage

-----------------------------------------------------------------------------
(* Handlers that are cut. *)

\* What a handler answers is an answer, and what it sends of a resource is data.
LEMMA CutMessages ==
    ASSUME NEW m \in Str!Requests
    PROVE  /\ m.stream \in Ids
           /\ \A a \in AnswersTo(m) : a \in StrP!Answers /\ a.type # "STREAM_DATA"
           /\ Str!Answer("OK", m.stream) \in StrP!Answers
           /\ \A r \in Resources, s \in Ids : Str!StreamResource(r, s) \subseteq StrP!DataMessages
<1>1. m.stream \in Ids
  BY DEF Str!Requests
<1> QED
  BY <1>1 DEF AnswersTo, Str!Answer, StrP!Answers, Str!StreamResource, Str!Data, StrP!DataMessages

\* A stream that is registered and confirmed, before its first sample.
LEMMA CutStartServes ==
    ASSUME StreamsInv, NEW m \in Waiting, m \in Str!Requests, Starts(m, m.stream),
           Waiting' \subseteq Waiting, clock' = clock, link' = link,
           out' = {Str!Answer("OK", m.stream)},
           stream_id' = [stream_id EXCEPT ![m.resource] = m.stream],
           streams' = [streams EXCEPT ![m.stream] =
                         [resource |-> m.resource, interval_ms |-> m.interval,
                          last_sample |-> clock]]
    PROVE  Serves
<1> DEFINE new == [resource |-> m.resource, interval_ms |-> m.interval, last_sample |-> clock]
<1>0. /\ streams \in [Ids -> StrP!Stream \cup {NoStream}]
      /\ stream_id \in [Resources -> Ids \cup {0}]
      /\ clock \in StrP!Time
  BY DEF StreamsInv, StrP!TypeOK
<1>1. m.stream \in Ids /\ m.resource \in Resources /\ m.interval \in Intervals
  BY DEF Starts, Str!Requests, Str!Paths
<1>2. new \in StrP!Stream /\ new.resource = m.resource /\ new # NoStream
  BY <1>0, <1>1, StreamsFacts DEF StrP!Stream, StrP!NoStreamAssumption
<1>3. streams' = [streams EXCEPT ![m.stream] = new]
  OBVIOUS
<1>4. m.stream \in Str!Active => streams[m.stream].resource = m.resource
  BY <1>1 DEF StreamsInv, QueueAgrees
<1>5. QueueAgrees'
  BY <1>1, OpensQueued
<1> HIDE DEF new
<1>6. StrP!TypeOK'
  <2>1. out' \subseteq StrP!Answers
    BY CutMessages
  <2>2. streams' \in [Ids -> StrP!Stream \cup {NoStream}]
    BY <1>0, <1>1, <1>2, <1>3
  <2>3. stream_id' \in [Resources -> Ids \cup {0}]
    BY <1>0, <1>1
  <2> QED
    BY <2>1, <2>2, <2>3 DEF StreamsInv, StrP!TypeOK
<1>7. StrP!StreamIdsAgree'
  <2> SUFFICES ASSUME NEW r \in Resources, stream_id'[r] # 0
               PROVE  /\ stream_id'[r] \in Ids
                      /\ streams'[stream_id'[r]] # NoStream
                      /\ streams'[stream_id'[r]].resource = r
    BY DEF StrP!StreamIdsAgree, StrP!stream_enabled, StrP!Active
  <2>1. CASE r = m.resource
    BY <1>0, <1>1, <1>2, <1>3, <2>1
  <2>2. CASE r # m.resource
    <3>1. stream_id'[r] = stream_id[r]
      BY <1>0, <1>1, <2>2
    <3>2. /\ stream_id[r] \in Ids /\ streams[stream_id[r]] # NoStream
          /\ streams[stream_id[r]].resource = r
      BY <3>1 DEF StreamsInv, StrP!StreamIdsAgree, StrP!stream_enabled, StrP!Active
    <3>3. stream_id[r] # m.stream
      BY <1>4, <2>2, <3>2 DEF Str!Active
    <3>4. streams'[stream_id[r]] = streams[stream_id[r]]
      BY <1>0, <1>3, <3>2, <3>3
    <3> QED
      BY <3>1, <3>2, <3>4
  <2> QED
    BY <2>1, <2>2
<1>8. StrP!Subs!Subscribe(m.stream, m.resource)
  <2>1. StrP!Subscribed' = [StrP!Subscribed EXCEPT ![m.stream] = m.resource]
    BY <1>0, <1>1, <1>2, <1>3 DEF StrP!Subscribed, StrP!Active
  <2>2. \A d \in out' : d.type # "STREAM_DATA"
    BY DEF Str!Answer
  <2>3. StrP!Published' = {}
    BY <2>2 DEF StrP!Published
  <2> QED
    BY <2>1, <2>3 DEF StrP!Subs!Subscribe, StrP!Subscribed, StrP!Published
<1>9. [Subs!Next]_(Subs!subscriptions)
  BY <1>1, <1>8, ServesSubs DEF StrP!Subs!Next
<1> QED
  BY <1>5, <1>6, <1>7, <1>9 DEF Serves

\* What a handler writes before its callback, and what it leaves for after it.
LEMMA CutServes ==
    ASSUME StreamsInv, NEW m \in Waiting, m \in Str!Requests, HandlerIsCut(m),
           Waiting' \subseteq Waiting, clock' = clock, link' = link
    PROVE  Serves /\ rest' \subseteq StrP!Answers \cup StrP!DataMessages
<1>0. clock' \in StrP!Time /\ stream_id \in [Resources -> Ids \cup {0}]
  BY DEF StreamsInv, StrP!TypeOK
<1>1. CASE /\ m.type \in {"RUN", "DESCRIBE"} /\ BeginsWithCallback(m)
           /\ \E a \in AnswersTo(m) : rest' = {a}
           /\ StreamsIdle
  BY <1>0, <1>1, IdleServes, CutMessages
<1>2. CASE /\ m.type = "RUN" /\ m.resource # Unknown /\ Str!stream_enabled(m.resource)
           /\ \E a \in AnswersTo(m) : out' = {a}
           /\ rest' = Str!StreamResource(m.resource, stream_id[m.resource])
           /\ UNCHANGED <<streams, stream_id>>
  <2>1. m.resource \in Resources /\ stream_id[m.resource] \in Ids
    BY <1>0, <1>2 DEF Str!Requests, Str!Paths, Str!stream_enabled
  <2>2. out' \subseteq StrP!Answers /\ \A d \in out' : d.type # "STREAM_DATA"
    BY <1>2, CutMessages
  <2>3. StrP!TypeOK' /\ StrP!StreamIdsAgree'
    BY <1>2, <2>2 DEF StreamsInv, StrP!TypeOK, StrP!StreamIdsAgree, StrP!stream_enabled, StrP!Active
  <2>4. QueueAgrees'
    BY <1>2, QueueKeeps DEF StreamsInv, Str!Active
  <2>5. StrP!Subs!Publish
    BY <1>2, <2>2, StreamsFacts, StrP!QuietStep DEF StreamsInv, StrP!Justified
  <2>6. [Subs!Next]_(Subs!subscriptions)
    BY <2>5, ServesSubs DEF StrP!Subs!Next
  <2>7. rest' \subseteq StrP!DataMessages
    BY <1>2, <2>1, CutMessages
  <2> QED
    BY <2>3, <2>4, <2>6, <2>7 DEF Serves
<1>3. CASE /\ m.type = "START_STREAM" /\ m.resource # Unknown
           /\ rest' = Str!StreamResource(m.resource, m.stream)
           /\ out' = {Str!Answer("OK", m.stream)}
           /\ stream_id' = [stream_id EXCEPT ![m.resource] = m.stream]
           /\ streams' = [streams EXCEPT ![m.stream] =
                            [resource |-> m.resource, interval_ms |-> m.interval,
                             last_sample |-> clock]]
  <2>1. m.resource \in Resources /\ m.stream \in Ids
    BY <1>3 DEF Str!Requests, Str!Paths
  <2>2. rest' \subseteq StrP!DataMessages
    BY <1>3, <2>1, CutMessages
  <2> QED
    BY <1>3, <2>2, CutStartServes DEF Starts
<1>4. CASE /\ m.stream \in Str!Active
           /\ rest' \in {Str!StreamResource(streams[m.stream].resource, m.stream), {}}
           /\ StreamsIdle
  <2>1. streams[m.stream].resource \in Resources /\ m.stream \in Ids
    BY <1>4 DEF StreamsInv, StrP!TypeOK, StrP!Stream, Str!Active
  <2>2. rest' \subseteq StrP!DataMessages
    BY <1>4, <2>1, CutMessages
  <2> QED
    BY <1>0, <1>4, <2>2, IdleServes
<1> QED
  BY <1>1, <1>2, <1>3, <1>4 DEF HandlerIsCut

\* disconnect() up to its state callback.
LEMMA BeginsServes ==
    ASSUME Ended, StreamsInv, DisconnectBegins
    PROVE  Serves /\ rest' \subseteq StrP!Answers \cup StrP!DataMessages
<1>0. ~closing /\ link' = link
  BY DEF Ended, DisconnectBegins, SessionEnds
<1>1. clock' = clock
  BY DEF DisconnectBegins, View!LinkIsDown, View!ProcessUnreadable, View!ProcessDisconnect
<1>2. rx' = rx \/ (rx # <<>> /\ rx' = Tail(rx))
  BY DEF DisconnectBegins
<1>3. Waiting' \subseteq Waiting
  BY <1>2, TailWaits DEF StreamsInv, Waiting
<1>4. CASE rest' = {} /\ StreamsIdle
  BY <1>1, <1>3, <1>4, IdleServes DEF StreamsInv, StrP!TypeOK
<1>5. ASSUME NEW m \in Messages, View!ProcessDisconnect(m), rx # <<>>, rx' = Tail(rx),
             m \in Str!Requests, HandlerIsCut(m)
      PROVE  Serves /\ rest' \subseteq StrP!Answers \cup StrP!DataMessages
  <2>1. m = Head(rx)
    BY <1>0, <1>5 DEF View!ProcessDisconnect
  <2>2. m \in Waiting
    BY <1>5, <2>1, TailWaits DEF StreamsInv
  <2> QED
    BY <1>0, <1>1, <1>3, <1>5, <2>2, CutServes
<1> QED
  BY <1>4, <1>5 DEF DisconnectBegins

(***************************************************************************)
(* What a handler writes after its callback disconnected may be data of a  *)
(* stream that was cleared; no server gets it.                             *)
(***************************************************************************)
LEMMA GoesOnServes == ASSUME Ended, StreamsInv, HandlerGoesOn PROVE Serves
<1>1. ~link /\ ~link'
  BY DEF Ended, HandlerGoesOn, session, Undecided
<1>2. /\ out' = rest
      /\ UNCHANGED <<rx, clock, streams, stream_id>>
  BY DEF HandlerGoesOn, session
<1>3. StrP!TypeOK' /\ StrP!StreamIdsAgree'
  BY <1>2 DEF StreamsInv, StrP!TypeOK, StrP!StreamIdsAgree, StrP!stream_enabled, StrP!Active
<1>4. QueueAgrees'
  BY <1>2, QueueKeeps DEF StreamsInv, Waiting, Str!Active
<1>5. UNCHANGED Subs!subscriptions
  BY <1>1, <1>2 DEF Subs!subscriptions, Str!Active
<1> QED
  BY <1>3, <1>4, <1>5 DEF Serves

-----------------------------------------------------------------------------

(***************************************************************************)
(* What arrives fits what is open and what waits, because the server does  *)
(* not use an id for another resource before it is closed.                 *)
(***************************************************************************)
LEMMA OutsideServes == ASSUME StreamsInv, Outside PROVE Serves
<1>1. ASSUME NEW m \in Messages, ServerSends(m), Ses!Arrives(m) PROVE Serves
  <2>1. rx \in Seq(Messages) /\ rx' = Append(rx, m) /\ clock' = clock
    BY <1>1 DEF Ses!Arrives, StreamsInv
  <2>2. Waiting' = Waiting \cup {m}
    BY <2>1 DEF Waiting
  <2>3. StreamsIdle /\ clock' \in StrP!Time
    BY <2>1 DEF Outside, StreamsInv, StrP!TypeOK
  <2>4. QueueAgrees'
    BY <1>1, <2>2, <2>3 DEF StreamsInv, QueueAgrees, ServerSends, Starts, Str!ServerSends,
                            StreamsIdle, Str!Active
  <2>5. [Subs!Next]_(Subs!subscriptions)
    BY <2>3, IdleStreams, ServesSubs DEF StreamsIdle, StrP!Subs!Next
  <2> QED
    BY <2>3, <2>4, <2>5, IdleStreams DEF Serves
<1>2. CASE Ses!LinkDrops
  <2>1. Waiting' \subseteq Waiting /\ clock' = clock
    BY <1>2 DEF Ses!LinkDrops, Waiting
  <2> QED
    BY <2>1, IdleServes DEF Outside, StreamsInv, StrP!TypeOK
<1>3. CASE Ses!Tick
  <2>1. rx' = rx /\ clock' \in StrP!Time
    BY <1>3, StreamsFacts DEF Ses!Tick, StreamsInv, StrP!TypeOK, StrP!Time, StrP!TimeAssumption
  <2> QED
    BY <2>1, IdleServes DEF Outside, Waiting
<1> QED
  BY <1>1, <1>2, <1>3 DEF Outside

\* The transport holds messages, and a handler has messages left to write.
LEMMA NextHeld ==
    ASSUME Ended, StreamsInv, [Next]_vars
    PROVE  rx' \in Seq(Messages) /\ rest' \subseteq StrP!Answers \cup StrP!DataMessages
<1>1. rx' \in Seq(Messages)
  <2>1. rx \in Seq(Messages)
    BY DEF StreamsInv
  <2>2. \/ rx' = rx \/ rx' = <<>> \/ (rx # <<>> /\ rx' = Tail(rx))
        \/ \E m \in Messages : rx' = Append(rx, m)
    <3>1. CASE Proceed \/ SampleStreams
      BY <3>1 DEF Proceed, SampleStreams, Ses!HandleTooSoon, Ses!HandleReconnect, Ses!ConnectFails,
             Ses!ConnectSucceeds, Ses!StartAuthentication, Ses!SendConnect, Ses!Authenticate,
             Ses!BecomeReady, Ses!HandleConnected, Ses!LinkIsUp, Ses!LoopDone,
             Ses!ProcessKeepalive, Ses!HandleReturns
    <3>2. CASE Disconnects \/ Closes
      BY <3>2 DEF Disconnects, Closes, Ses!ConnectNotWritten, Ses!ConnectRefused,
             Ses!ConnectUnanswered, Ses!FailAuthentication, Ses!LinkIsDown, Ses!disconnect,
             Ses!disconnect_impl
    <3>3. CASE ProcessRequest \/ DropMessage
      BY <3>3 DEF ProcessRequest, DropMessage, Ses!ProcessMessage
    <3>4. CASE DisconnectBegins
      BY <3>4 DEF DisconnectBegins
    <3>5. CASE AppDisconnects
      BY <3>2, <3>5 DEF AppDisconnects, Ses!AppDisconnects, Ses!disconnect, Ses!disconnect_impl
    <3>6. CASE HandlerGoesOn \/ AppStreams \/ UNCHANGED vars
      BY <3>6 DEF HandlerGoesOn, AppStreams, session, vars
    <3>7. CASE Outside
      BY <3>7 DEF Outside, Ses!Arrives, Ses!LinkDrops, Ses!Tick
    <3>8. CASE DisconnectReturns
      BY <3>2, <3>8 DEF DisconnectReturns
    <3> QED
      BY <3>1, <3>2, <3>3, <3>4, <3>5, <3>6, <3>7, <3>8 DEF Next, Handle
  <2>3. CASE rx' = <<>>
    BY <2>3
  <2>4. CASE rx # <<>> /\ rx' = Tail(rx)
    BY <2>1, <2>4
  <2>5. ASSUME NEW m \in Messages, rx' = Append(rx, m) PROVE rx' \in Seq(Messages)
    BY <2>1, <2>5
  <2>6. CASE rx' = rx
    BY <2>1, <2>6
  <2> QED
    BY <2>2, <2>3, <2>4, <2>5, <2>6
<1>2. rest' \subseteq StrP!Answers \cup StrP!DataMessages
  <2>1. CASE DisconnectBegins
    BY <2>1, BeginsServes
  <2>2. CASE rest' = rest \/ rest' = {}
    BY <2>2 DEF StreamsInv
  <2> QED
    BY <2>1, <2>2 DEF Next, Handle, Settled, DisconnectReturns, HandlerGoesOn, AppDisconnects,
                      AppStreams, Outside, vars
<1> QED
  BY <1>1, <1>2

\* The state callback of a disconnect() the application calls.
LEMMA AppDisconnectsServe == ASSUME Ended, StreamsInv, AppDisconnects PROVE Serves
<1>1. CASE rx' = rx /\ View!AppDisconnects /\ StreamsIdle
  <2>1. clock' = clock
    BY <1>1 DEF View!AppDisconnects
  <2> QED
    BY <1>1, <2>1, IdleServes DEF StreamsInv, StrP!TypeOK, Waiting
<1> QED
  BY <1>1, DisconnectsServe DEF AppDisconnects

\* Every step of the client serves the subscriptions.
LEMMA NextServes ==
    Ended /\ StreamsInv /\ [Next]_vars => StreamsInv' /\ [Subs!Next]_(Subs!subscriptions)
<1> SUFFICES ASSUME Ended, StreamsInv, [Next]_vars PROVE Serves
  BY NextHeld DEF Serves, StreamsInv
<1>1. CASE Handle
  BY <1>1, ProceedServes, DisconnectsServe, RequestServes, DropServes, SamplesServe,
     BeginsServes, GoesOnServes DEF Handle, DisconnectReturns
<1>2. CASE AppDisconnects \/ AppStreams \/ Outside
  BY <1>2, AppDisconnectsServe, SamplesServe, OutsideServes
<1>3. CASE UNCHANGED vars
  <2>1. UNCHANGED <<link, rx, clock, streams, stream_id, out>>
    BY <1>3 DEF vars, session
  <2>2. QueueAgrees'
    BY <2>1, QueueKeeps DEF StreamsInv, Waiting, Str!Active
  <2>3. StrP!TypeOK' /\ StrP!StreamIdsAgree'
    BY <2>1 DEF StreamsInv, StrP!TypeOK, StrP!StreamIdsAgree, StrP!stream_enabled, StrP!Active
  <2>4. UNCHANGED Subs!subscriptions
    BY <2>1 DEF Subs!subscriptions, Str!Active
  <2> QED
    BY <2>2, <2>3, <2>4 DEF Serves
<1> QED
  BY <1>1, <1>2, <1>3 DEF Next

(***************************************************************************)
(* Data reaches the server only on streams it has open, for the resource   *)
(* each was opened for, across the sessions of one client: an id can be    *)
(* used for another resource as soon as its stream is closed, whichever    *)
(* way it was, and what callbacks and handlers still write around the end  *)
(* of a session reaches no stream of the next.                             *)
(***************************************************************************)
THEOREM ClientServesSubscriptions == Spec => SubscriptionsSpec /\ []Str!StreamIdsAgree
<1>1. Init => Subs!Init
  BY DEF Init, Str!Init, Subs!Init, Str!Active
<1>2. StreamsInv => Str!StreamIdsAgree
  BY SameStreams DEF StreamsInv
<1> QED
  BY <1>1, <1>2, InitEnded, NextEnded, InitStreamsInv, NextServes, PTL
     DEF Spec, SubscriptionsSpec, Subs!Spec

=============================================================================

-------------------------- MODULE ConnectionStates --------------------------
(***************************************************************************)
(* What the client promises to the application that watches it: the order  *)
(* in which the state callback sees client_state values, and what          *)
(* is_connected() answers after each of them.  Nothing is said of time, of *)
(* the transport or of messages: IotmpSession implements this module.      *)
(***************************************************************************)

VARIABLES
    notified,   \* the last value given to the state callback, "NONE" before the first
    online      \* what is_connected() answers

states == <<notified, online>>

\* The states in which no connection attempt is under way and none succeeded.
AtRest == {"NONE", "SOCKET_CONNECTION_ERROR", "AUTH_FAILED", "SOCKET_DISCONNECTED"}

\* The states of an attempt that has not been decided yet.
Attempting == {"SOCKET_CONNECTING", "SOCKET_CONNECTED", "AUTHENTICATING", "AUTHENTICATED"}

\* What may follow each state.
Follows(s) ==
    CASE s \in AtRest            -> {"SOCKET_CONNECTING"}
      [] s = "SOCKET_CONNECTING" -> {"SOCKET_CONNECTED", "SOCKET_CONNECTION_ERROR"}
      [] s = "SOCKET_CONNECTED"  -> {"AUTHENTICATING"}
      [] s = "AUTHENTICATING"    -> {"AUTHENTICATED", "AUTH_FAILED"}
      [] s = "AUTHENTICATED"     -> {"READY"}
      [] s = "READY"             -> {"SOCKET_DISCONNECTED"}

Init == notified = "NONE" /\ online = FALSE

\* One call of the state callback; is_connected() is true exactly in READY.
Notify ==
    /\ notified' \in Follows(notified)
    /\ online' = (notified' = "READY")

\* The steps that decide an attempt once it has been announced.
Decide == notified \in Attempting /\ Notify

Spec == Init /\ [][Notify]_states /\ WF_states(Decide)

=============================================================================

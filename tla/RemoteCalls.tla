----------------------------- MODULE RemoteCalls -----------------------------
(***************************************************************************)
(* What set_property(), get_property(), write_bucket() and call_endpoint() *)
(* promise a caller: the call returns, and it returns true only when the   *)
(* server has accepted this very request.  False says nothing: the server  *)
(* may have accepted it all the same.  IotmpTasks implements this module.  *)
(***************************************************************************)
CONSTANT Callers

VARIABLES
    call,      \* "none", "pending", or what the last call returned
    verdict    \* the server's answer to a pending request

calls == <<call, verdict>>

Init ==
    /\ call = [c \in Callers |-> "none"]
    /\ verdict = [c \in Callers |-> "none"]

Invoke(c) ==
    /\ call[c] # "pending"
    /\ call' = [call EXCEPT ![c] = "pending"]
    /\ UNCHANGED verdict

\* A call that finds the client disconnected fails at once.
Refuse(c) ==
    /\ call[c] # "pending"
    /\ call' = [call EXCEPT ![c] = "false"]
    /\ UNCHANGED verdict

Decide(c) ==
    /\ call[c] = "pending" /\ verdict[c] = "none"
    /\ \E v \in {"OK", "ERROR"} : verdict' = [verdict EXCEPT ![c] = v]
    /\ UNCHANGED call

Return(c) ==
    /\ call[c] = "pending"
    /\ \E result \in {"true", "false"} :
         /\ result = "true" => verdict[c] = "OK"
         /\ call' = [call EXCEPT ![c] = result]
    /\ verdict' = [verdict EXCEPT ![c] = "none"]

Next == \E c \in Callers : Invoke(c) \/ Refuse(c) \/ Decide(c) \/ Return(c)

Spec == Init /\ [][Next]_calls /\ \A c \in Callers : WF_calls(Return(c))

=============================================================================

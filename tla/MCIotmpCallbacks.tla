-------------------------- MODULE MCIotmpCallbacks --------------------------
(***************************************************************************)
(* A resource with data and an action, in two applications: in the first   *)
(* only the action goes back into the client, in the second both do.       *)
(***************************************************************************)
EXTENDS IotmpCallbacks

CONSTANTS lamp, reboot

MCIoType == [r \in Resources |-> CASE r = lamp   -> "input_output"
                                   [] r = reboot -> "run"]

MCStreamEcho == [r \in Resources |-> TRUE]

MCApplications ==
    {[r \in Resources |-> IF r = reboot THEN Uses ELSE {"stream"}],
     [r \in Resources |-> Uses]}

=============================================================================

--------------------------- MODULE MCIotmpStreams ---------------------------
(***************************************************************************)
(* Resources for TLC: one of each kind that a run needs, the lamp with     *)
(* echo and the door without.                                              *)
(***************************************************************************)
EXTENDS IotmpStreams

CONSTANTS lamp, door, sensor, reboot

MCIoType ==
    [r \in Resources |-> CASE r = lamp   -> "input_output"
                           [] r = door   -> "input"
                           [] r = sensor -> "output"
                           [] r = reboot -> "run"]

MCStreamEcho == [r \in Resources |-> r # door]

=============================================================================

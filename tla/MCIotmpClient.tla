---------------------------- MODULE MCIotmpClient ----------------------------
(***************************************************************************)
(* A resource with input and output and one with output only, which share  *)
(* the one stream id, and messages of each kind that matters to a session. *)
(***************************************************************************)
EXTENDS IotmpClient, TLC

CONSTANTS lamp, meter

MCIoType == lamp :> "input_output" @@ meter :> "output"

MCStreamEcho == [r \in Resources |-> TRUE]

MCMessages ==
    {[type |-> t] : t \in {"OK", "DISCONNECT", "UNREADABLE"}}
      \cup [type : {"RUN"}, stream : Ids, resource : {lamp}, payload : {TRUE}]
      \cup [type : {"START_STREAM"}, stream : Ids, resource : Resources, interval : Intervals]
      \cup [type : {"STOP_STREAM", "STREAM_DATA"}, stream : Ids]

=============================================================================

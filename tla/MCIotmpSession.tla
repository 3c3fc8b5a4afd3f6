--------------------------- MODULE MCIotmpSession ---------------------------
(***************************************************************************)
(* One message of each kind the connection tells apart: the answers to a   *)
(* CONNECT, a request that runs a callback, DISCONNECT, and a frame that   *)
(* cannot be read.                                                         *)
(***************************************************************************)
EXTENDS IotmpSession

MCMessages ==
    {[type |-> t] : t \in {"OK", "ERROR", "RUN", "DISCONNECT", "UNREADABLE"}}

=============================================================================

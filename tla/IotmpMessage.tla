---------------------------- MODULE IotmpMessage ----------------------------
(***************************************************************************)
(* iotmp_message: a type and an array of fields, some of them set.  A      *)
(* message is [type, fields], with fields a function from the numbers of   *)
(* those that are set.                                                     *)
(***************************************************************************)
EXTENDS IotmpValues

CONSTANTS
    Uint16,  \* how many values uint16_t has
    Uint32   \* how many values uint32_t has

ASSUME IntegersAssumption == Uint16 \in Nat \ {0} /\ Uint32 \in Nat \ {0}

\* message::type
OK == 1
ERROR == 2
CONNECT == 3
DISCONNECT == 4
RUN == 6
DESCRIBE == 7
START_STREAM == 8
STOP_STREAM == 9
STREAM_DATA == 10

\* message::field
STREAM_ID == 1
PARAMETERS == 2
PAYLOAD == 3
RESOURCE == 4

MaxFields == 8

\* message[field] = value, with a number cut to uint8_t.  Beyond the last field
\* it lands in field 0, which is seen only if that field is set.
Assign(fields, field, value) ==
    LET f == IF field % 256 < MaxFields THEN field % 256 ELSE 0
    IN  IF field % 256 >= MaxFields /\ 0 \notin DOMAIN fields THEN fields
        ELSE [g \in DOMAIN fields \cup {f} |-> IF g = f THEN value ELSE fields[g]]

Message(type) == [type |-> type, fields |-> <<>>]

has_field(m, f) == f \in DOMAIN m.fields

Field(m, f) == IF has_field(m, f) THEN m.fields[f] ELSE Null

Put(m, f, value) == [m EXCEPT !.fields = Assign(@, f, value)]

set_stream_id(m, id) == Put(m, STREAM_ID, Unsigned(id))

get_stream_id(m) ==
    IF is_number(Field(m, STREAM_ID)) THEN GetUnsigned(Field(m, STREAM_ID), Uint16) ELSE 0

Response(id, type) == set_stream_id(Message(type), id)

=============================================================================

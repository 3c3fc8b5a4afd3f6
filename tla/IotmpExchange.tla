---------------------------- MODULE IotmpExchange ----------------------------
(***************************************************************************)
(* IotmpLink with an application: what the server writes and what the      *)
(* device answers travel as bytes.  The device also writes the calls of    *)
(* the server API and turns the JSON text it is given into values it       *)
(* sends.  Each action is one of IotmpLink, with the text on the side.     *)
(***************************************************************************)
EXTENDS IotmpLink, IotmpJson

CONSTANTS
    Contents,    \* payloads of messages that address no resource
    CallIds,     \* what set_random_stream_id() yields
    Documents,   \* values the application has the text of; no string has a zero
    Spaces,      \* white space it puts around the parts of a text
    CodePoints,  \* <<code point, its UTF-8 bytes>>: strings it has as \uXXXX
    MaxFlight    \* bound: messages written and not read

\* The bytes UTF-8 has for a character: six of its bits behind the first byte.
InTwoBytes(code, bytes, x, y) == code = 64 * x + y /\ bytes = <<192 + x, 128 + y>>
InThreeBytes(code, bytes, x, y, z) ==
    /\ code = 4096 * x + 64 * y + z /\ code >= 2048
    /\ bytes = <<224 + x, 128 + y, 128 + z>>

IsUtf8(code, bytes) ==
    \/ code \in 0 .. 127 /\ bytes = <<code>>
    \/ \E x \in 2 .. 31, y \in 0 .. 63 : InTwoBytes(code, bytes, x, y)
    \/ \E x \in 0 .. 15, y, z \in 0 .. 63 : InThreeBytes(code, bytes, x, y, z)

ASSUME TextsAssumption ==
    /\ \A d \in Documents : d \in Printable[MaxNesting]
    /\ \A s \in Spaces : s \in Seq(Space)
    /\ \A c \in CodePoints : c[1] \in Codes /\ IsUtf8(c[1], c[2])

\* server::run
READ_DEVICE_PROPERTY == 1
SET_DEVICE_PROPERTY == 2
CALL_ENDPOINT == 4
WRITE_BUCKET == 5

VARIABLES
    text,        \* JSON text the application was given
    document     \* the value it stands for

vars == <<link, text, document>>

-----------------------------------------------------------------------------
(* The application. *)

Idle == flight = <<>> /\ out = <<>> /\ text = NullText

Fresh == streams = <<>> /\ stream_id = [r \in Resources |-> 0] /\ app = [pin |-> FALSE, threshold |-> 0]

Received == Receive /\ UNCHANGED <<text, document>>

\* stream()
StreamCall(r) == Idle /\ Stream(r) /\ UNCHANGED <<wire, text, document>>

ServerRun(code, name) == Put(Put(Message(RUN), RESOURCE, Unsigned(code)), PARAMETERS, String(name))

set_property(id, data) == Put(ServerRun(SET_DEVICE_PROPERTY, id), PAYLOAD, data)
get_property(id) == ServerRun(READ_DEVICE_PROPERTY, id)
write_bucket(id, data) == Put(ServerRun(WRITE_BUCKET, id), PAYLOAD, data)
call_endpoint(name) == ServerRun(CALL_ENDPOINT, name)
call_endpoint_with(name, data) == Put(ServerRun(CALL_ENDPOINT, name), PAYLOAD, data)

\* The CONNECT of authenticate(), with username, device and credential.
Credentials == Put(Message(CONNECT), PAYLOAD, Array(<<String(Led), String(<<>>), String(Config)>>))

Calls ==
    {get_property(Led), call_endpoint(Config), Credentials}
      \cup {set_property(Led, x) : x \in Contents} \cup {write_bucket(Led, x) : x \in Contents}
      \cup {call_endpoint_with(Led, x) : x \in Contents}

\* Bound: calls are made by a device that did nothing yet.
AppCall ==
    /\ Fresh /\ Idle
    /\ \E m \in Calls, id \in CallIds : out' = <<set_stream_id(m, id)>>
    /\ UNCHANGED <<wire, flight, streams, stream_id, app, text, document>>

\* The texts that stand for a document: from dump(), with white space, or a
\* string with one character as \uXXXX.
Given ==
    {[document |-> d, text |-> dump(d)] : d \in Documents}
      \cup {[document |-> d, text |-> Spaced(d, s)] : d \in Documents, s \in Spaces}
      \cup {[document |-> String(c[2]), text |-> Escaped(c[1])] : c \in CodePoints}

GetText ==
    /\ Fresh /\ Idle
    /\ \E t \in Given : text' = t.text /\ document' = t.document
    /\ UNCHANGED <<wire, flight, streams, stream_id, app, out>>

\* The value parsed from the text is written to a bucket.
SendText ==
    /\ text # NullText
    /\ \E id \in CallIds : out' = <<set_stream_id(write_bucket(Led, parse(text)), id)>>
    /\ text' = NullText /\ document' = Null
    /\ UNCHANGED <<wire, flight, streams, stream_id, app>>

-----------------------------------------------------------------------------
(* The server. *)

\* The server waits for its answers before it asks again.
Answered == TakeAnswers /\ UNCHANGED <<wire, text, document>>

\* Bound: a stream that is not sampled is asked for of the sensor alone, while
\* the device did nothing yet.
Ask ==
    /\ Idle
    /\ \E q \in Questions :
         /\ q.meaning.type = "START_STREAM" /\ q.meaning.interval = 0
              => q.meaning.resource = Sensor /\ Fresh
         /\ Str!ServerSends(q.meaning)
         /\ \E m \in q.messages : Write(m)
    /\ UNCHANGED <<text, document>>

\* Bound: probes come one behind the other, to a device that did nothing yet.
Probe ==
    /\ Fresh /\ out = <<>> /\ text = NullText
    /\ Len(flight) < MaxFlight /\ Range(flight) \subseteq Probes
    /\ \E m \in Probes : Write(m)
    /\ UNCHANGED <<text, document>>

-----------------------------------------------------------------------------

Init ==
    /\ LinkInit
    /\ text = NullText /\ document = Null

Next ==
    \/ Received \/ Answered
    \/ Ask \/ Probe
    \/ (\E r \in Resources : StreamCall(r)) \/ AppCall \/ GetText \/ SendText

Spec == Init /\ [][Next]_vars

-----------------------------------------------------------------------------
(* Properties. *)

(***************************************************************************)
(* Text is parsed into the value it was made of, up to what text cannot    *)
(* tell, however the value is nested, whatever its strings hold and        *)
(* whichever white space and \uXXXX the text has: dump() and parse() agree *)
(* with each other and with UTF-8.                                         *)
(***************************************************************************)
TextIsUnderstood == parse(text) = JsonNormal(document)

(***************************************************************************)
(* Text that ends too early is not understood: no part of a string, an     *)
(* array or an object passes for another value, and none of its brackets   *)
(* is closed by the end of the text.  A number that is cut before its      *)
(* point may be out of range, and throws.                                  *)
(***************************************************************************)
TruncatedTextIsDiscarded ==
    Sized(document) =>
        \A n \in 0 .. Len(text) - 1 :
            parse(SubSeq(text, 1, n)) \in {Discarded, Thrown, JsonNormal(document)}

(***************************************************************************)
(* tests/test_client.cpp:875, "write_message encodes and read_message      *)
(* decodes correctly": every message is read as it was written.            *)
(***************************************************************************)
EveryMessageIsRead ==
    \A n \in DOMAIN out : IsRead(out[n], <<>>)

=============================================================================

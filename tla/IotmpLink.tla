------------------------------ MODULE IotmpLink ------------------------------
(***************************************************************************)
(* The device behind its connection: messages written as frames into a     *)
(* stream of bytes and read from it again, type, size and body, the bodies *)
(* as IotmpWire has them.                                                  *)
(***************************************************************************)
EXTENDS IotmpDevice, IotmpWire

CONSTANT MaxMessageSize  \* max_message_size_

VARIABLE wire  \* the bytes written by the server and not read

link == <<device, wire>>

\* A message the other side can take over: message::type has 8 bits, its fields
\* can be read, and its body is not above the limit.
Readable(m) == m.type \in Byte /\ Portable(m) /\ Len(EncodeBody(m)) <= MaxMessageSize

\* What the server writes can be read, and has no types that are lost.
ASSUME FramesAssumption ==
    /\ MaxMessageSize \in 0 .. Uint32 - 1
    /\ \A m \in Messages : Readable(m) /\ NormalMessage(m) = m

-----------------------------------------------------------------------------
(* Frames. *)

\* Mutant: a size is taken to fit one byte.
EncodeMessageShort(m) == Varint[m.type] \o <<Len(EncodeBody(m)) % 256>> \o EncodeBody(m)

encode_message(m) == Varint[m.type] \o Varint[Len(EncodeBody(m))] \o EncodeBody(m)

Bytes(messages) == FlattenSeq([i \in DOMAIN messages |-> encode_message(messages[i])])

\* Mutant: a body is taken from what there is of it.
ReadFrameShort(b) ==
    LET type == ReadVarint(b, 1, Uint32)
        body_size == IF type.ok THEN ReadVarint(b, type.at, Uint32) ELSE Fail
        end == IF Enough(b, body_size.at, body_size.value)
                 THEN body_size.at + body_size.value - 1 ELSE Len(b)
    IN  IF ~body_size.ok \/ body_size.value > MaxMessageSize THEN Fail
        ELSE [ok |-> TRUE, type |-> type.value,
              body |-> SubSeq(b, body_size.at, end), rest |-> SubSeq(b, end + 1, Len(b))]

\* The frame of this type and size; rest is what stays in the stream.
FrameOf(b, type, body_size) ==
    LET end == body_size.at + body_size.value - 1
    IN  IF ~body_size.ok \/ body_size.value > MaxMessageSize \/ ~Enough(b, body_size.at, body_size.value)
        THEN Fail
        ELSE [ok |-> TRUE, type |-> type.value,
              body |-> SubSeq(b, body_size.at, end), rest |-> SubSeq(b, end + 1, Len(b))]

\* The frame b begins with.
read_frame(b) ==
    LET type == ReadVarint(b, 1, Uint32)
    IN  FrameOf(b, type, IF type.ok THEN ReadVarint(b, type.at, Uint32) ELSE Fail)

\* The message of a frame whose body is decoded.
MessageOf(frame, decoded) ==
    IF ~frame.ok \/ ~decoded.ok THEN Fail
    ELSE [ok |-> TRUE, message |-> [type |-> frame.type, fields |-> decoded.fields],
          rest |-> frame.rest]

read_message(b) ==
    LET frame == read_frame(b)
    IN  MessageOf(frame, DecodeFields(frame.body))

-----------------------------------------------------------------------------

\* process_incoming().  A DISCONNECT, or a message that cannot be read, ends
\* the connection, and the bytes that were on their way are lost with it.
Receive ==
    /\ wire # <<>>
    /\ LET r == read_message(wire)
       IN  IF r.ok /\ r.message.type # DISCONNECT
           THEN wire' = r.rest /\ flight' = Tail(flight) /\ handle_message(r.message)
           ELSE wire' = <<>> /\ flight' = <<>> /\ Disconnect

\* The server writes a message.
Write(m) == Send(m) /\ wire' = wire \o encode_message(m)

LinkInit == DeviceInit /\ wire = <<>>

LinkNext ==
    \/ Receive
    \/ \E m \in Messages : Write(m)
    \/ CallServer /\ UNCHANGED wire
    \/ \E r \in Resources : Stream(r) /\ UNCHANGED wire
    \/ TakeAnswers /\ UNCHANGED wire

LinkSpec == LinkInit /\ [][LinkNext]_link

-----------------------------------------------------------------------------
(* Properties. *)

(***************************************************************************)
(* Whatever was written, the stream holds the frames of the messages that  *)
(* were not read and nothing else, and reading one takes its type and its  *)
(* body and leaves the stream at the first byte of the next.               *)
(***************************************************************************)
FramesStayInStep ==
    /\ wire = Bytes(flight)
    /\ flight # <<>> =>
         read_frame(wire) = [ok |-> TRUE, type |-> Head(flight).type,
                             body |-> EncodeBody(Head(flight)), rest |-> Bytes(Tail(flight))]

(***************************************************************************)
(* A frame cut short anywhere is refused: no strict prefix of a message is *)
(* read as a message.                                                      *)
(***************************************************************************)
PrefixesAreRefused ==
    Len(flight) = 1 => \A n \in 0 .. Len(wire) - 1 : ~read_message(SubSeq(wire, 1, n)).ok

\* The bytes of message, and then rest, are read as message and leave rest.
IsRead(message, rest) ==
    LET r == read_message(encode_message(message) \o rest)
    IN  r.ok /\ r.message = NormalMessage(message) /\ r.rest = rest

\* Each message that can be read, with what can be read behind it, is read up
\* to the types of whole numbers.
AreRead(messages) ==
    \A n \in DOMAIN messages :
        (\A i \in n .. Len(messages) : Readable(messages[i]))
          => IsRead(messages[n], Bytes(SubSeq(messages, n + 1, Len(messages))))

\* The bodies the server writes are decoded into the fields they were made of.
BodiesAreRead ==
    \A i \in DOMAIN flight :
        DecodeFields(EncodeBody(flight[i])) = [ok |-> TRUE, fields |-> flight[i].fields]

(***************************************************************************)
(* What one side encodes the other decodes into the same fields: the       *)
(* requests of the server exactly, and everything the device sends up to   *)
(* what the encoding does not tell.                                        *)
(***************************************************************************)
MessagesRoundTrip == BodiesAreRead /\ AreRead(out)

=============================================================================

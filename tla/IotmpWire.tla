------------------------------ MODULE IotmpWire ------------------------------
(***************************************************************************)
(* The bodies of messages as bytes: the field codec of iotmp_encoder and   *)
(* iotmp_decoder and the PSON values inside.  IotmpLink has the frames     *)
(* bodies travel in.                                                       *)
(*                                                                         *)
(* Bytes have 8 bits, groups of a varint 7 and tags their layout, as in    *)
(* the code; the widths 32, 64 and the limit on strings are constants,     *)
(* small enough for TLC.  A float is a whole number, or opaque when it     *)
(* needs 4 or 8 bytes.  The recursion of the code is on the nesting of     *)
(* what is written and on how much is left of what is read.                *)
(***************************************************************************)
EXTENDS IotmpMessage, IotmpVarint

CONSTANT MaxString  \* UINT16_MAX

ASSUME WidthsAssumption ==
    /\ 256 <= Uint32 /\ Uint32 <= Uint64
    /\ MaxString \in 0 .. Uint64 - 1

-----------------------------------------------------------------------------
(* The values there are to send. *)

Text == {s \in Seq(Byte) : Len(s) <= MaxString}

Lists(S) == {s \in Seq(S) : Len(s) < Uint64}

\* Of the integers, all but the one that cannot be negated.
Integer64 == 1 - (Uint64 \div 2) .. (Uint64 \div 2) - 1

Scalars ==
    {Null}
      \cup [t : {"boolean"}, v : BOOLEAN]
      \cup [t : {"unsigned"}, v : 0 .. Uint64 - 1]
      \cup [t : {"integer", "whole"}, v : Integer64]
      \cup [t : {"float"}, v : {s \in Seq(Byte) : Len(s) = 4}]
      \cup [t : {"double"}, v : {s \in Seq(Byte) : Len(s) = 8}]
      \cup [t : {"string", "binary"}, v : Text]

\* The containers of such elements.
Containers(elements) ==
    [t : {"array"}, v : Lists(elements)]
      \cup [t : {"object"}, v : Lists([key : Text, value : elements])]

\* The values with at most n containers inside each other.
Values[n \in Nat] == IF n = 0 THEN Scalars ELSE Scalars \cup Containers(Values[n - 1])

-----------------------------------------------------------------------------
(* Tags. *)

\* Mutant: 31 is written inline, where it announces a varint.
PsonTagInline(type, n) == IF n <= 31 THEN <<type * 32 + n>> ELSE <<type * 32 + 31>> \o Varint[n]

\* PSON: three bits of type, five of size; 31 announces a varint.
PsonTag(type, n) == IF n < 31 THEN <<type * 32 + n>> ELSE <<type * 32 + 31>> \o Varint[n]

\* The tag that begins with byte, whose number is read as long.
TagOf(byte, long) ==
    IF long.ok THEN [ok |-> TRUE, type |-> byte \div 32, value |-> long.value, at |-> long.at]
    ELSE Fail

ReadPsonTag(b, p) ==
    IF p > Len(b) THEN Fail
    ELSE TagOf(b[p], IF b[p] % 32 = 31 THEN ReadVarint(b, p + 1, Uint64)
                                       ELSE Value(b[p] % 32, p + 1))

-----------------------------------------------------------------------------
(* PSON values. *)

PsonString(bytes) == PsonTag(4, Len(bytes)) \o bytes

\* encode(), where inner has the bytes of the values inside.
PsonBy(value, inner) ==
    CASE value.t = "boolean"  -> PsonTag(3, IF value.v THEN 1 ELSE 0)
      [] value.t = "null"     -> PsonTag(3, 2)
      [] value.t = "unsigned" -> PsonTag(0, value.v)
      [] value.t \in {"integer", "whole"} ->
            IF value.v < 0 THEN PsonTag(1, -value.v) ELSE PsonTag(0, value.v)
      [] value.t = "float"    -> PsonTag(2, 0) \o value.v
      [] value.t = "double"   -> PsonTag(2, 1) \o value.v
      [] value.t = "string"   -> PsonString(value.v)
      [] value.t = "binary"   -> PsonTag(5, Len(value.v)) \o value.v
      [] value.t = "object"   ->
            PsonTag(6, Len(value.v)) \o
              FlattenSeq([i \in DOMAIN value.v |->
                            PsonString(value.v[i].key) \o inner[value.v[i].value]])
      [] value.t = "array"    ->
            PsonTag(7, Len(value.v)) \o FlattenSeq([i \in DOMAIN value.v |-> inner[value.v[i]]])

\* The bytes of the values of each nesting.
Encoded[n \in Nat] ==
    [value \in Values[n] |-> PsonBy(value, IF n = 0 THEN <<>> ELSE Encoded[n - 1])]

\* Of a discarded value nothing is written.
Pson(value) == IF value = Discarded THEN <<>> ELSE Encoded[MaxNesting][value]

\* Raw content of n bytes at p.
ReadRaw(b, p, n, type) ==
    IF Enough(b, p, n) THEN Value([t |-> type, v |-> SubSeq(b, p, p + n - 1)], p + n) ELSE Fail

\* A container of what r has read, if it has.
ArrayOf(r) == IF r.ok THEN Value(Array(r.value), r.at) ELSE Fail
ObjectOf(r) == IF r.ok THEN Value(Filled(r.value), r.at) ELSE Fail

\* The value behind its tag; items[kind][p][n] are the n items of
\* such a container at p.
PsonOf(b, tag, items) ==
    IF ~tag.ok THEN Fail
    ELSE CASE tag.type = 0 -> Value(Unsigned(tag.value), tag.at)
           [] tag.type = 1 -> Value(Signed(-tag.value), tag.at)
           [] tag.type = 2 /\ tag.value = 0 -> ReadRaw(b, tag.at, 4, "float")
           [] tag.type = 2 /\ tag.value = 1 -> ReadRaw(b, tag.at, 8, "double")
           [] tag.type = 3 /\ tag.value \in {0, 1} -> Value(Boolean(tag.value = 1), tag.at)
           [] tag.type = 3 /\ tag.value = 2 -> Value(Null, tag.at)
           [] tag.type = 4 /\ tag.value <= MaxString -> ReadRaw(b, tag.at, tag.value, "string")
           [] tag.type = 5 /\ tag.value <= MaxString -> ReadRaw(b, tag.at, tag.value, "binary")
           [] tag.type = 6 -> ObjectOf(items[6][tag.at][tag.value])
           [] tag.type = 7 -> ArrayOf(items[7][tag.at][tag.value])
           [] OTHER -> Fail

\* A key and the value behind it, as far as they are read.
KeyOf(b, tag) == IF tag.ok /\ tag.type = 4 THEN PsonOf(b, tag, <<>>) ELSE Fail
WithKey(key, r) == IF r.ok THEN Value(Pair(key.value.v, r.value), r.at) ELSE Fail
PairOf(b, key, items) ==
    IF key.ok THEN WithKey(key, PsonOf(b, ReadPsonTag(b, key.at), items)) ELSE Fail

\* decode_pair() or decode(): what a map, of type 6, or an array has at p.
ItemOf(b, kind, p, items) ==
    IF kind = 6 THEN PairOf(b, KeyOf(b, ReadPsonTag(b, p)), items)
                ELSE PsonOf(b, ReadPsonTag(b, p), items)

\* An item and the n that items has behind it.
Before(more, item) == IF more.ok THEN Value(<<item>> \o more.value, more.at) ELSE Fail
Followed(first, n, items) ==
    IF first.ok THEN Before(items[first.at][n], first.value) ELSE Fail

\* The n items at p, when there are no more than left values: each value is a
\* byte or more.
Items(b) ==
    LET items[left \in Nat] ==
            [kind \in {6, 7} |-> [p \in Nat |-> [n \in Nat |->
                IF n = 0 THEN Value(<<>>, p)
                ELSE IF left = 0 THEN Fail
                ELSE Followed(ItemOf(b, kind, p, items[left - 1]), n - 1, items[left - 1][kind])]]]
    IN  items

ReadPson(b, p) == PsonOf(b, ReadPsonTag(b, p), Items(b)[Len(b)])

-----------------------------------------------------------------------------
(* Messages: [type, fields], fields a function from field numbers. *)

\* A whole number of the program's integer types is a varint, anything else
\* is PSON.
EncodeField(field, value) ==
    IF value.t \in {"unsigned", "integer"}
    THEN <<field * 8>> \o Varint[value.v % Uint64]
    ELSE <<field * 8 + 2>> \o Pson(value)

EncodeBody(m) ==
    FlattenSeq([i \in 1 .. MaxFields |->
                  IF i - 1 \in DOMAIN m.fields THEN EncodeField(i - 1, m.fields[i - 1]) ELSE <<>>])

\* The number of a field.
NumberOf(r) == IF r.ok THEN Value(Unsigned(r.value), r.at) ELSE Fail

\* The content of a field behind its tag.
ContentOf(b, tag) ==
    IF ~tag.ok THEN Fail
    ELSE CASE tag.value % 8 = 0 -> NumberOf(ReadVarint(b, tag.at, Uint32))
           [] tag.value % 8 = 2 -> ReadPson(b, tag.at)
           [] OTHER -> Fail

\* The fields with that of tag, if its content was read.
WithField(fields, tag, content) ==
    IF content.ok THEN Value(Assign(fields, tag.value \div 8, content.value), content.at) ELSE Fail

FieldAt(b, tag, fields) == WithField(fields, tag, ContentOf(b, tag))

\* The loop of decode() ends with the body, or when something is not read.
Over(b, r) == ~r.ok \/ r.at > Len(b)

NextField(b, r) == IF Over(b, r) THEN r ELSE FieldAt(b, ReadVarint(b, r.at, Uint32), r.value)

\* What has been read after n fields.
Fields(b) ==
    LET fields[n \in Nat] == IF n = 0 THEN Value(<<>>, 1) ELSE NextField(b, fields[n - 1])
    IN  fields

FieldsOf(r) == IF r.ok THEN [ok |-> TRUE, fields |-> r.value] ELSE Fail

DecodeFields(b) == FieldsOf(Fields(b)[CHOOSE n \in 0 .. Len(b) : Over(b, Fields(b)[n])])

-----------------------------------------------------------------------------
(* What the two ends agree on. *)

\* What a reader can tell of a value: a whole number has lost its type, and an
\* object is filled again.
NormalBy(value, inner) ==
    CASE value.t \in {"integer", "whole"} ->
            IF value.v < 0 THEN Signed(value.v) ELSE Unsigned(value.v)
      [] value.t = "array" -> Array([i \in DOMAIN value.v |-> inner[value.v[i]]])
      [] value.t = "object" ->
            Filled([i \in DOMAIN value.v |-> Pair(value.v[i].key, inner[value.v[i].value])])
      [] OTHER -> value

Normals[n \in Nat] ==
    [value \in Values[n] |-> NormalBy(value, IF n = 0 THEN <<>> ELSE Normals[n - 1])]

Normal(value) == Normals[MaxNesting][value]

\* A message the reader must be able to take over: its whole numbers fit the
\* fields that carry them, and its values are values.
Portable(m) ==
    \A f \in DOMAIN m.fields :
        /\ f \in 0 .. MaxFields - 1
        /\ m.fields[f] \in Values[MaxNesting]
        /\ m.fields[f].t \in {"unsigned", "integer"} => m.fields[f].v \in 0 .. Uint32 - 1

NormalMessage(m) ==
    [type |-> m.type, fields |-> [f \in DOMAIN m.fields |-> Normal(m.fields[f])]]

=============================================================================

----------------------------- MODULE IotmpVarint -----------------------------
(***************************************************************************)
(* Variable-length integers: groups of seven bits, the lowest first, each  *)
(* in a byte whose top bit says that more follow.                          *)
(***************************************************************************)
EXTENDS Integers, Sequences

Byte == 0 .. 255

\* The outcomes of reading something.
Fail == [ok |-> FALSE]

Value(value, at) == [ok |-> TRUE, value |-> value, at |-> at]

\* n bytes are there to be read at p.
Enough(b, p, n) == p + n - 1 <= Len(b)

\* pb_write_varint()
Varint[n \in Nat] == IF n < 128 THEN <<n>> ELSE <<128 + (n % 128)>> \o Varint[n \div 128]

\* Bytes i and on of b as a varint, when a type of room values is left above
\* the bits read so far: a group is refused when none is left.
VarintFrom(b) ==
    LET from[i \in 1 .. Len(b) + 1] ==
            [room \in Nat |->
                IF i > Len(b) \/ room <= 1 THEN Fail
                ELSE IF b[i] < 128 THEN Value(b[i], i + 1)
                ELSE LET more == from[i + 1][(room + 127) \div 128]
                     IN  IF more.ok THEN Value((b[i] % 128) + 128 * more.value, more.at) ELSE Fail]
    IN  from

\* What was read, in a type of limit values: the bits of the last group that
\* do not fit are lost.
Narrowed(r, limit) == IF r.ok THEN Value(r.value % limit, r.at) ELSE Fail

\* The varint at p, for an integer type of limit values.
ReadVarint(b, p, limit) == Narrowed(VarintFrom(b)[p][limit], limit)

=============================================================================

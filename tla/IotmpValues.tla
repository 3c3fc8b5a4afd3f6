----------------------------- MODULE IotmpValues -----------------------------
(***************************************************************************)
(* iotmp_value: a value is [t |-> its type, v |-> its content].  A string  *)
(* is a sequence of bytes, an object a sequence of pairs in the order they *)
(* came.  A float is a whole number, or opaque bytes when it is not one.   *)
(***************************************************************************)
EXTENDS Integers, Sequences, SequencesExt, FiniteSetsExt

CONSTANTS
    Uint64,     \* how many values uint64_t has
    MaxNesting  \* bound: containers inside each other in a value

ASSUME ValuesAssumption == Uint64 \in Nat /\ MaxNesting \in Nat

Null == [t |-> "null", v |-> 0]
Discarded == [t |-> "discarded", v |-> 0]
Boolean(b) == [t |-> "boolean", v |-> b]
Unsigned(n) == [t |-> "unsigned", v |-> n]
Signed(n) == [t |-> "integer", v |-> n]
Whole(n) == [t |-> "whole", v |-> n]
String(bytes) == [t |-> "string", v |-> bytes]
Binary(bytes) == [t |-> "binary", v |-> bytes]
Array(elements) == [t |-> "array", v |-> elements]
Object(pairs) == [t |-> "object", v |-> pairs]

Pair(key, value) == [key |-> key, value |-> value]

is_number(value) == value.t \in {"unsigned", "integer", "whole", "float", "double"}

Sized(value) == value.t \in {"string", "binary", "array", "object"}

size(value) == IF Sized(value) THEN Len(value.v) ELSE 0

\* Mutant: only null is empty.
EmptyIfNull(value) == value.t = "null"

empty(value) == value.t = "null" \/ (Sized(value) /\ value.v = <<>>)

\* get<T>() for an unsigned T of so many values; a float that is no whole
\* number of T is undefined and not asked for.
GetUnsigned(value, count) ==
    IF value.t \in {"unsigned", "integer", "whole"} THEN value.v % count ELSE 0

\* get<bool>() does not look at the type: of anything but a boolean it reads
\* a byte of the union.
GetBool(value) == IF value.t = "boolean" THEN {value.v} ELSE BOOLEAN

GetString(value) == IF value.t = "string" THEN value.v ELSE <<>>

\* A key is looked up as a C string: it ends at its first zero.
CString(bytes) ==
    LET zeros == {i \in DOMAIN bytes : bytes[i] = 0}
    IN  IF zeros = {} THEN bytes ELSE SubSeq(bytes, 1, Min(zeros) - 1)

Places(pairs, key) == {i \in DOMAIN pairs : pairs[i].key = CString(key)}

\* value[key] of a constant: the first of that key.
Lookup(value, key) ==
    IF value.t # "object" \/ Places(value.v, key) = {} THEN Null
    ELSE value.v[Min(Places(value.v, key))].value

\* A value that is used as a container loses what it was.
ensure_object(value) == IF value.t = "object" THEN value ELSE Object(<<>>)
ensure_array(value) == IF value.t = "array" THEN value ELSE Array(<<>>)

\* value[key] = item
SetKey(value, key, item) ==
    LET pairs == ensure_object(value).v
        places == Places(pairs, key)
    IN  Object(IF places = {} THEN Append(pairs, Pair(CString(key), item))
                              ELSE [pairs EXCEPT ![Min(places)].value = item])

\* The object that is filled with these pairs, one after the other.
Filled(pairs) ==
    Object(FoldLeft(LAMBDA held, p : SetKey(Object(held), p.key, p.value).v, <<>>, pairs))

push_back(value, item) == Array(Append(ensure_array(value).v, item))

\* value[index] = item: the array grows as far as the index.
SetIndex(value, index, item) ==
    LET elements == ensure_array(value).v
    IN  Array([i \in 1 .. Max({index + 1, Len(elements)}) |->
                  IF i = index + 1 THEN item
                  ELSE IF i <= Len(elements) THEN elements[i] ELSE Null])

\* The constructor from a list: an object if all elements look like pairs.
FromList(elements) ==
    IF elements # <<>> /\ \A i \in DOMAIN elements :
         elements[i].t = "array" /\ size(elements[i]) = 2 /\ elements[i].v[1].t = "string"
    THEN Object([i \in DOMAIN elements |-> Pair(elements[i].v[1].v, elements[i].v[2])])
    ELSE Array(elements)

=============================================================================

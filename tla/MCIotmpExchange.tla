---------------------------- MODULE MCIotmpExchange ----------------------------
(***************************************************************************)
(* Values on both sides of every boundary of the encodings: the tag's five *)
(* bits, the varint's groups, the widths, the limit on strings.            *)
(***************************************************************************)
EXTENDS IotmpExchange

Copies(n, c) == [i \in 1 .. n |-> c]

Numbers ==
    {Unsigned(n) : n \in {0, 1, 30, 31, 32, 127, 128, Uint32 - 1}}
      \cup {Signed(n) : n \in {0, 31, 128}}

MCStrings ==
    {[t |-> type, v |-> Copies(n, 200)] : type \in {"string", "binary"}, n \in {0, 1, 31, MaxString}}

MCScalars ==
    MCStrings
      \cup {[t |-> "boolean", v |-> b] : b \in BOOLEAN} \cup {Null}
      \cup {[t |-> "whole", v |-> n] : n \in {-128, -31, -1, 0, 31}}
      \cup {[t |-> "float", v |-> Copies(4, 255)], [t |-> "double", v |-> Copies(8, 0)]}

\* Inside PSON the whole range of 64 bits can be used.
Inner ==
    {Signed(1 - (Uint64 \div 2)), Unsigned(Uint64 - 1),
     [t |-> "string", v |-> Copies(31, 7)], [t |-> "array", v |-> <<>>]}

MCContainers ==
    {[t |-> "array", v |-> s] : s \in {<<>>} \cup {<<x>> : x \in Inner} \cup (Inner \X Inner)}
      \cup {[t |-> "object", v |-> s] :
              s \in {<<>>} \cup {<<Pair(Copies(1, 1), x), Pair(Copies(1, 2), y)>> : x \in Inner, y \in Inner}}
      \cup {[t |-> "array", v |-> <<[t |-> "object", v |-> <<Pair(Copies(1, 1), x)>>], x>>] : x \in Inner}

MCContents == Numbers \cup MCScalars \cup MCContainers

MCInputs ==
    {Boolean(TRUE), Boolean(FALSE), Unsigned(1), Object(<<>>),
     Object(<<Pair(ValueKey, Unsigned(7))>>)}

\* Messages that ask for nothing: with contents for no resource, with a name
\* for no stream, for the description of the API, or without a body.  Values
\* that differ in their type alone have the same bytes: one of them is enough.
MCProbes ==
    {m \in With(Response(257, RUN), PAYLOAD, Contents) : Readable(m) /\ NormalMessage(m) = m}
      \cup {Message(5), Message(DISCONNECT), Response(1, DESCRIBE)}

\* A payload out of the range of the field's varint, as write_bucket(id, -5) sends.
MCNegative == {Signed(-5), Unsigned(1)}

JsonCharacters == {8, 9, 10, 13, 32, 34, 44, 47, 58, 92, 97, 110, 117, 200}

\* Strings with every character that is escaped, and one that is not.
JsonStrings == {<<>>} \cup {<<c>> : c \in JsonCharacters} \cup (JsonCharacters \X JsonCharacters)

JsonScalars ==
    {Null} \cup {Boolean(b) : b \in BOOLEAN}
      \cup {Unsigned(n) : n \in {0, 7, 10, Uint64 - 1}}
      \cup {Signed(n) : n \in {-(Uint64 \div 2), -10, -1, 0, 9}}
      \cup {Whole(n) : n \in {-3, 0, 12}}
      \cup {String(s) : s \in JsonStrings} \cup {Binary(Copies(n, 0)) : n \in {0, 12}}

JsonInner == {Null, Unsigned(1), Signed(-1), String(<<92>>), Array(<<>>), Object(<<>>),
              Array(<<Null, Null>>), Object(<<Pair(<<34>>, Boolean(TRUE))>>)}

MCDocuments ==
    JsonScalars
      \cup {Array(<<x>>) : x \in JsonInner} \cup {push_back(Array(<<x>>), y) : x, y \in JsonInner}
      \cup {FromList(<<Array(<<String(k), x>>), Array(<<String(l), y>>)>>) :
              k, l \in {<<>>, <<97>>, <<44>>}, x, y \in JsonInner}
      \cup {SetIndex(Null, 2, x) : x \in JsonInner}
      \cup {Array(<<Whole(Uint64)>>)}  \* its digits alone are out of range

\* White space around a part: every character of it.
MCSpaces == {<<32, 9>>, <<10, 13>>}

\* The first and last characters of each length, and some between.
MCCodePoints ==
    {<<1, <<1>>>>, <<9, <<9>>>>, <<34, <<34>>>>, <<47, <<47>>>>, <<92, <<92>>>>, <<127, <<127>>>>,
     <<128, <<194, 128>>>>, <<233, <<195, 169>>>>, <<2047, <<223, 191>>>>,
     <<2048, <<224, 160, 128>>>>, <<8364, <<226, 130, 172>>>>, <<65535, <<239, 191, 191>>>>}

=============================================================================

------------------------------ MODULE IotmpJson ------------------------------
(***************************************************************************)
(* Values as JSON text: dump() and parse() of iotmp_value.  Text is a      *)
(* sequence of bytes; parse() takes a C string, which its first zero ends. *)
(* The recursion of the code is on the nesting of what is printed and on   *)
(* how much is left of what is parsed.                                     *)
(***************************************************************************)
EXTENDS IotmpValues

Unparsed == [ok |-> FALSE, thrown |-> FALSE]
OutOfRange == [ok |-> FALSE, thrown |-> TRUE]
Parsed(value, at) == [ok |-> TRUE, value |-> value, at |-> at]

Quote == 34
Backslash == 92
Comma == 44
Colon == 58
Minus == 45
Point == 46
Zero == 48
OpenArray == 91
OpenObject == 123

\* What closes a container, in ASCII.
Close(open) == open + 2

Space == {32, 9, 10, 13}
Digit == Zero .. Zero + 9

TrueText == <<116, 114, 117, 101>>
FalseText == <<102, 97, 108, 115, 101>>
NullText == <<110, 117, 108, 108>>

-----------------------------------------------------------------------------
(* The values there is text of. *)

\* A string is text to the end: it has no zero.
Characters == 1 .. 255

PrintableScalars ==
    {Null}
      \cup [t : {"boolean"}, v : BOOLEAN]
      \cup [t : {"unsigned"}, v : 0 .. Uint64 - 1]
      \cup [t : {"integer"}, v : -(Uint64 \div 2) .. (Uint64 \div 2) - 1]
      \cup [t : {"whole"}, v : Int]
      \cup [t : {"string"}, v : Seq(Characters)]
      \cup [t : {"binary"}, v : Seq(0 .. 255)]

\* Those with at most n containers inside each other.
Printable[n \in Nat] ==
    IF n = 0 THEN PrintableScalars
    ELSE PrintableScalars
           \cup [t : {"array"}, v : Seq(Printable[n - 1])]
           \cup [t : {"object"}, v : Seq([key : Seq(Characters), value : Printable[n - 1]])]

-----------------------------------------------------------------------------
(* dump(). *)

Decimals[n \in Nat] ==
    IF n < 10 THEN <<Zero + n>> ELSE Decimals[n \div 10] \o <<Zero + (n % 10)>>

Decimal(n) == IF n < 0 THEN <<Minus>> \o Decimals[-n] ELSE Decimals[n]

\* Mutant: a backslash is copied as it is.
EscapeQuote(c) == IF c = Quote THEN <<Backslash, c>> ELSE <<c>>

Escape(c) ==
    CASE c \in {Quote, Backslash} -> <<Backslash, c>>
      [] c = 10 -> <<Backslash, 110>>
      [] c = 13 -> <<Backslash, 114>>
      [] c = 9  -> <<Backslash, 116>>
      [] OTHER  -> <<c>>

Quoted(bytes) ==
    <<Quote>> \o (FlattenSeq([i \in DOMAIN bytes |-> Escape(bytes[i])]) \o <<Quote>>)

\* The text that stands for the bytes of a binary value: their number.
BinaryText(bytes) == <<60, 98, 105, 110, 97, 114, 121, Colon>> \o (Decimal(Len(bytes)) \o <<62>>)

\* Texts between brackets, with white space around them.
Listed(open, texts, space) ==
    <<open>> \o
      (FlattenSeq([i \in DOMAIN texts |->
                     IF i = 1 THEN space \o texts[i] ELSE space \o (<<Comma>> \o (space \o texts[i]))])
         \o (space \o <<Close(open)>>))

\* The text of a value, where inner has that of the values inside: dump()
\* puts no white space around its parts.
TextBy(value, inner, space) ==  \* of an opaque float there is no text here
    CASE value.t = "boolean" -> IF value.v THEN TrueText ELSE FalseText
      [] value.t \in {"unsigned", "integer"} -> Decimal(value.v)
      [] value.t = "whole"   -> Decimal(value.v) \o <<Point, Zero, Zero, Zero, Zero, Zero, Zero>>
      [] value.t = "string"  -> Quoted(value.v)
      [] value.t = "binary"  -> Quoted(BinaryText(value.v))
      [] value.t = "array"   ->
            Listed(OpenArray, [i \in DOMAIN value.v |-> inner[value.v[i]]], space)
      [] value.t = "object"  ->
            Listed(OpenObject,
                   [i \in DOMAIN value.v |->
                      Quoted(value.v[i].key) \o (space \o (<<Colon>> \o (space \o inner[value.v[i].value])))],
                   space)
      [] OTHER -> NullText

Texts(space) ==
    LET texts[n \in Nat] ==
            [value \in Printable[n] |-> TextBy(value, IF n = 0 THEN <<>> ELSE texts[n - 1], space)]
    IN  texts

dump(value) == Texts(<<>>)[MaxNesting][value]

-----------------------------------------------------------------------------
(* parse(): each operator reads text from place p on. *)

At(text, p) == IF p <= Len(text) THEN text[p] ELSE 0

\* The first place from p on that has none of these characters.
Behind(text, p, chars) == Min({q \in p .. Len(text) + 1 : At(text, q) \notin chars})

skip_ws(text, p) == Behind(text, p, Space)

AfterDigits(text, p) == Behind(text, p, Digit)

\* The number of the n digits at p.
Number(text, p) ==
    LET number[n \in Nat] ==
            IF n = 0 THEN 0 ELSE 10 * number[n - 1] + (text[p + n - 1] - Zero)
    IN  number

\* Only whole numbers have a value here; other floats keep their text.
Float(text, p, to) ==
    LET start == IF text[p] = Minus THEN p + 1 ELSE p
        point == AfterDigits(text, start)
        n == Number(text, start)[point - start]
    IN  IF At(text, point) = Point /\ \A q \in point + 1 .. to - 1 : text[q] = Zero
        THEN Whole(IF text[p] = Minus THEN -n ELSE n)
        ELSE [t |-> "double", v |-> SubSeq(text, p, to - 1)]

\* The places behind the fraction and the exponent of a number.
AfterFraction(text, p) == IF At(text, p) = Point THEN AfterDigits(text, p + 1) ELSE p

AfterExponent(text, p) ==
    IF At(text, p) \notin {69, 101} THEN p
    ELSE AfterDigits(text, IF At(text, p + 1) \in {43, Minus} THEN p + 2 ELSE p + 1)

\* What std::stoll() and std::stoull() make of digits.
SignedOf(n, at) == IF n > Uint64 \div 2 THEN OutOfRange ELSE Parsed(Signed(-n), at)
UnsignedOf(n, at) == IF n >= Uint64 THEN OutOfRange ELSE Parsed(Unsigned(n), at)

parse_number(text, p) ==
    LET start == IF At(text, p) = Minus THEN p + 1 ELSE p
        whole == AfterDigits(text, start)
        end == AfterExponent(text, AfterFraction(text, whole))
        n == Number(text, start)[whole - start]
    IN  IF At(text, start) \notin Digit THEN Unparsed
        ELSE IF end # whole THEN Parsed(Float(text, p, end), end)
        ELSE IF start # p THEN SignedOf(n, whole) ELSE UnsignedOf(n, whole)

HexDigit(c) ==
    CASE c \in Digit -> c - Zero
      [] c \in 97 .. 102 -> c - 97 + 10
      [] c \in 65 .. 70 -> c - 65 + 10
      [] OTHER -> 16

Utf8(cp) ==
    IF cp < 128 THEN <<cp>>
    ELSE IF cp < 2048 THEN <<192 + (cp \div 64), 128 + (cp % 64)>>
    ELSE <<224 + (cp \div 4096), 128 + ((cp \div 64) % 64), 128 + (cp % 64)>>

\* The character of the four digits at p.
CodePointAt(text, p) ==
    LET digit == [i \in 1 .. 4 |-> HexDigit(At(text, p + i - 1))]
    IN  IF \E i \in 1 .. 4 : digit[i] = 16 THEN Unparsed
        ELSE Parsed(Utf8(4096 * digit[1] + 256 * digit[2] + 16 * digit[3] + digit[4]), p + 4)

\* What a character behind a backslash stands for.
Unescape(c) ==
    CASE c \in {Quote, Backslash, 47} -> <<c>>
      [] c = 110 -> <<10>>
      [] c = 114 -> <<13>>
      [] c = 116 -> <<9>>
      [] c = 98  -> <<8>>
      [] c = 102 -> <<12>>
      [] OTHER   -> <<>>

\* The bytes of the character at p, and where it ends.
CharacterAt(text, p) ==
    IF At(text, p) # Backslash THEN Parsed(<<At(text, p)>>, p + 1)
    ELSE IF At(text, p + 1) = 117 THEN CodePointAt(text, p + 2)
    ELSE IF Unescape(At(text, p + 1)) = <<>> THEN Unparsed
    ELSE Parsed(Unescape(At(text, p + 1)), p + 2)

\* A character and the rest of its string.
BeforeRest(bytes, rest) == IF rest.ok THEN Parsed(bytes \o rest.value, rest.at) ELSE rest
WithRest(c, rest) == IF c.ok THEN BeforeRest(c.value, rest[c.at]) ELSE c

\* The rest of a string at p, when there are no more than left characters.
Strings(text) ==
    LET strings[left \in Nat] ==
            [p \in Nat |->
               IF At(text, p) = Quote THEN Parsed(<<>>, p + 1)
               ELSE IF At(text, p) = 0 \/ left = 0 THEN Unparsed
               ELSE WithRest(CharacterAt(text, p), strings[left - 1])]
    IN  strings

parse_string_raw(text, p) ==
    IF At(text, p) = Quote THEN Strings(text)[Len(text)][p + 1] ELSE Unparsed

parse_literal(text, p, word, value) ==
    IF IsPrefix(word, SubSeq(text, p, Len(text))) THEN Parsed(value, p + Len(word)) ELSE Unparsed

\* A value of what r has read, if it has.
StringOf(r) == IF r.ok THEN Parsed(String(r.value), r.at) ELSE r
ListOf(open, r) ==
    IF ~r.ok THEN r
    ELSE Parsed(IF open = OpenArray THEN Array(r.value) ELSE Filled(r.value), r.at)

\* parse_value(); rest[open][p] is the rest at p of such a container.
parse_value(text, p, rest) ==
    LET start == skip_ws(text, p)
        c == At(text, start)
        inside == skip_ws(text, start + 1)
    IN  CASE c = Quote -> StringOf(parse_string_raw(text, start))
          [] c \in {OpenArray, OpenObject} ->
                ListOf(c, IF At(text, inside) = Close(c) THEN Parsed(<<>>, inside + 1) ELSE rest[c][inside])
          [] c = 116 -> parse_literal(text, start, TrueText, Boolean(TRUE))
          [] c = 102 -> parse_literal(text, start, FalseText, Boolean(FALSE))
          [] c = 110 -> parse_literal(text, start, NullText, Null)
          [] c \in {Minus} \cup Digit -> parse_number(text, start)
          [] OTHER -> Unparsed

\* A key, a colon and a value.
PairOfKey(key, r) == IF r.ok THEN Parsed(Pair(key, r.value), r.at) ELSE r
BehindKey(text, key, colon, rest) ==
    IF At(text, colon) = Colon THEN PairOfKey(key, parse_value(text, colon + 1, rest)) ELSE Unparsed
parse_pair(text, p, rest) ==
    LET key == parse_string_raw(text, skip_ws(text, p))
    IN  IF key.ok THEN BehindKey(text, key.value, skip_ws(text, key.at), rest) ELSE Unparsed

\* What a container has at p.
MemberAt(text, open, p, rest) ==
    IF open = OpenObject THEN parse_pair(text, p, rest) ELSE parse_value(text, p, rest)

\* A member, and more behind a comma.
BeforeMore(member, more) == IF more.ok THEN Parsed(<<member>> \o more.value, more.at) ELSE more

\* Mutant: the end of the text ends a container.
MoreToTheEnd(text, open, member, next, more) ==
    IF At(text, next) = Comma THEN BeforeMore(member, more[next + 1])
    ELSE Parsed(<<member>>, next + 1)

\* A member is followed at next by the end of its container, or by more of it.
More(text, open, member, next, more) ==
    IF At(text, next) = Close(open) THEN Parsed(<<member>>, next + 1)
    ELSE IF At(text, next) = Comma THEN BeforeMore(member, more[next + 1])
    ELSE Unparsed

Members(text, open, r, more) ==
    IF r.ok THEN More(text, open, r.value, skip_ws(text, r.at), more) ELSE r

\* The rest of a container, behind its bracket or a comma, when there are no
\* more than left members.
Rest(text) ==
    LET rest[left \in Nat] ==
            [open \in {OpenArray, OpenObject} |-> [p \in Nat |->
               IF left = 0 THEN Unparsed
               ELSE Members(text, open, MemberAt(text, open, p, rest[left - 1]), rest[left - 1][open])]]
    IN  rest

\* What stands behind the value is not looked at.  A number of too many bits
\* throws instead, whatever the caller asks for.
Thrown == [t |-> "thrown", v |-> 0]
Outcome(r) == IF r.ok THEN r.value ELSE IF r.thrown THEN Thrown ELSE Discarded

parse(text) ==
    LET string == CString(text)
    IN  Outcome(parse_value(string, 1, Rest(string)[Len(string)]))

-----------------------------------------------------------------------------
(* The texts that stand for a value, and what they can tell of it. *)

TextNormalBy(value, inner) ==
    CASE value.t = "integer" /\ value.v >= 0 -> Unsigned(value.v)
      [] value.t = "binary" -> String(BinaryText(value.v))
      [] value.t = "array" -> Array([i \in DOMAIN value.v |-> inner[value.v[i]]])
      [] value.t = "object" ->
            Filled([i \in DOMAIN value.v |-> Pair(value.v[i].key, inner[value.v[i].value])])
      [] OTHER -> value

TextNormals[n \in Nat] ==
    [value \in Printable[n] |-> TextNormalBy(value, IF n = 0 THEN <<>> ELSE TextNormals[n - 1])]

JsonNormal(value) == TextNormals[MaxNesting][value]

\* The text of a value with white space around everything.
Spaced(value, space) == space \o (Texts(space)[MaxNesting][value] \o space)

\* The characters \uXXXX has, but the zero.
Codes == 1 .. 65535

\* The string with one character, written as \uXXXX.
HexText(d) == IF d < 10 THEN Zero + d ELSE 97 + d - 10

Escaped(code) ==
    <<Quote, Backslash, 117, HexText(code \div 4096), HexText((code \div 256) % 16),
      HexText((code \div 16) % 16), HexText(code % 16), Quote>>

=============================================================================

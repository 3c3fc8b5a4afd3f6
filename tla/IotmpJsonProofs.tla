--------------------------- MODULE IotmpJsonProofs ---------------------------
(***************************************************************************)
(* Proofs about IotmpJson: the text of a value is parsed into the value,   *)
(* up to what text cannot tell, however the value is nested, whatever      *)
(* white space is between its parts, and so are characters as \uXXXX; and  *)
(* no part of the text of a value that has a size is parsed into another.  *)
(***************************************************************************)
EXTENDS IotmpWireProofs

-----------------------------------------------------------------------------
(* The recursions. *)

LEMMA DecimalsUnfold == \A n \in Nat : Decimals[n] = Grow(10, Decimals, n)
<1> DEFINE AsIs(f) == f = [n \in Nat |-> IF n < 10 THEN <<Zero + n>>
                                         ELSE f[n \div 10] \o <<Zero + (n % 10)>>]
<1>1. PICK f : f = [n \in Nat |-> Grow(10, f, n)]
  BY GrowExists, 10 \in {10, 128}
<1>2. AsIs(f)
  <2>1. \A n \in Nat : Grow(10, f, n) = IF n < 10 THEN <<Zero + n>> ELSE f[n \div 10] \o <<Zero + (n % 10)>>
    BY 10 # 128 DEF Grow
  <2> QED
    BY <1>1, <2>1, Zenon
<1>3. Decimals = CHOOSE g : AsIs(g)
  BY DEF Decimals
<1> HIDE DEF AsIs
<1>4. AsIs(Decimals)
  BY <1>2, <1>3
<1>5. Decimals = [n \in Nat |-> IF n < 10 THEN <<Zero + n>> ELSE Decimals[n \div 10] \o <<Zero + (n % 10)>>]
  BY <1>4 DEF AsIs
<1> TAKE n \in Nat
<1>6. Decimals[n] = IF n < 10 THEN <<Zero + n>> ELSE Decimals[n \div 10] \o <<Zero + (n % 10)>>
  BY <1>5
<1> QED
  BY <1>6, 10 # 128 DEF Grow

LEMMA PrintableUnfolds ==
    \A n \in Nat : Printable[n] = Unfolding([name |-> "Printable"], n, Prior(Printable, n))
<1> DEFINE of == [name |-> "Printable"]
           By(prior) ==
             PrintableScalars
               \cup [t : {"array"}, v : Seq(prior)]
               \cup [t : {"object"}, v : Seq([key : Seq(Characters), value : prior])]
           Is(f) == f = [n \in Nat |-> IF n = 0 THEN PrintableScalars ELSE By(f[n - 1])]
<1>0. \A f, n : Unfolding(of, n, Prior(f, n)) = IF n = 0 THEN PrintableScalars ELSE By(f[n - 1])
  BY DEF Unfolding, Prior
<1>1. PICK f : f = [n \in Nat |-> Unfolding(of, n, Prior(f, n))]
  BY RecursionExists
<1>2. Is(f)
  <2> HIDE DEF By, of
  <2> QED
    BY <1>0, <1>1, Zenon
<1>3. Printable = CHOOSE g : Is(g)
  BY DEF Printable
<1> HIDE DEF Is
<1>4. Is(Printable)
  BY <1>2, <1>3
<1>5. Printable = [n \in Nat |-> IF n = 0 THEN PrintableScalars ELSE By(Printable[n - 1])]
  BY <1>4 DEF Is
<1> HIDE DEF By
<1>6. \A n \in Nat : Printable[n] = IF n = 0 THEN PrintableScalars ELSE By(Printable[n - 1])
  BY <1>5
<1> QED
  BY <1>0, <1>6, Zenon

LEMMA TextsUnfold ==
    ASSUME NEW space
    PROVE  \A n \in Nat : Texts(space)[n] = [value \in Printable[n] |-> TextBy(value, Prior(Texts(space), n), space)]
<1> DEFINE Is(f) == f = [n \in Nat |-> [value \in Printable[n] |->
                           TextBy(value, IF n = 0 THEN <<>> ELSE f[n - 1], space)]]
           of == [name |-> "Texts", space |-> space]
<1>1. PICK f : f = [n \in Nat |-> Unfolding(of, n, Prior(f, n))]
  BY RecursionExists
<1>2. Is(f)
  <2>1. \A n \in Nat : Unfolding(of, n, Prior(f, n))
                         = [value \in Printable[n] |-> TextBy(value, IF n = 0 THEN <<>> ELSE f[n - 1], space)]
    BY DEF Unfolding, Prior
  <2> QED
    BY <1>1, <2>1, Zenon
<1>3. Texts(space) = CHOOSE g : Is(g)
  BY DEF Texts
<1> HIDE DEF Is
<1>4. Is(Texts(space))
  BY <1>2, <1>3
<1> QED
  BY <1>4 DEF Is, Prior

LEMMA TextNormalsUnfold ==
    \A n \in Nat : TextNormals[n] = [value \in Printable[n] |-> TextNormalBy(value, Prior(TextNormals, n))]
<1> DEFINE Is(f) == f = [n \in Nat |-> [value \in Printable[n] |->
                           TextNormalBy(value, IF n = 0 THEN <<>> ELSE f[n - 1])]]
           of == [name |-> "TextNormals"]
<1>1. PICK f : f = [n \in Nat |-> Unfolding(of, n, Prior(f, n))]
  BY RecursionExists
<1>2. Is(f)
  <2>1. \A n \in Nat : Unfolding(of, n, Prior(f, n))
                         = [value \in Printable[n] |-> TextNormalBy(value, IF n = 0 THEN <<>> ELSE f[n - 1])]
    BY DEF Unfolding, Prior
  <2> QED
    BY <1>1, <2>1, Zenon
<1>3. TextNormals = CHOOSE g : Is(g)
  BY DEF TextNormals
<1> HIDE DEF Is
<1>4. Is(TextNormals)
  BY <1>2, <1>3
<1> QED
  BY <1>4 DEF Is, Prior

LEMMA NumberUnfolds ==
    ASSUME NEW text, NEW p
    PROVE  \A n \in Nat : Number(text, p)[n]
             = IF n = 0 THEN 0 ELSE 10 * Number(text, p)[n - 1] + (text[p + n - 1] - Zero)
<1> DEFINE Is(f) == f = [n \in Nat |-> IF n = 0 THEN 0 ELSE 10 * f[n - 1] + (text[p + n - 1] - Zero)]
           of == [name |-> "Number", text |-> text, p |-> p]
<1>1. PICK f : f = [n \in Nat |-> Unfolding(of, n, Prior(f, n))]
  BY RecursionExists
<1>2. Is(f)
  <2>1. \A n \in Nat : Unfolding(of, n, Prior(f, n))
                         = IF n = 0 THEN 0 ELSE 10 * f[n - 1] + (text[p + n - 1] - Zero)
    BY DEF Unfolding, Prior
  <2> QED
    BY <1>1, <2>1, Zenon
<1>3. Number(text, p) = CHOOSE g : Is(g)
  BY DEF Number
<1> HIDE DEF Is
<1>4. Is(Number(text, p))
  BY <1>2, <1>3
<1> QED
  BY <1>4 DEF Is

LEMMA StringsUnfold ==
    ASSUME NEW text
    PROVE  \A left \in Nat, p \in Nat : Strings(text)[left][p]
             = IF At(text, p) = Quote THEN Parsed(<<>>, p + 1)
               ELSE IF At(text, p) = 0 \/ left = 0 THEN Unparsed
               ELSE WithRest(CharacterAt(text, p), Strings(text)[left - 1])
<1> DEFINE By(n, prior) ==
             [p \in Nat |->
               IF At(text, p) = Quote THEN Parsed(<<>>, p + 1)
               ELSE IF At(text, p) = 0 \/ n = 0 THEN Unparsed
               ELSE WithRest(CharacterAt(text, p), prior)]
           Each(f, n) ==
             [p \in Nat |->
               IF At(text, p) = Quote THEN Parsed(<<>>, p + 1)
               ELSE IF At(text, p) = 0 \/ n = 0 THEN Unparsed
               ELSE WithRest(CharacterAt(text, p), f[n - 1])]
           Is(f) == f = [n \in Nat |-> Each(f, n)]
           of == [name |-> "Strings", text |-> text]
<1>0. ASSUME NEW f, NEW n PROVE Unfolding(of, n, Prior(f, n)) = Each(f, n)
  <2>1. Unfolding(of, n, Prior(f, n)) = By(n, Prior(f, n))
    BY DEF Unfolding
  <2>2. CASE n = 0
    BY <2>1, <2>2
  <2>3. CASE n # 0
    BY <2>1, <2>3 DEF Prior
  <2> QED
    BY <2>2, <2>3
<1>1. PICK f : f = [n \in Nat |-> Unfolding(of, n, Prior(f, n))]
  BY RecursionExists
<1>2. Is(f)
  <2> HIDE DEF Each, of
  <2> QED
    BY <1>0, <1>1, Zenon
<1>3. Strings(text) = CHOOSE g : Is(g)
  BY DEF Strings
<1> HIDE DEF Is
<1>4. Is(Strings(text))
  BY <1>2, <1>3
<1>5. Strings(text) = [n \in Nat |-> Each(Strings(text), n)]
  BY <1>4 DEF Is
<1> HIDE DEF Each
<1>6. \A n \in Nat : Strings(text)[n] = Each(Strings(text), n)
  BY <1>5
<1> QED
  BY <1>6 DEF Each

LEMMA RestUnfolds ==
    ASSUME NEW text, NEW open \in {OpenArray, OpenObject}
    PROVE  \A left \in Nat, p \in Nat :
             /\ Rest(text)[0][open][p] = Unparsed
             /\ Rest(text)[left + 1][open][p]
                  = Members(text, open, MemberAt(text, open, p, Rest(text)[left]), Rest(text)[left][open])
<1> DEFINE Each(f, n) ==
             [o \in {OpenArray, OpenObject} |-> [p \in Nat |->
               IF n = 0 THEN Unparsed
               ELSE Members(text, o, MemberAt(text, o, p, f[n - 1]), f[n - 1][o])]]
           Is(f) == f = [n \in Nat |-> Each(f, n)]
           of == [name |-> "Rest", text |-> text]
<1>0. ASSUME NEW f, NEW n PROVE Unfolding(of, n, Prior(f, n)) = Each(f, n)
  <2>2. CASE n = 0
    BY <2>2 DEF Unfolding
  <2>3. CASE n # 0
    BY <2>3 DEF Prior, Unfolding
  <2> QED
    BY <2>2, <2>3
<1>1. PICK f : f = [n \in Nat |-> Unfolding(of, n, Prior(f, n))]
  BY RecursionExists
<1>2. Is(f)
  <2> HIDE DEF Each, of
  <2> QED
    BY <1>0, <1>1, Zenon
<1>3. Rest(text) = CHOOSE g : Is(g)
  BY DEF Rest
<1> HIDE DEF Is
<1>4. Is(Rest(text))
  BY <1>2, <1>3
<1>5. Rest(text) = [n \in Nat |-> Each(Rest(text), n)]
  BY <1>4 DEF Is
<1>6. \A n \in Nat : Rest(text)[n] = Each(Rest(text), n)
  <2> HIDE DEF Each
  <2> QED
    BY <1>5
<1> TAKE left \in Nat, p \in Nat
<1>7. left + 1 \in Nat /\ left + 1 # 0 /\ (left + 1) - 1 = left /\ 0 \in Nat
  OBVIOUS
<1>8. Each(Rest(text), 0)[open][p] = Unparsed
  OBVIOUS
<1>9. Each(Rest(text), left + 1)[open][p]
        = Members(text, open, MemberAt(text, open, p, Rest(text)[(left + 1) - 1]), Rest(text)[(left + 1) - 1][open])
  BY <1>7
<1> HIDE DEF Each
<1> QED
  BY <1>6, <1>7, <1>8, <1>9

-----------------------------------------------------------------------------
(* Places in a text. *)

\* What can stand behind a value.
Ending == {0, Comma, Close(OpenArray), Close(OpenObject)} \cup Space

\* What lies in b is found there.
LEMMA FoundThere ==
    ASSUME NEW b \in Seq(Byte), NEW p \in Nat \ {0}, NEW s \in Seq(Byte), Lies(b, p, s)
    PROVE  /\ \A j \in 1 .. Len(s) : At(b, p + j - 1) = s[j] /\ b[p + j - 1] = s[j]
           /\ p + Len(s) \in Nat \ {0} /\ p + Len(s) <= Len(b) + 1 /\ Len(s) \in Nat /\ Len(b) \in Nat
           /\ Len(s) # 0 => At(b, p) = s[1] /\ b[p] = s[1]
<1>1. Len(s) \in Nat /\ Len(b) \in Nat
  BY LenProperties
<1>2. p + Len(s) - 1 <= Len(b) /\ \A j \in 1 .. Len(s) : p + j - 1 <= Len(b) => b[p + j - 1] = s[j]
  BY DEF Lies, Begins
<1>3. ASSUME NEW j \in 1 .. Len(s) PROVE At(b, p + j - 1) = s[j] /\ b[p + j - 1] = s[j]
  <2>1. p + j - 1 <= Len(b)
    BY <1>1, <1>2
  <2> QED
    BY <1>2, <2>1 DEF At
<1>4. ASSUME Len(s) # 0 PROVE At(b, p) = s[1] /\ b[p] = s[1]
  <2>1. 1 \in 1 .. Len(s) /\ p + 1 - 1 = p
    BY <1>1, <1>4
  <2>2. At(b, p + 1 - 1) = s[1] /\ b[p + 1 - 1] = s[1]
    BY <1>3, <2>1, Zenon
  <2> QED
    BY <2>1, <2>2
<1> QED
  BY <1>1, <1>2, <1>3, <1>4

\* Behind() stops at the first character that is not one of chars.
LEMMA BehindIs ==
    ASSUME NEW b, Len(b) \in Nat, NEW p \in Nat, NEW q \in Nat, NEW chars,
           p <= q, q <= Len(b) + 1, \A i \in p .. q - 1 : At(b, i) \in chars, At(b, q) \notin chars
    PROVE  Behind(b, p, chars) = q
<1> DEFINE S == {i \in p .. Len(b) + 1 : At(b, i) \notin chars}
<1>1. q \in S /\ \A i \in S : q <= i
  OBVIOUS
<1>2. S \in SUBSET Int
  OBVIOUS
<1> HIDE DEF S
<1>3. Min(S) = q
  <2> DEFINE Least(x) == x \in S /\ \A y \in S : x <= y
  <2>1. Least(q)
    BY <1>1
  <2>2. \A x : Least(x) => x = q
    BY <1>1, <1>2
  <2>3. Min(S) = CHOOSE x : Least(x)
    BY Zenon DEF Min
  <2> HIDE DEF Least
  <2> QED
    BY <2>1, <2>2, <2>3
<1> QED
  BY <1>3 DEF Behind, S

\* At once, if there is none of them.
LEMMA BehindNone ==
    ASSUME NEW b, Len(b) \in Nat, NEW p \in Nat, p <= Len(b) + 1, NEW chars, At(b, p) \notin chars
    PROVE  Behind(b, p, chars) = p
<1>1. p <= p /\ \A i \in p .. p - 1 : At(b, i) \in chars
  OBVIOUS
<1> QED
  BY <1>1, BehindIs

\* Behind those that lie there, before one that is none of them.
LEMMA BehindThem ==
    ASSUME NEW b \in Seq(Byte), NEW p \in Nat \ {0}, NEW chars \in SUBSET Byte, NEW s \in Seq(chars),
           Lies(b, p, s), At(b, p + Len(s)) \notin chars
    PROVE  Behind(b, p, chars) = p + Len(s)
<1>1. s \in Seq(Byte) /\ Len(s) \in Nat /\ \A j \in 1 .. Len(s) : s[j] \in chars
  OBVIOUS
<1>2. /\ \A j \in 1 .. Len(s) : At(b, p + j - 1) = s[j]
      /\ p + Len(s) <= Len(b) + 1 /\ Len(b) \in Nat
  BY <1>1, FoundThere
<1>3. ASSUME NEW i \in p .. (p + Len(s)) - 1 PROVE At(b, i) \in chars
  <2>1. (i - p) + 1 \in 1 .. Len(s) /\ p + ((i - p) + 1) - 1 = i
    BY <1>1
  <2>2. At(b, p + ((i - p) + 1) - 1) \in chars
    BY <1>1, <1>2, <2>1, Zenon
  <2> QED
    BY <2>1, <2>2
<1> QED
  BY <1>1, <1>2, <1>3, BehindIs

LEMMA SpaceIsBytes == Space \in SUBSET Byte /\ Digit \in SUBSET Byte /\ Characters \in SUBSET Byte
BY DEF Space, Digit, Byte, Zero, Characters

-----------------------------------------------------------------------------
(* Numbers. *)

\* The digits of a number.
LEMMA DecimalsType ==
    \A n \in Nat : Decimals[n] \in Seq(Digit) /\ Len(Decimals[n]) \in Nat \ {0}
<1> DEFINE S == {n \in Nat : Decimals[n] \in Seq(Digit) /\ Len(Decimals[n]) \in Nat \ {0}}
<1>1. ASSUME NEW n \in Nat, \A k \in 0 .. n - 1 : k \in S
      PROVE  n \in S
  <2>1. CASE n < 10
    <3>1. Decimals[n] = <<Zero + n>>
      BY <2>1, DecimalsUnfold, 10 # 128 DEF Grow
    <3>2. Zero + n \in Digit
      BY <2>1 DEF Zero, Digit
    <3>3. <<Zero + n>> \in Seq(Digit) /\ Len(<<Zero + n>>) \in Nat \ {0}
      BY <3>2
    <3> QED
      BY <3>1, <3>3, Zenon
  <2>2. CASE n >= 10
    <3> DEFINE front == Decimals[n \div 10]
               digit == <<Zero + (n % 10)>>
    <3>1. n \div 10 \in 0 .. n - 1
      BY <2>2, DividedByTen
    <3>2. front \in Seq(Digit) /\ Len(front) \in Nat \ {0}
      BY <1>1, <3>1
    <3>3. Decimals[n] = front \o digit
      BY <2>2, DecimalsUnfold, ~ (n < 10), 10 # 128 DEF Grow
    <3>4. digit \in Seq(Digit) /\ Len(digit) = 1
      <4>1. Zero + (n % 10) \in Digit
        BY DividedByTen DEF Zero, Digit
      <4> QED
        BY <4>1
    <3> HIDE DEF front, digit
    <3>5. front \o digit \in Seq(Digit) /\ Len(front \o digit) = Len(front) + Len(digit)
      BY <3>2, <3>4, Joined
    <3>6. Len(front \o digit) \in Nat \ {0}
      BY <3>2, <3>4, <3>5
    <3> QED
      BY <3>3, <3>5, <3>6, Zenon
  <2> QED
    BY <2>1, <2>2
<1> HIDE DEF S
<1>2. \A n \in Nat : n \in S
  BY <1>1, CompleteInduction, S \in SUBSET Nat DEF S
<1> QED
  BY <1>2 DEF S

\* They are read as that number.
LEMMA DecimalsAreRead ==
    ASSUME NEW b, NEW p \in Nat
    PROVE  \A n \in Nat : (\A j \in 1 .. Len(Decimals[n]) : b[p + j - 1] = Decimals[n][j])
                            => Number(b, p)[Len(Decimals[n])] = n
<1> DEFINE There(n) == \A j \in 1 .. Len(Decimals[n]) : b[p + j - 1] = Decimals[n][j]
           S == {n \in Nat : There(n) => Number(b, p)[Len(Decimals[n])] = n}
<1>0. /\ Number(b, p)[0] = 0
      /\ \A k \in Nat : Number(b, p)[k + 1] = 10 * Number(b, p)[k] + (b[p + k] - Zero)
  <2>1. Number(b, p)[0] = 0
    BY NumberUnfolds, 0 \in Nat
  <2>2. ASSUME NEW k \in Nat
        PROVE  Number(b, p)[k + 1] = 10 * Number(b, p)[k] + (b[p + k] - Zero)
    <3>1. k + 1 \in Nat /\ k + 1 # 0 /\ (k + 1) - 1 = k /\ p + (k + 1) - 1 = p + k
      OBVIOUS
    <3>2. Number(b, p)[k + 1] = 10 * Number(b, p)[(k + 1) - 1] + (b[p + (k + 1) - 1] - Zero)
      BY <3>1, NumberUnfolds, Zenon
    <3> QED
      BY <3>1, <3>2, Zenon
  <2> QED
    BY <2>1, <2>2
<1>1. ASSUME NEW n \in Nat, \A k \in 0 .. n - 1 : k \in S
      PROVE  n \in S
  <2> SUFFICES ASSUME There(n) PROVE Number(b, p)[Len(Decimals[n])] = n
    OBVIOUS
  <2>1. CASE n < 10
    <3>1. Decimals[n] = <<Zero + n>>
      BY <2>1, DecimalsUnfold, 10 # 128 DEF Grow
    <3>2. Len(<<Zero + n>>) = 1 /\ <<Zero + n>>[1] = Zero + n /\ 1 \in 1 .. 1 /\ p + 1 - 1 = p
      OBVIOUS
    <3>3. b[p + 1 - 1] = Zero + n
      BY <3>1, <3>2, Zenon
    <3>4. b[p] = Zero + n
      BY <3>2, <3>3
    <3>5. Number(b, p)[0 + 1] = 10 * Number(b, p)[0] + (b[p + 0] - Zero)
      BY <1>0, 0 \in Nat, Zenon
    <3> HIDE DEF S, There
    <3>6. Number(b, p)[0 + 1] = 10 * 0 + ((Zero + n) - Zero)
      <4>1. p + 0 = p
        OBVIOUS
      <4> QED
        BY <1>0, <3>4, <3>5, <4>1, Zenon
    <3>7. 10 * 0 + ((Zero + n) - Zero) = n /\ 0 + 1 = 1
      BY DEF Zero
    <3>8. Number(b, p)[1] = n
      BY <3>6, <3>7, Zenon
    <3> QED
      BY <3>1, <3>2, <3>8, Zenon
  <2>2. CASE n >= 10
    <3> DEFINE front == Decimals[n \div 10]
               digit == <<Zero + (n % 10)>>
    <3>1. n \div 10 \in 0 .. n - 1 /\ n \div 10 \in Nat /\ n % 10 \in 0 .. 9 /\ n = (n % 10) + 10 * (n \div 10)
      BY <2>2, DividedByTen
    <3>2. front \in Seq(Digit) /\ Len(front) \in Nat
      BY <3>1, DecimalsType
    <3>3. Decimals[n] = front \o digit
      BY <2>2, DecimalsUnfold, ~ (n < 10), 10 # 128 DEF Grow
    <3>4. digit \in Seq(Digit) /\ Len(digit) = 1 /\ digit[1] = Zero + (n % 10)
      <4>1. Zero + (n % 10) \in Digit
        BY <3>1 DEF Zero, Digit
      <4> QED
        BY <4>1
    <3> HIDE DEF digit
    <3>5. /\ Len(front \o digit) = Len(front) + 1
          /\ \A j \in 1 .. Len(front) : (front \o digit)[j] = front[j]
          /\ (front \o digit)[Len(front) + 1] = digit[1]
      <4> HIDE DEF front
      <4>1. /\ Len(front \o digit) = Len(front) + Len(digit)
            /\ \A j \in 1 .. Len(front) : (front \o digit)[j] = front[j]
            /\ \A j \in 1 .. Len(digit) : (front \o digit)[Len(front) + j] = digit[j]
        BY <3>2, <3>4, Joined
      <4> QED
        BY <3>4, <4>1
    <3>6. There(n \div 10)
      <4>1. ASSUME NEW j \in 1 .. Len(front) PROVE b[p + j - 1] = front[j]
        <5>1. j \in 1 .. Len(Decimals[n])
          BY <3>2, <3>3, <3>5
        <5> HIDE DEF front
        <5> QED
          BY <3>3, <3>5, <5>1
      <4> QED
        BY <4>1
    <3>7. Number(b, p)[Len(front)] = n \div 10
      <4>1. n \div 10 \in S
        BY <1>1, <3>1
      <4> HIDE DEF There
      <4> QED
        BY <3>6, <4>1
    <3>8. b[p + Len(front)] = Zero + (n % 10)
      <4>1. Len(front) + 1 \in 1 .. Len(Decimals[n]) /\ p + (Len(front) + 1) - 1 = p + Len(front)
        BY <3>2, <3>3, <3>5
      <4>2. b[p + (Len(front) + 1) - 1] = Decimals[n][Len(front) + 1]
        BY <4>1
      <4> HIDE DEF front
      <4> QED
        BY <3>3, <3>4, <3>5, <4>1, <4>2
    <3> HIDE DEF front
    <3>9. Number(b, p)[Len(front) + 1] = 10 * (n \div 10) + (n % 10)
      <4>1. Number(b, p)[Len(front) + 1] = 10 * (n \div 10) + ((Zero + (n % 10)) - Zero)
        BY <1>0, <3>2, <3>7, <3>8
      <4> QED
        BY <3>1, <4>1 DEF Zero
    <3> QED
      BY <3>1, <3>3, <3>5, <3>9
  <2> QED
    BY <2>1, <2>2
<1> HIDE DEF S
<1>2. \A n \in Nat : n \in S
  BY <1>1, CompleteInduction, S \in SUBSET Nat DEF S
<1> QED
  BY <1>2 DEF S

\* The digits of a number end where no more follow, and are read as it.
LEMMA DigitsAreRead ==
    ASSUME NEW b \in Seq(Byte), NEW p \in Nat \ {0}, NEW n \in Nat,
           Lies(b, p, Decimals[n]), At(b, p + Len(Decimals[n])) \notin Digit
    PROVE  /\ At(b, p) \in Digit /\ p + Len(Decimals[n]) \in Nat \ {0} /\ Len(Decimals[n]) \in Nat \ {0}
           /\ AfterDigits(b, p) = p + Len(Decimals[n])
           /\ Number(b, p)[AfterDigits(b, p) - p] = n
<1> DEFINE s == Decimals[n]
<1>1. s \in Seq(Digit) /\ Len(s) \in Nat \ {0} /\ s \in Seq(Byte) /\ s[1] \in Digit
  <2>1. s \in Seq(Digit) /\ Len(s) \in Nat \ {0}
    BY DecimalsType
  <2> HIDE DEF s
  <2> QED
    BY <2>1, SpaceIsBytes
<1>2. /\ \A j \in 1 .. Len(s) : At(b, p + j - 1) = s[j] /\ b[p + j - 1] = s[j]
      /\ At(b, p) = s[1] /\ p + Len(s) \in Nat \ {0}
  <2> HIDE DEF s
  <2> QED
    BY <1>1, FoundThere DEF s
<1>3. AfterDigits(b, p) = p + Len(s)
  <2>1. Lies(b, p, s) /\ At(b, p + Len(s)) \notin Digit
    OBVIOUS
  <2> HIDE DEF s
  <2> QED
    BY <1>1, <2>1, BehindThem, SpaceIsBytes DEF AfterDigits
<1>4. Number(b, p)[Len(s)] = n
  BY <1>2, DecimalsAreRead, p \in Nat
<1> HIDE DEF s
<1>5. (p + Len(s)) - p = Len(s)
  BY <1>1
<1> QED
  BY <1>1, <1>2, <1>3, <1>4, <1>5 DEF s

LEMMA EndsNumbers ==
    \A c \in Ending : c \notin Digit /\ c # Point /\ c \notin {69, 101} /\ c # Minus
BY DEF Ending, Comma, Close, OpenArray, OpenObject, Space, Digit, Zero, Point, Minus

\* A number without a sign.
LEMMA NaturalIsParsed ==
    ASSUME NEW b \in Seq(Byte), NEW p \in Nat \ {0}, NEW n \in 0 .. Uint64 - 1,
           Lies(b, p, Decimals[n]), At(b, p + Len(Decimals[n])) \in Ending
    PROVE  parse_number(b, p) = Parsed(Unsigned(n), p + Len(Decimals[n]))
<1> DEFINE q == p + Len(Decimals[n])
<1>0. n \in Nat /\ n < Uint64
  BY ValuesAssumption
<1>1. At(b, q) \notin Digit /\ At(b, q) # Point /\ At(b, q) \notin {69, 101}
  BY EndsNumbers
<1>2. At(b, p) \in Digit /\ AfterDigits(b, p) = q /\ Number(b, p)[q - p] = n
  <2>1. /\ At(b, p) \in Digit /\ AfterDigits(b, p) = q
        /\ Number(b, p)[AfterDigits(b, p) - p] = n
    BY <1>0, <1>1, DigitsAreRead
  <2> HIDE DEF q
  <2> QED
    BY <2>1
<1> HIDE DEF q
<1>3. At(b, p) # Minus
  BY <1>2 DEF Digit, Zero, Minus
<1>4. AfterExponent(b, AfterFraction(b, q)) = q
  BY <1>1, Zenon DEF AfterExponent, AfterFraction
<1>5. UnsignedOf(n, q) = Parsed(Unsigned(n), q)
  BY <1>0, ValuesAssumption DEF UnsignedOf
<1>6. parse_number(b, p) = UnsignedOf(n, q)
  BY <1>2, <1>3, <1>4, Zenon DEF parse_number
<1> QED
  BY <1>5, <1>6 DEF q

\* A minus and the digits behind it.
LEMMA MinusAndDigits ==
    ASSUME NEW b \in Seq(Byte), NEW p \in Nat \ {0}, NEW n \in Nat,
           Lies(b, p, <<Minus>> \o Decimals[n])
    PROVE  /\ At(b, p) = Minus /\ b[p] = Minus /\ p + 1 \in Nat \ {0} /\ p + 1 # p
           /\ Lies(b, p + 1, Decimals[n])
           /\ (p + 1) + Len(Decimals[n]) = p + Len(<<Minus>> \o Decimals[n])
<1> DEFINE m == <<Minus>>
           s == Decimals[n]
<1>1. m \in Seq(Byte) /\ Len(m) = 1 /\ m[1] = Minus
  BY DEF Minus, Byte
<1>2. s \in Seq(Byte)
  BY DecimalsType, SpaceIsBytes
<1> HIDE DEF m, s
<1>3. Lies(b, p, m \o s)
  BY DEF m, s
<1>4. Lies(b, p, m) /\ Lies(b, p + Len(m), s) /\ (p + Len(m)) + Len(s) = p + Len(m \o s)
  <2>1. m \in Seq(Byte)
    BY <1>1
  <2> QED
    BY <1>2, <1>3, <2>1, PartsLie
<1>5. At(b, p) = m[1] /\ b[p] = m[1]
  BY <1>1, <1>4, FoundThere
<1> QED
  BY <1>1, <1>4, <1>5 DEF m, s

\* A negative number.
LEMMA NegativeIsParsed ==
    ASSUME NEW b \in Seq(Byte), NEW p \in Nat \ {0}, NEW n \in 0 .. Uint64 \div 2,
           Lies(b, p, <<Minus>> \o Decimals[n]), At(b, p + Len(<<Minus>> \o Decimals[n])) \in Ending
    PROVE  parse_number(b, p) = Parsed(Signed(-n), p + Len(<<Minus>> \o Decimals[n]))
<1> DEFINE q == p + Len(<<Minus>> \o Decimals[n])
           start == p + 1
<1>0. n \in Nat /\ ~ (n > Uint64 \div 2)
  BY ValuesAssumption
<1>1. At(b, q) \notin Digit /\ At(b, q) # Point /\ At(b, q) \notin {69, 101}
  BY EndsNumbers
<1>2. /\ At(b, p) = Minus /\ start \in Nat \ {0} /\ start # p
      /\ Lies(b, start, Decimals[n]) /\ start + Len(Decimals[n]) = q
  BY <1>0, MinusAndDigits
<1>3. At(b, start) \in Digit /\ AfterDigits(b, start) = q /\ Number(b, start)[q - start] = n
  <2> HIDE DEF start, q
  <2>1. /\ At(b, start) \in Digit /\ AfterDigits(b, start) = q
        /\ Number(b, start)[AfterDigits(b, start) - start] = n
    BY <1>0, <1>1, <1>2, DigitsAreRead
  <2> QED
    BY <2>1
<1>4. AfterExponent(b, AfterFraction(b, q)) = q
  <2> HIDE DEF q
  <2> QED
    BY <1>1, Zenon DEF AfterExponent, AfterFraction
<1>5. SignedOf(n, q) = Parsed(Signed(-n), q)
  BY <1>0 DEF SignedOf
<1>6. parse_number(b, p) = SignedOf(n, q)
  <2> HIDE DEF q
  <2> QED
    BY <1>2, <1>3, <1>4, Zenon DEF parse_number
<1> QED
  BY <1>5, <1>6

\* The zeros of a whole number that is a float.
Fraction == <<Point, Zero, Zero, Zero, Zero, Zero, Zero>>

LEMMA FractionIsRead ==
    ASSUME NEW b \in Seq(Byte), NEW w \in Nat \ {0}, Lies(b, w, Fraction), At(b, w + 7) \in Ending
    PROVE  /\ AfterExponent(b, AfterFraction(b, w)) = w + 7
           /\ At(b, w) = Point /\ \A i \in w + 1 .. (w + 7) - 1 : b[i] = Zero
<1>1. /\ Fraction \in Seq(Byte) /\ Len(Fraction) = 7 /\ Fraction[1] = Point
      /\ \A j \in 2 .. 7 : Fraction[j] = Zero
  BY DEF Fraction, Point, Zero, Byte
<1>2. /\ \A j \in 1 .. 7 : At(b, w + j - 1) = Fraction[j] /\ b[w + j - 1] = Fraction[j]
      /\ At(b, w) = Point /\ w + 7 <= Len(b) + 1 /\ Len(b) \in Nat
  <2>1. /\ \A j \in 1 .. Len(Fraction) : At(b, w + j - 1) = Fraction[j] /\ b[w + j - 1] = Fraction[j]
        /\ At(b, w) = Fraction[1] /\ w + Len(Fraction) <= Len(b) + 1 /\ Len(b) \in Nat
    <3>1. Fraction \in Seq(Byte) /\ Len(Fraction) # 0
      BY <1>1
    <3> QED
      BY <3>1, FoundThere, Zenon
  <2> QED
    BY <1>1, <2>1
<1>3. ASSUME NEW i \in w + 1 .. (w + 7) - 1 PROVE At(b, i) = Zero /\ b[i] = Zero
  <2>1. (i - w) + 1 \in 2 .. 7 /\ (i - w) + 1 \in 1 .. 7 /\ w + ((i - w) + 1) - 1 = i
    OBVIOUS
  <2>2. At(b, w + ((i - w) + 1) - 1) = Zero /\ b[w + ((i - w) + 1) - 1] = Zero
    BY <1>1, <1>2, <2>1, Zenon
  <2> QED
    BY <2>1, <2>2
<1>4. At(b, w + 7) \notin Digit /\ At(b, w + 7) \notin {69, 101}
  BY EndsNumbers
<1>5. AfterDigits(b, w + 1) = w + 7
  <2>1. w + 1 \in Nat /\ w + 7 \in Nat /\ w + 1 <= w + 7
    OBVIOUS
  <2>2. \A i \in w + 1 .. (w + 7) - 1 : At(b, i) \in Digit
    BY <1>3 DEF Digit, Zero
  <2> QED
    BY <1>2, <1>4, <2>1, <2>2, BehindIs DEF AfterDigits
<1>6. AfterFraction(b, w) = w + 7
  BY <1>2, <1>5 DEF AfterFraction
<1>7. AfterExponent(b, w + 7) = w + 7
  BY <1>4 DEF AfterExponent
<1> QED
  BY <1>2, <1>3, <1>6, <1>7

\* The text of a number that is a float and a whole one.
LEMMA WholeIsParsed ==
    ASSUME NEW b \in Seq(Byte), NEW p \in Nat \ {0}, NEW v \in Int,
           Lies(b, p, Decimal(v) \o Fraction), At(b, p + Len(Decimal(v) \o Fraction)) \in Ending
    PROVE  /\ parse_number(b, p) = Parsed(Whole(v), p + Len(Decimal(v) \o Fraction))
           /\ At(b, p) \in {Minus} \cup Digit
<1> DEFINE q == p + Len(Decimal(v) \o Fraction)
           n == IF v < 0 THEN -v ELSE v
           start == IF v < 0 THEN p + 1 ELSE p
           w == start + Len(Decimals[n])
<1>1. Fraction \in Seq(Byte) /\ Len(Fraction) = 7 /\ Fraction[1] = Point
  BY DEF Fraction, Point, Zero, Byte
<1>2. n \in Nat /\ Decimals[n] \in Seq(Byte) /\ Len(Decimals[n]) \in Nat
  <2>1. n \in Nat
    OBVIOUS
  <2> HIDE DEF n
  <2> QED
    BY <2>1, DecimalsType, SpaceIsBytes
<1>3. Decimal(v) \in Seq(Byte)
  <2>1. CASE v < 0
    <3>1. Decimal(v) = <<Minus>> \o Decimals[n] /\ <<Minus>> \in Seq(Byte)
      BY <2>1 DEF Decimal, Minus, Byte
    <3> HIDE DEF n
    <3> QED
      BY <1>2, <3>1, BytesJoin
  <2>2. CASE ~ (v < 0)
    BY <1>2, <2>2 DEF Decimal
  <2> QED
    BY <2>1, <2>2
<1>4. /\ Lies(b, p, Decimal(v)) /\ Lies(b, p + Len(Decimal(v)), Fraction)
      /\ (p + Len(Decimal(v))) + 7 = q
  <2>1. /\ Lies(b, p, Decimal(v)) /\ Lies(b, p + Len(Decimal(v)), Fraction)
        /\ (p + Len(Decimal(v))) + Len(Fraction) = q
    <3>1. Fraction \in Seq(Byte)
      BY <1>1
    <3>2. \A s \in Seq(Byte) :
            Lies(b, p, s \o Fraction)
              => /\ Lies(b, p, s) /\ Lies(b, p + Len(s), Fraction)
                 /\ (p + Len(s)) + Len(Fraction) = p + Len(s \o Fraction)
      BY <3>1, PartsLie
    <3> QED
      BY <1>3, <3>2, Zenon
  <2> HIDE DEF q
  <2> QED
    BY <1>1, <2>1
<1>5. /\ start \in Nat \ {0} /\ Lies(b, start, Decimals[n]) /\ w = p + Len(Decimal(v))
      /\ v < 0 => At(b, p) = Minus /\ b[p] = Minus /\ start # p
  <2>1. CASE v < 0
    <3>1. Decimal(v) = <<Minus>> \o Decimals[n] /\ start = p + 1
      BY <2>1 DEF Decimal
    <3> HIDE DEF n
    <3>3. Lies(b, p, <<Minus>> \o Decimals[n])
      BY <1>4, <3>1, Zenon
    <3>2. /\ At(b, p) = Minus /\ b[p] = Minus /\ p + 1 \in Nat \ {0} /\ p + 1 # p
          /\ Lies(b, p + 1, Decimals[n])
          /\ (p + 1) + Len(Decimals[n]) = p + Len(<<Minus>> \o Decimals[n])
      BY <1>2, <3>3, MinusAndDigits, Zenon
    <3> HIDE DEF start
    <3> QED
      BY <3>1, <3>2
  <2>2. CASE ~ (v < 0)
    BY <1>4, <2>2 DEF Decimal
  <2> QED
    BY <2>1, <2>2
<1>6. w \in Nat \ {0} /\ p <= w /\ Lies(b, w, Fraction) /\ w + 7 = q /\ At(b, q) \in Ending
  <2>1. w \in Nat \ {0} /\ p <= w
    <3>1. start \in Nat \ {0} /\ p <= start
      OBVIOUS
    <3> HIDE DEF n, start
    <3>2. Len(Decimals[n]) \in Nat
      BY <1>2
    <3> QED
      BY <3>1, <3>2
  <2>2. w + 7 = q
    <3> HIDE DEF w, q
    <3> QED
      BY <1>4, <1>5
  <2> HIDE DEF w, q
  <2> QED
    BY <1>4, <1>5, <2>1, <2>2, Zenon DEF q
<1> HIDE DEF w, q
<1>7. /\ AfterExponent(b, AfterFraction(b, w)) = q
      /\ At(b, w) = Point /\ \A i \in w + 1 .. q - 1 : b[i] = Zero
  BY <1>6, FractionIsRead
<1>8. /\ At(b, start) \in Digit /\ AfterDigits(b, start) = w
      /\ Number(b, start)[w - start] = n
  <2> HIDE DEF start, n
  <2>1. At(b, start + Len(Decimals[n])) \notin Digit
    BY <1>7 DEF w, Digit, Zero, Point
  <2>2. /\ At(b, start) \in Digit /\ AfterDigits(b, start) = start + Len(Decimals[n])
        /\ Number(b, start)[AfterDigits(b, start) - start] = n
    BY <1>2, <1>5, <2>1, DigitsAreRead
  <2> QED
    BY <2>2 DEF w
<1>9. w <= Len(b) /\ p <= Len(b) /\ start = (IF b[p] = Minus THEN p + 1 ELSE p)
      /\ start = (IF At(b, p) = Minus THEN p + 1 ELSE p)
      /\ (b[p] = Minus) = (v < 0)
  <2>1. At(b, p) = b[p] /\ p <= Len(b) /\ w <= Len(b)
    <3>1. Len(b) \in Nat /\ w <= Len(b) + 1 - 7
      <4>1. w + Len(Fraction) <= Len(b) + 1 /\ Len(b) \in Nat
        BY <1>1, <1>6, FoundThere
      <4> QED
        BY <1>1, <1>6, <4>1
    <3> QED
      BY <1>6, <3>1 DEF At
  <2>2. CASE v < 0
    BY <1>5, <2>1, <2>2
  <2>3. CASE ~ (v < 0)
    <3>1. start = p /\ b[p] # Minus
      BY <1>8, <2>1, <2>3 DEF Digit, Zero, Minus
    <3> QED
      BY <2>1, <2>3, <3>1
  <2> QED
    BY <2>2, <2>3
<1>10. q # w
  BY <1>6
<1>11. Float(b, p, q) = Whole(v)
  <2>1. Float(b, p, q) = Whole(IF b[p] = Minus THEN -n ELSE n)
    <3> HIDE DEF start, n
    <3> QED
      BY <1>7, <1>8, <1>9, Zenon DEF Float
  <2>2. (IF b[p] = Minus THEN -n ELSE n) = v
    BY <1>9
  <2> QED
    BY <2>1, <2>2
<1>12. parse_number(b, p) = Parsed(Float(b, p, q), q)
  <2> HIDE DEF start, n
  <2> QED
    BY <1>7, <1>8, <1>9, <1>10, Zenon DEF parse_number
<1>13. At(b, p) \in {Minus} \cup Digit
  <2> HIDE DEF n
  <2> QED
    BY <1>5, <1>8
<1> QED
  BY <1>11, <1>12, <1>13 DEF q

\* What lies behind one another has the elements of its parts.
LEMMA FlattenKeeps ==
    ASSUME NEW A \in SUBSET Byte, NEW s \in Seq(Seq(A))
    PROVE  FlattenSeq(s) \in Seq(A)
<1> DEFINE Is(t) == FlattenSeq(t) \in Seq(A)
           S == {n \in Nat : \A t \in Seq(Seq(A)) : Len(t) = n => Is(t)}
<1>1. 0 \in S
  <2>1. <<>> \in Seq(A)
    OBVIOUS
  <2>2. \A t \in Seq(Seq(A)) : Len(t) = 0 => t = <<>>
    OBVIOUS
  <2> QED
    BY <2>1, <2>2, FlattenEmpty
<1>2. ASSUME NEW n \in S PROVE n + 1 \in S
  <2> SUFFICES ASSUME NEW t \in Seq(Seq(A)), Len(t) = n + 1 PROVE Is(t)
    OBVIOUS
  <2> DEFINE u == [i \in 1 .. n |-> t[i]]
  <2>1. u \in Seq(Seq(A)) /\ Len(u) = n /\ \A i \in 1 .. n : t[i] = u[i]
    OBVIOUS
  <2>2. Is(u)
    BY <2>1
  <2>3. t[1] \in Seq(A) /\ t[n + 1] \in Seq(A)
    OBVIOUS
  <2> HIDE DEF u, S
  <2>4. FlattenSeq(t) = IF Len(u) = 0 THEN t[1] ELSE FlattenSeq(u) \o t[Len(t)]
    <3>1. Len(u) \in Nat /\ Len(t) = Len(u) + 1 /\ \A i \in 1 .. Len(u) : t[i] = u[i]
      BY <2>1 DEF S
    <3> QED
      BY <3>1, FlattenLast
  <2>5. FlattenSeq(u) \o t[n + 1] \in Seq(A)
    BY <2>2, <2>3, ConcatProperties
  <2> QED
    BY <2>3, <2>4, <2>5
<1> HIDE DEF S, Is
<1>3. Len(s) \in S
  BY <1>1, <1>2, Induction, S \in SUBSET Nat, Len(s) \in Nat DEF S
<1> QED
  BY <1>3 DEF S, Is

-----------------------------------------------------------------------------
(* Strings. *)

\* Characters are bytes, and so are texts.
LEMMA CharactersAreBytes ==
    /\ Characters \in SUBSET Byte
    /\ \A s \in Seq(Characters) : s \in Seq(Byte) /\ Len(s) \in Nat
    /\ \A s, t \in Seq(Characters) : s \o t \in Seq(Characters)
<1>1. Characters \in SUBSET Byte
  BY DEF Characters, Byte
<1>2. \A s \in Seq(Characters) : s \in Seq(Byte) /\ Len(s) \in Nat
  BY <1>1
<1>3. \A s, t \in Seq(Characters) : s \o t \in Seq(Characters)
  BY ConcatProperties
<1> QED
  BY <1>1, <1>2, <1>3

LEMMA OneCharacter ==
    \A c \in Characters : <<c>> \in Seq(Characters) /\ <<c>> \in Seq(Byte) /\ Len(<<c>>) = 1 /\ <<c>>[1] = c
BY DEF Characters, Byte

\* What stands for a character in a string.
LEMMA EscapeType ==
    ASSUME NEW c \in Characters
    PROVE  /\ Escape(c) \in Seq(Characters) /\ Len(Escape(c)) \in {1, 2}
           /\ \/ c \notin {Quote, Backslash, 10, 13, 9} /\ Escape(c) = <<c>>
              \/ \E d \in Characters :
                   Escape(c) = <<Backslash, d>> /\ Unescape(d) = <<c>> /\ d # 117
<1>1. CASE c \in {Quote, Backslash, 10, 13, 9}
  <2> DEFINE d == IF c \in {Quote, Backslash} THEN c
                  ELSE IF c = 10 THEN 110 ELSE IF c = 13 THEN 114 ELSE 116
  <2>1. d \in Characters /\ Backslash \in Characters /\ d # 117
    BY <1>1 DEF Quote, Backslash, Characters
  <2>2. Escape(c) = <<Backslash, d>>
    BY <1>1 DEF Escape, Quote, Backslash
  <2>3. Unescape(d) = <<c>>
    BY <1>1 DEF Unescape, Quote, Backslash
  <2> HIDE DEF d
  <2>4. <<Backslash, d>> \in Seq(Characters) /\ Len(<<Backslash, d>>) = 2
    BY <2>1
  <2> QED
    BY <2>1, <2>2, <2>3, <2>4
<1>2. CASE c \notin {Quote, Backslash, 10, 13, 9}
  <2>1. Escape(c) = <<c>>
    BY <1>2 DEF Escape
  <2> QED
    BY <1>2, <2>1, OneCharacter
<1> QED
  BY <1>1, <1>2

\* It is read as that character.
LEMMA EscapeIsRead ==
    ASSUME NEW b \in Seq(Byte), NEW p \in Nat \ {0}, NEW c \in Characters, Lies(b, p, Escape(c))
    PROVE  /\ At(b, p) # Quote /\ At(b, p) # 0
           /\ CharacterAt(b, p) = Parsed(<<c>>, p + Len(Escape(c)))
<1>1. Escape(c) \in Seq(Byte) /\ Len(Escape(c)) # 0
  <2>1. Escape(c) \in Seq(Characters) /\ Len(Escape(c)) \in {1, 2}
    BY EscapeType
  <2>2. \A n \in {1, 2} : n # 0
    OBVIOUS
  <2> QED
    BY <2>1, <2>2, CharactersAreBytes, Zenon
<1>2. \A j \in 1 .. Len(Escape(c)) : At(b, p + j - 1) = Escape(c)[j]
  BY <1>1, FoundThere
<1>3. CASE c \notin {Quote, Backslash, 10, 13, 9} /\ Escape(c) = <<c>>
  <2>1. At(b, p) = c
    <3>1. 1 \in 1 .. Len(<<c>>) /\ p + 1 - 1 = p /\ <<c>>[1] = c
      OBVIOUS
    <3>2. At(b, p + 1 - 1) = <<c>>[1]
      BY <1>2, <1>3, <3>1, Zenon
    <3> QED
      BY <3>1, <3>2
  <2>2. c # Quote /\ c # 0 /\ c # Backslash
    BY <1>3 DEF Characters
  <2>3. CharacterAt(b, p) = Parsed(<<c>>, p + 1)
    BY <2>1, <2>2, Zenon DEF CharacterAt
  <2> QED
    BY <1>3, <2>1, <2>2, <2>3, OneCharacter
<1>4. ASSUME NEW d \in Characters, Escape(c) = <<Backslash, d>>, Unescape(d) = <<c>>, d # 117
      PROVE  /\ At(b, p) # Quote /\ At(b, p) # 0
             /\ CharacterAt(b, p) = Parsed(<<c>>, p + Len(Escape(c)))
  <2>1. At(b, p) = Backslash /\ At(b, p + 1) = d /\ Len(Escape(c)) = 2
    <3>1. /\ Len(<<Backslash, d>>) = 2 /\ 1 \in 1 .. 2 /\ 2 \in 1 .. 2
          /\ p + 1 - 1 = p /\ p + 2 - 1 = p + 1
          /\ <<Backslash, d>>[1] = Backslash /\ <<Backslash, d>>[2] = d
      OBVIOUS
    <3>2. At(b, p + 1 - 1) = <<Backslash, d>>[1] /\ At(b, p + 2 - 1) = <<Backslash, d>>[2]
      BY <1>2, <1>4, <3>1, Zenon
    <3> QED
      BY <1>4, <3>1, <3>2
  <2>2. Backslash # Quote /\ Backslash # 0 /\ <<c>> # <<>>
    BY DEF Backslash, Quote
  <2>3. CharacterAt(b, p) = Parsed(<<c>>, p + 2)
    BY <1>4, <2>1, <2>2, Zenon DEF CharacterAt
  <2> QED
    BY <2>1, <2>2, <2>3
<1> QED
  BY <1>3, <1>4, EscapeType

\* The characters between the quotes of a string.
Inner(s) == FlattenSeq([i \in DOMAIN s |-> Escape(s[i])])

LEMMA InnerType ==
    ASSUME NEW s \in Seq(Characters)
    PROVE  /\ [i \in DOMAIN s |-> Escape(s[i])] \in Seq(Seq(Characters))
           /\ Inner(s) \in Seq(Characters) /\ Quoted(s) = <<Quote>> \o (Inner(s) \o <<Quote>>)
<1>1. \A i \in 1 .. Len(s) : Escape(s[i]) \in Seq(Characters)
  <2> TAKE i \in 1 .. Len(s)
  <2>1. s[i] \in Characters
    BY ElementOfSeq
  <2> QED
    BY <2>1, EscapeType
<1>2. DOMAIN s = 1 .. Len(s) /\ Len(s) \in Nat
  OBVIOUS
<1>3. [i \in DOMAIN s |-> Escape(s[i])] \in Seq(Seq(Characters))
  BY <1>1, <1>2
<1>4. FlattenSeq([i \in DOMAIN s |-> Escape(s[i])]) \in Seq(Characters)
  BY <1>3, FlattenKeeps, CharactersAreBytes
<1> QED
  BY <1>3, <1>4 DEF Inner, Quoted

LEMMA InnerUnfolds ==
    ASSUME NEW s \in Seq(Characters), NEW n \in Nat, Len(s) = n + 1
    PROVE  Inner(s) = Escape(s[1]) \o Inner(Tail(s))
<1> DEFINE es(t) == [i \in DOMAIN t |-> Escape(t[i])]
<1>1. /\ Tail(s) \in Seq(Characters) /\ Len(Tail(s)) = n /\ \A i \in 1 .. n : Tail(s)[i] = s[i + 1]
      /\ s[1] \in Characters
  BY FirstAndRest
<1>2. DOMAIN s = 1 .. n + 1 /\ DOMAIN Tail(s) = 1 .. n
  BY <1>1
<1>3. es(s) \in Seq(Seq(Characters)) /\ Len(es(s)) = n + 1 /\ es(s)[1] = Escape(s[1])
  <2>1. es(s) \in Seq(Seq(Characters))
    BY InnerType
  <2> QED
    BY <1>2, <2>1
<1>4. es(Tail(s)) \in Seq(Seq(Characters)) /\ Len(es(Tail(s))) = n
  <2>1. es(Tail(s)) \in Seq(Seq(Characters))
    BY <1>1, InnerType
  <2> QED
    BY <1>1, <1>2, <2>1
<1>5. Tail(es(s)) = es(Tail(s))
  <2>1. /\ Tail(es(s)) \in Seq(Seq(Characters)) /\ Len(Tail(es(s))) = n
        /\ \A i \in 1 .. n : Tail(es(s))[i] = es(s)[i + 1]
    <3> HIDE DEF es
    <3> QED
      BY <1>3, FirstAndRest
  <2>2. \A i \in 1 .. n : es(s)[i + 1] = es(Tail(s))[i]
    BY <1>1, <1>2
  <2> HIDE DEF es
  <2> QED
    BY <1>4, <2>1, <2>2, SeqEqual
<1>6. FlattenSeq(es(s)) = Head(es(s)) \o FlattenSeq(Tail(es(s))) /\ Head(es(s)) = es(s)[1]
  <2>1. es(s) \in Seq(Seq(Byte)) /\ es(s) # <<>>
    <3>1. Seq(Seq(Characters)) \subseteq Seq(Seq(Byte))
      BY CharactersAreBytes
    <3>2. Len(es(s)) # 0
      BY <1>3
    <3> HIDE DEF es
    <3> QED
      BY <1>3, <3>1, <3>2, SomeAreNot
  <2> HIDE DEF es
  <2> QED
    BY <2>1, FlattenFirst, HeadIsFirst
<1>7. Inner(s) = FlattenSeq(es(s)) /\ Inner(Tail(s)) = FlattenSeq(es(Tail(s)))
  BY DEF Inner
<1> HIDE DEF es
<1> QED
  BY <1>3, <1>5, <1>6, <1>7, Zenon

\* They are read as the characters of the string.
LEMMA StringsAreRead ==
    ASSUME NEW b \in Seq(Byte)
    PROVE  \A n \in Nat : \A s \in Seq(Characters), p \in Nat \ {0}, left \in Nat :
             Len(s) = n /\ Lies(b, p, Inner(s) \o <<Quote>>) /\ n <= left
             => Strings(b)[left][p] = Parsed(s, p + Len(Inner(s) \o <<Quote>>))
<1> DEFINE Whole_(s) == Inner(s) \o <<Quote>>
           Lie(s, n, p, left) == Len(s) = n /\ Lies(b, p, Whole_(s)) /\ n <= left
           Read_(s, p, left) == Strings(b)[left][p] = Parsed(s, p + Len(Whole_(s)))
           Is(n) == \A s \in Seq(Characters), p \in Nat \ {0}, left \in Nat : Lie(s, n, p, left) => Read_(s, p, left)
           S == {n \in Nat : Is(n)}
<1>0. <<Quote>> \in Seq(Byte) /\ Len(<<Quote>>) = 1 /\ <<Quote>>[1] = Quote
  BY DEF Quote, Byte
<1>1. Is(0)
  <2> SUFFICES ASSUME NEW s \in Seq(Characters), NEW p \in Nat \ {0}, NEW left \in Nat, Lie(s, 0, p, left)
               PROVE  Read_(s, p, left)
    BY Zenon
  <2>1. s = <<>>
    OBVIOUS
  <2>2. Inner(s) = <<>>
    <3>1. [i \in DOMAIN <<>> |-> Escape(<<>>[i])] = <<>>
      OBVIOUS
    <3> QED
      BY <2>1, <3>1, FlattenEmpty DEF Inner
  <2>3. Whole_(s) = <<Quote>>
    BY <1>0, <2>2
  <2>4. At(b, p) = Quote
    <3>1. Lies(b, p, <<Quote>>)
      BY <2>3, Zenon
    <3>2. \A s_ \in Seq(Byte) : Lies(b, p, s_) /\ Len(s_) # 0 => At(b, p) = s_[1]
      BY FoundThere
    <3>3. Len(<<Quote>>) # 0
      BY <1>0
    <3> QED
      BY <1>0, <3>1, <3>2, <3>3, Zenon
  <2>5. Strings(b)[left][p] = Parsed(<<>>, p + 1)
    BY <2>4, StringsUnfold, p \in Nat
  <2> QED
    BY <1>0, <2>1, <2>3, <2>5, Zenon
<1>2. ASSUME NEW n \in Nat, Is(n) PROVE Is(n + 1)
  <2> SUFFICES ASSUME NEW s \in Seq(Characters), NEW p \in Nat \ {0}, NEW left \in Nat, Lie(s, n + 1, p, left)
               PROVE  Read_(s, p, left)
    BY Zenon
  <2> DEFINE c == s[1]
             e == Escape(c)
             t == Tail(s)
             q == p + Len(e)
  <2>1. c \in Characters /\ t \in Seq(Characters) /\ Len(t) = n /\ <<c>> \o t = s
    <3>1. Len(s) = n + 1
      OBVIOUS
    <3> QED
      BY <3>1, FirstAndRest
  <2>2. e \in Seq(Byte) /\ Whole_(t) \in Seq(Byte) /\ Inner(t) \in Seq(Byte)
    <3>1. e \in Seq(Byte)
      BY <2>1, EscapeType, CharactersAreBytes
    <3>2. Inner(t) \in Seq(Byte)
      BY <2>1, InnerType, CharactersAreBytes
    <3> QED
      BY <1>0, <3>1, <3>2, BytesJoin
  <2>3. Whole_(s) = e \o Whole_(t)
    <3>1. Inner(s) = e \o Inner(t)
      <4>1. Len(s) = n + 1
        OBVIOUS
      <4> QED
        BY <4>1, InnerUnfolds
    <3> HIDE DEF e, t
    <3> QED
      BY <1>0, <2>2, <3>1, BytesAssociate
  <2> HIDE DEF Whole_, e
  <2>4. /\ Lies(b, p, e) /\ Lies(b, q, Whole_(t))
        /\ q \in Nat \ {0} /\ q + Len(Whole_(t)) = p + Len(Whole_(s))
    <3>1. Lies(b, p, e \o Whole_(t))
      BY <2>3, Zenon
    <3> HIDE DEF t
    <3> QED
      BY <2>2, <2>3, <3>1, PartsLie
  <2>5. left - 1 \in Nat /\ left # 0 /\ n <= left - 1 /\ p \in Nat /\ q \in Nat
    BY <2>4
  <2>6. At(b, p) # Quote /\ At(b, p) # 0 /\ CharacterAt(b, p) = Parsed(<<c>>, q)
    BY <2>1, <2>4, EscapeIsRead DEF e
  <2> HIDE DEF c, t
  <2>7. Strings(b)[left][p] = WithRest(Parsed(<<c>>, q), Strings(b)[left - 1])
    BY <2>5, <2>6, StringsUnfold, Zenon
  <2>8. Strings(b)[left - 1][q] = Parsed(t, q + Len(Whole_(t)))
    BY <1>2, <2>1, <2>4, <2>5
  <2>9. WithRest(Parsed(<<c>>, q), Strings(b)[left - 1]) = Parsed(<<c>> \o t, q + Len(Whole_(t)))
    <3> HIDE DEF q
    <3>1. /\ Parsed(<<c>>, q).ok /\ Parsed(<<c>>, q).value = <<c>> /\ Parsed(<<c>>, q).at = q
      BY DEF Parsed
    <3>2. WithRest(Parsed(<<c>>, q), Strings(b)[left - 1])
            = BeforeRest(<<c>>, Parsed(t, q + Len(Whole_(t))))
      BY <2>8, <3>1, Zenon DEF WithRest
    <3>3. BeforeRest(<<c>>, Parsed(t, q + Len(Whole_(t)))) = Parsed(<<c>> \o t, q + Len(Whole_(t)))
      BY DEF BeforeRest, Parsed
    <3> QED
      BY <3>2, <3>3, Zenon
  <2> QED
    BY <2>1, <2>4, <2>7, <2>9, Zenon
<1> HIDE DEF Is
<1>3. \A n \in Nat : n \in S
  <2>1. 0 \in S /\ \A n \in S : n + 1 \in S
    BY <1>1, <1>2
  <2>2. S \in SUBSET Nat
    OBVIOUS
  <2> HIDE DEF S
  <2> QED
    BY <2>1, <2>2, Induction
<1> QED
  BY <1>3, Zenon DEF Is

\* What a value can begin with.
Opening == {Quote, OpenArray, OpenObject, 116, 102, 110, Minus} \cup Digit

LEMMA OpeningIsNot ==
    /\ \A c \in Opening : c \in Byte /\ c \notin Space /\ c # Close(OpenArray) /\ c # Close(OpenObject) /\ c # 0
    /\ OpenArray \in Opening /\ OpenObject \in Opening /\ Quote \in Opening
BY DEF Opening, Quote, OpenArray, OpenObject, Minus, Digit, Zero, Space, Close, Byte

\* The text T lies at q, with something that ends it behind it; white space may
\* come before it.
Stands(b, T, p, q, left) ==
    skip_ws(b, p) = q /\ Lies(b, q, T) /\ At(b, q + Len(T)) \in Ending /\ Len(T) <= left

\* A text begins like a value.
Begun(T) == T \in Seq(Characters) /\ Len(T) # 0 /\ T[1] \in Opening

\* T is read as x, wherever it stands in b.
IsText(b, T, x) ==
    /\ Begun(T)
    /\ \A p, q \in Nat \ {0}, left \in Nat :
         Stands(b, T, p, q, left) => parse_value(b, p, Rest(b)[left]) = Parsed(x, q + Len(T))

\* The first character of what stands at q.
LEMMA FirstOfText ==
    ASSUME NEW b \in Seq(Byte), NEW T \in Seq(Characters), Len(T) # 0, NEW q \in Nat \ {0}, Lies(b, q, T)
    PROVE  At(b, q) = T[1]
<1>1. T \in Seq(Byte)
  BY CharactersAreBytes
<1> QED
  BY <1>1, FoundThere, Zenon

\* The words there are.
TrueAt(b, q) == parse_literal(b, q, TrueText, Boolean(TRUE))
FalseAt(b, q) == parse_literal(b, q, FalseText, Boolean(FALSE))
NullAt(b, q) == parse_literal(b, q, NullText, Null)

\* What a value begins with decides how it is read.
LEMMA ValueAt ==
    ASSUME NEW b, NEW p, NEW q, NEW rest, skip_ws(b, p) = q
    PROVE  /\ At(b, q) = Quote => parse_value(b, p, rest) = StringOf(parse_string_raw(b, q))
           /\ \A open \in {OpenArray, OpenObject} : At(b, q) = open =>
                parse_value(b, p, rest)
                  = ListOf(open, IF At(b, skip_ws(b, q + 1)) = Close(open) THEN Parsed(<<>>, skip_ws(b, q + 1) + 1)
                                 ELSE rest[open][skip_ws(b, q + 1)])
           /\ At(b, q) = 116 => parse_value(b, p, rest) = TrueAt(b, q)
           /\ At(b, q) = 102 => parse_value(b, p, rest) = FalseAt(b, q)
           /\ At(b, q) = 110 => parse_value(b, p, rest) = NullAt(b, q)
           /\ At(b, q) \in {Minus} \cup Digit => parse_value(b, p, rest) = parse_number(b, q)
           /\ At(b, q) = 0 => parse_value(b, p, rest) = Unparsed
<1> DEFINE c == At(b, q)
           inside == skip_ws(b, q + 1)
           S == StringOf(parse_string_raw(b, q))
           L == ListOf(c, IF At(b, inside) = Close(c) THEN Parsed(<<>>, inside + 1) ELSE rest[c][inside])
           W1 == TrueAt(b, q)
           W2 == FalseAt(b, q)
           W3 == NullAt(b, q)
           N == parse_number(b, q)
<1>1. parse_value(b, p, rest)
        = CASE c = Quote -> S
            [] c \in {OpenArray, OpenObject} -> L
            [] c = 116 -> W1
            [] c = 102 -> W2
            [] c = 110 -> W3
            [] c \in {Minus} \cup Digit -> N
            [] OTHER -> Unparsed
  BY Zenon DEF parse_value, TrueAt, FalseAt, NullAt
<1>2. L = ListOf(c, IF At(b, skip_ws(b, q + 1)) = Close(c) THEN Parsed(<<>>, skip_ws(b, q + 1) + 1)
                                 ELSE rest[c][skip_ws(b, q + 1)])
  OBVIOUS
<1> HIDE DEF S, L, W1, W2, W3, N, c
<1>3. /\ c = Quote => parse_value(b, p, rest) = S
      /\ c \in {OpenArray, OpenObject} => parse_value(b, p, rest) = L
      /\ c = 116 => parse_value(b, p, rest) = W1
      /\ c = 102 => parse_value(b, p, rest) = W2
      /\ c = 110 => parse_value(b, p, rest) = W3
      /\ c \in {Minus} \cup Digit => parse_value(b, p, rest) = N
      /\ c = 0 => parse_value(b, p, rest) = Unparsed
  BY <1>1 DEF Quote, OpenArray, OpenObject, Minus, Digit, Zero
<1> QED
  BY <1>2, <1>3, Zenon DEF c, S, W1, W2, W3, N
-----------------------------------------------------------------------------
(* Strings as values. *)

\* What is between the quotes is not shorter than the string.
LEMMA InnerIsLong ==
    \A n \in Nat : \A s \in Seq(Characters) : Len(s) = n => Len(Inner(s)) \in Nat /\ n <= Len(Inner(s))
<1> DEFINE Bounded(n) == \A s \in Seq(Characters) :
                           Len(s) = n => Len(Inner(s)) \in Nat /\ n <= Len(Inner(s))
           S == {n \in Nat : Bounded(n)}
<1>0. \A s \in Seq(Characters) : Inner(s) \in Seq(Byte) /\ Len(Inner(s)) \in Nat
  BY InnerType, CharactersAreBytes
<1>1. Bounded(0)
  <2> SUFFICES ASSUME NEW s \in Seq(Characters), Len(s) = 0 PROVE Len(Inner(s)) \in Nat /\ 0 <= Len(Inner(s))
    OBVIOUS
  <2>1. Len(Inner(s)) \in Nat
    BY <1>0
  <2> QED
    BY <2>1
<1>2. ASSUME NEW n \in Nat, Bounded(n) PROVE Bounded(n + 1)
  <2> SUFFICES ASSUME NEW s \in Seq(Characters), Len(s) = n + 1
               PROVE  Len(Inner(s)) \in Nat /\ n + 1 <= Len(Inner(s))
    OBVIOUS
  <2> DEFINE e == Escape(s[1])
             t == Inner(Tail(s))
  <2>1. s[1] \in Characters /\ Tail(s) \in Seq(Characters) /\ Len(Tail(s)) = n
    BY FirstAndRest
  <2>2. Inner(s) = e \o t
    BY InnerUnfolds
  <2>3. t \in Seq(Byte) /\ Len(t) \in Nat /\ n <= Len(t)
    BY <1>0, <1>2, <2>1
  <2>4. e \in Seq(Byte) /\ Len(e) \in {1, 2}
    BY <2>1, EscapeType, CharactersAreBytes
  <2> HIDE DEF e, t
  <2>5. Len(e \o t) = Len(e) + Len(t)
    BY <2>3, <2>4, Joined
  <2>6. Len(e) + Len(t) \in Nat /\ n + 1 <= Len(e) + Len(t)
    <3>1. \A x \in {1, 2}, y \in Nat : n <= y => x + y \in Nat /\ n + 1 <= x + y
      OBVIOUS
    <3> QED
      BY <2>3, <2>4, <3>1, Zenon
  <2> QED
    BY <2>2, <2>5, <2>6, Zenon
<1> HIDE DEF Bounded
<1>3. \A n \in Nat : n \in S
  <2>1. 0 \in S /\ \A n \in S : n + 1 \in S
    BY <1>1, <1>2
  <2>2. S \in SUBSET Nat
    OBVIOUS
  <2> HIDE DEF S
  <2> QED
    BY <2>1, <2>2, Induction
<1> QED
  BY <1>3, Zenon DEF Bounded

\* The parts of a quoted string.
LEMMA QuotedType ==
    ASSUME NEW s \in Seq(Characters)
    PROVE  /\ Begun(Quoted(s)) /\ Quoted(s)[1] = Quote
           /\ <<Quote>> \in Seq(Byte) /\ Len(<<Quote>>) = 1
           /\ Inner(s) \o <<Quote>> \in Seq(Byte) /\ Len(s) \in Nat
           /\ Len(Inner(s) \o <<Quote>>) \in Nat /\ Len(s) < Len(Inner(s) \o <<Quote>>)
           /\ Quoted(s) = <<Quote>> \o (Inner(s) \o <<Quote>>)
           /\ Len(Quoted(s)) = 1 + Len(Inner(s) \o <<Quote>>)
<1> DEFINE f == <<Quote>>
           i == Inner(s)
           t == i \o f
           T == Quoted(s)
<1>1. Quote \in Characters
  BY DEF Quote, Characters
<1>2. f \in Seq(Characters) /\ f \in Seq(Byte) /\ Len(f) = 1 /\ f[1] = Quote
  BY <1>1, OneCharacter
<1>3. i \in Seq(Characters) /\ i \in Seq(Byte)
  BY InnerType, CharactersAreBytes
<1>4. T = f \o t
  BY InnerType
<1>5. Len(s) \in Nat /\ Len(i) \in Nat /\ Len(s) <= Len(i)
  <2>1. Len(s) \in Nat
    BY CharactersAreBytes
  <2> QED
    BY <2>1, InnerIsLong
<1> HIDE DEF f, i, T
<1>6. t \in Seq(Characters) /\ t \in Seq(Byte)
  BY <1>2, <1>3, CharactersAreBytes
<1>7. Len(t) = Len(i) + 1
  <2>1. f \in Seq(Byte) /\ i \in Seq(Byte)
    BY <1>2, <1>3
  <2>2. Len(i \o f) = Len(i) + Len(f)
    BY <2>1, Joined
  <2> QED
    BY <1>2, <2>2
<1> HIDE DEF t
<1>8. f \o t \in Seq(Characters)
  BY <1>2, <1>6, CharactersAreBytes
<1>9. Len(f \o t) = 1 + Len(t) /\ (f \o t)[1] = Quote
  <2>1. f \in Seq(Byte) /\ t \in Seq(Byte)
    BY <1>2, <1>6
  <2>2. Len(f \o t) = Len(f) + Len(t) /\ \A j \in 1 .. Len(f) : (f \o t)[j] = f[j]
    BY <2>1, Joined
  <2>3. 1 \in 1 .. Len(f)
    BY <1>2
  <2> QED
    BY <1>2, <2>2, <2>3
<1>10. Len(t) \in Nat /\ Len(s) < Len(t) /\ 1 + Len(t) # 0
  BY <1>5, <1>7
<1>11. Begun(T)
  BY <1>4, <1>8, <1>9, <1>10, OpeningIsNot, Zenon DEF Begun
<1> QED
  BY <1>2, <1>4, <1>5, <1>6, <1>9, <1>10, <1>11, Zenon DEF f, i, t, T

\* The quotes and what is between them are read as the string.
LEMMA QuotedIsRead ==
    ASSUME NEW b \in Seq(Byte), NEW s \in Seq(Characters), NEW q \in Nat \ {0}, Lies(b, q, Quoted(s))
    PROVE  /\ At(b, q) = Quote
           /\ parse_string_raw(b, q) = Parsed(s, q + Len(Quoted(s)))
<1> DEFINE f == <<Quote>>
           t == Inner(s) \o <<Quote>>
<1>1. /\ f \in Seq(Byte) /\ Len(f) = 1
      /\ t \in Seq(Byte) /\ Len(t) \in Nat /\ Len(s) \in Nat /\ Len(s) < Len(t)
      /\ Lies(b, q, f \o t) /\ Len(Quoted(s)) = 1 + Len(t)
  BY QuotedType
<1> HIDE DEF f, t
<1>2. Lies(b, q + 1, t) /\ q + 1 \in Nat \ {0} /\ (q + 1) + Len(t) = q + Len(Quoted(s))
  <2>1. Lies(b, q + Len(f), t)
    <3>1. f \in Seq(Byte) /\ t \in Seq(Byte) /\ Lies(b, q, f \o t)
      BY <1>1
    <3> QED
      BY <3>1, PartsLie
  <2> QED
    BY <1>1, <2>1
<1>3. At(b, q) = Quote
  BY QuotedType, FirstOfText DEF Begun
<1>4. Len(b) \in Nat /\ Len(s) <= Len(b)
  <2>1. (q + 1) + Len(t) <= Len(b) + 1 /\ Len(b) \in Nat
    <3>1. t \in Seq(Byte)
      BY <1>1
    <3> QED
      BY <1>2, <3>1, FoundThere
  <2> QED
    BY <1>1, <2>1
<1>5. Strings(b)[Len(b)][q + 1] = Parsed(s, (q + 1) + Len(t))
  <2>1. \A n \in Nat, p \in Nat \ {0}, left \in Nat :
          Len(s) = n /\ Lies(b, p, t) /\ n <= left => Strings(b)[left][p] = Parsed(s, p + Len(t))
    BY StringsAreRead, Zenon DEF t
  <2> QED
    BY <1>1, <1>2, <1>4, <2>1, Zenon
<1>6. parse_string_raw(b, q) = Parsed(s, q + Len(Quoted(s)))
  BY <1>2, <1>3, <1>5, Zenon DEF parse_string_raw
<1> QED
  BY <1>3, <1>6

\* So is a value that is a string.
LEMMA QuotedIsText ==
    ASSUME NEW b \in Seq(Byte), NEW s \in Seq(Characters)
    PROVE  IsText(b, Quoted(s), String(s))
<1> DEFINE T == Quoted(s)
<1>1. ASSUME NEW p \in Nat \ {0}, NEW q \in Nat \ {0}, NEW left \in Nat, Stands(b, T, p, q, left)
      PROVE  parse_value(b, p, Rest(b)[left]) = Parsed(String(s), q + Len(T))
  <2>1. skip_ws(b, p) = q /\ Lies(b, q, T)
    BY <1>1, Zenon DEF Stands
  <2>2. At(b, q) = Quote /\ parse_string_raw(b, q) = Parsed(s, q + Len(T))
    BY <2>1, QuotedIsRead
  <2> HIDE DEF T
  <2>3. parse_value(b, p, Rest(b)[left]) = StringOf(parse_string_raw(b, q))
    BY <2>1, <2>2, ValueAt, Zenon
  <2>4. StringOf(Parsed(s, q + Len(T))) = Parsed(String(s), q + Len(T))
    BY DEF StringOf, Parsed
  <2> QED
    BY <2>2, <2>3, <2>4, Zenon
<1> QED
  BY <1>1, QuotedType, Zenon DEF IsText

-----------------------------------------------------------------------------
(* Literals and numbers as values. *)

\* A word that lies at q is read as the value it stands for.
LEMMA LiteralIsRead ==
    ASSUME NEW b \in Seq(Byte), NEW w \in Seq(Byte), NEW x, NEW q \in Nat \ {0}, Lies(b, q, w), Len(w) # 0
    PROVE  parse_literal(b, q, w, x) = Parsed(x, q + Len(w))
<1> DEFINE rest == SubSeq(b, q, Len(b))
<1>1. /\ \A j \in 1 .. Len(w) : b[q + j - 1] = w[j]
      /\ q + Len(w) <= Len(b) + 1 /\ Len(b) \in Nat /\ Len(w) \in Nat
  BY FoundThere
<1>2. \A i \in q .. Len(b) : b[i] \in Byte
  <2> TAKE i \in q .. Len(b)
  <2>1. i \in 1 .. Len(b)
    BY <1>1
  <2> QED
    BY <2>1, ElementOfSeq
<1>3. /\ rest \in Seq(Byte) /\ Len(rest) = Len(b) - q + 1
      /\ \A i \in 1 .. Len(b) - q + 1 : rest[i] = b[q + i - 1]
  BY <1>1, <1>2, SubSeqProperties
<1> HIDE DEF rest
<1>4. Len(w) <= Len(rest) /\ 1 + Len(w) - 1 <= Len(rest)
  BY <1>1, <1>3
<1>5. SubSeq(rest, 1, Len(w)) = w
  <2>1. \A j \in 1 .. Len(w) : rest[1 + j - 1] = w[j]
    BY <1>1, <1>3, <1>4
  <2>2. rest \in Seq(Byte) /\ 1 \in Nat \ {0} /\ Len(w) \in Int /\ Len(w) = 1 + Len(w) - 1
    BY <1>1, <1>3
  <2> QED
    BY <1>4, <2>1, <2>2, PartIs
<1>6. SubSeq(w, 1, Len(w)) = w
  <2>1. 1 \in Nat \ {0} /\ Len(w) \in Int /\ Len(w) = 1 + Len(w) - 1 /\ Len(w) <= Len(w)
    BY <1>1
  <2>2. \A j \in 1 .. Len(w) : w[1 + j - 1] = w[j]
    BY <1>1
  <2> QED
    BY <2>1, <2>2, PartIs
<1>7. IsPrefix(w, rest)
  BY <1>4, <1>5, <1>6, Zenon DEF IsPrefix
<1> QED
  BY <1>7, Zenon DEF parse_literal, rest

LEMMA LiteralIsText ==
    ASSUME NEW b \in Seq(Byte)
    PROVE  /\ IsText(b, TrueText, Boolean(TRUE)) /\ IsText(b, FalseText, Boolean(FALSE))
           /\ IsText(b, NullText, Null)
<1>1. /\ TrueText \in Seq(Characters) /\ Len(TrueText) # 0 /\ TrueText[1] = 116
      /\ FalseText \in Seq(Characters) /\ Len(FalseText) # 0 /\ FalseText[1] = 102
      /\ NullText \in Seq(Characters) /\ Len(NullText) # 0 /\ NullText[1] = 110
  BY DEF TrueText, FalseText, NullText, Characters
<1>2. {116, 102, 110} \subseteq Opening
  BY DEF Opening
<1>3. ASSUME NEW w \in Seq(Characters), Len(w) # 0, NEW c \in {116, 102, 110}, w[1] = c, NEW x,
             \A p, q, rest : skip_ws(b, p) = q /\ At(b, q) = c
                => parse_value(b, p, rest) = parse_literal(b, q, w, x)
      PROVE  IsText(b, w, x)
  <2>1. ASSUME NEW p \in Nat \ {0}, NEW q \in Nat \ {0}, NEW left \in Nat, Stands(b, w, p, q, left)
        PROVE  parse_value(b, p, Rest(b)[left]) = Parsed(x, q + Len(w))
    <3>1. skip_ws(b, p) = q /\ Lies(b, q, w)
      BY <2>1, Zenon DEF Stands
    <3>2. At(b, q) = c
      BY <1>3, <3>1, FirstOfText
    <3>3. parse_value(b, p, Rest(b)[left]) = parse_literal(b, q, w, x)
      BY <1>3, <3>1, <3>2
    <3>4. parse_literal(b, q, w, x) = Parsed(x, q + Len(w))
      BY <1>3, <3>1, LiteralIsRead, CharactersAreBytes
    <3> QED
      BY <3>3, <3>4, Zenon
  <2> QED
    BY <1>2, <1>3, <2>1, Zenon DEF IsText, Begun
<1>4. IsText(b, TrueText, Boolean(TRUE))
  <2>1. \A p, q, rest : skip_ws(b, p) = q /\ At(b, q) = 116 => parse_value(b, p, rest) = TrueAt(b, q)
    BY ValueAt
  <2> DEFINE x == Boolean(TRUE)
  <2>2. \A q : TrueAt(b, q) = parse_literal(b, q, TrueText, x)
    BY Zenon DEF TrueAt
  <2> HIDE DEF x
  <2>3. IsText(b, TrueText, x)
    BY <1>1, <1>3, <2>1, <2>2
  <2> QED
    BY <2>3, Zenon DEF x
<1>5. IsText(b, FalseText, Boolean(FALSE))
  <2>1. \A p, q, rest : skip_ws(b, p) = q /\ At(b, q) = 102 => parse_value(b, p, rest) = FalseAt(b, q)
    BY ValueAt
  <2> DEFINE x == Boolean(FALSE)
  <2>2. \A q : FalseAt(b, q) = parse_literal(b, q, FalseText, x)
    BY Zenon DEF FalseAt
  <2> HIDE DEF x
  <2>3. IsText(b, FalseText, x)
    BY <1>1, <1>3, <2>1, <2>2
  <2> QED
    BY <2>3, Zenon DEF x
<1>6. IsText(b, NullText, Null)
  <2>1. \A p, q, rest : skip_ws(b, p) = q /\ At(b, q) = 110 => parse_value(b, p, rest) = NullAt(b, q)
    BY ValueAt
  <2>2. \A q : NullAt(b, q) = parse_literal(b, q, NullText, Null)
    BY Zenon DEF NullAt
  <2> QED
    BY <1>1, <1>3, <2>1, <2>2
<1> QED
  BY <1>4, <1>5, <1>6

\* The texts of numbers begin like numbers.
LEMMA NumbersBegin ==
    /\ \A n \in Nat : Begun(Decimals[n]) /\ Decimals[n][1] \in {Minus} \cup Digit
    /\ \A n \in Nat : Begun(<<Minus>> \o Decimals[n]) /\ (<<Minus>> \o Decimals[n])[1] \in {Minus} \cup Digit
    /\ \A v \in Int : Begun(Decimal(v)) /\ Decimal(v)[1] \in {Minus} \cup Digit
    /\ \A v \in Int : Begun(Decimal(v) \o Fraction) /\ (Decimal(v) \o Fraction)[1] \in {Minus} \cup Digit
<1> DEFINE Is(T) == T \in Seq(Characters) /\ Len(T) # 0 /\ T[1] \in {Minus} \cup Digit
<1>0. /\ Digit \subseteq Characters /\ Minus \in Characters
      /\ Fraction \in Seq(Characters) /\ Fraction \in Seq(Byte)
      /\ {Minus} \cup Digit \subseteq Opening
  BY DEF Digit, Zero, Characters, Minus, Fraction, Point, Opening, Byte
<1>1. ASSUME NEW n \in Nat PROVE Is(Decimals[n])
  <2>1. Decimals[n] \in Seq(Digit) /\ Len(Decimals[n]) \in Nat \ {0}
    BY DecimalsType
  <2> DEFINE s == Decimals[n]
  <2> HIDE DEF s
  <2>2. s \in Seq(Digit) /\ Len(s) \in Nat \ {0}
    BY <2>1 DEF s
  <2>3. s \in Seq(Characters) /\ Len(s) # 0 /\ s[1] \in Digit
    BY <1>0, <2>2
  <2> QED
    BY <2>3 DEF s
<1>2. ASSUME NEW s \in Seq(Characters), NEW t \in Seq(Characters), Is(s) PROVE Is(s \o t)
  <2>1. s \in Seq(Byte) /\ t \in Seq(Byte) /\ Len(s) \in Nat /\ Len(t) \in Nat
    BY CharactersAreBytes
  <2>2. s \o t \in Seq(Characters)
    BY CharactersAreBytes
  <2>3. Len(s \o t) = Len(s) + Len(t) /\ \A j \in 1 .. Len(s) : (s \o t)[j] = s[j]
    BY <2>1, Joined
  <2>4. 1 \in 1 .. Len(s) /\ Len(s) + Len(t) # 0
    BY <1>2, <2>1
  <2>5. (s \o t)[1] = s[1]
    BY <2>3, <2>4
  <2> QED
    BY <1>2, <2>2, <2>3, <2>4, <2>5, Zenon
<1>3. ASSUME NEW n \in Nat PROVE Is(<<Minus>> \o Decimals[n])
  <2>1. Is(<<Minus>>)
    BY <1>0
  <2>2. Decimals[n] \in Seq(Characters)
    BY <1>1
  <2> QED
    BY <1>2, <2>1, <2>2
<1>4. ASSUME NEW v \in Int PROVE Is(Decimal(v))
  <2>1. CASE v < 0
    BY <1>3, <2>1, -v \in Nat DEF Decimal
  <2>2. CASE ~ (v < 0)
    BY <1>1, <2>2, v \in Nat DEF Decimal
  <2> QED
    BY <2>1, <2>2
<1>5. ASSUME NEW v \in Int PROVE Is(Decimal(v) \o Fraction)
  BY <1>0, <1>2, <1>4
<1>6. \A T : Is(T) => Begun(T)
  BY <1>0 DEF Begun
<1> HIDE DEF Is
<1>7. \A T : Is(T) => T[1] \in {Minus} \cup Digit
  BY DEF Is
<1> QED
  BY <1>1, <1>3, <1>4, <1>5, <1>6, <1>7, Zenon

\* A text is that of a number when it is parsed as one.
LEMMA NumberIsText ==
    ASSUME NEW b \in Seq(Byte), NEW T, Begun(T), T[1] \in {Minus} \cup Digit, NEW x,
           \A q \in Nat \ {0} : Lies(b, q, T) /\ At(b, q + Len(T)) \in Ending
                => parse_number(b, q) = Parsed(x, q + Len(T))
    PROVE  IsText(b, T, x)
<1>1. ASSUME NEW p \in Nat \ {0}, NEW q \in Nat \ {0}, NEW left \in Nat, Stands(b, T, p, q, left)
      PROVE  parse_value(b, p, Rest(b)[left]) = Parsed(x, q + Len(T))
  <2>1. skip_ws(b, p) = q /\ Lies(b, q, T) /\ At(b, q + Len(T)) \in Ending
    BY <1>1, Zenon DEF Stands
  <2>2. At(b, q) \in {Minus} \cup Digit
    BY <2>1, FirstOfText DEF Begun
  <2>3. parse_value(b, p, Rest(b)[left]) = parse_number(b, q)
    BY <2>1, <2>2, ValueAt
  <2> QED
    BY <2>1, <2>3
<1> QED
  BY <1>1 DEF IsText

LEMMA NumbersAreTexts ==
    ASSUME NEW b \in Seq(Byte)
    PROVE  /\ \A n \in 0 .. Uint64 - 1 : IsText(b, Decimals[n], Unsigned(n))
           /\ \A n \in 0 .. Uint64 \div 2 : IsText(b, <<Minus>> \o Decimals[n], Signed(-n))
           /\ \A v \in Int : IsText(b, Decimal(v) \o Fraction, Whole(v))
<1>1. ASSUME NEW n \in 0 .. Uint64 - 1 PROVE IsText(b, Decimals[n], Unsigned(n))
  <2>1. n \in Nat
    BY ValuesAssumption
  <2> DEFINE T == Decimals[n]
             x == Unsigned(n)
  <2>2. \A q \in Nat \ {0} : Lies(b, q, T) /\ At(b, q + Len(T)) \in Ending
                => parse_number(b, q) = Parsed(x, q + Len(T))
    BY NaturalIsParsed
  <2>3. Begun(T) /\ T[1] \in {Minus} \cup Digit
    BY <2>1, NumbersBegin, Zenon
  <2> HIDE DEF T, x
  <2>4. IsText(b, T, x)
    BY <2>2, <2>3, NumberIsText
  <2> QED
    BY <2>4 DEF T, x
<1>2. ASSUME NEW n \in 0 .. Uint64 \div 2 PROVE IsText(b, <<Minus>> \o Decimals[n], Signed(-n))
  <2>1. n \in Nat
    BY ValuesAssumption
  <2> DEFINE T == <<Minus>> \o Decimals[n]
             x == Signed(-n)
  <2>2. \A q \in Nat \ {0} : Lies(b, q, T) /\ At(b, q + Len(T)) \in Ending
                => parse_number(b, q) = Parsed(x, q + Len(T))
    BY NegativeIsParsed
  <2>3. Begun(T) /\ T[1] \in {Minus} \cup Digit
    BY <2>1, NumbersBegin, Zenon
  <2> HIDE DEF T, x
  <2>4. IsText(b, T, x)
    BY <2>2, <2>3, NumberIsText
  <2> QED
    BY <2>4 DEF T, x
<1>3. ASSUME NEW v \in Int PROVE IsText(b, Decimal(v) \o Fraction, Whole(v))
  <2> DEFINE T == Decimal(v) \o Fraction
             x == Whole(v)
  <2>2. \A q \in Nat \ {0} : Lies(b, q, T) /\ At(b, q + Len(T)) \in Ending
                => parse_number(b, q) = Parsed(x, q + Len(T))
    BY WholeIsParsed
  <2>3. Begun(T) /\ T[1] \in {Minus} \cup Digit
    BY NumbersBegin, Zenon
  <2> HIDE DEF T, x
  <2>4. IsText(b, T, x)
    BY <2>2, <2>3, NumberIsText
  <2> QED
    BY <2>4 DEF T, x
<1> QED
  BY <1>1, <1>2, <1>3

-----------------------------------------------------------------------------
(* Values that hold no others. *)

\* The texts of the values in V are read as them.
AreTexts(b, V, texts, normals) == \A u \in V : IsText(b, texts[u], normals[u])

LEMMA BinaryTextType == \A v \in Seq(Byte) : BinaryText(v) \in Seq(Characters)
<1> TAKE v \in Seq(Byte)
<1> DEFINE s == <<60, 98, 105, 110, 97, 114, 121, Colon>>
           d == Decimal(Len(v))
           e == <<62>>
<1>1. s \in Seq(Characters) /\ e \in Seq(Characters)
  BY DEF Characters, Colon
<1>2. d \in Seq(Characters)
  <2>1. Len(v) \in Int
    OBVIOUS
  <2> QED
    BY <2>1, NumbersBegin DEF Begun
<1>3. BinaryText(v) = s \o (d \o e)
  BY DEF BinaryText
<1> HIDE DEF s, d, e
<1> QED
  BY <1>1, <1>2, <1>3, CharactersAreBytes

LEMMA ScalarIsText ==
    ASSUME NEW b \in Seq(Byte), NEW inner, NEW normals, NEW space, NEW x \in PrintableScalars
    PROVE  IsText(b, TextBy(x, inner, space), TextNormalBy(x, normals))
<1> DEFINE T == TextBy(x, inner, space)
           N == TextNormalBy(x, normals)
<1>1. CASE x = Null
  <2>1. T = NullText /\ N = Null
    BY <1>1 DEF TextBy, TextNormalBy, Null
  <2> QED
    BY <2>1, LiteralIsText, Zenon
<1>2. CASE x \in [t : {"boolean"}, v : BOOLEAN]
  <2>1. x.t = "boolean" /\ x.v \in BOOLEAN /\ x = [t |-> x.t, v |-> x.v]
    BY <1>2
  <2>2. T = IF x.v THEN TrueText ELSE FalseText
    BY <2>1 DEF TextBy
  <2>3. N = x
    BY <2>1 DEF TextNormalBy
  <2>4. CASE x.v = TRUE
    <3>1. T = TrueText
      BY <2>2, <2>4, Zenon
    <3>2. N = Boolean(TRUE)
      BY <2>1, <2>3, <2>4, Zenon DEF Boolean
    <3> QED
      BY <3>1, <3>2, LiteralIsText, Zenon
  <2>5. CASE x.v = FALSE
    <3>1. T = FalseText
      BY <2>2, <2>5, Zenon
    <3>2. N = Boolean(FALSE)
      BY <2>1, <2>3, <2>5, Zenon DEF Boolean
    <3> QED
      BY <3>1, <3>2, LiteralIsText, Zenon
  <2> QED
    BY <2>1, <2>4, <2>5, Zenon
<1>3. CASE x \in [t : {"unsigned"}, v : 0 .. Uint64 - 1]
  <2>1. x.t = "unsigned" /\ x.v \in 0 .. Uint64 - 1 /\ x = [t |-> x.t, v |-> x.v]
    BY <1>3
  <2>2. ~ (x.v < 0)
    BY <2>1, ValuesAssumption
  <2>3. T = Decimals[x.v]
    BY <2>1, <2>2 DEF TextBy, Decimal
  <2>4. N = Unsigned(x.v)
    BY <2>1 DEF TextNormalBy, Unsigned
  <2> HIDE DEF T, N
  <2>5. IsText(b, Decimals[x.v], Unsigned(x.v))
    BY <2>1, NumbersAreTexts, Zenon
  <2> QED
    BY <2>3, <2>4, <2>5, Zenon DEF T, N
<1>4. CASE x \in [t : {"integer"}, v : -(Uint64 \div 2) .. (Uint64 \div 2) - 1]
  <2>1. x.t = "integer" /\ x.v \in -(Uint64 \div 2) .. (Uint64 \div 2) - 1 /\ x = [t |-> x.t, v |-> x.v]
    BY <1>4
  <2>2. CASE x.v < 0
    <3> DEFINE n == -x.v
    <3>1. n \in 0 .. Uint64 \div 2 /\ -n = x.v
      BY <2>1, <2>2, ValuesAssumption
    <3>2. T = <<Minus>> \o Decimals[n]
      BY <2>1, <2>2 DEF TextBy, Decimal
    <3>3. N = Signed(-n)
      <4>1. ~ (x.v >= 0)
        BY <2>1, <2>2, ValuesAssumption
      <4>2. N = x
        BY <2>1, <4>1 DEF TextNormalBy
      <4> HIDE DEF n
      <4> QED
        BY <2>1, <3>1, <4>2 DEF Signed
    <3> HIDE DEF n, T, N
    <3>4. IsText(b, <<Minus>> \o Decimals[n], Signed(-n))
      BY <3>1, NumbersAreTexts
    <3> QED
      BY <3>2, <3>3, <3>4, Zenon DEF T, N
  <2>3. CASE ~ (x.v < 0)
    <3>1. x.v \in 0 .. Uint64 - 1 /\ x.v >= 0
      BY <2>1, <2>3, ValuesAssumption
    <3>2. T = Decimals[x.v]
      BY <2>1, <2>3 DEF TextBy, Decimal
    <3>3. N = Unsigned(x.v)
      BY <2>1, <3>1 DEF TextNormalBy
    <3> HIDE DEF T, N
    <3>4. IsText(b, Decimals[x.v], Unsigned(x.v))
      BY <3>1, NumbersAreTexts, Zenon
    <3> QED
      BY <3>2, <3>3, <3>4, Zenon DEF T, N
  <2> QED
    BY <2>2, <2>3
<1>5. CASE x \in [t : {"whole"}, v : Int]
  <2>1. x.t = "whole" /\ x.v \in Int /\ x = [t |-> x.t, v |-> x.v]
    BY <1>5
  <2>2. T = Decimal(x.v) \o Fraction
    BY <2>1 DEF TextBy, Fraction
  <2>3. N = Whole(x.v)
    BY <2>1 DEF TextNormalBy, Whole
  <2> HIDE DEF T, N
  <2>4. IsText(b, Decimal(x.v) \o Fraction, Whole(x.v))
    BY <2>1, NumbersAreTexts, Zenon
  <2> QED
    BY <2>2, <2>3, <2>4, Zenon DEF T, N
<1>6. CASE x \in [t : {"string"}, v : Seq(Characters)]
  <2>1. x.t = "string" /\ x.v \in Seq(Characters) /\ x = [t |-> x.t, v |-> x.v]
    BY <1>6
  <2>2. T = Quoted(x.v)
    BY <2>1 DEF TextBy
  <2>3. N = String(x.v)
    BY <2>1 DEF TextNormalBy, String
  <2> HIDE DEF T, N
  <2>4. IsText(b, Quoted(x.v), String(x.v))
    BY <2>1, QuotedIsText
  <2> QED
    BY <2>2, <2>3, <2>4, Zenon DEF T, N
<1>7. CASE x \in [t : {"binary"}, v : Seq(0 .. 255)]
  <2>1. x.t = "binary" /\ x.v \in Seq(Byte)
    BY <1>7 DEF Byte
  <2> DEFINE s == BinaryText(x.v)
  <2>2. s \in Seq(Characters)
    BY <2>1, BinaryTextType
  <2>3. T = Quoted(s)
    BY <2>1 DEF TextBy
  <2>4. N = String(s)
    BY <2>1 DEF TextNormalBy
  <2> HIDE DEF T, N, s
  <2>5. IsText(b, Quoted(s), String(s))
    BY <2>2, QuotedIsText
  <2> QED
    BY <2>3, <2>4, <2>5, Zenon DEF T, N
<1> QED
  BY <1>1, <1>2, <1>3, <1>4, <1>5, <1>6, <1>7 DEF PrintableScalars

-----------------------------------------------------------------------------
(* Containers. *)

\* White space and what is behind it.
LEMMA SpaceBefore ==
    ASSUME NEW b \in Seq(Byte), NEW p \in Nat \ {0}, NEW space \in Seq(Space), NEW t \in Seq(Byte),
           Len(t) # 0, t[1] \notin Space, Lies(b, p, space \o t)
    PROVE  /\ skip_ws(b, p) = p + Len(space) /\ At(b, p + Len(space)) = t[1]
           /\ At(b, p) \in Space \cup {t[1]}
           /\ Lies(b, p + Len(space), t) /\ p + Len(space) \in Nat \ {0}
           /\ (p + Len(space)) + Len(t) = p + Len(space \o t)
<1>1. space \in Seq(Byte) /\ Len(space) \in Nat
  BY SpaceIsBytes
<1>2. /\ Lies(b, p, space) /\ Lies(b, p + Len(space), t) /\ p + Len(space) \in Nat \ {0}
      /\ (p + Len(space)) + Len(t) = p + Len(space \o t)
  BY <1>1, PartsLie
<1>3. At(b, p + Len(space)) = t[1]
  <2> DEFINE q == p + Len(space)
  <2>1. q \in Nat \ {0} /\ Lies(b, q, t)
    BY <1>2
  <2> HIDE DEF q
  <2>2. At(b, q) = t[1]
    BY <2>1, FoundThere
  <2> QED
    BY <2>2 DEF q
<1>4. skip_ws(b, p) = p + Len(space)
  BY <1>2, <1>3, BehindThem, SpaceIsBytes DEF skip_ws
<1>5. At(b, p) \in Space \cup {t[1]}
  <2>1. CASE Len(space) = 0
    <3>1. p + Len(space) = p
      BY <2>1
    <3> QED
      BY <1>3, <3>1, Zenon
  <2>2. CASE Len(space) # 0
    <3>1. At(b, p) = space[1]
      BY <1>1, <1>2, <2>2, FoundThere
    <3>2. space[1] \in Space
      <4>1. 1 \in 1 .. Len(space)
        BY <1>1, <2>2
      <4> QED
        BY <4>1, ElementOfSeq
    <3> QED
      BY <3>1, <3>2, Zenon
  <2> QED
    BY <2>1, <2>2
<1> QED
  BY <1>2, <1>3, <1>4, <1>5

\* What ends a container, and what stands before a member that is not the first.
Last_(open, space) == space \o <<Close(open)>>
Separated(m, space) == space \o (<<Comma>> \o (space \o m))

\* The members of a container, up to its end.
Chain(ms, open, space) ==
    ms[1] \o (FlattenSeq([i \in 1 .. Len(ms) - 1 |-> Separated(ms[i + 1], space)]) \o Last_(open, space))

LEMMA PartsOfContainers ==
    ASSUME NEW open \in {OpenArray, OpenObject}, NEW space \in Seq(Space)
    PROVE  /\ space \in Seq(Characters) /\ space \in Seq(Byte)
           /\ <<open>> \in Seq(Characters) /\ <<Close(open)>> \in Seq(Characters) /\ <<Comma>> \in Seq(Characters)
           /\ Last_(open, space) \in Seq(Characters)
           /\ \A m \in Seq(Characters) : Separated(m, space) \in Seq(Characters)
<1>1. Space \subseteq Characters
  BY DEF Space, Characters
<1>2. space \in Seq(Characters) /\ space \in Seq(Byte)
  BY <1>1, SpaceIsBytes
<1>3. /\ <<open>> \in Seq(Characters) /\ <<Close(open)>> \in Seq(Characters) /\ <<Comma>> \in Seq(Characters)
  <2>1. open \in Characters /\ Close(open) \in Characters /\ Comma \in Characters
    BY DEF OpenArray, OpenObject, Close, Comma, Characters
  <2> QED
    BY <2>1, OneCharacter
<1>4. Last_(open, space) \in Seq(Characters)
  BY <1>2, <1>3, CharactersAreBytes, Zenon DEF Last_
<1>5. \A m \in Seq(Characters) : Separated(m, space) \in Seq(Characters)
  BY <1>2, <1>3, CharactersAreBytes, Zenon DEF Separated
<1> QED
  BY <1>2, <1>3, <1>4, <1>5

\* The members behind the first.
Others(ms, space) == [i \in 1 .. Len(ms) - 1 |-> Separated(ms[i + 1], space)]

LEMMA OthersType ==
    ASSUME NEW space \in Seq(Space), NEW ms \in Seq(Seq(Characters)), NEW n \in Nat, Len(ms) = n + 1
    PROVE  /\ Others(ms, space) \in Seq(Seq(Characters)) /\ Len(Others(ms, space)) = n
           /\ \A i \in 1 .. n : Others(ms, space)[i] = Separated(ms[i + 1], space)
           /\ FlattenSeq(Others(ms, space)) \in Seq(Characters)
<1>1. \A i \in 1 .. n : ms[i + 1] \in Seq(Characters)
  <2> TAKE i \in 1 .. n
  <2>1. i + 1 \in 1 .. Len(ms)
    OBVIOUS
  <2> QED
    BY <2>1, ElementOfSeq
<1>2. \A i \in 1 .. n : Separated(ms[i + 1], space) \in Seq(Characters)
  BY <1>1, PartsOfContainers
<1>3. Len(ms) - 1 = n
  OBVIOUS
<1>4. /\ Others(ms, space) \in Seq(Seq(Characters)) /\ Len(Others(ms, space)) = n
      /\ \A i \in 1 .. n : Others(ms, space)[i] = Separated(ms[i + 1], space)
  BY <1>2, <1>3 DEF Others
<1> QED
  BY <1>4, FlattenKeeps, CharactersAreBytes

LEMMA ChainType ==
    ASSUME NEW open \in {OpenArray, OpenObject}, NEW space \in Seq(Space),
           NEW ms \in Seq(Seq(Characters)), NEW n \in Nat, Len(ms) = n + 1
    PROVE  Chain(ms, open, space) \in Seq(Characters) /\ ms[1] \in Seq(Characters)
<1>1. ms[1] \in Seq(Characters)
  BY FirstAndRest
<1>2. FlattenSeq(Others(ms, space)) \in Seq(Characters)
  BY OthersType
<1>3. Chain(ms, open, space) = ms[1] \o (FlattenSeq(Others(ms, space)) \o Last_(open, space))
  BY DEF Chain, Others
<1> QED
  BY <1>1, <1>2, <1>3, PartsOfContainers, CharactersAreBytes

\* One member is followed by the end.
LEMMA ChainOfOne ==
    ASSUME NEW open \in {OpenArray, OpenObject}, NEW space \in Seq(Space),
           NEW ms \in Seq(Seq(Characters)), Len(ms) = 1
    PROVE  Chain(ms, open, space) = ms[1] \o (space \o <<Close(open)>>)
<1>1. [i \in 1 .. Len(ms) - 1 |-> Separated(ms[i + 1], space)] = <<>>
  OBVIOUS
<1>2. <<>> \o Last_(open, space) = Last_(open, space)
  <2>1. Last_(open, space) \in Seq(Characters)
    BY PartsOfContainers
  <2> QED
    BY <2>1
<1> QED
  BY <1>1, <1>2, FlattenEmpty DEF Chain, Last_

Join(s, t) == s \o t

LEMMA JoinIs == \A x, y : Join(x, y) = x \o y
BY DEF Join

LEMMA JoinType == \A x, y \in Seq(Byte) : Join(x, y) \in Seq(Byte)
BY BytesJoin, JoinIs, Zenon

LEMMA JoinAssociates ==
    ASSUME NEW x \in Seq(Byte), NEW y \in Seq(Byte), NEW z \in Seq(Byte)
    PROVE  Join(Join(x, y), z) = Join(x, Join(y, z))
<1>1. (x \o y) \o z = x \o (y \o z)
  BY BytesAssociate
<1> QED
  BY <1>1, Zenon DEF Join

LEMMA Regrouped ==
    ASSUME NEW s \in Seq(Byte), NEW c \in Seq(Byte), NEW r \in Seq(Byte),
           NEW m \in Seq(Byte), NEW e \in Seq(Byte)
    PROVE  /\ Join(Join(Join(s, Join(c, Join(s, r))), m), e) = Join(s, Join(c, Join(s, Join(r, Join(m, e)))))
           /\ Join(Join(Join(s, r), m), e) = Join(s, Join(r, Join(m, e)))
<1>1. \A x, y, z \in Seq(Byte) : Join(x, y) \in Seq(Byte) /\ Join(Join(x, y), z) = Join(x, Join(y, z))
  BY JoinType, JoinAssociates
<1>2. Join(s, r) \in Seq(Byte) /\ Join(m, e) \in Seq(Byte)
  BY <1>1
<1>3. Join(c, Join(s, r)) \in Seq(Byte)
  BY <1>1, <1>2
<1>4. Join(s, Join(c, Join(s, r))) \in Seq(Byte)
  BY <1>1, <1>3
<1>5. Join(Join(Join(s, Join(c, Join(s, r))), m), e) = Join(Join(s, Join(c, Join(s, r))), Join(m, e))
  BY <1>1, <1>4
<1>6. Join(Join(s, Join(c, Join(s, r))), Join(m, e)) = Join(s, Join(Join(c, Join(s, r)), Join(m, e)))
  BY <1>1, <1>2, <1>3
<1>7. Join(Join(c, Join(s, r)), Join(m, e)) = Join(c, Join(Join(s, r), Join(m, e)))
  BY <1>1, <1>2
<1>8. Join(Join(s, r), Join(m, e)) = Join(s, Join(r, Join(m, e))) /\ Join(Join(Join(s, r), m), e) = Join(Join(s, r), Join(m, e))
  BY <1>1, <1>2
<1> QED
  BY <1>5, <1>6, <1>7, <1>8

\* Of more members, the first is followed by the others.
LEMMA ChainOfMore ==
    ASSUME NEW open \in {OpenArray, OpenObject}, NEW space \in Seq(Space),
           NEW ms \in Seq(Seq(Characters)), NEW n \in Nat, Len(ms) = n + 2
    PROVE  Chain(ms, open, space) = ms[1] \o (space \o (<<Comma>> \o (space \o Chain(Tail(ms), open, space))))
<1> DEFINE rest == Tail(ms)
           os == Others(ms, space)
           more == FlattenSeq(Others(rest, space))
           end == Last_(open, space)
           c == <<Comma>>
<1>1. /\ rest \in Seq(Seq(Characters)) /\ Len(rest) = n + 1
      /\ \A i \in 1 .. n + 1 : rest[i] = ms[i + 1]
      /\ ms[1] \in Seq(Characters)
  <2>1. n + 1 \in Nat /\ Len(ms) = (n + 1) + 1
    OBVIOUS
  <2> QED
    BY <2>1, FirstAndRest
<1>2. /\ os \in Seq(Seq(Characters)) /\ Len(os) = n + 1
      /\ \A i \in 1 .. n + 1 : os[i] = Separated(ms[i + 1], space)
  <2>1. n + 1 \in Nat /\ Len(ms) = (n + 1) + 1
    OBVIOUS
  <2> QED
    BY <2>1, OthersType
<1>3. /\ Others(rest, space) \in Seq(Seq(Characters)) /\ Len(Others(rest, space)) = n
      /\ \A i \in 1 .. n : Others(rest, space)[i] = Separated(rest[i + 1], space)
      /\ more \in Seq(Characters)
  BY <1>1, OthersType
<1>4. /\ os[1] = Separated(rest[1], space)
      /\ rest[1] \in Seq(Characters)
  <2>1. 1 \in 1 .. n + 1
    OBVIOUS
  <2> QED
    BY <1>1, <1>2, <2>1, ElementOfSeq
<1>5. Tail(os) = Others(rest, space)
  <2>1. /\ Tail(os) \in Seq(Seq(Characters)) /\ Len(Tail(os)) = n /\ \A i \in 1 .. n : Tail(os)[i] = os[i + 1]
    <3> HIDE DEF os
    <3> QED
      BY <1>2, FirstAndRest
  <2>2. ASSUME NEW i \in 1 .. n PROVE Tail(os)[i] = Others(rest, space)[i]
    <3>1. i + 1 \in 1 .. n + 1
      OBVIOUS
    <3>2. os[i + 1] = Separated(ms[(i + 1) + 1], space) /\ rest[i + 1] = ms[(i + 1) + 1]
      BY <1>1, <1>2, <3>1
    <3> HIDE DEF os, rest
    <3> QED
      BY <1>3, <2>1, <3>2
  <2> HIDE DEF os, rest
  <2> QED
    BY <1>3, <2>1, <2>2, SeqEqual
<1>6. FlattenSeq(os) = Separated(rest[1], space) \o more
  <2>1. os \in Seq(Seq(Byte)) /\ os # <<>>
    <3>1. Seq(Seq(Characters)) \subseteq Seq(Seq(Byte))
      BY CharactersAreBytes
    <3>2. Len(os) # 0
      BY <1>2
    <3> HIDE DEF os
    <3> QED
      BY <1>2, <3>1, <3>2, SomeAreNot
  <2> HIDE DEF os
  <2>2. FlattenSeq(os) = Head(os) \o FlattenSeq(Tail(os)) /\ Head(os) = os[1]
    BY <2>1, FlattenFirst, HeadIsFirst
  <2> QED
    BY <1>4, <1>5, <2>2
<1>7. Chain(ms, open, space) = ms[1] \o (FlattenSeq(os) \o end)
  BY DEF Chain, Others
<1>8. Chain(rest, open, space) = rest[1] \o (more \o end)
  BY DEF Chain, Others
<1>9. /\ space \in Seq(Byte) /\ c \in Seq(Byte) /\ end \in Seq(Byte) /\ more \in Seq(Byte) /\ rest[1] \in Seq(Byte)
  BY <1>3, <1>4, PartsOfContainers, CharactersAreBytes
<1> HIDE DEF os, more, end, rest, c
<1>10. ((space \o (c \o (space \o rest[1]))) \o more) \o end
         = space \o (c \o (space \o (rest[1] \o (more \o end))))
  <2> DEFINE x == rest[1]
  <2>1. Join(Join(Join(space, Join(c, Join(space, x))), more), end)
          = Join(space, Join(c, Join(space, Join(x, Join(more, end)))))
    <3>1. x \in Seq(Byte)
      BY <1>9
    <3> HIDE DEF x
    <3> QED
      BY <1>9, <3>1, Regrouped
  <2> QED
    BY <2>1, Zenon DEF Join, x
<1>11. FlattenSeq(os) \o end = space \o (c \o (space \o Chain(rest, open, space)))
  BY <1>6, <1>8, <1>10, Zenon DEF Separated, c
<1> QED
  BY <1>7, <1>11, Zenon DEF rest, c

\* The text of a container.
LEMMA ListedIs ==
    ASSUME NEW open \in {OpenArray, OpenObject}, NEW space \in Seq(Space),
           NEW ms \in Seq(Seq(Characters)), NEW n \in Nat
    PROVE  /\ Len(ms) = 0 => Listed(open, ms, space) = <<open>> \o (space \o <<Close(open)>>)
           /\ Len(ms) = n + 1 => Listed(open, ms, space) = <<open>> \o (space \o Chain(ms, open, space))
<1> DEFINE es == [i \in DOMAIN ms |->
                    IF i = 1 THEN space \o ms[i] ELSE space \o (<<Comma>> \o (space \o ms[i]))]
           end == Last_(open, space)
<1>0. Listed(open, ms, space) = <<open>> \o (FlattenSeq(es) \o end)
  BY DEF Listed, Last_
<1>1. space \in Seq(Byte) /\ end \in Seq(Byte)
  BY PartsOfContainers, CharactersAreBytes
<1>2. ASSUME Len(ms) = 0 PROVE Listed(open, ms, space) = <<open>> \o (space \o <<Close(open)>>)
  <2>1. es = <<>>
    BY <1>2
  <2> HIDE DEF es
  <2>2. <<>> \o end = end
    BY <1>1
  <2> QED
    BY <1>0, <2>1, <2>2, FlattenEmpty, Zenon DEF Last_
<1>3. ASSUME Len(ms) = n + 1 PROVE Listed(open, ms, space) = <<open>> \o (space \o Chain(ms, open, space))
  <2> DEFINE os == Others(ms, space)
             m == ms[1]
             more == FlattenSeq(os)
  <2>1. /\ os \in Seq(Seq(Characters)) /\ Len(os) = n
        /\ \A i \in 1 .. n : os[i] = Separated(ms[i + 1], space)
        /\ more \in Seq(Characters)
    BY <1>3, OthersType
  <2>2. m \in Seq(Characters) /\ m \in Seq(Byte)
    BY <1>3, FirstAndRest, CharactersAreBytes
  <2>3. DOMAIN es = 1 .. n + 1 /\ es[1] = space \o m
        /\ \A i \in 1 .. n : es[i + 1] = Separated(ms[i + 1], space)
    <3>1. DOMAIN ms = 1 .. n + 1
      BY <1>3
    <3>2. 1 \in 1 .. n + 1 /\ \A i \in 1 .. n : i + 1 \in 1 .. n + 1 /\ i + 1 # 1
      OBVIOUS
    <3>3. DOMAIN es = DOMAIN ms /\ \A i \in DOMAIN ms :
            es[i] = IF i = 1 THEN space \o ms[i] ELSE space \o (<<Comma>> \o (space \o ms[i]))
      BY Zenon
    <3> HIDE DEF es
    <3>4. es[1] = space \o m
      BY <3>1, <3>2, <3>3, Zenon
    <3>5. \A i \in 1 .. n : es[i + 1] = Separated(ms[i + 1], space)
      BY <3>1, <3>2, <3>3, Zenon DEF Separated
    <3> QED
      BY <3>1, <3>3, <3>4, <3>5, Zenon
  <2>4. es \in Seq(Seq(Byte)) /\ Len(es) = n + 1
    <3> DEFINE f == space \o m
               fs == [i \in 1 .. n + 1 |-> IF i = 1 THEN f ELSE os[i - 1]]
    <3>1. f \in Seq(Byte)
      BY <1>1, <2>2, BytesJoin
    <3>2. \A i \in 1 .. n : os[i] \in Seq(Byte)
      <4> TAKE i \in 1 .. n
      <4>1. os[i] \in Seq(Characters)
        BY <2>1, ElementOfSeq
      <4> QED
        BY <4>1, CharactersAreBytes
    <3> HIDE DEF os, f
    <3>3. \A i \in 1 .. n + 1 : i # 1 => i - 1 \in 1 .. n /\ (i - 1) + 1 = i
      OBVIOUS
    <3>4. fs \in Seq(Seq(Byte)) /\ Len(fs) = n + 1
      BY <3>1, <3>2, <3>3
    <3>5. es = fs
      <4>1. \A i \in 1 .. n + 1 : es[i] = fs[i]
        <5> TAKE i \in 1 .. n + 1
        <5>1. CASE i = 1
          BY <2>3, <5>1, Zenon DEF f
        <5>2. CASE i # 1
          <6>1. i - 1 \in 1 .. n /\ (i - 1) + 1 = i
            BY <3>3, <5>2
          <6>2. es[(i - 1) + 1] = os[i - 1]
            <7> HIDE DEF es
            <7> QED
              BY <2>1, <2>3, <6>1, Zenon
          <6>3. fs[i] = os[i - 1]
            BY <5>2, Zenon
          <6> HIDE DEF es, fs
          <6> QED
            BY <6>1, <6>2, <6>3
        <5> QED
          BY <5>1, <5>2
      <4>2. /\ es = [i \in DOMAIN es |-> es[i]] /\ fs = [i \in 1 .. n + 1 |-> fs[i]]
            /\ DOMAIN es = 1 .. n + 1
        BY <2>3, Zenon
      <4> HIDE DEF es, fs
      <4> QED
        BY <4>1, <4>2
    <3> HIDE DEF es, fs
    <3> QED
      BY <3>4, <3>5, Zenon
  <2> HIDE DEF es, os
  <2>5. Tail(es) = os
    <3>1. /\ Tail(es) \in Seq(Seq(Byte)) /\ Len(Tail(es)) = n /\ \A i \in 1 .. n : Tail(es)[i] = es[i + 1]
      BY <2>4, FirstAndRest
    <3>2. os \in Seq(Seq(Byte))
      <4>1. Seq(Seq(Characters)) \subseteq Seq(Seq(Byte))
        BY CharactersAreBytes
      <4> QED
        BY <2>1, <4>1
    <3> QED
      BY <2>1, <2>3, <3>1, <3>2, SeqEqual
  <2>6. FlattenSeq(es) = (space \o m) \o more
    <3>1. es # <<>>
      <4>1. Len(es) # 0
        BY <2>4
      <4> QED
        BY <4>1, SomeAreNot
    <3>2. FlattenSeq(es) = Head(es) \o FlattenSeq(Tail(es)) /\ Head(es) = es[1]
      BY <2>4, <3>1, FlattenFirst, HeadIsFirst
    <3> QED
      BY <2>3, <2>5, <3>2
  <2>7. Chain(ms, open, space) = m \o (more \o end)
    BY DEF Chain, Others, os
  <2>8. more \in Seq(Byte)
    BY <2>1, CharactersAreBytes
  <2> HIDE DEF end, m, more
  <2>9. ((space \o m) \o more) \o end = space \o (m \o (more \o end))
    <3>1. Join(Join(Join(space, m), more), end) = Join(space, Join(m, Join(more, end)))
      BY <1>1, <2>2, <2>8, Regrouped
    <3> QED
      BY <3>1, Zenon DEF Join
  <2> QED
    BY <1>0, <2>6, <2>7, <2>9, Zenon
<1> QED
  BY <1>2, <1>3

-----------------------------------------------------------------------------
(* Members of containers. *)

\* m is read as the member x of a container, wherever it stands in b.
IsMember(b, open, m, x) ==
    /\ Begun(m)
    /\ \A p, q \in Nat \ {0}, left \in Nat :
         Stands(b, m, p, q, left) => MemberAt(b, open, p, Rest(b)[left]) = Parsed(x, q + Len(m))

\* So are n of them.
AreMembers(b, open, n, ms, xs) ==
    Len(ms) = n /\ Len(xs) = n /\ \A i \in 1 .. n : IsMember(b, open, ms[i], xs[i])

\* A member, with what follows it at its end.
LEMMA MemberBefore ==
    ASSUME NEW b \in Seq(Byte), NEW open \in {OpenArray, OpenObject}, NEW space \in Seq(Space),
           NEW m, NEW x, IsMember(b, open, m, x), NEW t \in Seq(Byte), Len(t) # 0, t[1] \in {Comma, Close(open)},
           NEW p \in Nat \ {0}, NEW q \in Nat \ {0}, NEW left \in Nat,
           skip_ws(b, p) = q, Lies(b, q, m \o (space \o t)), Len(m \o (space \o t)) <= left + 1
    PROVE  /\ MemberAt(b, open, p, Rest(b)[left]) = Parsed(x, q + Len(m))
           /\ skip_ws(b, q + Len(m)) = (q + Len(m)) + Len(space)
           /\ At(b, (q + Len(m)) + Len(space)) = t[1]
           /\ Lies(b, (q + Len(m)) + Len(space), t)
           /\ (q + Len(m)) + Len(space) \in Nat \ {0}
           /\ ((q + Len(m)) + Len(space)) + Len(t) = q + Len(m \o (space \o t))
           /\ Len(m) \in Nat /\ Len(m) # 0 /\ Len(space) \in Nat
           /\ Len(m \o (space \o t)) = Len(m) + (Len(space) + Len(t))
<1> DEFINE u == space \o t
           r == q + Len(m)
<1>1. m \in Seq(Characters) /\ m \in Seq(Byte) /\ Len(m) \in Nat /\ Len(m) # 0
  BY CharactersAreBytes DEF IsMember, Begun
<1>2. space \in Seq(Byte) /\ Len(space) \in Nat /\ Len(t) \in Nat
  BY SpaceIsBytes
<1>3. u \in Seq(Byte) /\ Len(u) = Len(space) + Len(t)
  <2>1. u \in Seq(Byte)
    BY <1>2, BytesJoin
  <2>2. Len(space \o t) = Len(space) + Len(t)
    BY <1>2, Joined
  <2> QED
    BY <2>1, <2>2
<1>4. t[1] \notin Space /\ t[1] \in Ending /\ Space \subseteq Ending
  BY DEF Comma, Close, OpenArray, OpenObject, Space, Ending
<1> HIDE DEF u
<1>5. /\ Lies(b, q, m) /\ Lies(b, r, u) /\ r \in Nat \ {0} /\ r + Len(u) = q + Len(m \o u)
      /\ Len(m \o u) = Len(m) + Len(u)
  <2>1. m \in Seq(Byte) /\ u \in Seq(Byte)
    BY <1>1, <1>3
  <2>2. Lies(b, q, m \o u)
    BY DEF u
  <2> QED
    BY <2>1, <2>2, PartsLie
<1> HIDE DEF r
<1>6. /\ skip_ws(b, r) = r + Len(space) /\ At(b, r + Len(space)) = t[1]
      /\ At(b, r) \in Space \cup {t[1]}
      /\ Lies(b, r + Len(space), t) /\ r + Len(space) \in Nat \ {0}
      /\ (r + Len(space)) + Len(t) = r + Len(u)
  <2>1. Lies(b, r, space \o t)
    BY <1>5 DEF u
  <2> QED
    BY <1>4, <1>5, <2>1, SpaceBefore DEF u
<1>7. Len(m) <= left
  <2>1. Len(m) + Len(u) <= left + 1 /\ 1 <= Len(u)
    BY <1>2, <1>3, <1>5 DEF u
  <2>2. Len(u) \in Nat
    BY <1>2, <1>3
  <2> QED
    BY <1>1, <2>1, <2>2
<1>8. Stands(b, m, p, q, left)
  <2>1. At(b, q + Len(m)) \in Ending
    BY <1>4, <1>6 DEF r
  <2> QED
    BY <1>5, <1>7, <2>1 DEF Stands
<1>9. MemberAt(b, open, p, Rest(b)[left]) = Parsed(x, q + Len(m))
  BY <1>8 DEF IsMember
<1>10. (r + Len(space)) + Len(t) = q + Len(m \o u)
  BY <1>5, <1>6
<1> QED
  BY <1>1, <1>2, <1>3, <1>5, <1>6, <1>9, <1>10 DEF r, u

\* What MemberBefore needs and gives, as a whole.
Continued(b, open, space, m, x, t, p, q, left) ==
    /\ IsMember(b, open, m, x)
    /\ t \in Seq(Byte) /\ Len(t) # 0 /\ t[1] \in {Comma, Close(open)}
    /\ skip_ws(b, p) = q /\ Lies(b, q, m \o (space \o t)) /\ Len(m \o (space \o t)) <= left + 1

ReadBefore(b, open, space, m, x, t, p, q, left) ==
    /\ MemberAt(b, open, p, Rest(b)[left]) = Parsed(x, q + Len(m))
    /\ skip_ws(b, q + Len(m)) = (q + Len(m)) + Len(space)
    /\ At(b, (q + Len(m)) + Len(space)) = t[1]
    /\ Lies(b, (q + Len(m)) + Len(space), t) /\ (q + Len(m)) + Len(space) \in Nat \ {0}
    /\ ((q + Len(m)) + Len(space)) + Len(t) = q + Len(m \o (space \o t))
    /\ Len(m) \in Nat /\ Len(m) # 0 /\ Len(space) \in Nat
    /\ Len(m \o (space \o t)) = Len(m) + (Len(space) + Len(t))

LEMMA FollowedIsRead ==
    ASSUME NEW b \in Seq(Byte), NEW open \in {OpenArray, OpenObject}, NEW space \in Seq(Space)
    PROVE  \A m, x, t : \A p, q \in Nat \ {0}, left \in Nat :
             Continued(b, open, space, m, x, t, p, q, left) => ReadBefore(b, open, space, m, x, t, p, q, left)
<1> TAKE m, x, t
<1> TAKE p, q \in Nat \ {0}, left \in Nat
<1> HAVE Continued(b, open, space, m, x, t, p, q, left)
<1>1. IsMember(b, open, m, x)
  BY DEF Continued
<1>2. t \in Seq(Byte)
  BY DEF Continued
<1>3. Len(t) # 0 /\ t[1] \in {Comma, Close(open)}
  BY DEF Continued
<1>4. skip_ws(b, p) = q /\ Lies(b, q, m \o (space \o t)) /\ Len(m \o (space \o t)) <= left + 1
  BY DEF Continued
<1> QED
  BY <1>1, <1>2, <1>3, <1>4, MemberBefore DEF ReadBefore

\* The end of a container is what closes it; a comma is not.
LEMMA Closing ==
    ASSUME NEW open \in {OpenArray, OpenObject}
    PROVE  /\ <<Close(open)>> \in Seq(Byte) /\ Len(<<Close(open)>>) = 1 /\ <<Close(open)>>[1] = Close(open)
           /\ <<Comma>> \in Seq(Byte) /\ Len(<<Comma>>) = 1 /\ <<Comma>>[1] = Comma
           /\ Comma # Close(open) /\ Close(open) \notin Space /\ Comma \notin Space
BY DEF OpenArray, OpenObject, Close, Comma, Space, Byte

\* Wherever the members stand, up to their end, they are read as xs.
Chained(b, open, space, ms, xs) ==
    \A p, q \in Nat \ {0}, left \in Nat :
        skip_ws(b, p) = q /\ Lies(b, q, Chain(ms, open, space)) /\ Len(Chain(ms, open, space)) <= left
        => Rest(b)[left][open][p] = Parsed(xs, q + Len(Chain(ms, open, space)))

(***************************************************************************)
(* Members one behind the other are read one after the other.              *)
(***************************************************************************)
LEMMA MembersAreRead ==
    ASSUME NEW b \in Seq(Byte), NEW open \in {OpenArray, OpenObject}, NEW space \in Seq(Space), NEW V
    PROVE  \A n \in Nat : \A ms \in Seq(Seq(Characters)), xs \in Seq(V) :
             AreMembers(b, open, n + 1, ms, xs)
             => Chained(b, open, space, ms, xs)
<1> DEFINE T(ms) == Chain(ms, open, space)
           Lie(ms, p, q, left) == skip_ws(b, p) = q /\ Lies(b, q, T(ms)) /\ Len(T(ms)) <= left
           Read_(ms, xs, p, q, left) == Rest(b)[left][open][p] = Parsed(xs, q + Len(T(ms)))
           Is(n) == \A ms \in Seq(Seq(Characters)), xs \in Seq(V) : AreMembers(b, open, n + 1, ms, xs) =>
                      \A p, q \in Nat \ {0}, left \in Nat : Lie(ms, p, q, left) => Read_(ms, xs, p, q, left)
           S == {n \in Nat : Is(n)}
           end == <<Close(open)>>
<1>0. end \in Seq(Byte) /\ Len(end) = 1 /\ end[1] = Close(open)
  BY Closing
<1>r. \A left \in Nat, p \in Nat :
        Rest(b)[left + 1][open][p] = Members(b, open, MemberAt(b, open, p, Rest(b)[left]), Rest(b)[left][open])
  BY RestUnfolds
<1>1. Is(0)
  <2> SUFFICES ASSUME NEW ms \in Seq(Seq(Characters)), NEW xs \in Seq(V), AreMembers(b, open, 0 + 1, ms, xs),
                      NEW p \in Nat \ {0}, NEW q \in Nat \ {0}, NEW left \in Nat, Lie(ms, p, q, left)
               PROVE  Read_(ms, xs, p, q, left)
    BY Zenon
  <2> DEFINE m == ms[1]
             x == xs[1]
             at == (q + Len(m)) + Len(space)
  <2>1. Len(ms) = 1 /\ Len(xs) = 1 /\ IsMember(b, open, m, x)
    <3>1. 0 + 1 = 1 /\ 1 \in 1 .. 1
      OBVIOUS
    <3> QED
      BY <3>1 DEF AreMembers
  <2>2. T(ms) = m \o (space \o end)
    BY <2>1, ChainOfOne
  <2> HIDE DEF T, end
  <2>3. left - 1 \in Nat /\ left # 0 /\ (left - 1) + 1 = left
    <3>1. Len(T(ms)) \in Nat /\ Len(T(ms)) # 0
      <4>1. m \in Seq(Byte) /\ Len(m) # 0
        BY <2>1, CharactersAreBytes DEF IsMember, Begun
      <4>2. space \in Seq(Byte)
        BY SpaceIsBytes
      <4>3. space \o end \in Seq(Byte)
        BY <1>0, <4>2, BytesJoin
      <4> DEFINE u == space \o end
      <4> HIDE DEF u, m
      <4>4. Len(m \o u) = Len(m) + Len(u) /\ Len(m) \in Nat /\ Len(u) \in Nat
        BY <4>1, <4>3, Joined DEF u
      <4> QED
        BY <2>2, <4>1, <4>4 DEF u
    <3> QED
      BY <3>1
  <2>4. /\ MemberAt(b, open, p, Rest(b)[left - 1]) = Parsed(x, q + Len(m))
        /\ skip_ws(b, q + Len(m)) = at /\ At(b, at) = end[1]
        /\ at + Len(end) = q + Len(T(ms))
    <3>1. Lies(b, q, m \o (space \o end)) /\ Len(m \o (space \o end)) <= (left - 1) + 1 /\ skip_ws(b, p) = q
      BY <2>2, <2>3
    <3>2. Len(end) # 0 /\ end[1] \in {Comma, Close(open)}
      BY <1>0
    <3>3. /\ MemberAt(b, open, p, Rest(b)[left - 1]) = Parsed(x, q + Len(m))
          /\ skip_ws(b, q + Len(m)) = at /\ At(b, at) = end[1]
          /\ at + Len(end) = q + Len(m \o (space \o end))
      <4>1. Continued(b, open, space, m, x, end, p, q, left - 1)
        BY <1>0, <2>1, <3>1, <3>2, Zenon DEF Continued
      <4>2. ReadBefore(b, open, space, m, x, end, p, q, left - 1)
        BY <2>3, <4>1, FollowedIsRead, Zenon
      <4> QED
        BY <4>2, Zenon DEF ReadBefore, at
    <3> QED
      BY <2>2, <3>3
  <2>5. xs = <<x>>
    BY <2>1
  <2> HIDE DEF m, x, at
  <2>6. Members(b, open, Parsed(x, q + Len(m)), Rest(b)[left - 1][open]) = Parsed(<<x>>, at + 1)
    <3>1. Parsed(x, q + Len(m)).ok /\ Parsed(x, q + Len(m)).value = x /\ Parsed(x, q + Len(m)).at = q + Len(m)
      BY DEF Parsed
    <3>2. Members(b, open, Parsed(x, q + Len(m)), Rest(b)[left - 1][open])
            = More(b, open, x, at, Rest(b)[left - 1][open])
      BY <2>4, <3>1, Zenon DEF Members
    <3>3. At(b, at) = Close(open)
      BY <1>0, <2>4
    <3> QED
      BY <3>2, <3>3, Zenon DEF More
  <2>7. Rest(b)[left][open][p] = Members(b, open, MemberAt(b, open, p, Rest(b)[left - 1]), Rest(b)[left - 1][open])
    <3>1. p \in Nat
      OBVIOUS
    <3> QED
      BY <1>r, <2>3, <3>1, Zenon
  <2>8. at + 1 = q + Len(T(ms))
    BY <1>0, <2>4
  <2> QED
    BY <2>4, <2>5, <2>6, <2>7, <2>8, Zenon
<1>2. ASSUME NEW n \in Nat, Is(n) PROVE Is(n + 1)
  <2> SUFFICES ASSUME NEW ms \in Seq(Seq(Characters)), NEW xs \in Seq(V), AreMembers(b, open, (n + 1) + 1, ms, xs),
                      NEW p \in Nat \ {0}, NEW q \in Nat \ {0}, NEW left \in Nat, Lie(ms, p, q, left)
               PROVE  Read_(ms, xs, p, q, left)
    BY Zenon
  <2> DEFINE m == ms[1]
             x == xs[1]
             rest == Tail(ms)
             others == Tail(xs)
             s == space \o T(rest)
             c == <<Comma>>
             t == c \o s
             at == (q + Len(m)) + Len(space)
             next == (at + 1) + Len(space)
  <2>1. /\ rest \in Seq(Seq(Characters)) /\ Len(rest) = n + 1 /\ \A i \in 1 .. n + 1 : rest[i] = ms[i + 1]
        /\ m \in Seq(Characters)
    <3>1. Len(ms) = (n + 1) + 1 /\ n + 1 \in Nat
      BY DEF AreMembers
    <3> QED
      BY <3>1, FirstAndRest
  <2>2. /\ others \in Seq(V) /\ Len(others) = n + 1 /\ \A i \in 1 .. n + 1 : others[i] = xs[i + 1]
        /\ <<x>> \o others = xs
    <3>1. Len(xs) = (n + 1) + 1 /\ n + 1 \in Nat
      BY DEF AreMembers
    <3> QED
      BY <3>1, FirstAndRest
  <2>3. IsMember(b, open, m, x) /\ AreMembers(b, open, n + 1, rest, others)
    <3>1. 1 \in 1 .. (n + 1) + 1 /\ \A i \in 1 .. n + 1 : i + 1 \in 1 .. (n + 1) + 1
      OBVIOUS
    <3>2. \A i \in 1 .. n + 1 : IsMember(b, open, ms[i + 1], xs[i + 1])
      BY <3>1, Zenon DEF AreMembers
    <3> QED
      BY <2>1, <2>2, <3>1, <3>2, Zenon DEF AreMembers
  <2>4. T(ms) = m \o (space \o t)
    <3>1. Len(ms) = n + 2
      BY DEF AreMembers
    <3> QED
      BY <3>1, ChainOfMore
  <2>5. /\ T(rest) \in Seq(Byte) /\ Len(T(rest)) \in Nat /\ Len(T(rest)) # 0 /\ T(rest)[1] \in Opening
    <3> DEFINE u == FlattenSeq(Others(rest, space)) \o Last_(open, space)
               r == rest[1]
    <3>1. T(rest) = r \o u
      BY DEF Chain, Others
    <3>2. r \in Seq(Byte) /\ Len(r) \in Nat /\ Len(r) # 0 /\ r[1] \in Opening
      <4>1. IsMember(b, open, rest[1], others[1])
        <5>1. 1 \in 1 .. n + 1
          OBVIOUS
        <5> QED
          BY <2>3, <5>1, Zenon DEF AreMembers
      <4> QED
        BY <4>1, CharactersAreBytes DEF IsMember, Begun
    <3>3. u \in Seq(Byte)
      BY <2>1, OthersType, PartsOfContainers, CharactersAreBytes
    <3> HIDE DEF r, u, T
    <3>4. Len(r \o u) = Len(r) + Len(u) /\ Len(u) \in Nat /\ \A j \in 1 .. Len(r) : (r \o u)[j] = r[j]
      <4>1. r \in Seq(Byte) /\ u \in Seq(Byte)
        BY <3>2, <3>3
      <4> QED
        BY <4>1, Joined, LenProperties
    <3>5. r \o u \in Seq(Byte)
      BY <3>2, <3>3, BytesJoin
    <3>6. 1 \in 1 .. Len(r) /\ Len(r) + Len(u) \in Nat /\ Len(r) + Len(u) # 0
      BY <3>2, <3>4
    <3>7. (r \o u)[1] \in Opening
      BY <3>2, <3>4, <3>6
    <3> QED
      BY <3>1, <3>4, <3>5, <3>6, <3>7, Zenon
  <2>6. /\ space \in Seq(Byte) /\ c \in Seq(Byte) /\ Len(c) = 1 /\ c[1] = Comma
    BY Closing, SpaceIsBytes
  <2>7. s \in Seq(Byte) /\ Len(s) = Len(space) + Len(T(rest))
    <3> HIDE DEF T
    <3>1. T(rest) \in Seq(Byte) /\ space \in Seq(Byte)
      BY <2>5, <2>6
    <3> QED
      BY <3>1, BytesJoin, Joined
  <2> HIDE DEF s
  <2>8. t \in Seq(Byte) /\ Len(t) = 1 + Len(s) /\ Len(s) \in Nat /\ t[1] = Comma
    <3> HIDE DEF c
    <3>1. c \in Seq(Byte) /\ s \in Seq(Byte)
      BY <2>6, <2>7
    <3>2. c \o s \in Seq(Byte) /\ Len(s) \in Nat
      BY <3>1, BytesJoin, LenProperties
    <3>3. Len(c \o s) = Len(c) + Len(s) /\ \A j \in 1 .. Len(c) : (c \o s)[j] = c[j]
      BY <3>1, Joined
    <3>4. 1 \in 1 .. Len(c)
      BY <2>6
    <3>5. (c \o s)[1] = Comma
      BY <2>6, <3>3, <3>4
    <3> QED
      BY <2>6, <3>2, <3>3, <3>5
  <2> HIDE DEF T, t, c
  <2>9. left - 1 \in Nat /\ left # 0 /\ (left - 1) + 1 = left
    <3>1. Len(T(ms)) \in Nat /\ Len(T(ms)) # 0
      <4>1. m \in Seq(Byte) /\ Len(m) # 0
        BY <2>3, CharactersAreBytes DEF IsMember, Begun
      <4>2. space \o t \in Seq(Byte)
        BY <2>6, <2>8, BytesJoin
      <4> DEFINE u == space \o t
      <4> HIDE DEF u, m
      <4>3. Len(m \o u) = Len(m) + Len(u) /\ Len(m) \in Nat /\ Len(u) \in Nat
        BY <4>1, <4>2, Joined DEF u
      <4> QED
        BY <2>4, <4>1, <4>3 DEF u
    <3> QED
      BY <3>1
  <2>10. /\ MemberAt(b, open, p, Rest(b)[left - 1]) = Parsed(x, q + Len(m))
         /\ skip_ws(b, q + Len(m)) = at /\ At(b, at) = Comma /\ Lies(b, at, t) /\ at \in Nat \ {0}
         /\ at + Len(t) = q + Len(T(ms)) /\ Len(m) \in Nat /\ Len(space) \in Nat
         /\ Len(T(ms)) = Len(m) + (Len(space) + Len(t))
    <3>1. Lies(b, q, m \o (space \o t)) /\ Len(m \o (space \o t)) <= (left - 1) + 1 /\ skip_ws(b, p) = q
      BY <2>4, <2>9
    <3>2. Len(t) # 0 /\ t[1] \in {Comma, Close(open)} /\ t \in Seq(Byte)
      BY <2>8
    <3>3. /\ MemberAt(b, open, p, Rest(b)[left - 1]) = Parsed(x, q + Len(m))
          /\ skip_ws(b, q + Len(m)) = at /\ At(b, at) = t[1] /\ Lies(b, at, t) /\ at \in Nat \ {0}
          /\ at + Len(t) = q + Len(m \o (space \o t)) /\ Len(m) \in Nat /\ Len(space) \in Nat
          /\ Len(m \o (space \o t)) = Len(m) + (Len(space) + Len(t))
      <4>1. Continued(b, open, space, m, x, t, p, q, left - 1)
        BY <2>3, <3>1, <3>2, Zenon DEF Continued
      <4>2. ReadBefore(b, open, space, m, x, t, p, q, left - 1)
        BY <2>9, <4>1, FollowedIsRead, Zenon
      <4> QED
        BY <4>2, Zenon DEF ReadBefore, at
    <3> QED
      BY <2>4, <2>8, <3>3
  <2> HIDE DEF m, x, rest, others, at
  <2>11. Lies(b, at + 1, s) /\ at + 1 \in Nat \ {0} /\ (at + 1) + Len(s) = at + Len(t)
    <3>1. c \in Seq(Byte) /\ s \in Seq(Byte) /\ Lies(b, at, c \o s)
      BY <2>6, <2>7, <2>10 DEF t
    <3>2. Lies(b, at + Len(c), s) /\ at + Len(c) \in Nat \ {0} /\ (at + Len(c)) + Len(s) = at + Len(c \o s)
      BY <2>10, <3>1, PartsLie
    <3> QED
      BY <2>6, <3>2 DEF t
  <2>12. /\ skip_ws(b, at + 1) = next /\ Lies(b, next, T(rest)) /\ next \in Nat \ {0}
         /\ next + Len(T(rest)) = q + Len(T(ms))
    <3>1. Lies(b, at + 1, space \o T(rest)) /\ T(rest)[1] \notin Space /\ Len(T(rest)) # 0 /\ T(rest) \in Seq(Byte)
      BY <2>5, <2>11, OpeningIsNot DEF s
    <3>2. /\ skip_ws(b, at + 1) = (at + 1) + Len(space)
          /\ Lies(b, (at + 1) + Len(space), T(rest)) /\ (at + 1) + Len(space) \in Nat \ {0}
          /\ ((at + 1) + Len(space)) + Len(T(rest)) = (at + 1) + Len(space \o T(rest))
      <4> DEFINE r == T(rest)
                 a == at + 1
      <4>1. Lies(b, a, space \o r) /\ r[1] \notin Space /\ Len(r) # 0
        BY <3>1
      <4>2. r \in Seq(Byte)
        BY <3>1
      <4>3. a \in Nat \ {0}
        BY <2>11
      <4> HIDE DEF r, a
      <4>4. /\ skip_ws(b, a) = a + Len(space) /\ Lies(b, a + Len(space), r) /\ a + Len(space) \in Nat \ {0}
            /\ (a + Len(space)) + Len(r) = a + Len(space \o r)
        BY <4>1, <4>2, <4>3, SpaceBefore
      <4> QED
        BY <4>4 DEF r, a
    <3>3. (at + 1) + Len(s) = q + Len(T(ms))
      BY <2>10, <2>11
    <3> QED
      BY <3>2, <3>3 DEF s
  <2> HIDE DEF next
  <2>13. Len(T(rest)) <= left - 1
    <3>1. Len(T(ms)) <= left
      OBVIOUS
    <3>2. Len(T(rest)) \in Nat
      BY <2>5
    <3>3. Len(s) = Len(space) + Len(T(rest)) /\ Len(t) = 1 + Len(s)
      BY <2>7, <2>8
    <3>4. Len(m) \in Nat /\ Len(space) \in Nat /\ Len(T(ms)) = Len(m) + (Len(space) + Len(t))
      BY <2>10
    <3> QED
      BY <3>1, <3>2, <3>3, <3>4
  <2>14. Rest(b)[left - 1][open][at + 1] = Parsed(others, next + Len(T(rest)))
    <3>1. Lie(rest, at + 1, next, left - 1)
      BY <2>12, <2>13
    <3>2. at + 1 \in Nat \ {0} /\ next \in Nat \ {0} /\ left - 1 \in Nat
      BY <2>9, <2>11, <2>12
    <3>3. rest \in Seq(Seq(Characters)) /\ others \in Seq(V) /\ AreMembers(b, open, n + 1, rest, others)
      BY <2>1, <2>2, <2>3
    <3> HIDE DEF Lie
    <3> QED
      BY <1>2, <3>1, <3>2, <3>3, Zenon
  <2>15. Members(b, open, Parsed(x, q + Len(m)), Rest(b)[left - 1][open])
           = Parsed(<<x>> \o others, next + Len(T(rest)))
    <3>1. Parsed(x, q + Len(m)).ok /\ Parsed(x, q + Len(m)).value = x /\ Parsed(x, q + Len(m)).at = q + Len(m)
      BY DEF Parsed
    <3>2. Members(b, open, Parsed(x, q + Len(m)), Rest(b)[left - 1][open])
            = More(b, open, x, at, Rest(b)[left - 1][open])
      BY <2>10, <3>1, Zenon DEF Members
    <3>3. More(b, open, x, at, Rest(b)[left - 1][open]) = BeforeMore(x, Rest(b)[left - 1][open][at + 1])
      <4>1. At(b, at) = Comma /\ At(b, at) # Close(open)
        BY <2>10, Closing
      <4> QED
        BY <4>1, Zenon DEF More
    <3>4. BeforeMore(x, Parsed(others, next + Len(T(rest)))) = Parsed(<<x>> \o others, next + Len(T(rest)))
      BY DEF BeforeMore, Parsed
    <3> QED
      BY <2>14, <3>2, <3>3, <3>4, Zenon
  <2>16. Rest(b)[left][open][p] = Members(b, open, MemberAt(b, open, p, Rest(b)[left - 1]), Rest(b)[left - 1][open])
    <3>1. p \in Nat
      OBVIOUS
    <3> QED
      BY <1>r, <2>9, <3>1, Zenon
  <2> QED
    BY <2>2, <2>10, <2>12, <2>15, <2>16, Zenon
<1> HIDE DEF Is
<1>3. \A n \in Nat : n \in S
  <2>1. 0 \in S /\ \A n \in S : n + 1 \in S
    BY <1>1, <1>2
  <2>2. S \in SUBSET Nat
    OBVIOUS
  <2> HIDE DEF S
  <2> QED
    BY <2>1, <2>2, Induction
<1> QED
  BY <1>3, Zenon DEF Is, Chained

\* A text begins as what is in front of it does.
LEMMA BegunJoin ==
    \A s, t : Begun(s) /\ t \in Seq(Characters)
       => /\ Begun(s \o t) /\ (s \o t)[1] = s[1]
          /\ Len(s \o t) = Len(s) + Len(t) /\ Len(s) \in Nat /\ Len(t) \in Nat
<1> SUFFICES ASSUME NEW s, NEW t, Begun(s), t \in Seq(Characters)
             PROVE  /\ Begun(s \o t) /\ (s \o t)[1] = s[1]
                    /\ Len(s \o t) = Len(s) + Len(t) /\ Len(s) \in Nat /\ Len(t) \in Nat
  BY Zenon
<1>1. s \in Seq(Characters)
  BY DEF Begun
<1>2. Len(s) # 0 /\ s[1] \in Opening
  BY DEF Begun
<1>3. s \in Seq(Byte) /\ t \in Seq(Byte)
  BY <1>1, CharactersAreBytes
<1>4. Len(s) \in Nat /\ Len(t) \in Nat
  BY <1>1, CharactersAreBytes
<1>5. s \o t \in Seq(Characters)
  BY <1>1, CharactersAreBytes
<1>6. Len(s \o t) = Len(s) + Len(t) /\ \A j \in 1 .. Len(s) : (s \o t)[j] = s[j]
  BY <1>3, Joined
<1>7. 1 \in 1 .. Len(s) /\ Len(s) + Len(t) # 0
  BY <1>2, <1>4
<1>8. (s \o t)[1] = s[1]
  BY <1>6, <1>7
<1>9. Begun(s \o t)
  BY <1>2, <1>5, <1>6, <1>7, <1>8, Zenon DEF Begun
<1> QED
  BY <1>4, <1>6, <1>8, <1>9, Zenon

\* What PartsLie and SpaceBefore give, as a whole.
TwoLie(b, p, s, t) ==
    /\ s \o t \in Seq(Byte) /\ Len(s \o t) = Len(s) + Len(t)
    /\ Lies(b, p, s) /\ Lies(b, p + Len(s), t)
    /\ p + Len(s) \in Nat \ {0} /\ (p + Len(s)) + Len(t) = p + Len(s \o t)

LEMMA TwoDoLie ==
    ASSUME NEW b \in Seq(Byte)
    PROVE  \A s, t \in Seq(Byte), p \in Nat \ {0} : Lies(b, p, s \o t) => TwoLie(b, p, s, t)
<1> TAKE s, t \in Seq(Byte), p \in Nat \ {0}
<1> HAVE Lies(b, p, s \o t)
<1> QED
  BY PartsLie DEF TwoLie

Skipped(b, p, space, t) ==
    /\ skip_ws(b, p) = p + Len(space) /\ At(b, p + Len(space)) = t[1]
    /\ At(b, p) \in Space \cup {t[1]}
    /\ Lies(b, p + Len(space), t) /\ p + Len(space) \in Nat \ {0}
    /\ (p + Len(space)) + Len(t) = p + Len(space \o t)

LEMMA SpaceIsSkipped ==
    ASSUME NEW b \in Seq(Byte), NEW space \in Seq(Space)
    PROVE  \A t \in Seq(Byte), p \in Nat \ {0} :
             Len(t) # 0 /\ t[1] \notin Space /\ Lies(b, p, space \o t) => Skipped(b, p, space, t)
<1> TAKE t \in Seq(Byte), p \in Nat \ {0}
<1> HAVE Len(t) # 0 /\ t[1] \notin Space /\ Lies(b, p, space \o t)
<1> QED
  BY SpaceBefore DEF Skipped

\* What a text that is begun is.
LEMMA BegunIs ==
    \A T : Begun(T) => T \in Seq(Byte) /\ T \in Seq(Characters) /\ Len(T) \in Nat /\ Len(T) # 0
                       /\ T[1] \in Opening /\ T[1] \notin Space
BY OpeningIsNot, CharactersAreBytes, Zenon DEF Begun

\* The parts of a member of an object.
PairText(key, T, space) == Quoted(key) \o (space \o (<<Colon>> \o (space \o T)))

LEMMA PairIsMember ==
    ASSUME NEW b \in Seq(Byte), NEW key \in Seq(Characters), NEW space \in Seq(Space), NEW T, NEW x, IsText(b, T, x)
    PROVE  IsMember(b, OpenObject, PairText(key, T, space), Pair(key, x))
<1> DEFINE k == Quoted(key)
           c == <<Colon>>
           v == space \o T
           cv == c \o v
           scv == space \o cv
           m == k \o scv
<1>1. T \in Seq(Byte) /\ T \in Seq(Characters) /\ Len(T) \in Nat /\ Len(T) # 0 /\ T[1] \notin Space
  BY BegunIs, Zenon DEF IsText
<1>2. space \in Seq(Characters) /\ space \in Seq(Byte) /\ Len(space) \in Nat
  <2>1. OpenArray \in {OpenArray, OpenObject}
    OBVIOUS
  <2>2. space \in Seq(Characters) /\ space \in Seq(Byte)
    BY <2>1, PartsOfContainers
  <2> QED
    BY <2>2
<1>3. c \in Seq(Characters) /\ c \in Seq(Byte) /\ Len(c) = 1 /\ c[1] = Colon /\ Colon \notin Space
  BY OneCharacter DEF Colon, Characters, Space
<1>4. v \in Seq(Characters) /\ v \in Seq(Byte) /\ Len(v) \in Nat
  BY <1>1, <1>2, CharactersAreBytes, Zenon
<1> HIDE DEF v, c
<1>5. cv \in Seq(Characters) /\ cv \in Seq(Byte) /\ Len(cv) \in Nat
  BY <1>3, <1>4, CharactersAreBytes, Zenon
<1>6. Len(cv) = 1 + Len(v) /\ cv[1] = Colon
  <2>1. c \in Seq(Byte) /\ v \in Seq(Byte)
    BY <1>3, <1>4
  <2>2. Len(c \o v) = Len(c) + Len(v) /\ \A j \in 1 .. Len(c) : (c \o v)[j] = c[j]
    BY <2>1, Joined
  <2>3. 1 \in 1 .. Len(c)
    BY <1>3
  <2> QED
    BY <1>3, <2>2, <2>3
<1>7. Len(cv) # 0
  BY <1>4, <1>6
<1> HIDE DEF cv
<1>8. scv \in Seq(Characters) /\ scv \in Seq(Byte)
  BY <1>2, <1>5, CharactersAreBytes, Zenon
<1>9. Begun(k) /\ k \in Seq(Byte)
  BY QuotedType, BegunIs, Zenon
<1> HIDE DEF scv
<1>10. Begun(m)
  BY <1>8, <1>9, BegunJoin, Zenon
<1>11. ASSUME NEW p \in Nat \ {0}, NEW q \in Nat \ {0}, NEW left \in Nat, Stands(b, m, p, q, left)
       PROVE  MemberAt(b, OpenObject, p, Rest(b)[left]) = Parsed(Pair(key, x), q + Len(m))
  <2> DEFINE r == q + Len(k)
             colon == r + Len(space)
             at == (colon + 1) + Len(space)
  <2>1. skip_ws(b, p) = q /\ Lies(b, q, m) /\ At(b, q + Len(m)) \in Ending /\ Len(m) <= left
    BY <1>11, Zenon DEF Stands
  <2>2. TwoLie(b, q, k, scv)
    BY <1>8, <1>9, <2>1, TwoDoLie, Zenon
  <2>3. Lies(b, q, k) /\ Lies(b, r, scv) /\ r \in Nat \ {0} /\ r + Len(scv) = q + Len(m)
        /\ Len(m) = Len(k) + Len(scv)
    BY <2>2, Zenon DEF TwoLie
  <2>4. parse_string_raw(b, q) = Parsed(key, r)
    BY <2>3, QuotedIsRead
  <2> HIDE DEF r
  <2>5. Skipped(b, r, space, cv)
    <3>1. Lies(b, r, space \o cv) /\ cv[1] \notin Space
      BY <1>3, <1>6, <2>3 DEF scv
    <3> QED
      BY <1>5, <1>7, <2>3, <3>1, SpaceIsSkipped, Zenon
  <2>6. skip_ws(b, r) = colon /\ At(b, colon) = Colon /\ Lies(b, colon, cv) /\ colon \in Nat \ {0}
        /\ colon + Len(cv) = r + Len(scv)
    BY <1>6, <2>5, Zenon DEF Skipped, scv
  <2> HIDE DEF colon
  <2>7. Lies(b, colon + 1, v) /\ colon + 1 \in Nat \ {0} /\ (colon + 1) + Len(v) = colon + Len(cv)
    <3>1. TwoLie(b, colon, c, v)
      <4>1. Lies(b, colon, c \o v)
        BY <2>6 DEF cv
      <4> QED
        BY <1>3, <1>4, <2>6, <4>1, TwoDoLie, Zenon
    <3>2. Lies(b, colon + Len(c), v) /\ colon + Len(c) \in Nat \ {0} /\ (colon + Len(c)) + Len(v) = colon + Len(cv)
      BY <3>1, Zenon DEF TwoLie, cv
    <3> QED
      BY <1>3, <3>2
  <2>8. Skipped(b, colon + 1, space, T)
    <3>1. Lies(b, colon + 1, space \o T)
      BY <2>7 DEF v
    <3> QED
      BY <1>1, <2>7, <3>1, SpaceIsSkipped, Zenon
  <2>9. skip_ws(b, colon + 1) = at /\ Lies(b, at, T) /\ at \in Nat \ {0} /\ at + Len(T) = (colon + 1) + Len(v)
    BY <2>8, Zenon DEF Skipped, v
  <2> HIDE DEF at
  <2>10. at + Len(T) = q + Len(m)
    BY <2>3, <2>6, <2>7, <2>9
  <2>11. Len(T) <= left
    <3>1. Len(T) <= Len(v)
      <4>1. T \in Seq(Byte) /\ space \in Seq(Byte)
        BY <1>1, <1>2
      <4>2. Len(space \o T) = Len(space) + Len(T)
        BY <4>1, Joined
      <4> QED
        BY <1>1, <1>2, <4>2 DEF v
    <3>2. Len(v) <= Len(cv)
      BY <1>4, <1>6
    <3>3. Len(scv) = Len(space) + Len(cv)
      <4>1. cv \in Seq(Byte) /\ space \in Seq(Byte)
        BY <1>2, <1>5
      <4>2. Len(space \o cv) = Len(space) + Len(cv)
        BY <4>1, Joined
      <4> QED
        BY <4>2 DEF scv
    <3>4. Len(k) \in Nat /\ Len(m) = Len(k) + Len(scv) /\ Len(m) <= left
      BY <1>9, <2>1, <2>3, BegunIs
    <3> HIDE DEF m, k
    <3> QED
      BY <1>1, <1>2, <1>4, <1>5, <3>1, <3>2, <3>3, <3>4
  <2>12. Stands(b, T, colon + 1, at, left)
    BY <2>1, <2>9, <2>10, <2>11, Zenon DEF Stands
  <2>13. parse_value(b, colon + 1, Rest(b)[left]) = Parsed(x, at + Len(T))
    <3>1. \A i, j \in Nat \ {0}, n \in Nat :
            Stands(b, T, i, j, n) => parse_value(b, i, Rest(b)[n]) = Parsed(x, j + Len(T))
      BY DEF IsText
    <3>2. colon + 1 \in Nat \ {0} /\ at \in Nat \ {0}
      BY <2>7, <2>9
    <3> QED
      BY <2>12, <3>1, <3>2, Zenon
  <2> HIDE DEF m, k
  <2> DEFINE rest == Rest(b)[left]
             res == Parsed(Pair(key, x), q + Len(m))
  <2>14. PairOfKey(key, Parsed(x, at + Len(T))) = res
    BY <2>10 DEF PairOfKey, Parsed
  <2>15. BehindKey(b, key, colon, rest) = res
    <3> HIDE DEF res
    <3> QED
      BY <2>6, <2>13, <2>14, Zenon DEF BehindKey
  <2>16. parse_pair(b, p, rest) = res
    <3>1. Parsed(key, r).ok /\ Parsed(key, r).value = key /\ Parsed(key, r).at = r
      BY DEF Parsed
    <3> HIDE DEF res
    <3> QED
      BY <2>1, <2>4, <2>6, <2>15, <3>1, Zenon DEF parse_pair
  <2> HIDE DEF res
  <2>17. MemberAt(b, OpenObject, p, rest) = res
    BY <2>16, Zenon DEF MemberAt
  <2> QED
    BY <2>17, Zenon DEF res
<1>12. m = PairText(key, T, space)
  BY Zenon DEF PairText, scv, cv, c, v
<1> HIDE DEF m
<1>13. IsMember(b, OpenObject, m, Pair(key, x))
  <2> DEFINE y == Pair(key, x)
  <2>1. \A p, q \in Nat \ {0}, left \in Nat :
          Stands(b, m, p, q, left) => MemberAt(b, OpenObject, p, Rest(b)[left]) = Parsed(y, q + Len(m))
    BY <1>11
  <2> HIDE DEF y
  <2>2. IsMember(b, OpenObject, m, y)
    BY <1>10, <2>1, Zenon DEF IsMember
  <2> QED
    BY <2>2, Zenon DEF y
<1> QED
  BY <1>12, <1>13, Zenon

\* An element of an array is a value.
LEMMA TextIsMember ==
    ASSUME NEW b, NEW T, NEW x, IsText(b, T, x)
    PROVE  IsMember(b, OpenArray, T, x)
<1>1. \A p, rest : MemberAt(b, OpenArray, p, rest) = parse_value(b, p, rest)
  <2>1. OpenArray # OpenObject
    BY DEF OpenArray, OpenObject
  <2> QED
    BY <2>1, Zenon DEF MemberAt
<1>2. /\ Begun(T)
      /\ \A p, q \in Nat \ {0}, left \in Nat :
           Stands(b, T, p, q, left) => parse_value(b, p, Rest(b)[left]) = Parsed(x, q + Len(T))
  BY DEF IsText
<1>3. \A p, q \in Nat \ {0}, left \in Nat :
        Stands(b, T, p, q, left) => MemberAt(b, OpenArray, p, Rest(b)[left]) = Parsed(x, q + Len(T))
  BY <1>1, <1>2
<1> QED
  BY <1>2, <1>3 DEF IsMember

-----------------------------------------------------------------------------
(* Containers as values. *)

\* A chain begins as its first member does.
LEMMA ChainBegins ==
    ASSUME NEW open \in {OpenArray, OpenObject}, NEW space \in Seq(Space),
           NEW ms \in Seq(Seq(Characters)), NEW n \in Nat, Len(ms) = n + 1, Begun(ms[1])
    PROVE  Begun(Chain(ms, open, space))
<1> DEFINE more == FlattenSeq(Others(ms, space))
           end == Last_(open, space)
           m == ms[1]
<1>1. more \in Seq(Characters)
  BY OthersType
<1>2. end \in Seq(Characters)
  BY PartsOfContainers
<1>3. Chain(ms, open, space) = m \o (more \o end)
  BY DEF Chain, Others
<1> HIDE DEF more, end, m
<1>4. more \o end \in Seq(Characters)
  BY <1>1, <1>2, CharactersAreBytes, Zenon
<1>5. Begun(m)
  BY DEF m
<1> QED
  BY <1>3, <1>4, <1>5, BegunJoin, Zenon

\* What is made of the members of a container.
ListValue(open, xs) == IF open = OpenArray THEN Array(xs) ELSE Filled(xs)

LEMMA ContainerIsText ==
    ASSUME NEW b \in Seq(Byte), NEW open \in {OpenArray, OpenObject}, NEW space \in Seq(Space),
           NEW n \in Nat, NEW V, NEW ms \in Seq(Seq(Characters)), NEW xs \in Seq(V),
           AreMembers(b, open, n, ms, xs)
    PROVE  IsText(b, Listed(open, ms, space), ListValue(open, xs))
<1> DEFINE f == <<open>>
           end == <<Close(open)>>
           chain == Chain(ms, open, space)
           t == IF n = 0 THEN end ELSE chain
           w == space \o t
           T == f \o w
           y == ListValue(open, xs)
<1>0. Len(ms) = n /\ Len(xs) = n
  BY DEF AreMembers
<1>1. T = Listed(open, ms, space)
  <2>1. CASE n = 0
    <3>1. Listed(open, ms, space) = <<open>> \o (space \o <<Close(open)>>)
      BY <1>0, <2>1, ListedIs
    <3> QED
      BY <2>1, <3>1, Zenon
  <2>2. CASE n # 0
    <3>1. n - 1 \in Nat /\ Len(ms) = (n - 1) + 1
      BY <1>0, <2>2
    <3>2. Listed(open, ms, space) = <<open>> \o (space \o Chain(ms, open, space))
      BY <3>1, ListedIs
    <3> QED
      BY <2>2, <3>2, Zenon
  <2> QED
    BY <2>1, <2>2
<1>2. /\ f \in Seq(Characters) /\ f \in Seq(Byte) /\ Len(f) = 1 /\ f[1] = open /\ open \in Opening
      /\ space \in Seq(Characters) /\ space \in Seq(Byte) /\ Len(space) \in Nat
      /\ end \in Seq(Characters) /\ end \in Seq(Byte) /\ Len(end) = 1 /\ end[1] = Close(open)
      /\ Close(open) \notin Space
  BY PartsOfContainers, OpeningIsNot, Closing, CharactersAreBytes
<1>3. n # 0 => Begun(chain)
  <2> SUFFICES ASSUME n # 0 PROVE Begun(chain)
    OBVIOUS
  <2>1. n - 1 \in Nat /\ Len(ms) = (n - 1) + 1 /\ 1 \in 1 .. n
    BY <1>0
  <2>2. IsMember(b, open, ms[1], xs[1])
    BY <2>1 DEF AreMembers
  <2>3. Begun(ms[1])
    BY <2>2 DEF IsMember
  <2> QED
    BY <2>1, <2>3, ChainBegins
<1>4. /\ t \in Seq(Characters) /\ t \in Seq(Byte) /\ Len(t) \in Nat /\ Len(t) # 0 /\ t[1] \notin Space
      /\ n = 0 => t[1] = Close(open)
      /\ n # 0 => t = chain /\ t[1] # Close(open)
  <2>1. CASE n = 0
    <3>1. t = end
      BY <2>1
    <3> HIDE DEF t
    <3>2. end \in Seq(Characters)
      BY <1>2
    <3>3. end \in Seq(Byte)
      BY <1>2
    <3>4. Len(end) = 1 /\ Len(end) \in Nat /\ Len(end) # 0 /\ end[1] = Close(open) /\ Close(open) \notin Space
      BY <1>2
    <3> HIDE DEF end
    <3> QED
      BY <2>1, <3>1, <3>2, <3>3, <3>4, Zenon
  <2>2. CASE n # 0
    <3>1. t = chain
      BY <2>2
    <3> HIDE DEF t, chain
    <3>2. t \in Seq(Byte) /\ t \in Seq(Characters) /\ Len(t) \in Nat /\ Len(t) # 0 /\ t[1] \in Opening
      BY <1>3, <2>2, <3>1, BegunIs
    <3>3. t[1] \notin Space /\ t[1] # Close(open)
      <4>1. \A c \in Opening : c \notin Space /\ c # Close(open)
        BY OpeningIsNot
      <4> QED
        BY <3>2, <4>1, Zenon
    <3> QED
      BY <2>2, <3>1, <3>2, <3>3
  <2> QED
    BY <2>1, <2>2
<1> HIDE DEF f, end, chain, t
<1>5. w \in Seq(Characters) /\ w \in Seq(Byte) /\ Len(w) \in Nat
  BY <1>2, <1>4, CharactersAreBytes, Zenon
<1>6. Len(w) = Len(space) + Len(t)
  <2>1. space \in Seq(Byte) /\ t \in Seq(Byte)
    BY <1>2, <1>4
  <2> QED
    BY <2>1, Joined
<1> HIDE DEF w
<1>7. Begun(f)
  BY <1>2 DEF Begun
<1>8. Begun(T) /\ T[1] = open /\ Len(T) = 1 + Len(w)
  <2>1. /\ Begun(f \o w) /\ (f \o w)[1] = f[1]
        /\ Len(f \o w) = Len(f) + Len(w) /\ Len(f) \in Nat /\ Len(w) \in Nat
    <3> HIDE DEF T, y
    <3> QED
      BY <1>5, <1>7, BegunJoin
  <2> QED
    BY <1>2, <2>1, Zenon
<1>9. ASSUME NEW p \in Nat \ {0}, NEW q \in Nat \ {0}, NEW left \in Nat, Stands(b, T, p, q, left)
      PROVE  parse_value(b, p, Rest(b)[left]) = Parsed(y, q + Len(T))
  <2> DEFINE at == (q + 1) + Len(space)
             rest == Rest(b)[left]
             res == IF At(b, at) = Close(open) THEN Parsed(<<>>, at + 1) ELSE rest[open][at]
  <2>1. skip_ws(b, p) = q /\ Lies(b, q, T) /\ At(b, q + Len(T)) \in Ending /\ Len(T) <= left
    BY <1>9, Zenon DEF Stands
  <2>2. TwoLie(b, q, f, w)
    BY <1>2, <1>5, <2>1, TwoDoLie, Zenon
  <2>3. Lies(b, q + 1, w) /\ q + 1 \in Nat \ {0} /\ (q + 1) + Len(w) = q + Len(T)
    <3>1. Lies(b, q + Len(f), w) /\ q + Len(f) \in Nat \ {0} /\ (q + Len(f)) + Len(w) = q + Len(f \o w)
      BY <2>2, Zenon DEF TwoLie
    <3> QED
      BY <1>2, <3>1
  <2>4. Skipped(b, q + 1, space, t)
    <3>1. Lies(b, q + 1, space \o t)
      BY <2>3 DEF w
    <3> QED
      BY <1>4, <2>3, <3>1, SpaceIsSkipped, Zenon
  <2>5. skip_ws(b, q + 1) = at /\ At(b, at) = t[1] /\ Lies(b, at, t) /\ at \in Nat \ {0} /\ at + Len(t) = (q + 1) + Len(w)
    BY <2>4, Zenon DEF Skipped, w
  <2> HIDE DEF at
  <2>6. At(b, q) = open
    <3>1. T \in Seq(Characters)
      BY <1>8 DEF Begun
    <3>2. Len(T) # 0
      BY <1>8 DEF Begun
    <3>3. T[1] = open
      BY <1>8
    <3>4. Lies(b, q, T)
      BY <2>1
    <3> HIDE DEF T
    <3>5. At(b, q) = T[1]
      BY <3>1, <3>2, <3>4, FirstOfText
    <3> QED
      BY <3>3, <3>5
  <2>7. parse_value(b, p, rest) = ListOf(open, res)
    <3>1. \A o \in {OpenArray, OpenObject} : At(b, q) = o =>
            parse_value(b, p, rest)
              = ListOf(o, IF At(b, skip_ws(b, q + 1)) = Close(o) THEN Parsed(<<>>, skip_ws(b, q + 1) + 1)
                          ELSE rest[o][skip_ws(b, q + 1)])
      <4> HIDE DEF rest
      <4> QED
        BY <2>1, ValueAt
    <3> HIDE DEF rest
    <3> QED
      BY <2>5, <2>6, <3>1, Zenon
  <2>8. res = Parsed(xs, q + Len(T))
    <3>1. CASE n = 0
      <4>1. xs = <<>>
        BY <1>0, <3>1
      <4>2. Len(t) = 1 /\ At(b, at) = Close(open)
        <5>1. t = end
          BY <3>1 DEF t
        <5> QED
          BY <1>2, <2>5, <5>1
      <4>3. at + 1 = q + Len(T)
        BY <2>3, <2>5, <4>2
      <4> HIDE DEF T
      <4> QED
        BY <4>1, <4>2, <4>3, Zenon
    <3>2. CASE n # 0
      <4>1. t = chain /\ At(b, at) # Close(open) /\ At(b, at) \notin Space
        BY <1>4, <2>5, <3>2
      <4>2. skip_ws(b, at) = at
        <5>1. Len(b) \in Nat /\ at <= Len(b) + 1
          <6>1. at + Len(t) <= Len(b) + 1 /\ Len(b) \in Nat
            BY <1>4, <2>5, FoundThere
          <6> QED
            BY <1>4, <2>5, <6>1
        <5> QED
          BY <2>5, <4>1, <5>1, BehindNone DEF skip_ws
      <4>3. Len(t) <= left
        BY <1>2, <1>4, <1>5, <1>6, <1>8, <2>1
      <4>4. Rest(b)[left][open][at] = Parsed(xs, at + Len(t))
        <5>1. n - 1 \in Nat /\ (n - 1) + 1 = n
          BY <3>2
        <5>2. \A i, j \in Nat \ {0}, k \in Nat :
                skip_ws(b, i) = j /\ Lies(b, j, chain) /\ Len(chain) <= k
                => Rest(b)[k][open][i] = Parsed(xs, j + Len(chain))
          <6>1. AreMembers(b, open, (n - 1) + 1, ms, xs)
            BY <5>1
          <6>2. Chained(b, open, space, ms, xs)
            BY <5>1, <6>1, MembersAreRead, Zenon
          <6> QED
            BY <6>2, Zenon DEF chain, Chained
        <5> QED
          BY <2>5, <4>1, <4>2, <4>3, <5>2, Zenon
      <4>5. at + Len(t) = q + Len(T)
        BY <2>3, <2>5
      <4> HIDE DEF T
      <4> QED
        BY <4>1, <4>4, <4>5, Zenon
    <3> QED
      BY <3>1, <3>2
  <2> HIDE DEF res, T
  <2>9. ListOf(open, Parsed(xs, q + Len(T))) = Parsed(y, q + Len(T))
    BY DEF ListOf, Parsed, ListValue
  <2> QED
    BY <2>7, <2>8, <2>9, Zenon
<1> HIDE DEF T, y
<1>10. IsText(b, T, y)
  BY <1>8, <1>9 DEF IsText
<1> QED
  BY <1>1, <1>10, Zenon DEF y

\* A sequence of as many as n, each in S.
LEMMA SequenceOf ==
    ASSUME NEW n \in Nat, NEW S, NEW s, s = [i \in 1 .. n |-> s[i]], \A i \in 1 .. n : s[i] \in S
    PROVE  s \in Seq(S) /\ Len(s) = n
<1> DEFINE f == [i \in 1 .. n |-> s[i]]
<1>1. f \in [1 .. n -> S]
  OBVIOUS
<1>2. f \in Seq(S) /\ Len(f) = n
  BY <1>1
<1> HIDE DEF f
<1> QED
  BY <1>2 DEF f

\* An array whose elements are texts is one.
LEMMA ArrayIsText ==
    ASSUME NEW b \in Seq(Byte), NEW space \in Seq(Space), NEW P, NEW inner, NEW normals,
           AreTexts(b, P, inner, normals), NEW x \in [t : {"array"}, v : Seq(P)]
    PROVE  IsText(b, TextBy(x, inner, space), TextNormalBy(x, normals))
<1> DEFINE vs == x.v
           n == Len(vs)
           ms == [i \in DOMAIN vs |-> inner[vs[i]]]
           xs == [i \in DOMAIN vs |-> normals[vs[i]]]
           V == {normals[u] : u \in P}
<1>1. vs \in Seq(P) /\ n \in Nat /\ DOMAIN vs = 1 .. n /\ x.t = "array"
  OBVIOUS
<1>2. TextBy(x, inner, space) = Listed(OpenArray, ms, space) /\ TextNormalBy(x, normals) = Array(xs)
  BY <1>1 DEF TextBy, TextNormalBy
<1>3. ASSUME NEW i \in 1 .. n PROVE IsText(b, ms[i], xs[i]) /\ xs[i] \in V /\ ms[i] \in Seq(Characters)
  <2>1. vs[i] \in P
    BY <1>1, ElementOfSeq
  <2>2. ms[i] = inner[vs[i]] /\ xs[i] = normals[vs[i]]
    BY <1>1
  <2> HIDE DEF ms, xs, vs
  <2>3. IsText(b, inner[vs[i]], normals[vs[i]])
    BY <2>1, Zenon DEF AreTexts
  <2>4. IsText(b, ms[i], xs[i])
    BY <2>2, <2>3, Zenon
  <2>5. xs[i] \in V
    BY <2>1, <2>2
  <2>6. ms[i] \in Seq(Characters)
    BY <2>4, Zenon DEF IsText, Begun
  <2> QED
    BY <2>4, <2>5, <2>6
<1>4. ms = [i \in 1 .. n |-> ms[i]] /\ xs = [i \in 1 .. n |-> xs[i]]
  BY <1>1
<1> HIDE DEF ms, xs, vs, n, V
<1>5. ms \in Seq(Seq(Characters)) /\ Len(ms) = n
  BY <1>1, <1>3, <1>4, SequenceOf
<1>6. xs \in Seq(V) /\ Len(xs) = n
  BY <1>1, <1>3, <1>4, SequenceOf
<1>7. AreMembers(b, OpenArray, n, ms, xs)
  <2>1. \A i \in 1 .. n : IsMember(b, OpenArray, ms[i], xs[i])
    BY <1>3, TextIsMember
  <2> QED
    BY <1>5, <1>6, <2>1, Zenon DEF AreMembers
<1>8. IsText(b, Listed(OpenArray, ms, space), ListValue(OpenArray, xs))
  BY <1>1, <1>5, <1>6, <1>7, ContainerIsText
<1>9. ListValue(OpenArray, xs) = Array(xs)
  BY DEF ListValue
<1> QED
  BY <1>2, <1>8, <1>9, Zenon

\* So is an object whose values are texts.
LEMMA ObjectIsText ==
    ASSUME NEW b \in Seq(Byte), NEW space \in Seq(Space), NEW P, NEW inner, NEW normals,
           AreTexts(b, P, inner, normals),
           NEW x \in [t : {"object"}, v : Seq([key : Seq(Characters), value : P])]
    PROVE  IsText(b, TextBy(x, inner, space), TextNormalBy(x, normals))
<1> DEFINE vs == x.v
           n == Len(vs)
           ms == [i \in DOMAIN vs |->
                    Quoted(vs[i].key) \o (space \o (<<Colon>> \o (space \o inner[vs[i].value])))]
           xs == [i \in DOMAIN vs |-> Pair(vs[i].key, normals[vs[i].value])]
           V == {Pair(k, normals[u]) : k \in Seq(Characters), u \in P}
<1>1. vs \in Seq([key : Seq(Characters), value : P]) /\ n \in Nat /\ DOMAIN vs = 1 .. n /\ x.t = "object"
  OBVIOUS
<1>2. TextBy(x, inner, space) = Listed(OpenObject, ms, space) /\ TextNormalBy(x, normals) = Filled(xs)
  BY <1>1 DEF TextBy, TextNormalBy
<1>3. ASSUME NEW i \in 1 .. n
      PROVE  IsMember(b, OpenObject, ms[i], xs[i]) /\ xs[i] \in V /\ ms[i] \in Seq(Characters)
  <2> DEFINE k == vs[i].key
             u == vs[i].value
  <2>1. k \in Seq(Characters) /\ u \in P
    <3>1. vs[i] \in [key : Seq(Characters), value : P]
      BY <1>1, ElementOfSeq
    <3> HIDE DEF vs
    <3> QED
      BY <3>1
  <2>2. ms[i] = PairText(k, inner[u], space) /\ xs[i] = Pair(k, normals[u])
    BY <1>1 DEF PairText
  <2> HIDE DEF ms, xs, vs, k, u
  <2>3. IsText(b, inner[u], normals[u])
    BY <2>1, Zenon DEF AreTexts
  <2>4. IsMember(b, OpenObject, PairText(k, inner[u], space), Pair(k, normals[u]))
    BY <2>1, <2>3, PairIsMember
  <2>5. IsMember(b, OpenObject, ms[i], xs[i])
    BY <2>2, <2>4, Zenon
  <2>6. xs[i] \in V
    BY <2>1, <2>2
  <2>7. ms[i] \in Seq(Characters)
    BY <2>5, Zenon DEF IsMember, Begun
  <2> QED
    BY <2>5, <2>6, <2>7
<1>4. ms = [i \in 1 .. n |-> ms[i]] /\ xs = [i \in 1 .. n |-> xs[i]]
  BY <1>1
<1> HIDE DEF ms, xs, vs, n, V
<1>5. ms \in Seq(Seq(Characters)) /\ Len(ms) = n
  BY <1>1, <1>3, <1>4, SequenceOf
<1>6. xs \in Seq(V) /\ Len(xs) = n
  BY <1>1, <1>3, <1>4, SequenceOf
<1>7. AreMembers(b, OpenObject, n, ms, xs)
  BY <1>3, <1>5, <1>6, Zenon DEF AreMembers
<1>8. IsText(b, Listed(OpenObject, ms, space), ListValue(OpenObject, xs))
  BY <1>1, <1>5, <1>6, <1>7, ContainerIsText
<1>9. ListValue(OpenObject, xs) = Filled(xs)
  BY DEF ListValue, OpenObject, OpenArray
<1> QED
  BY <1>2, <1>8, <1>9, Zenon

(***************************************************************************)
(* The text of a value of any nesting is read as it, wherever it stands.   *)
(***************************************************************************)
LEMMA ValuesAreTexts ==
    ASSUME NEW b \in Seq(Byte), NEW space \in Seq(Space)
    PROVE  \A n \in Nat : AreTexts(b, Printable[n], Texts(space)[n], TextNormals[n])
<1> DEFINE Are(n) == AreTexts(b, Printable[n], Texts(space)[n], TextNormals[n])
           S == {n \in Nat : Are(n)}
<1>0. ASSUME NEW n \in Nat, NEW x \in Printable[n]
      PROVE  /\ Texts(space)[n][x] = TextBy(x, Prior(Texts(space), n), space)
             /\ TextNormals[n][x] = TextNormalBy(x, Prior(TextNormals, n))
  <2>1. Texts(space)[n] = [value \in Printable[n] |-> TextBy(value, Prior(Texts(space), n), space)]
    BY TextsUnfold, Zenon
  <2>2. TextNormals[n] = [value \in Printable[n] |-> TextNormalBy(value, Prior(TextNormals, n))]
    BY TextNormalsUnfold, Zenon
  <2> QED
    BY <2>1, <2>2, Zenon
<1>1. Are(0)
  <2> SUFFICES ASSUME NEW x \in Printable[0] PROVE IsText(b, Texts(space)[0][x], TextNormals[0][x])
    BY DEF AreTexts
  <2>1. x \in PrintableScalars
    BY PrintableUnfolds, 0 \in Nat DEF Unfolding
  <2>2. IsText(b, TextBy(x, Prior(Texts(space), 0), space), TextNormalBy(x, Prior(TextNormals, 0)))
    BY <2>1, ScalarIsText
  <2>3. 0 \in Nat
    OBVIOUS
  <2> QED
    BY <1>0, <2>2, <2>3, Zenon
<1>2. ASSUME NEW n \in Nat, Are(n) PROVE Are(n + 1)
  <2> DEFINE P == Printable[n]
             inner == Texts(space)[n]
             normals == TextNormals[n]
  <2> SUFFICES ASSUME NEW x \in Printable[n + 1]
               PROVE  IsText(b, Texts(space)[n + 1][x], TextNormals[n + 1][x])
    BY DEF AreTexts
  <2>0. n + 1 \in Nat /\ (n + 1) - 1 = n /\ n + 1 # 0
    OBVIOUS
  <2>1. Prior(Texts(space), n + 1) = inner /\ Prior(TextNormals, n + 1) = normals /\ Prior(Printable, n + 1) = P
    BY <2>0, Zenon DEF Prior
  <2>2. Texts(space)[n + 1][x] = TextBy(x, inner, space) /\ TextNormals[n + 1][x] = TextNormalBy(x, normals)
    BY <1>0, <2>0, <2>1, Zenon
  <2>3. AreTexts(b, P, inner, normals)
    BY <1>2
  <2>4. \/ x \in PrintableScalars
        \/ x \in [t : {"array"}, v : Seq(P)]
        \/ x \in [t : {"object"}, v : Seq([key : Seq(Characters), value : P])]
    <3>1. Printable[n + 1] = Unfolding([name |-> "Printable"], n + 1, P)
      BY <2>0, <2>1, PrintableUnfolds, Zenon
    <3> HIDE DEF P
    <3>2. Printable[n + 1] = PrintableScalars \cup [t : {"array"}, v : Seq(P)]
                               \cup [t : {"object"}, v : Seq([key : Seq(Characters), value : P])]
      BY <2>0, <3>1 DEF Unfolding
    <3> QED
      BY <3>2
  <2> HIDE DEF P, inner, normals
  <2>5. IsText(b, TextBy(x, inner, space), TextNormalBy(x, normals))
    BY <2>3, <2>4, ScalarIsText, ArrayIsText, ObjectIsText
  <2> QED
    BY <2>2, <2>5, Zenon
<1> HIDE DEF Are
<1>3. \A n \in Nat : n \in S
  <2>1. 0 \in S /\ \A n \in S : n + 1 \in S
    BY <1>1, <1>2
  <2>2. S \in SUBSET Nat
    OBVIOUS
  <2> HIDE DEF S
  <2> QED
    BY <2>1, <2>2, Induction
<1> QED
  BY <1>3, Zenon DEF Are

-----------------------------------------------------------------------------
(* Texts. *)

\* A text without a zero is a C string.
LEMMA TextsAreCStrings == \A text \in Seq(Characters) : CString(text) = text
<1> TAKE text \in Seq(Characters)
<1>1. {i \in DOMAIN text : text[i] = 0} = {}
  <2>1. ASSUME NEW i \in DOMAIN text PROVE text[i] # 0
    <3>1. text[i] \in Characters
      OBVIOUS
    <3>2. \A c \in Characters : c # 0
      BY DEF Characters
    <3> QED
      BY <3>1, <3>2, Zenon
  <2> QED
    BY <2>1
<1> QED
  BY <1>1, Zenon DEF CString

\* The values of fewer containers are among those of more.
LEMMA ScalarsArePrintable == \A n \in Nat : PrintableScalars \subseteq Printable[n]
<1> TAKE n \in Nat
<1>1. Printable[n] = Unfolding([name |-> "Printable"], n, Prior(Printable, n))
  BY PrintableUnfolds
<1> QED
  BY <1>1 DEF Unfolding

(***************************************************************************)
(* The text of a value, with white space around everything, is parsed into *)
(* it.                                                                     *)
(***************************************************************************)
THEOREM SpacedIsParsed ==
    ASSUME NEW d \in Printable[MaxNesting], NEW space \in Seq(Space)
    PROVE  Spaced(d, space) \in Seq(Characters) /\ parse(Spaced(d, space)) = JsonNormal(d)
<1> DEFINE T == Texts(space)[MaxNesting][d]
           x == TextNormals[MaxNesting][d]
           b == Spaced(d, space)
           t == T \o space
           q == 1 + Len(space)
<1>0. MaxNesting \in Nat
  BY ValuesAssumption
<1>1. \A c \in Seq(Byte) : IsText(c, T, x)
  BY <1>0, ValuesAreTexts, Zenon DEF AreTexts
<1>2. Begun(T)
  <2>1. <<>> \in Seq(Byte)
    OBVIOUS
  <2> QED
    BY <1>1, <2>1, Zenon DEF IsText
<1>3. T \in Seq(Byte) /\ T \in Seq(Characters) /\ Len(T) \in Nat /\ Len(T) # 0 /\ T[1] \notin Space
  BY <1>2, BegunIs, Zenon
<1>4. space \in Seq(Characters) /\ space \in Seq(Byte) /\ Len(space) \in Nat
  <2>1. OpenArray \in {OpenArray, OpenObject}
    OBVIOUS
  <2>2. space \in Seq(Characters) /\ space \in Seq(Byte)
    BY <2>1, PartsOfContainers
  <2> QED
    BY <2>2
<1> HIDE DEF T, x
<1>5. b = space \o t
  BY DEF Spaced, T
<1>6. Begun(t) /\ t[1] = T[1] /\ Len(t) = Len(T) + Len(space)
  <2>1. /\ Begun(T \o space) /\ (T \o space)[1] = T[1]
        /\ Len(T \o space) = Len(T) + Len(space) /\ Len(T) \in Nat /\ Len(space) \in Nat
    <3> HIDE DEF t, b, q
    <3> QED
      BY <1>2, <1>4, BegunJoin
  <2> QED
    BY <2>1, Zenon
<1>7. t \in Seq(Byte) /\ t \in Seq(Characters) /\ Len(t) \in Nat /\ Len(t) # 0
  BY <1>6, BegunIs, Zenon
<1> HIDE DEF t, b
<1>8. b \in Seq(Characters) /\ b \in Seq(Byte) /\ Len(b) \in Nat /\ Len(b) = Len(space) + Len(t)
  <2>1. b \in Seq(Characters)
    BY <1>4, <1>5, <1>7, CharactersAreBytes, Zenon
  <2>2. space \in Seq(Byte) /\ t \in Seq(Byte)
    BY <1>4, <1>7
  <2>3. Len(space \o t) = Len(space) + Len(t)
    BY <2>2, Joined
  <2>4. b \in Seq(Byte) /\ Len(b) \in Nat
    BY <2>1, CharactersAreBytes
  <2>5. Len(b) = Len(space) + Len(t)
    BY <1>5, <2>3, Zenon
  <2> QED
    BY <2>1, <2>4, <2>5, Zenon
<1>9. Lies(b, 1, b)
  BY <1>8 DEF Lies, Begins
<1>10. 1 \in Nat \ {0}
  OBVIOUS
<1>11. Skipped(b, 1, space, t)
  <2>1. Lies(b, 1, space \o t)
    BY <1>5, <1>9
  <2> QED
    BY <1>3, <1>6, <1>7, <1>8, <1>10, <2>1, SpaceIsSkipped, Zenon
<1>12. skip_ws(b, 1) = q /\ Lies(b, q, t) /\ q \in Nat \ {0}
  BY <1>11, Zenon DEF Skipped
<1> HIDE DEF q
<1>13. Lies(b, q, T) /\ Lies(b, q + Len(T), space) /\ q + Len(T) \in Nat \ {0}
  <2>1. Lies(b, q, T \o space)
    BY <1>12 DEF t
  <2>2. TwoLie(b, q, T, space)
    BY <1>3, <1>4, <1>8, <1>12, <2>1, TwoDoLie, Zenon
  <2> QED
    BY <2>2, Zenon DEF TwoLie
<1>14. At(b, q + Len(T)) \in Ending
  <2>1. CASE Len(space) = 0
    <3>1. q + Len(T) = Len(b) + 1
      BY <1>3, <1>6, <1>8, <2>1 DEF q
    <3>2. At(b, Len(b) + 1) = 0
      BY <1>8 DEF At
    <3> QED
      BY <3>1, <3>2 DEF Ending
  <2>2. CASE Len(space) # 0
    <3> DEFINE r == q + Len(T)
    <3>1. Lies(b, r, space) /\ r \in Nat \ {0}
      BY <1>13
    <3> HIDE DEF r
    <3>2. At(b, r) = space[1]
      BY <1>4, <1>8, <2>2, <3>1, FoundThere
    <3>3. space[1] \in Space
      <4>1. 1 \in 1 .. Len(space)
        BY <1>4, <2>2
      <4> QED
        BY <4>1, ElementOfSeq
    <3>4. Space \subseteq Ending
      BY DEF Space, Ending
    <3> QED
      BY <3>2, <3>3, <3>4 DEF r
  <2> QED
    BY <2>1, <2>2
<1>15. Len(T) <= Len(b)
  BY <1>3, <1>4, <1>6, <1>8
<1>16. parse_value(b, 1, Rest(b)[Len(b)]) = Parsed(x, q + Len(T))
  <2>1. Stands(b, T, 1, q, Len(b))
    BY <1>12, <1>13, <1>14, <1>15, Zenon DEF Stands
  <2>2. \A i, j \in Nat \ {0}, n \in Nat :
          Stands(b, T, i, j, n) => parse_value(b, i, Rest(b)[n]) = Parsed(x, j + Len(T))
    BY <1>1, <1>8, Zenon DEF IsText
  <2> QED
    BY <1>8, <1>10, <1>12, <2>1, <2>2, Zenon
<1>17. Outcome(Parsed(x, q + Len(T))) = x
  BY DEF Outcome, Parsed
<1>18. parse(b) = x
  BY <1>8, <1>16, <1>17, TextsAreCStrings, Zenon DEF parse
<1> QED
  BY <1>8, <1>18, Zenon DEF b, x, JsonNormal

\* What dump() writes is such a text, without white space.
THEOREM DumpIsSpaced == \A d \in Printable[MaxNesting] : dump(d) = Spaced(d, <<>>)
<1> TAKE d \in Printable[MaxNesting]
<1> DEFINE T == Texts(<<>>)[MaxNesting][d]
<1>1. T \in Seq(Byte)
  <2>1. <<>> \in Seq(Space) /\ MaxNesting \in Nat /\ <<>> \in Seq(Byte)
    BY ValuesAssumption
  <2>2. IsText(<<>>, T, TextNormals[MaxNesting][d])
    BY <2>1, ValuesAreTexts, Zenon DEF AreTexts
  <2> QED
    BY <2>2, BegunIs, Zenon DEF IsText
<1> HIDE DEF T
<1>2. <<>> \o (T \o <<>>) = T
  BY <1>1
<1> QED
  BY <1>2, Zenon DEF dump, Spaced, T

-----------------------------------------------------------------------------
(* Characters written as \uXXXX. *)

\* A digit is read as it is written.
LEMMA HexIsRead == \A d \in 0 .. 15 : HexText(d) \in Characters /\ HexDigit(HexText(d)) = d /\ d # 16
<1> TAKE d \in 0 .. 15
<1>1. CASE d < 10
  BY <1>1 DEF HexText, HexDigit, Zero, Digit, Characters
<1>2. CASE ~ (d < 10)
  BY <1>2 DEF HexText, HexDigit, Zero, Digit, Characters
<1> QED
  BY <1>1, <1>2

\* Division by sixteen.
Sixteenth(x) == x \div 16
Remainder(x) == x % 16

LEMMA Sixteenths ==
    ASSUME NEW x \in Nat
    PROVE  x - 16 * Sixteenth(x) = Remainder(x) /\ Remainder(x) \in 0 .. 15 /\ Sixteenth(x) \in Nat
<1>1. ASSUME NEW y \in Int PROVE y - 16 * (y \div 16) = y % 16
  BY SMT
<1>2. x % 16 \in 0 .. 15
  BY SMT
<1>3. x \div 16 \in Nat
  BY SMT
<1>4. x - 16 * (x \div 16) = x % 16
  BY <1>1
<1> QED
  BY <1>2, <1>3, <1>4 DEF Sixteenth, Remainder

\* The number of four digits, and the text with them.
HexNumber(d1, d2, d3, d4) == 4096 * d1 + 256 * d2 + 16 * d3 + d4
HexString(d1, d2, d3, d4) ==
    <<Quote, Backslash, 117, HexText(d1), HexText(d2), HexText(d3), HexText(d4), Quote>>

DividedThrice(x, a, e, f, r, s, t) ==
    /\ x \in Codes /\ a \in Nat /\ e \in Nat /\ f \in Nat
    /\ r \in 0 .. 15 /\ s \in 0 .. 15 /\ t \in 0 .. 15
    /\ x - 16 * a = r /\ a - 16 * e = s /\ e - 16 * f = t
Digits(x, f, t, s, r) == f \in 0 .. 15 /\ HexNumber(f, t, s, r) = x

LEMMA HexBounds ==
    \A x, a, e, f, r, s, t : DividedThrice(x, a, e, f, r, s, t) => Digits(x, f, t, s, r)
<1> TAKE x, a, e, f, r, s, t
<1> HAVE DividedThrice(x, a, e, f, r, s, t)
<1>d. /\ x \in Codes /\ a \in Nat /\ e \in Nat /\ f \in Nat
      /\ r \in 0 .. 15 /\ s \in 0 .. 15 /\ t \in 0 .. 15
  BY Zenon DEF DividedThrice
<1>0. x <= 65535 /\ x \in Nat
  BY <1>d, SMT DEF Codes
<1>a. x - 16 * a = r
  BY SMT DEF DividedThrice
<1>b. a - 16 * e = s
  BY SMT DEF DividedThrice
<1>c. e - 16 * f = t
  BY SMT DEF DividedThrice
<1>1. 16 * a <= 65535
  BY <1>0, <1>a, <1>d, SMT
<1>2. 16 * e <= 4095
  BY <1>1, <1>b, <1>d, SMT
<1>3. 16 * f <= 255
  BY <1>2, <1>c, <1>d, SMT
<1>4. f <= 15
  BY <1>3, <1>d, SMT
<1>5. 4096 * f + 256 * t + 16 * s + r = x
  BY <1>0, <1>a, <1>b, <1>c, <1>d, SMT
<1>6. f \in 0 .. 15
  BY <1>4, <1>d, SMT
<1> QED
  BY <1>5, <1>6, SMT DEF HexNumber, Digits

\* The digits of a character, and its number.
LEMMA HexDigits ==
    ASSUME NEW code \in Codes
    PROVE  \E d1, d2, d3, d4 \in 0 .. 15 :
             Escaped(code) = HexString(d1, d2, d3, d4) /\ HexNumber(d1, d2, d3, d4) = code
<1> DEFINE a == Sixteenth(code)
           e == Sixteenth(a)
           f == Sixteenth(e)
           r == Remainder(code)
           s == Remainder(a)
           t == Remainder(e)
<1>0. code \in Nat /\ code <= 65535
  BY SMT DEF Codes
<1>1. code - 16 * a = r /\ r \in 0 .. 15 /\ a \in Nat
  BY <1>0, Sixteenths
<1>2. a - 16 * e = s /\ s \in 0 .. 15 /\ e \in Nat
  <2> HIDE DEF a
  <2> QED
    BY <1>1, Sixteenths
<1>3. e - 16 * f = t /\ t \in 0 .. 15 /\ f \in Nat
  <2> HIDE DEF e
  <2> QED
    BY <1>2, Sixteenths
<1>4. code \div 4096 = f
  <2>1. code \div 4096 = ((code \div 16) \div 16) \div 16
    BY <1>0, SMT
  <2> QED
    BY <2>1, SMT DEF Sixteenth
<1>5. (code \div 256) % 16 = t
  <2>1. code \div 256 = (code \div 16) \div 16
    BY <1>0, SMT
  <2>2. code \div 256 = e
    BY <2>1, SMT DEF Sixteenth
  <2> HIDE DEF e
  <2> QED
    BY <2>2, SMT DEF Remainder
<1>6. (code \div 16) % 16 = s /\ code % 16 = r
  BY SMT DEF Sixteenth, Remainder
<1> HIDE DEF a, e, f, r, s, t
<1>7. f \in 0 .. 15 /\ HexNumber(f, t, s, r) = code
  <2>1. DividedThrice(code, a, e, f, r, s, t)
    BY <1>1, <1>2, <1>3, Zenon DEF DividedThrice
  <2>2. Digits(code, f, t, s, r)
    BY <2>1, HexBounds, Zenon
  <2> QED
    BY <2>2, Zenon DEF Digits
<1>8. Escaped(code) = HexString(f, t, s, r)
  BY <1>4, <1>5, <1>6, SMT DEF Escaped, HexString
<1> QED
  BY <1>1, <1>2, <1>3, <1>7, <1>8, Zenon

\* UTF-8 has no zero for a character that is none.
LEMMA Utf8Type == \A code \in Codes : Utf8(code) \in Seq(Characters)
<1> TAKE code \in Codes
<1> DEFINE tail(n) == 128 + (n % 64)
           two == 192 + (code \div 64)
           three == 224 + (code \div 4096)
<1>1. \A n \in Nat : tail(n) \in Characters
  BY SMT DEF Characters
<1>2. code \div 64 \in Nat /\ code \in Nat
  BY SMT DEF Codes
<1>3. ~ (code < 128) /\ code < 2048 => two \in Characters
  BY SMT DEF Characters, Codes
<1>4. three \in Characters
  BY SMT DEF Characters, Codes
<1>5. Utf8(code) = IF code < 128 THEN <<code>>
                   ELSE IF code < 2048 THEN <<two, tail(code)>> ELSE <<three, tail(code \div 64), tail(code)>>
  BY SMT DEF Utf8
<1>6. code < 128 => code \in Characters
  <2>1. code \in Nat /\ code # 0
    BY SMT DEF Codes
  <2> QED
    BY <2>1, SMT DEF Characters
<1>7. tail(code) \in Characters /\ tail(code \div 64) \in Characters
  BY <1>1, <1>2
<1> HIDE DEF two, three, tail
<1> QED
  BY <1>3, <1>4, <1>5, <1>6, <1>7, SMT

\* Four digits are read as the character they are.
HexAt(b, p, d1, d2, d3, d4) ==
    /\ p \in Nat /\ d1 \in 0 .. 15 /\ d2 \in 0 .. 15 /\ d3 \in 0 .. 15 /\ d4 \in 0 .. 15
    /\ At(b, p) = HexText(d1) /\ At(b, p + 1) = HexText(d2)
    /\ At(b, p + 2) = HexText(d3) /\ At(b, p + 3) = HexText(d4)

HexIs(b, p, d1, d2, d3, d4) ==
    CodePointAt(b, p) = Parsed(Utf8(HexNumber(d1, d2, d3, d4)), p + 4)

LEMMA CodePointIsRead ==
    \A b, p, d1, d2, d3, d4 : HexAt(b, p, d1, d2, d3, d4) => HexIs(b, p, d1, d2, d3, d4)
<1> TAKE b, p, d1, d2, d3, d4
<1> HAVE HexAt(b, p, d1, d2, d3, d4)
<1>d. p \in Nat /\ d1 \in 0 .. 15 /\ d2 \in 0 .. 15 /\ d3 \in 0 .. 15 /\ d4 \in 0 .. 15
  BY Zenon DEF HexAt
<1>0. /\ At(b, p) = HexText(d1) /\ At(b, p + 1) = HexText(d2)
      /\ At(b, p + 2) = HexText(d3) /\ At(b, p + 3) = HexText(d4)
  BY DEF HexAt
<1> DEFINE digit == [i \in 1 .. 4 |-> HexDigit(At(b, p + i - 1))]
<1>1. p + 1 - 1 = p /\ p + 2 - 1 = p + 1 /\ p + 3 - 1 = p + 2 /\ p + 4 - 1 = p + 3
  BY <1>d
<1>2. digit[1] = HexDigit(At(b, p)) /\ digit[2] = HexDigit(At(b, p + 1))
      /\ digit[3] = HexDigit(At(b, p + 2)) /\ digit[4] = HexDigit(At(b, p + 3))
  <2>1. \A i \in 1 .. 4 : digit[i] = HexDigit(At(b, p + i - 1))
    BY Zenon
  <2>2. 1 \in 1 .. 4 /\ 2 \in 1 .. 4 /\ 3 \in 1 .. 4 /\ 4 \in 1 .. 4
    OBVIOUS
  <2> HIDE DEF digit
  <2> QED
    BY <1>1, <2>1, <2>2
<1>3. digit[1] = d1 /\ digit[2] = d2 /\ digit[3] = d3 /\ digit[4] = d4
  <2> HIDE DEF digit
  <2> QED
    BY <1>0, <1>2, <1>d, HexIsRead
<1>4. ~ \E i \in 1 .. 4 : digit[i] = 16
  <2> HIDE DEF digit
  <2>1. digit[1] # 16 /\ digit[2] # 16 /\ digit[3] # 16 /\ digit[4] # 16
    BY <1>3, <1>d
  <2> QED
    BY <2>1
<1>5. CodePointAt(b, p) = IF \E i \in 1 .. 4 : digit[i] = 16 THEN Unparsed
        ELSE Parsed(Utf8(HexNumber(digit[1], digit[2], digit[3], digit[4])), p + 4)
  BY SMT DEF CodePointAt, HexNumber
<1> HIDE DEF digit
<1> QED
  BY <1>3, <1>4, <1>5, Zenon DEF HexIs

\* The text of a string with one character as \uXXXX is parsed into it.
THEOREM EscapedIsParsed ==
    ASSUME NEW code \in Codes
    PROVE  Escaped(code) \in Seq(Characters) /\ parse(Escaped(code)) = String(Utf8(code))
<1> DEFINE u == Utf8(code)
<1>1. PICK d1, d2, d3, d4 \in 0 .. 15 :
        Escaped(code) = HexString(d1, d2, d3, d4) /\ HexNumber(d1, d2, d3, d4) = code
  BY HexDigits, Zenon
<1> DEFINE h1 == HexText(d1)
           h2 == HexText(d2)
           h3 == HexText(d3)
           h4 == HexText(d4)
           b == <<Quote, Backslash, 117, h1, h2, h3, h4, Quote>>
<1>2. h1 \in Characters /\ h2 \in Characters /\ h3 \in Characters /\ h4 \in Characters /\ b = Escaped(code)
  BY <1>1, HexIsRead, Zenon DEF HexString
<1> HIDE DEF h1, h2, h3, h4
<1>3. Quote \in Characters /\ Backslash \in Characters /\ 117 \in Characters
  BY DEF Quote, Backslash, Characters
<1>4. b \in Seq(Characters) /\ Len(b) = 8
  BY <1>2, <1>3
<1>5. /\ b[1] = Quote /\ b[2] = Backslash /\ b[3] = 117 /\ b[4] = h1 /\ b[5] = h2 /\ b[6] = h3
      /\ b[7] = h4 /\ b[8] = Quote
  OBVIOUS
<1> HIDE DEF b
<1>6. /\ At(b, 1) = Quote /\ At(b, 2) = Backslash /\ At(b, 3) = 117
      /\ At(b, 4) = h1 /\ At(b, 5) = h2 /\ At(b, 6) = h3 /\ At(b, 7) = h4 /\ At(b, 8) = Quote
  BY <1>4, <1>5 DEF At
<1>7. CodePointAt(b, 4) = Parsed(u, 8)
  <2>1. At(b, 4) = HexText(d1) /\ At(b, 5) = HexText(d2) /\ At(b, 6) = HexText(d3) /\ At(b, 7) = HexText(d4)
    BY <1>6, Zenon DEF h1, h2, h3, h4
  <2>2. CodePointAt(b, 4) = Parsed(Utf8(HexNumber(d1, d2, d3, d4)), 4 + 4)
    <3>1. 4 + 1 = 5 /\ 4 + 2 = 6 /\ 4 + 3 = 7 /\ 4 \in Nat
      OBVIOUS
    <3>2. At(b, 4 + 1) = HexText(d2) /\ At(b, 4 + 2) = HexText(d3) /\ At(b, 4 + 3) = HexText(d4)
      BY <2>1, <3>1, Zenon
    <3> DEFINE p == 4
    <3>3. HexAt(b, p, d1, d2, d3, d4)
      BY <1>1, <2>1, <3>1, <3>2, Zenon DEF HexAt
    <3> HIDE DEF p
    <3>4. HexIs(b, p, d1, d2, d3, d4)
      BY <3>3, CodePointIsRead, Zenon
    <3> QED
      BY <3>4, Zenon DEF p, HexIs
  <2>3. 4 + 4 = 8
    OBVIOUS
  <2> QED
    BY <1>1, <2>2, <2>3, Zenon
<1>8. CharacterAt(b, 2) = Parsed(u, 8)
  <2>1. 2 + 1 = 3 /\ 2 + 2 = 4
    OBVIOUS
  <2> QED
    BY <1>6, <1>7, <2>1, Zenon DEF CharacterAt
<1>9. /\ Strings(b)[7][8] = Parsed(<<>>, 9)
      /\ Strings(b)[8][2] = WithRest(CharacterAt(b, 2), Strings(b)[7])
  <2>1. /\ 7 \in Nat /\ 8 \in Nat /\ 2 \in Nat /\ 8 - 1 = 7 /\ 8 + 1 = 9 /\ 8 # 0
        /\ Backslash # Quote /\ Backslash # 0
    BY DEF Backslash, Quote
  <2>2. \A left \in Nat, p \in Nat : Strings(b)[left][p]
             = IF At(b, p) = Quote THEN Parsed(<<>>, p + 1)
               ELSE IF At(b, p) = 0 \/ left = 0 THEN Unparsed
               ELSE WithRest(CharacterAt(b, p), Strings(b)[left - 1])
    BY StringsUnfold
  <2>3. Strings(b)[7][8] = Parsed(<<>>, 8 + 1)
    <3> DEFINE n == 7
               p == 8
    <3>1. n \in Nat /\ p \in Nat /\ At(b, p) = Quote
      BY <1>6
    <3> HIDE DEF n, p
    <3>2. Strings(b)[n][p] = Parsed(<<>>, p + 1)
      BY <2>2, <3>1, Zenon
    <3> QED
      BY <3>2 DEF n, p
  <2>4. Strings(b)[8][2] = WithRest(CharacterAt(b, 2), Strings(b)[8 - 1])
    <3>1. At(b, 2) # Quote /\ At(b, 2) # 0
      BY <1>6, <2>1
    <3> QED
      BY <2>1, <2>2, <3>1, Zenon
  <2> QED
    BY <2>1, <2>3, <2>4, Zenon
<1>10. Strings(b)[8][2] = Parsed(u, 9)
  <2>1. Parsed(u, 8).ok /\ Parsed(u, 8).value = u /\ Parsed(u, 8).at = 8
    BY DEF Parsed
  <2>2. Parsed(<<>>, 9).ok /\ Parsed(<<>>, 9).value = <<>> /\ Parsed(<<>>, 9).at = 9
    BY DEF Parsed
  <2>3. u \o <<>> = u
    <3>1. u \in Seq(Characters)
      BY Utf8Type
    <3> HIDE DEF u
    <3> QED
      BY <3>1
  <2> HIDE DEF u
  <2>4. WithRest(Parsed(u, 8), Strings(b)[7]) = BeforeRest(u, Parsed(<<>>, 9))
    BY <1>9, <2>1, Zenon DEF WithRest
  <2>5. BeforeRest(u, Parsed(<<>>, 9)) = Parsed(u, 9)
    BY <2>2, <2>3, Zenon DEF BeforeRest
  <2> QED
    BY <1>8, <1>9, <2>4, <2>5, Zenon
<1>11. skip_ws(b, 1) = 1
  <2>1. 1 \in Nat /\ 1 <= Len(b) + 1 /\ Len(b) \in Nat
    BY <1>4
  <2>2. At(b, 1) \notin Space
    BY <1>6, OpeningIsNot
  <2> QED
    BY <2>1, <2>2, BehindNone DEF skip_ws
<1> HIDE DEF u
<1>12. parse_value(b, 1, Rest(b)[Len(b)]) = Parsed(String(u), 9)
  <2>1. parse_value(b, 1, Rest(b)[Len(b)]) = StringOf(parse_string_raw(b, 1))
    <3> DEFINE one == 1
    <3>1. skip_ws(b, one) = one /\ At(b, one) = Quote
      BY <1>6, <1>11
    <3> HIDE DEF one
    <3>2. parse_value(b, one, Rest(b)[Len(b)]) = StringOf(parse_string_raw(b, one))
      BY <3>1, ValueAt, Zenon
    <3> QED
      BY <3>2 DEF one
  <2>2. parse_string_raw(b, 1) = Parsed(u, 9)
    <3>1. 1 + 1 = 2
      OBVIOUS
    <3> QED
      BY <1>4, <1>6, <1>10, <3>1, Zenon DEF parse_string_raw
  <2>3. StringOf(Parsed(u, 9)) = Parsed(String(u), 9)
    BY DEF StringOf, Parsed
  <2> QED
    BY <2>1, <2>2, <2>3, Zenon
<1>13. Outcome(Parsed(String(u), 9)) = String(u)
  BY DEF Outcome, Parsed
<1>14. parse(b) = String(u)
  BY <1>4, <1>12, <1>13, TextsAreCStrings, Zenon DEF parse
<1> QED
  BY <1>2, <1>4, <1>14, Zenon DEF u

-----------------------------------------------------------------------------
(* Text that ends too early. *)

\* b is what there is of s.
CutFrom(b, s) ==
    /\ b \in Seq(Characters) /\ s \in Seq(Characters) /\ Len(b) \in Nat /\ Len(s) \in Nat
    /\ Len(b) <= Len(s) /\ \A i \in 1 .. Len(b) : b[i] = s[i]

\* What b has is what s has there.
LEMMA AtCut ==
    ASSUME NEW b, NEW s, CutFrom(b, s)
    PROVE  /\ Len(b) \in Nat /\ Len(s) \in Nat /\ Len(b) <= Len(s)
           /\ \A p \in Nat \ {0} : (At(b, p) # 0 <=> p <= Len(b)) /\ (At(b, p) # 0 => At(s, p) = At(b, p))
<1>1. Len(b) \in Nat /\ Len(s) \in Nat /\ Len(b) <= Len(s)
  BY DEF CutFrom
<1>2. b \in Seq(Characters) /\ \A i \in 1 .. Len(b) : b[i] = s[i]
  BY DEF CutFrom
<1>3. ASSUME NEW p \in Nat \ {0}
      PROVE  (At(b, p) # 0 <=> p <= Len(b)) /\ (At(b, p) # 0 => At(s, p) = At(b, p))
  <2>1. CASE p <= Len(b)
    <3>1. p \in 1 .. Len(b) /\ p <= Len(s)
      BY <1>1, <2>1
    <3>2. b[p] \in Characters
      BY <1>2, <3>1, ElementOfSeq
    <3>3. b[p] # 0
      BY <3>2 DEF Characters
    <3> QED
      BY <1>2, <2>1, <3>1, <3>3 DEF At
  <2>2. CASE ~ (p <= Len(b))
    BY <2>2 DEF At
  <2> QED
    BY <2>1, <2>2
<1> QED
  BY <1>1, <1>3

\* Some number of a set is the least.
LEMMA LeastExists ==
    ASSUME NEW S \in SUBSET Nat, S # {}
    PROVE  \E x \in S : \A y \in S : x <= y
<1> SUFFICES ASSUME \A x \in S : \E y \in S : ~ (x <= y) PROVE FALSE
  OBVIOUS
<1> DEFINE T == Nat \ S
<1>1. ASSUME NEW n \in Nat, \A k \in 0 .. n - 1 : k \in T PROVE n \in T
  <2>1. \A y \in S : n <= y
    BY <1>1
  <2> QED
    BY <2>1
<1>2. \A n \in Nat : n \in T
  <2> HIDE DEF T
  <2>1. T \in SUBSET Nat
    BY DEF T
  <2> QED
    BY <1>1, <2>1, CompleteInduction
<1> QED
  BY <1>2

\* Where the characters of chars end before the end of b, they end in s.
LEMMA BehindCut ==
    ASSUME NEW b, NEW s, CutFrom(b, s), NEW chars, 0 \notin chars
    PROVE  \A p \in 1 .. Len(b) + 1 :
             LET q == Behind(b, p, chars)
             IN  /\ q \in p .. Len(b) + 1 /\ q \in Nat \ {0}
                 /\ At(b, q) \notin chars
                 /\ At(b, q) # 0 => Behind(s, p, chars) = q
<1> TAKE p \in 1 .. Len(b) + 1
<1>1. /\ Len(b) \in Nat /\ Len(s) \in Nat /\ Len(b) <= Len(s)
      /\ \A i \in Nat \ {0} : (At(b, i) # 0 <=> i <= Len(b)) /\ (At(b, i) # 0 => At(s, i) = At(b, i))
  BY AtCut
<1> DEFINE S == {i \in p .. Len(b) + 1 : At(b, i) \notin chars}
           q == Min(S)
           Least(x) == x \in S /\ \A y \in S : x <= y
<1>2. p \in Nat \ {0} /\ Len(b) + 1 \in Nat /\ S \in SUBSET Nat
  BY <1>1
<1>3. Len(b) + 1 \in S
  <2>1. ~ (At(b, Len(b) + 1) # 0)
    BY <1>1
  <2> QED
    BY <1>1, <2>1
<1>4. \E x \in S : \A y \in S : x <= y
  <2> HIDE DEF S
  <2> QED
    BY <1>2, <1>3, LeastExists
<1>5. Least(q)
  <2>1. \E x : Least(x)
    BY <1>4
  <2>2. q = CHOOSE x : Least(x)
    BY Zenon DEF Min
  <2> HIDE DEF Least, q
  <2> QED
    BY <2>1, <2>2
<1>6. q \in S /\ \A y \in S : q <= y
  BY <1>5
<1> HIDE DEF q, Least
<1>7. q \in p .. Len(b) + 1 /\ At(b, q) \notin chars
  BY <1>6
<1>8. \A i \in p .. q - 1 : At(b, i) \in chars /\ At(s, i) \in chars
  <2> TAKE i \in p .. q - 1
  <2>1. i \in p .. Len(b) + 1 /\ i \in Nat \ {0} /\ ~ (q <= i)
    BY <1>1, <1>2, <1>7
  <2>2. At(b, i) \in chars
    BY <1>6, <2>1
  <2>3. At(b, i) # 0
    BY <2>2
  <2> QED
    BY <1>1, <2>1, <2>2, <2>3
<1> HIDE DEF S
<1>9. ASSUME At(b, q) # 0 PROVE Behind(s, p, chars) = q
  <2>1. At(s, q) = At(b, q) /\ q <= Len(s) + 1 /\ p <= q /\ q \in Nat /\ p \in Nat
    BY <1>1, <1>2, <1>7, <1>9
  <2> QED
    BY <1>1, <1>7, <1>8, <2>1, BehindIs
<1>10. Behind(b, p, chars) = q
  BY Zenon DEF Behind, q, S
<1>11. q \in Nat \ {0}
  BY <1>1, <1>2, <1>7
<1> QED
  BY <1>7, <1>9, <1>10, <1>11, Zenon

\* What is read at p and where it ends are the same in the whole text.
ReadThere(c, c2) == c.ok => c2 = c /\ c.at \in Nat \ {0}

LEMMA CodePointCut ==
    ASSUME NEW b, NEW s, CutFrom(b, s), NEW p \in Nat \ {0}
    PROVE  ReadThere(CodePointAt(b, p), CodePointAt(s, p))
<1> DEFINE d(t) == [i \in 1 .. 4 |-> HexDigit(At(t, p + i - 1))]
           v(f) == 4096 * f[1] + 256 * f[2] + 16 * f[3] + f[4]
           Bad(f) == \E i \in 1 .. 4 : f[i] = 16
<1>1. \A t : CodePointAt(t, p) = IF Bad(d(t)) THEN Unparsed ELSE Parsed(Utf8(v(d(t))), p + 4)
  BY SMT DEF CodePointAt
<1>2. ASSUME ~ Bad(d(b)) PROVE d(s) = d(b)
  <2>1. HexDigit(0) = 16
    BY DEF HexDigit, Digit, Zero
  <2>2. ASSUME NEW i \in 1 .. 4 PROVE HexDigit(At(s, p + i - 1)) = HexDigit(At(b, p + i - 1))
    <3>1. p + i - 1 \in Nat \ {0}
      OBVIOUS
    <3>2. HexDigit(At(b, p + i - 1)) # 16
      BY <1>2
    <3>3. At(b, p + i - 1) # 0
      BY <2>1, <3>2
    <3> QED
      BY <3>1, <3>3, AtCut
  <2> QED
    BY <2>2
<1>3. p + 4 \in Nat \ {0}
  OBVIOUS
<1> HIDE DEF d, v, Bad
<1>4. CASE Bad(d(b))
  <2>1. CodePointAt(b, p) = Unparsed
    BY <1>1, <1>4, Zenon
  <2> QED
    BY <2>1 DEF Unparsed, ReadThere
<1>5. CASE ~ Bad(d(b))
  <2>1. d(s) = d(b)
    BY <1>2, <1>5
  <2> DEFINE r == Parsed(Utf8(v(d(b))), p + 4)
  <2>2. CodePointAt(b, p) = r /\ CodePointAt(s, p) = r
    BY <1>1, <1>5, <2>1, Zenon
  <2>3. r.at = p + 4
    BY DEF Parsed
  <2> HIDE DEF r
  <2> QED
    BY <1>3, <2>2, <2>3, Zenon DEF ReadThere
<1> QED
  BY <1>4, <1>5

LEMMA CharacterCut ==
    ASSUME NEW b, NEW s, CutFrom(b, s), NEW p \in Nat \ {0}, At(b, p) # 0
    PROVE  ReadThere(CharacterAt(b, p), CharacterAt(s, p))
<1>0. /\ \A i \in Nat \ {0} : At(b, i) # 0 => At(s, i) = At(b, i)
      /\ p + 1 \in Nat \ {0} /\ p + 2 \in Nat \ {0}
  BY AtCut
<1>1. At(s, p) = At(b, p)
  BY <1>0
<1>2. CASE At(b, p) # Backslash
  <2>1. CharacterAt(b, p) = Parsed(<<At(b, p)>>, p + 1) /\ CharacterAt(s, p) = Parsed(<<At(b, p)>>, p + 1)
    BY <1>1, <1>2, Zenon DEF CharacterAt
  <2>2. Parsed(<<At(b, p)>>, p + 1).at = p + 1
    BY DEF Parsed
  <2> QED
    BY <1>0, <2>1, <2>2, Zenon DEF ReadThere
<1>3. CASE At(b, p) = Backslash /\ At(b, p + 1) = 117
  <2>1. At(s, p + 1) = 117
    BY <1>0, <1>3
  <2>2. CharacterAt(b, p) = CodePointAt(b, p + 2) /\ CharacterAt(s, p) = CodePointAt(s, p + 2)
    BY <1>1, <1>3, <2>1, Zenon DEF CharacterAt
  <2> QED
    BY <1>0, <2>2, CodePointCut
<1>4. CASE At(b, p) = Backslash /\ At(b, p + 1) # 117
  <2> DEFINE u == Unescape(At(b, p + 1))
  <2>1. CASE u = <<>>
    <3>1. CharacterAt(b, p) = Unparsed
      BY <1>4, <2>1, Zenon DEF CharacterAt
    <3> QED
      BY <3>1 DEF Unparsed, ReadThere
  <2>2. CASE u # <<>>
    <3>1. Unescape(0) = <<>>
      BY DEF Unescape, Quote, Backslash
    <3>2. At(b, p + 1) # 0
      BY <2>2, <3>1
    <3>3. At(s, p + 1) = At(b, p + 1)
      BY <1>0, <3>2
    <3>4. CharacterAt(b, p) = Parsed(u, p + 2) /\ CharacterAt(s, p) = Parsed(u, p + 2)
      BY <1>1, <1>4, <2>2, <3>3, Zenon DEF CharacterAt
    <3>5. Parsed(u, p + 2).at = p + 2
      BY DEF Parsed
    <3> QED
      BY <1>0, <3>4, <3>5, Zenon DEF ReadThere
  <2> QED
    BY <2>1, <2>2
<1> QED
  BY <1>2, <1>3, <1>4

\* The same for what ends within what there is.
Kept(b, r, r2) == r.ok => r2 = r /\ r.at \in 1 .. Len(b) + 1

LEMMA UnparsedIsKept == \A b, r2 : Kept(b, Unparsed, r2)
BY DEF Kept, Unparsed

LEMMA StringsCut ==
    ASSUME NEW b, NEW s, CutFrom(b, s)
    PROVE  \A left \in Nat : \A n \in Nat, p \in Nat \ {0} :
             left <= n => Kept(b, Strings(b)[left][p], Strings(s)[n][p])
<1> DEFINE Is(left) == \A n \in Nat, p \in Nat \ {0} :
                         left <= n => Kept(b, Strings(b)[left][p], Strings(s)[n][p])
           S == {left \in Nat : Is(left)}
<1>0. /\ Len(b) \in Nat
      /\ \A p \in Nat \ {0} : (At(b, p) # 0 <=> p <= Len(b)) /\ (At(b, p) # 0 => At(s, p) = At(b, p))
  BY AtCut
<1>1. ASSUME NEW left \in Nat, NEW n \in Nat, NEW p \in Nat \ {0}, left <= n,
             left # 0 => Is(left - 1)
      PROVE  Kept(b, Strings(b)[left][p], Strings(s)[n][p])
  <2>1. Strings(b)[left][p]
          = IF At(b, p) = Quote THEN Parsed(<<>>, p + 1)
            ELSE IF At(b, p) = 0 \/ left = 0 THEN Unparsed
            ELSE WithRest(CharacterAt(b, p), Strings(b)[left - 1])
    BY StringsUnfold
  <2>2. Strings(s)[n][p]
          = IF At(s, p) = Quote THEN Parsed(<<>>, p + 1)
            ELSE IF At(s, p) = 0 \/ n = 0 THEN Unparsed
            ELSE WithRest(CharacterAt(s, p), Strings(s)[n - 1])
    BY StringsUnfold
  <2>3. CASE At(b, p) = Quote
    <3>1. At(b, p) # 0
      BY <2>3 DEF Quote
    <3>2. At(s, p) = Quote /\ p + 1 \in 1 .. Len(b) + 1
      BY <1>0, <2>3, <3>1
    <3>3. Parsed(<<>>, p + 1).at = p + 1
      BY DEF Parsed
    <3> QED
      BY <2>1, <2>2, <2>3, <3>2, <3>3, Zenon DEF Kept
  <2>4. CASE At(b, p) # Quote /\ (At(b, p) = 0 \/ left = 0)
    BY <2>1, <2>4, UnparsedIsKept, Zenon
  <2>5. CASE At(b, p) # Quote /\ At(b, p) # 0 /\ left # 0
    <3> DEFINE c == CharacterAt(b, p)
               rest == Strings(b)[left - 1]
               rest2 == Strings(s)[n - 1]
    <3>1. At(s, p) = At(b, p) /\ n # 0 /\ left - 1 \in Nat /\ n - 1 \in Nat /\ left - 1 <= n - 1
      BY <1>0, <1>1, <2>5
    <3>2. Strings(b)[left][p] = WithRest(c, rest) /\ Strings(s)[n][p] = WithRest(CharacterAt(s, p), rest2)
      BY <2>1, <2>2, <2>5, <3>1, Zenon
    <3>3. ReadThere(c, CharacterAt(s, p))
      BY <2>5, CharacterCut
    <3>4. \A q \in Nat \ {0} : Kept(b, rest[q], rest2[q])
      BY <1>1, <2>5, <3>1, Zenon
    <3> HIDE DEF c, rest, rest2
    <3>5. CASE ~c.ok
      BY <3>2, <3>5, Zenon DEF WithRest, Kept
    <3>6. CASE c.ok
      <4>1. CharacterAt(s, p) = c /\ Kept(b, rest[c.at], rest2[c.at])
        BY <3>3, <3>4, <3>6, Zenon DEF ReadThere
      <4>2. /\ Strings(b)[left][p] = BeforeRest(c.value, rest[c.at])
            /\ Strings(s)[n][p] = BeforeRest(c.value, rest2[c.at])
        BY <3>2, <3>6, <4>1, Zenon DEF WithRest
      <4>3. CASE ~rest[c.at].ok
        BY <4>2, <4>3, Zenon DEF BeforeRest, Kept
      <4>4. CASE rest[c.at].ok
        <5>1. rest2[c.at] = rest[c.at] /\ rest[c.at].at \in 1 .. Len(b) + 1
          BY <4>1, <4>4, Zenon DEF Kept
        <5> DEFINE y == c.value \o rest[c.at].value
        <5>3. /\ Strings(s)[n][p] = Strings(b)[left][p]
              /\ Strings(b)[left][p] = Parsed(y, rest[c.at].at)
          BY <4>2, <4>4, <5>1, Zenon DEF BeforeRest
        <5> HIDE DEF y
        <5>2. Parsed(y, rest[c.at].at).at = rest[c.at].at
          BY DEF Parsed
        <5>4. Strings(b)[left][p].at = rest[c.at].at
          BY <5>2, <5>3, Zenon
        <5> QED
          BY <5>1, <5>3, <5>4, Zenon DEF Kept
      <4> QED
        BY <4>3, <4>4
    <3> QED
      BY <3>5, <3>6
  <2> QED
    BY <2>3, <2>4, <2>5
<1>2. Is(0)
  <2>1. 0 \in Nat
    OBVIOUS
  <2> HIDE DEF S
  <2> QED
    BY <1>1, <2>1, Zenon
<1>3. ASSUME NEW left \in Nat, Is(left) PROVE Is(left + 1)
  <2>1. left + 1 \in Nat /\ (left + 1) - 1 = left
    OBVIOUS
  <2> QED
    BY <1>1, <1>3, <2>1, Zenon
<1> HIDE DEF Is
<1>4. S \in SUBSET Nat /\ 0 \in S /\ \A left \in S : left + 1 \in S
  BY <1>2, <1>3
<1>5. \A left \in Nat : left \in S
  <2> HIDE DEF S
  <2> QED
    BY <1>4, Induction
<1> QED
  BY <1>5 DEF Is

LEMMA RawCut ==
    ASSUME NEW b, NEW s, CutFrom(b, s), NEW p \in Nat \ {0}
    PROVE  Kept(b, parse_string_raw(b, p), parse_string_raw(s, p))
<1>1. CASE At(b, p) = Quote
  <2>1. At(b, p) # 0
    BY <1>1 DEF Quote
  <2>2. At(s, p) = Quote /\ Len(b) \in Nat /\ Len(s) \in Nat /\ Len(b) <= Len(s) /\ p + 1 \in Nat \ {0}
    BY <1>1, <2>1, AtCut
  <2>3. Kept(b, Strings(b)[Len(b)][p + 1], Strings(s)[Len(s)][p + 1])
    BY <2>2, StringsCut, Zenon
  <2> QED
    BY <1>1, <2>2, <2>3, Zenon DEF parse_string_raw
<1>2. CASE At(b, p) # Quote
  BY <1>2, UnparsedIsKept, Zenon DEF parse_string_raw
<1> QED
  BY <1>1, <1>2

\* What ends at q, from a place on, ends there in the whole text, if something
\* is behind it.
EndsThere(b, from, q, q2) == q \in from .. Len(b) + 1 /\ (At(b, q) # 0 => q2 = q)

LEMMA DigitsCut ==
    ASSUME NEW b, NEW s, CutFrom(b, s)
    PROVE  /\ \A p \in 1 .. Len(b) + 1 : EndsThere(b, p, AfterDigits(b, p), AfterDigits(s, p))
           /\ \A p \in 1 .. Len(b) + 1 : EndsThere(b, p, skip_ws(b, p), skip_ws(s, p))
<1>1. 0 \notin Digit /\ 0 \notin Space
  BY DEF Digit, Space, Zero
<1>2. ASSUME NEW p \in 1 .. Len(b) + 1
      PROVE  EndsThere(b, p, AfterDigits(b, p), AfterDigits(s, p))
  BY <1>1, BehindCut DEF AfterDigits, EndsThere
<1>3. ASSUME NEW p \in 1 .. Len(b) + 1
      PROVE  EndsThere(b, p, skip_ws(b, p), skip_ws(s, p))
  BY <1>1, BehindCut DEF skip_ws, EndsThere
<1> QED
  BY <1>2, <1>3

LEMMA FractionCut ==
    ASSUME NEW b, NEW s, CutFrom(b, s), NEW p \in 1 .. Len(b) + 1
    PROVE  /\ EndsThere(b, p, AfterFraction(b, p), AfterFraction(s, p))
           /\ At(b, AfterFraction(b, p)) # 0 => At(b, p) # 0
<1>1. /\ Len(b) \in Nat
      /\ \A i \in Nat \ {0} : (At(b, i) # 0 <=> i <= Len(b)) /\ (At(b, i) # 0 => At(s, i) = At(b, i))
  BY AtCut
<1>2. CASE At(b, p) = Point
  <2>1. At(b, p) # 0
    BY <1>2 DEF Point
  <2>2. At(s, p) = Point /\ p + 1 \in 1 .. Len(b) + 1
    BY <1>1, <1>2, <2>1
  <2>3. AfterFraction(b, p) = AfterDigits(b, p + 1) /\ AfterFraction(s, p) = AfterDigits(s, p + 1)
    BY <1>2, <2>2, Zenon DEF AfterFraction
  <2>4. EndsThere(b, p + 1, AfterFraction(b, p), AfterFraction(s, p))
    BY <2>2, <2>3, DigitsCut, Zenon
  <2> QED
    BY <1>1, <2>1, <2>4 DEF EndsThere
<1>3. CASE At(b, p) # Point
  <2>1. AfterFraction(b, p) = p
    BY <1>3, Zenon DEF AfterFraction
  <2>2. ASSUME At(b, p) # 0 PROVE AfterFraction(s, p) = p
    <3>1. At(s, p) # Point
      BY <1>1, <1>3, <2>2
    <3> QED
      BY <3>1, Zenon DEF AfterFraction
  <2> QED
    BY <1>1, <2>1, <2>2 DEF EndsThere
<1> QED
  BY <1>2, <1>3

LEMMA ExponentCut ==
    ASSUME NEW b, NEW s, CutFrom(b, s), NEW p \in 1 .. Len(b) + 1
    PROVE  /\ EndsThere(b, p, AfterExponent(b, p), AfterExponent(s, p))
           /\ At(b, AfterExponent(b, p)) # 0 => At(b, p) # 0
<1>1. /\ Len(b) \in Nat
      /\ \A i \in Nat \ {0} : (At(b, i) # 0 <=> i <= Len(b)) /\ (At(b, i) # 0 => At(s, i) = At(b, i))
  BY AtCut
<1> DEFINE E == {69, 101}
           Sign == {43, Minus}
<1>2. 0 \notin E /\ 0 \notin Sign
  BY DEF Minus
<1>3. \A t : AfterExponent(t, p) = IF At(t, p) \notin E THEN p
                                   ELSE AfterDigits(t, IF At(t, p + 1) \in Sign THEN p + 2 ELSE p + 1)
  BY Zenon DEF AfterExponent
<1> HIDE DEF E, Sign
<1>4. CASE At(b, p) \notin E
  <2>1. AfterExponent(b, p) = p
    BY <1>3, <1>4, Zenon
  <2>2. ASSUME At(b, p) # 0 PROVE AfterExponent(s, p) = p
    <3>1. At(s, p) \notin E
      BY <1>1, <1>4, <2>2
    <3> QED
      BY <1>3, <3>1, Zenon
  <2> QED
    BY <1>1, <2>1, <2>2 DEF EndsThere
<1>5. CASE At(b, p) \in E /\ At(b, p + 1) \in Sign
  <2>1. At(b, p) # 0 /\ At(b, p + 1) # 0
    BY <1>2, <1>5
  <2>2. At(s, p) \in E /\ At(s, p + 1) \in Sign /\ p + 2 \in 1 .. Len(b) + 1
    BY <1>1, <1>5, <2>1
  <2>3. AfterExponent(b, p) = AfterDigits(b, p + 2) /\ AfterExponent(s, p) = AfterDigits(s, p + 2)
    BY <1>3, <1>5, <2>2, Zenon
  <2>4. EndsThere(b, p + 2, AfterExponent(b, p), AfterExponent(s, p))
    BY <2>2, <2>3, DigitsCut, Zenon
  <2> QED
    BY <1>1, <2>1, <2>4 DEF EndsThere
<1>6. CASE At(b, p) \in E /\ At(b, p + 1) \notin Sign
  <2>1. At(b, p) # 0
    BY <1>2, <1>6
  <2>2. At(s, p) \in E /\ p + 1 \in 1 .. Len(b) + 1 /\ p + 1 \in Nat \ {0}
    BY <1>1, <1>6, <2>1
  <2> DEFINE q == AfterExponent(b, p)
  <2>3. q = AfterDigits(b, p + 1)
    BY <1>3, <1>6, Zenon
  <2>4. EndsThere(b, p + 1, q, AfterDigits(s, p + 1))
    BY <2>2, <2>3, DigitsCut, Zenon
  <2> HIDE DEF q
  <2>5. q \in p .. Len(b) + 1 /\ q \in p + 1 .. Len(b) + 1
    BY <1>1, <2>4 DEF EndsThere
  <2>6. ASSUME At(b, q) # 0 PROVE AfterExponent(s, p) = q
    <3>1. q \in Nat \ {0} /\ q <= Len(b)
      BY <1>1, <2>5, <2>6
    <3>2. At(b, p + 1) # 0
      BY <1>1, <2>2, <2>5, <3>1
    <3>3. At(s, p + 1) \notin Sign
      BY <1>1, <1>6, <2>2, <3>2
    <3>4. AfterExponent(s, p) = AfterDigits(s, p + 1)
      BY <1>3, <2>2, <3>3, Zenon
    <3> QED
      BY <2>4, <2>6, <3>4, Zenon DEF EndsThere
  <2> QED
    BY <2>1, <2>5, <2>6, Zenon DEF EndsThere, q
<1> QED
  BY <1>4, <1>5, <1>6

\* What lies within b is in s.
LEMMA WithinCut ==
    ASSUME NEW b, NEW s, CutFrom(b, s), NEW p \in Nat \ {0}
    PROVE  /\ \A n \in Nat : p + n <= Len(b) + 1 => Number(s, p)[n] = Number(b, p)[n]
           /\ \A e \in Nat : p <= e /\ e <= Len(b) + 1 => SubSeq(s, p, e - 1) = SubSeq(b, p, e - 1)
<1>0. /\ b \in Seq(Characters) /\ s \in Seq(Characters) /\ Len(b) \in Nat /\ Len(s) \in Nat
      /\ Len(b) <= Len(s) /\ \A i \in 1 .. Len(b) : b[i] = s[i]
  BY DEF CutFrom
<1> DEFINE Is(n) == p + n <= Len(b) + 1 => Number(s, p)[n] = Number(b, p)[n]
           S == {n \in Nat : Is(n)}
<1>1. Is(0)
  BY NumberUnfolds, 0 \in Nat
<1>2. ASSUME NEW n \in Nat, Is(n) PROVE Is(n + 1)
  <2> SUFFICES ASSUME p + (n + 1) <= Len(b) + 1
               PROVE  Number(s, p)[n + 1] = Number(b, p)[n + 1]
    OBVIOUS
  <2> DEFINE k == n + 1
  <2>1. k \in Nat /\ k # 0 /\ k - 1 = n /\ p + k - 1 \in 1 .. Len(b)
    BY <1>0
  <2>2. s[p + k - 1] = b[p + k - 1] /\ Number(s, p)[n] = Number(b, p)[n]
    BY <1>0, <1>2, <2>1
  <2> HIDE DEF k
  <2>3. \A t : Number(t, p)[k] = 10 * Number(t, p)[n] + (t[p + k - 1] - Zero)
    <3> TAKE t
    <3>0. \A i \in Nat : Number(t, p)[i]
            = IF i = 0 THEN 0 ELSE 10 * Number(t, p)[i - 1] + (t[p + i - 1] - Zero)
      BY NumberUnfolds
    <3>1. Number(t, p)[k]
            = IF k = 0 THEN 0 ELSE 10 * Number(t, p)[k - 1] + (t[p + k - 1] - Zero)
      BY <2>1, <3>0, Zenon
    <3> QED
      BY <2>1, <3>1, Zenon
  <2> QED
    BY <2>2, <2>3, Zenon DEF k
<1>3. S \in SUBSET Nat /\ 0 \in S /\ \A n \in S : n + 1 \in S
  <2> HIDE DEF Is
  <2> QED
    BY <1>1, <1>2
<1>4. \A n \in Nat : n \in S
  <2> HIDE DEF S
  <2> QED
    BY <1>3, Induction
<1>5. ASSUME NEW e \in Nat, p <= e, e <= Len(b) + 1
      PROVE  SubSeq(s, p, e - 1) = SubSeq(b, p, e - 1)
  BY <1>0, <1>5
<1> QED
  BY <1>4, <1>5

\* Where the digits of a number start and end, when they end there in s.
DigitsFrom(b, s, p, start, point) ==
    /\ start \in Nat \ {0} /\ start = IF b[p] = Minus THEN p + 1 ELSE p
    /\ point \in start .. Len(b) /\ AfterDigits(b, start) = point /\ AfterDigits(s, start) = point

\* A float that ends within b.
LEMMA FloatCut ==
    ASSUME NEW b, NEW s, CutFrom(b, s), NEW p \in 1 .. Len(b), NEW to \in p .. Len(b),
           NEW start, NEW point, DigitsFrom(b, s, p, start, point)
    PROVE  Float(s, p, to) = Float(b, p, to)
<1> DEFINE Floated(t, n, part) ==
             IF At(t, point) = Point /\ \A q \in point + 1 .. to - 1 : t[q] = Zero
             THEN Whole(IF t[p] = Minus THEN -n ELSE n)
             ELSE [t |-> "double", v |-> part]
           n == Number(b, start)[point - start]
           part == SubSeq(b, p, to - 1)
<1>1. /\ Len(b) \in Nat /\ \A i \in 1 .. Len(b) : s[i] = b[i]
      /\ \A i \in Nat \ {0} : (At(b, i) # 0 <=> i <= Len(b)) /\ (At(b, i) # 0 => At(s, i) = At(b, i))
  BY AtCut DEF CutFrom
<1>2. start \in Nat \ {0} /\ point \in start .. Len(b) /\ point \in Nat \ {0} /\ point <= Len(b)
      /\ point - start \in Nat /\ start + (point - start) <= Len(b) + 1
  BY <1>1 DEF DigitsFrom
<1>3. s[p] = b[p] /\ At(s, point) = At(b, point)
  BY <1>1, <1>2
<1>4. /\ (IF b[p] = Minus THEN p + 1 ELSE p) = start /\ (IF s[p] = Minus THEN p + 1 ELSE p) = start
      /\ AfterDigits(b, start) = point /\ AfterDigits(s, start) = point
  BY <1>3, Zenon DEF DigitsFrom
<1>5. Float(b, p, to) = Floated(b, n, part)
  BY <1>4, Zenon DEF Float
<1>6. Float(s, p, to) = Floated(s, Number(s, start)[point - start], SubSeq(s, p, to - 1))
  BY <1>4, Zenon DEF Float
<1>7. Number(s, start)[point - start] = n
  <2>1. \A m \in Nat : start + m <= Len(b) + 1 => Number(s, start)[m] = Number(b, start)[m]
    BY <1>2, WithinCut
  <2> HIDE DEF Floated, part
  <2> QED
    BY <1>2, <2>1, Zenon
<1>8. SubSeq(s, p, to - 1) = part
  <2>1. p \in Nat \ {0} /\ to \in Nat /\ p <= to /\ to <= Len(b) + 1
    BY <1>1
  <2>2. \A e \in Nat : p <= e /\ e <= Len(b) + 1 => SubSeq(s, p, e - 1) = SubSeq(b, p, e - 1)
    BY <2>1, WithinCut
  <2> QED
    BY <2>1, <2>2, Zenon
<1>9. (\A q \in point + 1 .. to - 1 : s[q] = Zero) <=> (\A q \in point + 1 .. to - 1 : b[q] = Zero)
  <2>1. \A q \in point + 1 .. to - 1 : s[q] = b[q]
    BY <1>1, <1>2
  <2> QED
    BY <2>1, Zenon
<1>10. Floated(s, n, part) = Floated(b, n, part)
  <2> HIDE DEF n, part
  <2> QED
    BY <1>3, <1>9, Zenon
<1> HIDE DEF n, part, Floated
<1> QED
  BY <1>5, <1>6, <1>7, <1>8, <1>10, Zenon

\* A number is the same if something is behind it.
KeptIfBehind(b, r, r2) == r.ok => r.at \in 1 .. Len(b) + 1 /\ (At(b, r.at) # 0 => r2 = r)

LEMMA WholeKept ==
    ASSUME NEW b, NEW n, NEW at
    PROVE  /\ SignedOf(n, at).ok => SignedOf(n, at).at = at
           /\ UnsignedOf(n, at).ok => UnsignedOf(n, at).at = at
<1>1. ~OutOfRange.ok
  BY DEF OutOfRange
<1>2. \A v : Parsed(v, at).at = at
  BY DEF Parsed
<1>3. SignedOf(n, at) = OutOfRange \/ SignedOf(n, at) = Parsed(Signed(-n), at)
  BY Zenon DEF SignedOf
<1>4. UnsignedOf(n, at) = OutOfRange \/ UnsignedOf(n, at) = Parsed(Unsigned(n), at)
  BY Zenon DEF UnsignedOf
<1> QED
  BY <1>1, <1>2, <1>3, <1>4, Zenon

LEMMA NumberCut ==
    ASSUME NEW b, NEW s, CutFrom(b, s), NEW p \in 1 .. Len(b)
    PROVE  KeptIfBehind(b, parse_number(b, p), parse_number(s, p))
<1> DEFINE start == IF At(b, p) = Minus THEN p + 1 ELSE p
           whole == AfterDigits(b, start)
           fraction == AfterFraction(b, whole)
           end == AfterExponent(b, fraction)
           n == Number(b, start)[whole - start]
           F == Float(b, p, end)
           r == parse_number(b, p)
<1>1. /\ Len(b) \in Nat /\ \A i \in 1 .. Len(b) : s[i] = b[i]
      /\ \A i \in Nat \ {0} : (At(b, i) # 0 <=> i <= Len(b)) /\ (At(b, i) # 0 => At(s, i) = At(b, i))
  BY AtCut DEF CutFrom
<1>2. At(b, p) = b[p] /\ At(s, p) = At(b, p) /\ p \in Nat \ {0}
  BY <1>1 DEF At
<1>3. start \in p .. Len(b) + 1 /\ start \in 1 .. Len(b) + 1
  BY <1>1
<1>4. r = IF At(b, start) \notin Digit THEN Unparsed
          ELSE IF end # whole THEN Parsed(F, end)
          ELSE IF start # p THEN SignedOf(n, whole) ELSE UnsignedOf(n, whole)
  BY Zenon DEF parse_number
<1>5. (IF At(s, p) = Minus THEN p + 1 ELSE p) = start
  BY <1>2, Zenon
<1> HIDE DEF start
<1>6. EndsThere(b, start, whole, AfterDigits(s, start))
  BY <1>3, DigitsCut, Zenon
<1> HIDE DEF whole
<1>7. whole \in start .. Len(b) + 1 /\ whole \in 1 .. Len(b) + 1
  BY <1>1, <1>3, <1>6 DEF EndsThere
<1>8. /\ EndsThere(b, whole, fraction, AfterFraction(s, whole))
      /\ At(b, fraction) # 0 => At(b, whole) # 0
  BY <1>7, FractionCut, Zenon
<1> HIDE DEF fraction
<1>9. fraction \in whole .. Len(b) + 1 /\ fraction \in 1 .. Len(b) + 1
  BY <1>1, <1>7, <1>8 DEF EndsThere
<1>10. /\ EndsThere(b, fraction, end, AfterExponent(s, fraction))
       /\ At(b, end) # 0 => At(b, fraction) # 0
  BY <1>9, ExponentCut, Zenon
<1> HIDE DEF end
<1>11. end \in fraction .. Len(b) + 1 /\ end \in 1 .. Len(b) + 1
  BY <1>1, <1>9, <1>10 DEF EndsThere
<1> HIDE DEF n, F
<1>12. r.ok => r.at = end
  <2>1. ~Unparsed.ok /\ Parsed(F, end).at = end
    BY DEF Unparsed, Parsed
  <2> HIDE DEF r
  <2> QED
    BY <1>4, <2>1, WholeKept, Zenon
<1>13. ASSUME At(b, end) # 0 PROVE parse_number(s, p) = r
  <2>1. At(b, whole) # 0 /\ At(b, fraction) # 0
    BY <1>8, <1>10, <1>13, Zenon
  <2>2. AfterDigits(s, start) = whole /\ AfterFraction(s, whole) = fraction /\ AfterExponent(s, fraction) = end
    BY <1>6, <1>8, <1>10, <1>13, <2>1, Zenon DEF EndsThere
  <2>3. end \in p .. Len(b) /\ whole \in start .. Len(b) /\ start \in Nat \ {0} /\ start \in 1 .. Len(b)
    BY <1>1, <1>3, <1>7, <1>9, <1>11, <1>13, <2>1
  <2>4. At(s, start) = At(b, start)
    BY <1>1, <2>3
  <2>5. Number(s, start)[whole - start] = n
    <3>1. whole - start \in Nat /\ start + (whole - start) <= Len(b) + 1
      BY <1>1, <2>3
    <3> QED
      BY <2>3, <3>1, WithinCut, Zenon DEF n
  <2>6. Float(s, p, end) = F
    <3>1. start = IF b[p] = Minus THEN p + 1 ELSE p
      BY <1>2, Zenon DEF start
    <3>2. AfterDigits(b, start) = whole
      BY DEF whole
    <3>3. DigitsFrom(b, s, p, start, whole)
      BY <2>2, <2>3, <3>1, <3>2, Zenon DEF DigitsFrom
    <3> QED
      BY <2>3, <3>3, FloatCut, Zenon DEF F
  <2>7. parse_number(s, p)
          = IF At(s, start) \notin Digit THEN Unparsed
            ELSE IF end # whole THEN Parsed(Float(s, p, end), end)
            ELSE IF start # p THEN SignedOf(Number(s, start)[whole - start], whole)
            ELSE UnsignedOf(Number(s, start)[whole - start], whole)
    BY <1>5, <2>2, Zenon DEF parse_number
  <2>8. parse_number(s, p)
          = IF At(b, start) \notin Digit THEN Unparsed
            ELSE IF end # whole THEN Parsed(F, end)
            ELSE IF start # p THEN SignedOf(n, whole) ELSE UnsignedOf(n, whole)
    BY <2>4, <2>5, <2>6, <2>7, Zenon
  <2> HIDE DEF r
  <2> QED
    BY <1>4, <2>8, Zenon
<1> QED
  BY <1>11, <1>12, <1>13, Zenon DEF KeptIfBehind

LEMMA LiteralCut ==
    ASSUME NEW b, NEW s, CutFrom(b, s), NEW p \in 1 .. Len(b),
           NEW word \in Seq(Characters), NEW value
    PROVE  Kept(b, parse_literal(b, p, word, value), parse_literal(s, p, word, value))
<1> DEFINE part == SubSeq(b, p, Len(b))
           whole == SubSeq(s, p, Len(s))
<1>1. CASE IsPrefix(word, part)
  <2>1. Len(word) \in Nat /\ Len(word) <= Len(part) /\ SubSeq(word, 1, Len(word)) = SubSeq(part, 1, Len(word))
    BY <1>1 DEF IsPrefix
  <2>2. /\ Len(b) \in Nat /\ Len(s) \in Nat /\ Len(b) <= Len(s)
        /\ b \in Seq(Characters) /\ s \in Seq(Characters)
        /\ \A i \in 1 .. Len(b) : s[i] = b[i]
    BY DEF CutFrom
  <2>3. Len(part) = Len(b) - p + 1 /\ Len(whole) = Len(s) - p + 1
    BY <2>2
  <2>4. SubSeq(part, 1, Len(word)) = SubSeq(whole, 1, Len(word))
    <3>1. part \in Seq(Characters) /\ whole \in Seq(Characters)
      BY <2>2
    <3>2. \A i \in 1 .. Len(word) : part[i] = whole[i]
      BY <2>1, <2>2, <2>3
    <3> HIDE DEF part, whole
    <3> QED
      BY <2>1, <2>2, <2>3, <3>1, <3>2
  <2> HIDE DEF part, whole
  <2>5. IsPrefix(word, whole)
    BY <2>1, <2>2, <2>3, <2>4 DEF IsPrefix
  <2>6. /\ parse_literal(b, p, word, value) = Parsed(value, p + Len(word))
        /\ parse_literal(s, p, word, value) = Parsed(value, p + Len(word))
    BY <1>1, <2>5, Zenon DEF parse_literal, part, whole
  <2>7. p + Len(word) \in 1 .. Len(b) + 1
    BY <2>1, <2>2, <2>3
  <2>8. Parsed(value, p + Len(word)).at = p + Len(word)
    BY DEF Parsed
  <2> QED
    BY <2>6, <2>7, <2>8, Zenon DEF Kept
<1>2. CASE ~IsPrefix(word, part)
  BY <1>2, UnparsedIsKept, Zenon DEF parse_literal
<1> QED
  BY <1>1, <1>2, Zenon

\* The rests of containers are kept, and each is more than nothing.
RestsKept(b, rb, rs) ==
    \A open \in {OpenArray, OpenObject}, q \in 1 .. Len(b) + 1 :
       Kept(b, rb[open][q], rs[open][q]) /\ (rb[open][q].ok => q <= Len(b))

\* A member of a container that starts at p is kept if something is behind it.
MemberKept(b, p, r, r2) == KeptIfBehind(b, r, r2) /\ (r.ok => p <= Len(b))

LEMMA ParsedIs ==
    /\ \A v, at : Parsed(v, at).ok /\ Parsed(v, at).at = at /\ Parsed(v, at).value = v
    /\ ~Unparsed.ok
BY DEF Parsed, Unparsed

LEMMA KeptIsEnough == \A b, r, r2 : Kept(b, r, r2) => KeptIfBehind(b, r, r2)
BY DEF Kept, KeptIfBehind

LEMMA StringOfKept ==
    \A b, r, r2 : Kept(b, r, r2) => Kept(b, StringOf(r), StringOf(r2))
<1> TAKE b, r, r2
<1>1. CASE r.ok
  BY <1>1, ParsedIs, Zenon DEF Kept, StringOf
<1>2. CASE ~r.ok
  BY <1>2, Zenon DEF Kept, StringOf
<1> QED
  BY <1>1, <1>2

LEMMA ListOfKept ==
    \A b, open, r, r2 : Kept(b, r, r2) => Kept(b, ListOf(open, r), ListOf(open, r2))
<1> TAKE b, open, r, r2
<1>1. CASE r.ok
  BY <1>1, ParsedIs, Zenon DEF Kept, ListOf
<1>2. CASE ~r.ok
  BY <1>2, Zenon DEF Kept, ListOf
<1> QED
  BY <1>1, <1>2

LEMMA PairOfKeyKept ==
    \A b, key, r, r2 : KeptIfBehind(b, r, r2) => KeptIfBehind(b, PairOfKey(key, r), PairOfKey(key, r2))
<1> TAKE b, key, r, r2
<1>1. CASE r.ok
  BY <1>1, ParsedIs, Zenon DEF KeptIfBehind, PairOfKey
<1>2. CASE ~r.ok
  BY <1>2, Zenon DEF KeptIfBehind, PairOfKey
<1> QED
  BY <1>1, <1>2

\* What a value is, by its first character.
LEMMA QuoteAt ==
    \A t, p, q, rest : skip_ws(t, p) = q /\ At(t, q) = Quote
      => parse_value(t, p, rest) = StringOf(parse_string_raw(t, q))
BY ValueAt

\* What is in a container, from i on.
InsideAt(t, open, i, rest) == IF At(t, i) = Close(open) THEN Parsed(<<>>, i + 1) ELSE rest[open][i]

LEMMA OpenAt ==
    \A t, p, q, rest : \A open \in {OpenArray, OpenObject} : skip_ws(t, p) = q /\ At(t, q) = open
      => parse_value(t, p, rest) = ListOf(open, InsideAt(t, open, skip_ws(t, q + 1), rest))
BY ValueAt DEF InsideAt

LEMMA LiteralsAt ==
    /\ \A t, p, q, rest : skip_ws(t, p) = q /\ At(t, q) = 116 => parse_value(t, p, rest) = TrueAt(t, q)
    /\ \A t, p, q, rest : skip_ws(t, p) = q /\ At(t, q) = 102 => parse_value(t, p, rest) = FalseAt(t, q)
    /\ \A t, p, q, rest : skip_ws(t, p) = q /\ At(t, q) = 110 => parse_value(t, p, rest) = NullAt(t, q)
BY ValueAt

LEMMA NumberAt ==
    \A t, p, q, rest : skip_ws(t, p) = q /\ At(t, q) \in {Minus} \cup Digit
      => parse_value(t, p, rest) = parse_number(t, q)
BY ValueAt

LEMMA NothingAt ==
    \A t, p, q, rest : skip_ws(t, p) = q /\ At(t, q) = 0 => parse_value(t, p, rest) = Unparsed
BY ValueAt

LEMMA OtherAt ==
    \A t, p, q, rest :
      /\ skip_ws(t, p) = q
      /\ At(t, q) \notin {Quote, OpenArray, OpenObject, 116, 102, 110} /\ At(t, q) \notin {Minus} \cup Digit
      => parse_value(t, p, rest) = Unparsed
<1> TAKE t, p, q, rest
<1> SUFFICES ASSUME skip_ws(t, p) = q,
                    At(t, q) \notin {Quote, OpenArray, OpenObject, 116, 102, 110},
                    At(t, q) \notin {Minus} \cup Digit
             PROVE  parse_value(t, p, rest) = Unparsed
  BY Zenon
<1> DEFINE c == At(t, q)
           S == StringOf(parse_string_raw(t, q))
           L == ListOf(c, InsideAt(t, c, skip_ws(t, q + 1), rest))
           N == parse_number(t, q)
<1>1. parse_value(t, p, rest)
        = CASE c = Quote -> S
            [] c \in {OpenArray, OpenObject} -> L
            [] c = 116 -> TrueAt(t, q)
            [] c = 102 -> FalseAt(t, q)
            [] c = 110 -> NullAt(t, q)
            [] c \in {Minus} \cup Digit -> N
            [] OTHER -> Unparsed
  BY Zenon DEF parse_value, TrueAt, FalseAt, NullAt, InsideAt
<1>2. c \notin {Quote, OpenArray, OpenObject, 116, 102, 110} /\ c \notin {Minus} \cup Digit
  BY Zenon
<1> HIDE DEF S, L, N, c
<1> QED
  BY <1>1, <1>2

\* A container that ends in b is the same in s.
LEMMA ContainerCut ==
    ASSUME NEW b, NEW s, CutFrom(b, s), NEW rb, NEW rs, RestsKept(b, rb, rs),
           NEW q \in 1 .. Len(b), NEW open \in {OpenArray, OpenObject}
    PROVE  Kept(b, InsideAt(b, open, skip_ws(b, q + 1), rb), InsideAt(s, open, skip_ws(s, q + 1), rs))
<1> DEFINE i == skip_ws(b, q + 1)
           j == skip_ws(s, q + 1)
           r == InsideAt(b, open, i, rb)
           r2 == InsideAt(s, open, j, rs)
<1>1. /\ Len(b) \in Nat
      /\ \A k \in Nat \ {0} : (At(b, k) # 0 <=> k <= Len(b)) /\ (At(b, k) # 0 => At(s, k) = At(b, k))
  BY AtCut
<1>2. q + 1 \in 1 .. Len(b) + 1
  BY <1>1
<1>3. EndsThere(b, q + 1, i, j)
  BY <1>2, DigitsCut, Zenon
<1> HIDE DEF i, j
<1>4. i \in 1 .. Len(b) + 1 /\ i \in Nat \ {0}
  BY <1>1, <1>3 DEF EndsThere
<1>5. Close(open) # 0
  BY DEF Close, OpenArray, OpenObject
<1>6. CASE At(b, i) = 0
  <2>1. r = rb[open][i] /\ ~(i <= Len(b))
    BY <1>1, <1>4, <1>5, <1>6, Zenon DEF InsideAt
  <2>2. ~rb[open][i].ok
    BY <1>4, <2>1, Zenon DEF RestsKept
  <2> HIDE DEF r, r2
  <2> QED
    BY <2>1, <2>2, Zenon DEF Kept, r, r2, i, j
<1>7. CASE At(b, i) # 0
  <2>1. j = i /\ At(s, j) = At(b, i)
    BY <1>1, <1>3, <1>4, <1>7, Zenon DEF EndsThere
  <2>2. CASE At(b, i) = Close(open)
    <3>1. r = Parsed(<<>>, i + 1) /\ r2 = Parsed(<<>>, i + 1)
      BY <2>1, <2>2, Zenon DEF InsideAt
    <3>2. i + 1 \in 1 .. Len(b) + 1
      BY <1>1, <1>4, <1>7
    <3> HIDE DEF r, r2
    <3>3. r2 = r /\ r.at = i + 1
      BY <3>1, ParsedIs, Zenon
    <3>4. Kept(b, r, r2)
      BY <3>2, <3>3, Zenon DEF Kept
    <3> QED
      BY <3>4, Zenon DEF r, r2, i, j
  <2>3. CASE At(b, i) # Close(open)
    <3>1. r = rb[open][i] /\ r2 = rs[open][i]
      BY <2>1, <2>3, Zenon DEF InsideAt
    <3> HIDE DEF r, r2
    <3>2. Kept(b, r, r2)
      BY <1>4, <3>1, Zenon DEF RestsKept
    <3> QED
      BY <3>2, Zenon DEF r, r2, i, j
  <2> QED
    BY <2>2, <2>3
<1> QED
  BY <1>6, <1>7

\* A value that ends in b is the same in s; a number might go on.
LEMMA ValueCut ==
    ASSUME NEW b, NEW s, CutFrom(b, s), NEW rb, NEW rs, RestsKept(b, rb, rs),
           NEW p \in 1 .. Len(b) + 1
    PROVE  /\ MemberKept(b, p, parse_value(b, p, rb), parse_value(s, p, rs))
           /\ At(b, skip_ws(b, p)) \notin {Minus} \cup Digit
                => Kept(b, parse_value(b, p, rb), parse_value(s, p, rs))
<1> DEFINE q == skip_ws(b, p)
           r == parse_value(b, p, rb)
           r2 == parse_value(s, p, rs)
<1>1. /\ Len(b) \in Nat
      /\ \A k \in Nat \ {0} : (At(b, k) # 0 <=> k <= Len(b)) /\ (At(b, k) # 0 => At(s, k) = At(b, k))
  BY AtCut
<1>2. EndsThere(b, p, q, skip_ws(s, p))
  BY DigitsCut, Zenon
<1>3. q \in p .. Len(b) + 1 /\ (At(b, q) # 0 => skip_ws(s, p) = q)
  BY <1>2, Zenon DEF EndsThere
<1>4. skip_ws(b, p) = q
  BY Zenon
<1> HIDE DEF q, r, r2
<1>5. CASE At(b, q) = 0
  <2>1. r = Unparsed
    BY <1>4, <1>5, NothingAt, Zenon DEF r
  <2>2. ~r.ok
    BY <2>1, ParsedIs, Zenon
  <2> QED
    BY <2>2, Zenon DEF MemberKept, KeptIfBehind, Kept, r, r2
<1>6. ASSUME At(b, q) # 0, Kept(b, r, r2) \/ (At(b, q) \in {Minus} \cup Digit /\ KeptIfBehind(b, r, r2))
      PROVE  /\ MemberKept(b, p, r, r2)
             /\ At(b, q) \notin {Minus} \cup Digit => Kept(b, r, r2)
  <2>1. p <= Len(b)
    BY <1>1, <1>3, <1>6
  <2> QED
    BY <1>6, <2>1, KeptIsEnough, Zenon DEF MemberKept
<1>7. ASSUME At(b, q) # 0
      PROVE  Kept(b, r, r2) \/ (At(b, q) \in {Minus} \cup Digit /\ KeptIfBehind(b, r, r2))
  <2>1. skip_ws(s, p) = q /\ At(s, q) = At(b, q) /\ q \in 1 .. Len(b) /\ q \in Nat \ {0}
    BY <1>1, <1>3, <1>7
  <2>2. CASE At(b, q) = Quote
    <3>1. At(s, q) = Quote
      BY <2>1, <2>2, Zenon
    <3>2. r = StringOf(parse_string_raw(b, q))
      BY <1>4, <2>2, QuoteAt, Zenon DEF r
    <3>3. r2 = StringOf(parse_string_raw(s, q))
      BY <2>1, <3>1, QuoteAt, Zenon DEF r2
    <3>4. Kept(b, parse_string_raw(b, q), parse_string_raw(s, q))
      BY <2>1, RawCut, Zenon
    <3>5. Kept(b, StringOf(parse_string_raw(b, q)), StringOf(parse_string_raw(s, q)))
      BY <3>4, StringOfKept, Zenon
    <3> QED
      BY <3>2, <3>3, <3>5, Zenon
  <2>3. ASSUME NEW c \in {OpenArray, OpenObject}, At(b, q) = c PROVE Kept(b, r, r2)
    <3> DEFINE X == InsideAt(b, c, skip_ws(b, q + 1), rb)
               Y == InsideAt(s, c, skip_ws(s, q + 1), rs)
    <3>1. At(s, q) = c
      BY <2>1, <2>3, Zenon
    <3>2. r = ListOf(c, X)
      <4>1. \A rest : parse_value(b, p, rest) = ListOf(c, InsideAt(b, c, skip_ws(b, q + 1), rest))
        BY <1>4, <2>3, OpenAt
      <4> QED
        BY <4>1, Zenon DEF r
    <3>3. r2 = ListOf(c, Y)
      <4>1. \A rest : parse_value(s, p, rest) = ListOf(c, InsideAt(s, c, skip_ws(s, q + 1), rest))
        BY <2>1, <3>1, OpenAt
      <4> QED
        BY <4>1, Zenon DEF r2
    <3>4. Kept(b, X, Y)
      BY <2>1, ContainerCut, Zenon
    <3> HIDE DEF X, Y
    <3>5. Kept(b, ListOf(c, X), ListOf(c, Y))
      BY <3>4, ListOfKept, Zenon
    <3> QED
      BY <3>2, <3>3, <3>5, Zenon
  <2>4. CASE At(b, q) \in {116, 102, 110}
    <3>1. /\ TrueText \in Seq(Characters) /\ FalseText \in Seq(Characters) /\ NullText \in Seq(Characters)
      BY DEF TrueText, FalseText, NullText, Characters
    <3>2. /\ Kept(b, TrueAt(b, q), TrueAt(s, q)) /\ Kept(b, FalseAt(b, q), FalseAt(s, q))
          /\ Kept(b, NullAt(b, q), NullAt(s, q))
      BY <2>1, <3>1, LiteralCut, Zenon DEF TrueAt, FalseAt, NullAt
    <3>3. /\ At(b, q) = 116 => r = TrueAt(b, q) /\ r2 = TrueAt(s, q)
          /\ At(b, q) = 102 => r = FalseAt(b, q) /\ r2 = FalseAt(s, q)
          /\ At(b, q) = 110 => r = NullAt(b, q) /\ r2 = NullAt(s, q)
      <4>1. /\ At(b, q) = 116 => r = TrueAt(b, q)
            /\ At(b, q) = 102 => r = FalseAt(b, q)
            /\ At(b, q) = 110 => r = NullAt(b, q)
        BY <1>4, LiteralsAt, Zenon DEF r
      <4>2. /\ At(s, q) = 116 => r2 = TrueAt(s, q)
            /\ At(s, q) = 102 => r2 = FalseAt(s, q)
            /\ At(s, q) = 110 => r2 = NullAt(s, q)
        BY <2>1, LiteralsAt, Zenon DEF r2
      <4> QED
        BY <2>1, <4>1, <4>2, Zenon
    <3>4. At(b, q) = 116 => Kept(b, r, r2)
      BY <3>2, <3>3
    <3>5. At(b, q) = 102 => Kept(b, r, r2)
      BY <3>2, <3>3
    <3>6. At(b, q) = 110 => Kept(b, r, r2)
      BY <3>2, <3>3
    <3> QED
      BY <2>4, <3>4, <3>5, <3>6, Zenon
  <2>5. CASE At(b, q) \in {Minus} \cup Digit
    <3>1. r = parse_number(b, q)
      BY <1>4, <2>5, NumberAt, Zenon DEF r
    <3>2. At(s, q) \in {Minus} \cup Digit
      BY <2>1, <2>5, Zenon
    <3>3. r2 = parse_number(s, q)
      BY <2>1, <3>2, NumberAt, Zenon DEF r2
    <3>4. KeptIfBehind(b, parse_number(b, q), parse_number(s, q))
      BY <2>1, NumberCut, Zenon
    <3> QED
      BY <2>5, <3>1, <3>3, <3>4, Zenon
  <2>6. CASE At(b, q) \notin {Quote, OpenArray, OpenObject, 116, 102, 110} /\ At(b, q) \notin {Minus} \cup Digit
    <3>1. r = Unparsed
      BY <1>4, <2>6, OtherAt, Zenon DEF r
    <3>2. Kept(b, Unparsed, r2)
      BY UnparsedIsKept, Zenon
    <3> QED
      BY <3>1, <3>2, Zenon
  <2> QED
    BY <2>2, <2>3, <2>4, <2>5, <2>6, Zenon
<1>8. /\ MemberKept(b, p, r, r2)
      /\ At(b, q) \notin {Minus} \cup Digit => Kept(b, r, r2)
  BY <1>5, <1>6, <1>7, Zenon DEF q, r, r2
<1> QED
  BY <1>8, Zenon DEF q, r, r2

LEMMA PairCut ==
    ASSUME NEW b, NEW s, CutFrom(b, s), NEW rb, NEW rs, RestsKept(b, rb, rs),
           NEW p \in 1 .. Len(b) + 1
    PROVE  MemberKept(b, p, parse_pair(b, p, rb), parse_pair(s, p, rs))
<1> DEFINE k == skip_ws(b, p)
           key == parse_string_raw(b, k)
           c == skip_ws(b, key.at)
           r == parse_pair(b, p, rb)
           r2 == parse_pair(s, p, rs)
<1>1. /\ Len(b) \in Nat
      /\ \A i \in Nat \ {0} : (At(b, i) # 0 <=> i <= Len(b)) /\ (At(b, i) # 0 => At(s, i) = At(b, i))
  BY AtCut
<1>2. EndsThere(b, p, k, skip_ws(s, p))
  BY DigitsCut, Zenon
<1>3. r = IF key.ok THEN BehindKey(b, key.value, c, rb) ELSE Unparsed
  BY Zenon DEF parse_pair
<1>4. r2 = IF parse_string_raw(s, skip_ws(s, p)).ok
           THEN BehindKey(s, parse_string_raw(s, skip_ws(s, p)).value,
                          skip_ws(s, parse_string_raw(s, skip_ws(s, p)).at), rs)
           ELSE Unparsed
  BY Zenon DEF parse_pair
<1> HIDE DEF r, r2
<1>5. ~key.ok => ~r.ok
  BY <1>3, ParsedIs, Zenon
<1>6. ASSUME key.ok PROVE MemberKept(b, p, r, r2)
  <2>1. At(b, k) = Quote
    <3>1. At(b, k) # Quote => key = Unparsed
      BY Zenon DEF parse_string_raw
    <3> HIDE DEF key
    <3> QED
      BY <1>6, <3>1, ParsedIs, Zenon
  <2>2. At(b, k) # 0
    BY <2>1 DEF Quote
  <2> HIDE DEF k
  <2>3. skip_ws(s, p) = k /\ k \in Nat \ {0} /\ p <= Len(b)
    BY <1>1, <1>2, <2>2 DEF EndsThere
  <2>4. Kept(b, key, parse_string_raw(s, k))
    BY <2>3, RawCut, Zenon
  <2>5. parse_string_raw(s, k) = key /\ key.at \in 1 .. Len(b) + 1
    BY <1>6, <2>4, Zenon DEF Kept
  <2> HIDE DEF key
  <2>6. EndsThere(b, key.at, c, skip_ws(s, key.at))
    BY <2>5, DigitsCut, Zenon
  <2> HIDE DEF c
  <2>7. r = BehindKey(b, key.value, c, rb)
    BY <1>3, <1>6, Zenon
  <2>8. r2 = BehindKey(s, key.value, skip_ws(s, key.at), rs)
    BY <1>4, <1>6, <2>3, <2>5, Zenon
  <2>9. CASE At(b, c) = Colon
    <3>1. At(b, c) # 0
      BY <2>9 DEF Colon
    <3>2. skip_ws(s, key.at) = c /\ c \in Nat \ {0} /\ At(s, c) = Colon /\ c + 1 \in 1 .. Len(b) + 1
      BY <1>1, <2>5, <2>6, <2>9, <3>1 DEF EndsThere
    <3> DEFINE v == parse_value(b, c + 1, rb)
               v2 == parse_value(s, c + 1, rs)
    <3>3. MemberKept(b, c + 1, v, v2)
      BY <3>2, ValueCut, Zenon
    <3>4. r = PairOfKey(key.value, v)
      BY <2>7, <2>9, Zenon DEF BehindKey
    <3>5. r2 = PairOfKey(key.value, v2)
      BY <2>8, <3>2, Zenon DEF BehindKey
    <3> HIDE DEF v, v2
    <3>6. KeptIfBehind(b, PairOfKey(key.value, v), PairOfKey(key.value, v2))
      BY <3>3, PairOfKeyKept, Zenon DEF MemberKept
    <3> QED
      BY <2>3, <3>4, <3>5, <3>6, Zenon DEF MemberKept
  <2>10. CASE At(b, c) # Colon
    <3>1. r = Unparsed
      BY <2>7, <2>10, Zenon DEF BehindKey
    <3>2. ~r.ok
      BY <3>1, ParsedIs, Zenon
    <3> QED
      BY <3>2, Zenon DEF MemberKept, KeptIfBehind
  <2> QED
    BY <2>9, <2>10
<1>7. MemberKept(b, p, r, r2)
  BY <1>5, <1>6, Zenon DEF MemberKept, KeptIfBehind
<1> QED
  BY <1>7, Zenon DEF r, r2

LEMMA MemberCut ==
    ASSUME NEW b, NEW s, CutFrom(b, s), NEW rb, NEW rs, RestsKept(b, rb, rs),
           NEW p \in 1 .. Len(b) + 1, NEW open
    PROVE  MemberKept(b, p, MemberAt(b, open, p, rb), MemberAt(s, open, p, rs))
<1>1. CASE open = OpenObject
  BY <1>1, PairCut, Zenon DEF MemberAt
<1>2. CASE open # OpenObject
  BY <1>2, ValueCut, Zenon DEF MemberAt
<1> QED
  BY <1>1, <1>2

\* What is behind a comma.
BehindKept(b, more, more2) ==
    \A q \in 1 .. Len(b) + 1 : Kept(b, more[q], more2[q])

LEMMA BeforeMoreKept ==
    \A b, member, r, r2 : Kept(b, r, r2) => Kept(b, BeforeMore(member, r), BeforeMore(member, r2))
<1> TAKE b, member, r, r2
<1> SUFFICES ASSUME Kept(b, r, r2) PROVE Kept(b, BeforeMore(member, r), BeforeMore(member, r2))
  BY Zenon
<1>1. CASE r.ok
  <2>1. r2 = r /\ r.at \in 1 .. Len(b) + 1
    BY <1>1, Zenon DEF Kept
  <2> DEFINE x == <<member>> \o r.value
             y == BeforeMore(member, r)
  <2>2. y = Parsed(x, r.at)
    BY <1>1, Zenon DEF BeforeMore
  <2> HIDE DEF x, y
  <2>3. y.at = r.at
    BY <2>2, ParsedIs, Zenon
  <2>4. Kept(b, y, y)
    BY <2>1, <2>3, Zenon DEF Kept
  <2> QED
    BY <2>1, <2>4, Zenon DEF y
<1>2. CASE ~r.ok
  BY <1>2, Zenon DEF Kept, BeforeMore
<1> QED
  BY <1>1, <1>2

\* A member and what follows: the brackets that end in b end in s.
LEMMA MembersCut ==
    ASSUME NEW b, NEW s, CutFrom(b, s), NEW p, NEW m, NEW m2, MemberKept(b, p, m, m2),
           NEW more, NEW more2, BehindKept(b, more, more2), NEW open \in {OpenArray, OpenObject}
    PROVE  /\ Kept(b, Members(b, open, m, more), Members(s, open, m2, more2))
           /\ Members(b, open, m, more).ok => p <= Len(b)
<1> DEFINE r == Members(b, open, m, more)
           r2 == Members(s, open, m2, more2)
           next == skip_ws(b, m.at)
<1>1. /\ Len(b) \in Nat
      /\ \A i \in Nat \ {0} : (At(b, i) # 0 <=> i <= Len(b)) /\ (At(b, i) # 0 => At(s, i) = At(b, i))
  BY AtCut
<1>2. CASE ~m.ok
  <2>1. r = m
    BY <1>2, Zenon DEF Members
  <2> HIDE DEF r, r2
  <2>2. Kept(b, r, r2) /\ ~r.ok
    BY <1>2, <2>1, Zenon DEF Kept
  <2> QED
    BY <2>2, Zenon DEF r, r2
<1>3. CASE m.ok
  <2>1. p <= Len(b) /\ m.at \in 1 .. Len(b) + 1 /\ (At(b, m.at) # 0 => m2 = m)
    BY <1>3, Zenon DEF MemberKept, KeptIfBehind
  <2>2. r = More(b, open, m.value, next, more)
    BY <1>3, Zenon DEF Members
  <2>3. EndsThere(b, m.at, next, skip_ws(s, m.at))
    BY <2>1, DigitsCut, Zenon
  <2> HIDE DEF next
  <2>4. Close(open) # 0 /\ Comma # 0
    BY DEF Close, OpenArray, OpenObject, Comma
  <2>5. CASE At(b, next) = 0
    <3>1. r = Unparsed
      BY <2>2, <2>4, <2>5, Zenon DEF More
    <3> HIDE DEF r, r2
    <3>2. Kept(b, r, r2)
      BY <3>1, UnparsedIsKept, Zenon
    <3> QED
      BY <2>1, <3>2, Zenon DEF r, r2
  <2>6. CASE At(b, next) # 0
    <3>1. next \in Nat \ {0} /\ m.at \in Nat \ {0} /\ m.at <= next /\ next <= Len(b) /\ At(s, next) = At(b, next)
          /\ skip_ws(s, m.at) = next /\ next + 1 \in 1 .. Len(b) + 1
      BY <1>1, <2>1, <2>3, <2>6 DEF EndsThere
    <3>2. At(b, m.at) # 0
      BY <1>1, <3>1
    <3>3. m2 = m
      BY <2>1, <3>2, Zenon
    <3>4. r2 = More(s, open, m.value, next, more2)
      BY <1>3, <3>1, <3>3, Zenon DEF Members
    <3> HIDE DEF r, r2
    <3>5. CASE At(b, next) = Close(open)
      <4>1. r = Parsed(<<m.value>>, next + 1)
        BY <2>2, <3>5, Zenon DEF More
      <4>2. r2 = Parsed(<<m.value>>, next + 1)
        BY <3>1, <3>4, <3>5, Zenon DEF More
      <4>3. r2 = r /\ r.at = next + 1
        BY <4>1, <4>2, ParsedIs, Zenon
      <4>4. Kept(b, r, r2)
        BY <3>1, <4>3, Zenon DEF Kept
      <4> QED
        BY <2>1, <4>4, Zenon DEF r, r2
    <3>6. CASE At(b, next) # Close(open) /\ At(b, next) = Comma
      <4>1. r = BeforeMore(m.value, more[next + 1])
        BY <2>2, <3>6, Zenon DEF More
      <4>2. r2 = BeforeMore(m.value, more2[next + 1])
        BY <3>1, <3>4, <3>6, Zenon DEF More
      <4>3. Kept(b, more[next + 1], more2[next + 1])
        BY <3>1, Zenon DEF BehindKept
      <4>4. Kept(b, BeforeMore(m.value, more[next + 1]), BeforeMore(m.value, more2[next + 1]))
        BY <4>3, BeforeMoreKept, Zenon
      <4>5. Kept(b, r, r2)
        BY <4>1, <4>2, <4>4, Zenon
      <4> QED
        BY <2>1, <4>5, Zenon DEF r, r2
    <3>7. CASE At(b, next) # Close(open) /\ At(b, next) # Comma
      <4>1. r = Unparsed
        BY <2>2, <3>7, Zenon DEF More
      <4>2. Kept(b, r, r2)
        BY <4>1, UnparsedIsKept, Zenon
      <4> QED
        BY <2>1, <4>2, Zenon DEF r, r2
    <3> QED
      BY <3>5, <3>6, <3>7, Zenon
  <2> QED
    BY <2>5, <2>6
<1> QED
  BY <1>2, <1>3

LEMMA RestIsMembers ==
    \A t : \A open \in {OpenArray, OpenObject}, left \in Nat, p \in Nat :
      Rest(t)[left + 1][open][p]
        = Members(t, open, MemberAt(t, open, p, Rest(t)[left]), Rest(t)[left][open])
<1> TAKE t
<1> TAKE open \in {OpenArray, OpenObject}, left \in Nat, p \in Nat
<1>1. \A l \in Nat, q \in Nat :
        /\ Rest(t)[0][open][q] = Unparsed
        /\ Rest(t)[l + 1][open][q] = Members(t, open, MemberAt(t, open, q, Rest(t)[l]), Rest(t)[l][open])
  BY RestUnfolds, Zenon
<1> QED
  BY <1>1, Zenon

LEMMA RestsCut ==
    ASSUME NEW b, NEW s, CutFrom(b, s)
    PROVE  \A left \in Nat : \A n \in Nat : left <= n => RestsKept(b, Rest(b)[left], Rest(s)[n])
<1> DEFINE Is(left) == \A n \in Nat : left <= n => RestsKept(b, Rest(b)[left], Rest(s)[n])
           S == {left \in Nat : Is(left)}
<1>0. Len(b) \in Nat /\ \A q \in 1 .. Len(b) + 1 : q \in Nat
  BY DEF CutFrom
<1>1. Is(0)
  <2> SUFFICES ASSUME NEW n \in Nat PROVE RestsKept(b, Rest(b)[0], Rest(s)[n])
    BY Zenon
  <2>1. ASSUME NEW open \in {OpenArray, OpenObject}, NEW q \in 1 .. Len(b) + 1
        PROVE  Rest(b)[0][open][q] = Unparsed
    <3>1. \A left \in Nat, p \in Nat : Rest(b)[0][open][p] = Unparsed
      BY RestUnfolds
    <3> QED
      BY <1>0, <3>1, 0 \in Nat, Zenon
  <2>2. ~Unparsed.ok
    BY ParsedIs
  <2> QED
    BY <2>1, <2>2, UnparsedIsKept, Zenon DEF RestsKept
<1>2. ASSUME NEW left \in Nat, Is(left) PROVE Is(left + 1)
  <2> SUFFICES ASSUME NEW n \in Nat, left + 1 <= n
               PROVE  RestsKept(b, Rest(b)[left + 1], Rest(s)[n])
    BY Zenon
  <2>1. PICK k \in Nat : n = k + 1 /\ left <= k
    <3>1. n - 1 \in Nat /\ n = (n - 1) + 1 /\ left <= n - 1
      OBVIOUS
    <3> QED
      BY <3>1, Zenon
  <2> DEFINE rb == Rest(b)[left]
             rs == Rest(s)[k]
  <2>2. RestsKept(b, rb, rs)
    BY <1>2, <2>1, Zenon
  <2> HIDE DEF rb, rs
  <2>3. ASSUME NEW open \in {OpenArray, OpenObject}, NEW q \in 1 .. Len(b) + 1
        PROVE  /\ Kept(b, Rest(b)[left + 1][open][q], Rest(s)[k + 1][open][q])
               /\ Rest(b)[left + 1][open][q].ok => q <= Len(b)
    <3> DEFINE m == MemberAt(b, open, q, rb)
               m2 == MemberAt(s, open, q, rs)
    <3>1. MemberKept(b, q, m, m2)
      BY <2>2, MemberCut, Zenon
    <3>2. BehindKept(b, rb[open], rs[open])
      BY <2>2, Zenon DEF RestsKept, BehindKept
    <3>3. Rest(b)[left + 1][open][q] = Members(b, open, m, rb[open])
      <4>1. q \in Nat
        BY <1>0
      <4> QED
        BY <4>1, RestIsMembers, Zenon DEF rb
    <3>4. Rest(s)[k + 1][open][q] = Members(s, open, m2, rs[open])
      <4>1. q \in Nat
        BY <1>0
      <4> QED
        BY <4>1, RestIsMembers, Zenon DEF rs
    <3> HIDE DEF m, m2
    <3>5. /\ Kept(b, Members(b, open, m, rb[open]), Members(s, open, m2, rs[open]))
          /\ Members(b, open, m, rb[open]).ok => q <= Len(b)
      BY <3>1, <3>2, MembersCut, Zenon
    <3> QED
      BY <3>3, <3>4, <3>5, Zenon
  <2>4. RestsKept(b, Rest(b)[left + 1], Rest(s)[k + 1])
    BY <2>3, Zenon DEF RestsKept
  <2> QED
    BY <2>1, <2>4, Zenon
<1>3. S \in SUBSET Nat /\ 0 \in S /\ \A left \in S : left + 1 \in S
  <2> HIDE DEF Is
  <2> QED
    BY <1>1, <1>2
<1>4. \A left \in Nat : left \in S
  <2> HIDE DEF S
  <2> QED
    BY <1>3, Induction
<1> QED
  BY <1>4 DEF Is

\* A number is not of a type that has a size, and no failure is.
LEMMA NumbersHaveNoSize ==
    ASSUME NEW t, NEW p PROVE ~Sized(Outcome(parse_number(t, p)))
<1> DEFINE r == parse_number(t, p)
<1>1. \A v, at : Outcome(Parsed(v, at)) = v
  BY DEF Outcome, Parsed
<1>2. ~Sized(Outcome(Unparsed)) /\ ~Sized(Outcome(OutOfRange))
  BY DEF Outcome, Unparsed, OutOfRange, Sized, Discarded, Thrown
<1>3. \A q, to : ~Sized(Float(t, q, to))
  BY DEF Float, Sized, Whole
<1>4. ASSUME NEW n, NEW at
      PROVE  ~Sized(Outcome(SignedOf(n, at))) /\ ~Sized(Outcome(UnsignedOf(n, at)))
  <2>1. ~Sized(Signed(-n)) /\ ~Sized(Unsigned(n))
    BY DEF Sized, Signed, Unsigned
  <2>2. SignedOf(n, at) = OutOfRange \/ SignedOf(n, at) = Parsed(Signed(-n), at)
    BY Zenon DEF SignedOf
  <2>3. UnsignedOf(n, at) = OutOfRange \/ UnsignedOf(n, at) = Parsed(Unsigned(n), at)
    BY Zenon DEF UnsignedOf
  <2>4. Outcome(Parsed(Signed(-n), at)) = Signed(-n) /\ Outcome(Parsed(Unsigned(n), at)) = Unsigned(n)
    BY <1>1, Zenon
  <2>5. ~Sized(Outcome(SignedOf(n, at)))
    BY <1>2, <2>1, <2>2, <2>4
  <2>6. ~Sized(Outcome(UnsignedOf(n, at)))
    BY <1>2, <2>1, <2>3, <2>4
  <2> QED
    BY <2>5, <2>6
<1>5. \/ r = Unparsed
      \/ \E q, to : r = Parsed(Float(t, q, to), to)
      \/ \E n, at : r = SignedOf(n, at) \/ r = UnsignedOf(n, at)
  BY Zenon DEF parse_number
<1> HIDE DEF r
<1>6. ASSUME NEW q, NEW to, r = Parsed(Float(t, q, to), to) PROVE ~Sized(Outcome(r))
  <2>1. Outcome(r) = Float(t, q, to)
    BY <1>1, <1>6
  <2> QED
    BY <1>3, <2>1
<1>7. ASSUME NEW n, NEW at, r = SignedOf(n, at) \/ r = UnsignedOf(n, at) PROVE ~Sized(Outcome(r))
  BY <1>4, <1>7
<1>8. ~Sized(Outcome(r))
  BY <1>2, <1>5, <1>6, <1>7
<1> QED
  BY <1>8, Zenon DEF r

(***************************************************************************)
(* No part of the text of a string, an array or an object is parsed into   *)
(* another value: it is discarded, out of range, or misses only what       *)
(* stands behind the value.                                                *)
(***************************************************************************)
THEOREM PartIsDiscarded ==
    ASSUME NEW text \in Seq(Characters), NEW n \in 0 .. Len(text), Sized(parse(text))
    PROVE  parse(SubSeq(text, 1, n)) \in {Discarded, Thrown, parse(text)}
<1> DEFINE b == SubSeq(text, 1, n)
           q == skip_ws(b, 1)
           r == parse_value(b, 1, Rest(b)[Len(b)])
           r2 == parse_value(text, 1, Rest(text)[Len(text)])
<1>1. CutFrom(b, text) /\ Len(b) \in Nat /\ Len(text) \in Nat /\ Len(b) <= Len(text) /\ 1 \in 1 .. Len(b) + 1
      /\ b \in Seq(Characters)
  <2>1. n \in Nat /\ n <= Len(text) /\ Len(text) \in Nat
    OBVIOUS
  <2>2. Len(b) = n /\ b \in Seq(Characters) /\ \A i \in 1 .. n : b[i] = text[i]
    BY <2>1
  <2> HIDE DEF b
  <2> QED
    BY <2>1, <2>2 DEF CutFrom
<1> HIDE DEF b
<1>2. parse(b) = Outcome(r) /\ parse(text) = Outcome(r2)
  BY <1>1, TextsAreCStrings, Zenon DEF parse
<1>3. RestsKept(b, Rest(b)[Len(b)], Rest(text)[Len(text)])
  BY <1>1, RestsCut, Zenon
<1>4. MemberKept(b, 1, r, r2) /\ (At(b, q) \notin {Minus} \cup Digit => Kept(b, r, r2))
  BY <1>1, <1>3, ValueCut, Zenon
<1>5. At(b, q) \notin {Minus} \cup Digit
  <2> SUFFICES ASSUME At(b, q) \in {Minus} \cup Digit PROVE FALSE
    BY Zenon
  <2>1. EndsThere(b, 1, q, skip_ws(text, 1))
    BY <1>1, DigitsCut, Zenon
  <2>2. At(b, q) # 0
    BY DEF Minus, Digit, Zero
  <2> HIDE DEF q
  <2>3. skip_ws(text, 1) = q /\ q \in Nat \ {0}
    BY <1>1, <2>1, <2>2 DEF EndsThere
  <2>4. At(text, q) = At(b, q)
    BY <1>1, <2>2, <2>3, AtCut, Zenon
  <2>5. At(text, q) \in {Minus} \cup Digit
    BY <2>4, Zenon
  <2>6. r2 = parse_number(text, q)
    BY <2>3, <2>5, NumberAt, Zenon
  <2> QED
    BY <1>2, <2>6, NumbersHaveNoSize, Zenon
<1> HIDE DEF r, r2
<1>6. CASE r.ok
  <2>1. r2 = r
    BY <1>4, <1>5, <1>6, Zenon DEF Kept
  <2>2. parse(b) = parse(text)
    BY <1>2, <2>1, Zenon
  <2> QED
    BY <2>2, Zenon DEF b
<1>7. CASE ~r.ok
  <2>1. Outcome(r) \in {Discarded, Thrown}
    BY <1>7, Zenon DEF Outcome
  <2> QED
    BY <1>2, <2>1, Zenon DEF b
<1> QED
  BY <1>6, <1>7

=============================================================================

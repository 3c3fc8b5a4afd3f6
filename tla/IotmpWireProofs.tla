--------------------------- MODULE IotmpWireProofs ---------------------------
(***************************************************************************)
(* Proofs about IotmpWire and the varints it is built on: what is written  *)
(* is read as what it was written for, a varint that is cut is not read,   *)
(* and values and bodies survive however deep they are nested.             *)
(***************************************************************************)
EXTENDS IotmpWire, IotmpJson, SequenceTheorems, WellFoundedInduction, TLAPS

-----------------------------------------------------------------------------
(* Induction over a set of numbers. *)

\* A set of naturals with zero and all successors is all of them.
LEMMA Induction ==
    ASSUME NEW S \in SUBSET Nat, 0 \in S, \A n \in S : n + 1 \in S
    PROVE  \A n \in Nat : n \in S
<1> SUFFICES ASSUME Nat \ S # {} PROVE FALSE
  OBVIOUS
<1> DEFINE less == OpToRel(<, Nat)
<1>1. IsWellFoundedOn(less, Nat)
  BY NatLessThanWellFounded
<1>2. \A x, y \in Nat : y < x => <<y, x>> \in less
  BY DEF OpToRel
<1> HIDE DEF less
<1>3. PICK x \in Nat \ S : \A y \in Nat \ S : ~ (<<y, x>> \in less)
  <2>1. Nat \ S \subseteq Nat
    OBVIOUS
  <2> QED
    BY <1>1, <2>1, WFMin
<1>4. x # 0 /\ x - 1 \in Nat /\ x - 1 < x /\ (x - 1) + 1 = x
  BY <1>3
<1>5. x - 1 \in S
  BY <1>2, <1>3, <1>4
<1> QED
  BY <1>3, <1>4, <1>5

\* The same where each number follows from all below it.
LEMMA CompleteInduction ==
    ASSUME NEW S \in SUBSET Nat, \A n \in Nat : (\A k \in 0 .. n - 1 : k \in S) => n \in S
    PROVE  \A n \in Nat : n \in S
<1> DEFINE B == {n \in Nat : \A k \in 0 .. n - 1 : k \in S}
<1>1. 0 \in B
  OBVIOUS
<1>2. \A n \in B : n + 1 \in B
  <2> TAKE n \in B
  <2>1. n \in S
    OBVIOUS
  <2>2. \A k \in 0 .. (n + 1) - 1 : k \in 0 .. n - 1 \/ k = n
    OBVIOUS
  <2> QED
    BY <2>1, <2>2
<1> HIDE DEF B
<1>3. \A n \in Nat : n \in B
  <2>1. B \in SUBSET Nat
    BY DEF B
  <2> QED
    BY <1>1, <1>2, <2>1, Induction
<1> QED
  BY <1>3 DEF B

-----------------------------------------------------------------------------
(* What is written. *)

\* The bytes of n, by those f has for smaller numbers: groups of bits from the
\* last one on, or digits up to the last one.
Grow(base, f, n) ==
    IF base = 128 THEN IF n < 128 THEN <<n>> ELSE <<128 + (n % 128)>> \o f[n \div 128]
    ELSE IF n < 10 THEN <<Zero + n>> ELSE f[n \div 10] \o <<Zero + (n % 10)>>

\* f has the bytes of the numbers up to n.
Upto(base, f, n) == \A i \in 0 .. n : f[i] = Grow(base, f, i)

\* A division leaves a smaller number.
LEMMA Divided ==
    ASSUME NEW n \in Nat
    PROVE  /\ n \div 128 \in Nat /\ n % 128 \in 0 .. 127
           /\ n = (n % 128) + 128 * (n \div 128)
           /\ n >= 128 => n \div 128 \in 1 .. n - 1
OBVIOUS

LEMMA DividedByTen ==
    ASSUME NEW n \in Nat
    PROVE  /\ n \div 10 \in Nat /\ n % 10 \in 0 .. 9
           /\ n = (n % 10) + 10 * (n \div 10)
           /\ n >= 10 => n \div 10 \in 1 .. n - 1
OBVIOUS

\* Grow() asks f for a smaller number, if at all.
LEMMA GrowIsLocal ==
    ASSUME NEW base \in {10, 128}, NEW n \in Nat, NEW f, NEW g, \A k \in 0 .. n - 1 : f[k] = g[k]
    PROVE  Grow(base, f, n) = Grow(base, g, n)
<1>1. CASE n < base
  BY <1>1 DEF Grow
<1>2. CASE n >= 128 /\ base = 128
  <2>1. f[n \div 128] = g[n \div 128]
    BY <1>2, Divided
  <2>2. ~ (n < 128)
    BY <1>2
  <2> QED
    BY <1>2, <2>1, <2>2, Zenon DEF Grow
<1>3. CASE n >= 10 /\ base = 10
  <2>1. f[n \div 10] = g[n \div 10]
    BY <1>3, DividedByTen
  <2>2. ~ (n < 10) /\ base # 128
    BY <1>3
  <2> QED
    BY <1>3, <2>1, <2>2, Zenon DEF Grow
<1> QED
  BY <1>1, <1>2, <1>3

\* The bytes of a number are the same in all such functions.
LEMMA UptoIsUnique ==
    ASSUME NEW base \in {10, 128}, NEW f, NEW g, NEW m \in Nat, NEW n \in Nat,
           Upto(base, f, m), Upto(base, g, n)
    PROVE  \A i \in Nat : i <= m /\ i <= n => f[i] = g[i]
<1> DEFINE S == {i \in Nat : i <= m /\ i <= n => f[i] = g[i]}
<1>1. ASSUME NEW i \in Nat, \A k \in 0 .. i - 1 : k \in S
      PROVE  i \in S
  <2> SUFFICES ASSUME i <= m, i <= n PROVE f[i] = g[i]
    OBVIOUS
  <2>1. f[i] = Grow(base, f, i) /\ g[i] = Grow(base, g, i)
    BY DEF Upto
  <2>2. \A k \in 0 .. i - 1 : f[k] = g[k]
    BY <1>1
  <2> QED
    BY <2>1, <2>2, GrowIsLocal
<1> HIDE DEF S
<1>2. \A i \in Nat : i \in S
  BY <1>1, CompleteInduction, S \in SUBSET Nat DEF S
<1> QED
  BY <1>2 DEF S

\* There is such a function up to each number.
LEMMA UptoExists == ASSUME NEW base \in {10, 128} PROVE \A n \in Nat : \E f : Upto(base, f, n)
<1> DEFINE S == {n \in Nat : \E f : Upto(base, f, n)}
<1>1. 0 \in S
  <2> DEFINE f == [i \in 0 .. 0 |-> Grow(base, <<>>, i)]
  <2>1. f[0] = Grow(base, <<>>, 0) /\ Grow(base, <<>>, 0) = Grow(base, f, 0)
    BY GrowIsLocal
  <2>2. Upto(base, f, 0)
    BY <2>1 DEF Upto
  <2> QED
    BY <2>2
<1>2. ASSUME NEW n \in S PROVE n + 1 \in S
  <2>1. PICK f : Upto(base, f, n)
    OBVIOUS
  <2> DEFINE g == [i \in 0 .. n + 1 |-> IF i = n + 1 THEN Grow(base, f, i) ELSE f[i]]
  <2>2. ASSUME NEW i \in 0 .. n + 1 PROVE g[i] = Grow(base, g, i)
    <3>1. g[i] = Grow(base, f, i)
      <4>1. CASE i = n + 1
        BY <4>1
      <4>2. CASE i # n + 1
        <5>1. i \in 0 .. n
          BY <4>2
        <5> QED
          BY <2>1, <4>2, <5>1, Zenon DEF Upto
      <4> QED
        BY <4>1, <4>2
    <3>2. \A k \in 0 .. i - 1 : f[k] = g[k]
      OBVIOUS
    <3> HIDE DEF g
    <3> QED
      BY <3>1, <3>2, GrowIsLocal
  <2> HIDE DEF g
  <2>3. Upto(base, g, n + 1)
    BY <2>2 DEF Upto
  <2> QED
    BY <2>3
<1> HIDE DEF S
<1>3. \A n \in Nat : n \in S
  BY <1>1, <1>2, Induction, S \in SUBSET Nat DEF S
<1> QED
  BY <1>3 DEF S

\* There is one for all numbers.
LEMMA GrowExists ==
    ASSUME NEW base \in {10, 128}
    PROVE  \E f : f = [n \in Nat |-> Grow(base, f, n)]
<1> DEFINE first(n) == CHOOSE f : Upto(base, f, n)
           whole == [n \in Nat |-> first(n)[n]]
<1>1. \A n \in Nat : Upto(base, first(n), n)
  BY UptoExists
<1> HIDE DEF first
<1>2. ASSUME NEW n \in Nat PROVE whole[n] = Grow(base, whole, n)
  <2>1. whole[n] = Grow(base, first(n), n)
    BY <1>1, n \in 0 .. n DEF Upto
  <2>2. ASSUME NEW k \in 0 .. n - 1 PROVE first(n)[k] = whole[k]
    <3>1. k \in Nat /\ k <= n
      OBVIOUS
    <3>2. first(n)[k] = first(k)[k]
      BY <1>1, <3>1, UptoIsUnique
    <3> QED
      BY <3>1, <3>2
  <2> HIDE DEF whole
  <2> QED
    BY <2>1, <2>2, GrowIsLocal
<1>3. whole = [n \in Nat |-> Grow(base, whole, n)]
  <2>1. whole = [n \in Nat |-> whole[n]]
    OBVIOUS
  <2> HIDE DEF whole
  <2> QED
    BY <1>2, <2>1
<1> HIDE DEF whole
<1> QED
  BY <1>3

\* The bytes of a number are those its definition gives.
LEMMA VarintUnfolds == \A n \in Nat : Varint[n] = Grow(128, Varint, n)
<1> DEFINE AsIs(f) == f = [n \in Nat |-> IF n < 128 THEN <<n>>
                                          ELSE <<128 + (n % 128)>> \o f[n \div 128]]
<1>1. PICK f : f = [n \in Nat |-> Grow(128, f, n)]
  BY GrowExists, 128 \in {10, 128}
<1>2. AsIs(f)
  <2>1. \A n \in Nat : Grow(128, f, n) = IF n < 128 THEN <<n>> ELSE <<128 + (n % 128)>> \o f[n \div 128]
    BY DEF Grow
  <2> QED
    BY <1>1, <2>1, Zenon
<1>3. Varint = CHOOSE g : AsIs(g)
  BY DEF Varint
<1> HIDE DEF AsIs
<1>4. AsIs(Varint)
  BY <1>2, <1>3
<1>5. Varint = [n \in Nat |-> IF n < 128 THEN <<n>> ELSE <<128 + (n % 128)>> \o Varint[n \div 128]]
  BY <1>4 DEF AsIs
<1> TAKE n \in Nat
<1>6. Varint[n] = IF n < 128 THEN <<n>> ELSE <<128 + (n % 128)>> \o Varint[n \div 128]
  BY <1>5
<1> QED
  BY <1>6 DEF Grow

\* The elements of two sequences one behind the other.
LEMMA Joined ==
    ASSUME NEW S, NEW s \in Seq(S), NEW t \in Seq(S)
    PROVE  /\ s \o t \in Seq(S)
           /\ Len(s \o t) = Len(s) + Len(t)
           /\ \A j \in 1 .. Len(s) : (s \o t)[j] = s[j]
           /\ \A j \in 1 .. Len(t) : (s \o t)[Len(s) + j] = t[j]
<1>1. Len(s) \in Nat /\ Len(t) \in Nat
  OBVIOUS
<1>2. /\ s \o t \in Seq(S)
      /\ Len(s \o t) = Len(s) + Len(t)
      /\ \A i \in 1 .. Len(s) + Len(t) :
           (s \o t)[i] = IF i <= Len(s) THEN s[i] ELSE t[i - Len(s)]
  BY ConcatProperties
<1>3. \A j \in 1 .. Len(s) : j \in 1 .. Len(s) + Len(t) /\ j <= Len(s)
  BY <1>1
<1>4. \A j \in 1 .. Len(t) : /\ Len(s) + j \in 1 .. Len(s) + Len(t)
                             /\ ~ (Len(s) + j <= Len(s)) /\ (Len(s) + j) - Len(s) = j
  BY <1>1
<1>5. \A j \in 1 .. Len(s) : (s \o t)[j] = s[j]
  BY <1>2, <1>3, Zenon
<1>6. \A j \in 1 .. Len(t) : (s \o t)[Len(s) + j] = t[j]
  BY <1>2, <1>4, Zenon
<1> QED
  BY <1>2, <1>5, <1>6, Zenon

\* A number is written as bytes, at least one.
LEMMA VarintType == \A n \in Nat : Varint[n] \in Seq(Byte) /\ Len(Varint[n]) \in Nat \ {0}
<1> DEFINE S == {n \in Nat : Varint[n] \in Seq(Byte) /\ Len(Varint[n]) \in Nat \ {0}}
<1>1. ASSUME NEW n \in Nat, \A k \in 0 .. n - 1 : k \in S
      PROVE  n \in S
  <2>1. CASE n < 128
    <3>1. Varint[n] = <<n>>
      BY <2>1, VarintUnfolds, Zenon DEF Grow
    <3>2. <<n>> \in Seq(Byte) /\ Len(<<n>>) \in Nat \ {0}
      BY <2>1 DEF Byte
    <3> QED
      BY <3>1, <3>2, Zenon
  <2>2. CASE n >= 128
    <3> DEFINE rest == Varint[n \div 128]
    <3>1. n \div 128 \in S
      <4>1. n \div 128 \in 0 .. n - 1
        BY <2>2, Divided
      <4> HIDE DEF S
      <4> QED
        BY <1>1, <4>1
    <3>2. rest \in Seq(Byte) /\ Len(rest) \in Nat \ {0}
      BY <3>1
    <3>3. Varint[n] = <<128 + (n % 128)>> \o rest
      BY <2>2, VarintUnfolds, ~ (n < 128) DEF Grow
    <3>4. <<128 + (n % 128)>> \in Seq(Byte) /\ Len(<<128 + (n % 128)>>) = 1
      BY Divided DEF Byte
    <3> HIDE DEF rest
    <3>5. Varint[n] \in Seq(Byte) /\ Len(Varint[n]) = 1 + Len(rest)
      BY <3>2, <3>3, <3>4, ConcatProperties
    <3>6. Len(Varint[n]) \in Nat \ {0}
      BY <3>2, <3>5
    <3> QED
      BY <3>5, <3>6
  <2> QED
    BY <2>1, <2>2
<1> HIDE DEF S
<1>2. \A n \in Nat : n \in S
  BY <1>1, CompleteInduction, S \in SUBSET Nat DEF S
<1> QED
  BY <1>2 DEF S

\* A large number is a group that announces more, and the number above it.
LEMMA VarintOfLarge ==
    ASSUME NEW n \in Nat, n >= 128
    PROVE  LET rest == Varint[n \div 128]
           IN  /\ Len(Varint[n]) = 1 + Len(rest)
               /\ Varint[n][1] = 128 + (n % 128)
               /\ \A j \in 1 .. Len(rest) : Varint[n][1 + j] = rest[j]
<1> DEFINE rest == Varint[n \div 128]
           s == <<128 + (n % 128)>>
<1>1. n \div 128 \in Nat /\ ~ (n < 128)
  BY Divided
<1>2. rest \in Seq(Byte) /\ Len(rest) \in Nat
  BY <1>1, VarintType
<1>3. s \in Seq(Byte) /\ Len(s) = 1 /\ s[1] = 128 + (n % 128)
  BY Divided DEF Byte
<1>4. Varint[n] = s \o rest
  BY <1>1, VarintUnfolds DEF Grow
<1> HIDE DEF s, rest
<1>5. /\ Len(s \o rest) = 1 + Len(rest)
      /\ (s \o rest)[1] = s[1]
      /\ \A j \in 1 .. Len(rest) : (s \o rest)[1 + j] = rest[j]
  <2>1. 1 \in 1 .. 1
    OBVIOUS
  <2>2. /\ Len(s \o rest) = Len(s) + Len(rest)
        /\ \A j \in 1 .. Len(s) : (s \o rest)[j] = s[j]
        /\ \A j \in 1 .. Len(rest) : (s \o rest)[Len(s) + j] = rest[j]
    <3>1. s \in Seq(Byte) /\ rest \in Seq(Byte)
      BY <1>2, <1>3
    <3> QED
      BY <3>1, Joined
  <2>3. Len(s) = 1
    BY <1>3
  <2> QED
    BY <2>1, <2>2, <2>3, Zenon
<1>6. Len(Varint[n]) = 1 + Len(rest) /\ Varint[n][1] = 128 + (n % 128)
  BY <1>3, <1>4, <1>5
<1>7. \A j \in 1 .. Len(rest) : Varint[n][1 + j] = rest[j]
  BY <1>4, <1>5, Zenon
<1> QED
  BY <1>6, <1>7, Zenon DEF rest

-----------------------------------------------------------------------------
(* What is read. *)

\* Reading at i, when f has what is read behind it.
Read(b, f, i) ==
    [room \in Nat |->
        IF i > Len(b) \/ room <= 1 THEN Fail
        ELSE IF b[i] < 128 THEN Value(b[i], i + 1)
        ELSE LET more == f[i + 1][(room + 127) \div 128]
             IN  IF more.ok THEN Value((b[i] % 128) + 128 * more.value, more.at) ELSE Fail]

\* What is read at a place depends on the places behind it alone.
LEMMA ReadIsLocal ==
    ASSUME NEW b, NEW f, NEW g, NEW i \in Nat, i <= Len(b) => f[i + 1] = g[i + 1]
    PROVE  Read(b, f, i) = Read(b, g, i)
<1>1. CASE i > Len(b)
  BY <1>1 DEF Read
<1>2. CASE f[i + 1] = g[i + 1]
  BY <1>2 DEF Read
<1> QED
  BY <1>1, <1>2

\* There is a function that reads at each of the last k places.
LEMMA ReadExists ==
    ASSUME NEW b, Len(b) \in Nat
    PROVE  \E f : \A i \in 1 .. Len(b) + 1 : f[i] = Read(b, f, i)
<1> DEFINE Final(k) == {i \in 1 .. Len(b) + 1 : i >= Len(b) + 1 - k}
           S == {k \in Nat : \E f : \A i \in Final(k) : f[i] = Read(b, f, i)}
<1>1. 0 \in S
  <2> DEFINE f == [i \in {Len(b) + 1} |-> Read(b, <<>>, i)]
  <2>1. \A i \in Final(0) : i = Len(b) + 1 /\ f[i] = Read(b, <<>>, i)
    OBVIOUS
  <2>2. \A i \in Final(0) : Read(b, <<>>, i) = Read(b, f, i)
    BY <2>1, ReadIsLocal
  <2> HIDE DEF f
  <2> QED
    BY <2>1, <2>2
<1>2. ASSUME NEW k \in S PROVE k + 1 \in S
  <2>1. PICK f : \A i \in Final(k) : f[i] = Read(b, f, i)
    OBVIOUS
  <2> DEFINE g == [i \in Final(k + 1) |-> IF i \in Final(k) THEN f[i] ELSE Read(b, f, i)]
  <2>2. ASSUME NEW i \in Final(k + 1) PROVE g[i] = Read(b, g, i)
    <3>1. g[i] = Read(b, f, i)
      BY <2>1
    <3>2. i <= Len(b) => i + 1 \in Final(k) /\ i + 1 \in Final(k + 1)
      OBVIOUS
    <3>3. i <= Len(b) => g[i + 1] = f[i + 1]
      BY <3>2
    <3> HIDE DEF g
    <3> QED
      BY <3>1, <3>3, ReadIsLocal
  <2> HIDE DEF g
  <2> QED
    BY <2>2
<1> HIDE DEF S
<1>3. \A k \in Nat : k \in S
  BY <1>1, <1>2, Induction, S \in SUBSET Nat DEF S
<1>4. Final(Len(b)) = 1 .. Len(b) + 1
  OBVIOUS
<1> HIDE DEF Final
<1> QED
  BY <1>3, <1>4 DEF S

\* A varint is read as its definition says.
LEMMA VarintFromUnfolds ==
    ASSUME NEW b, Len(b) \in Nat
    PROVE  \A i \in 1 .. Len(b) + 1 : VarintFrom(b)[i] = Read(b, VarintFrom(b), i)
<1> DEFINE AsIs(f) == f = [i \in 1 .. Len(b) + 1 |->
            [room \in Nat |->
                IF i > Len(b) \/ room <= 1 THEN Fail
                ELSE IF b[i] < 128 THEN Value(b[i], i + 1)
                ELSE LET more == f[i + 1][(room + 127) \div 128]
                     IN  IF more.ok THEN Value((b[i] % 128) + 128 * more.value, more.at) ELSE Fail]]
<1>1. PICK f : \A i \in 1 .. Len(b) + 1 : f[i] = Read(b, f, i)
  BY ReadExists
<1> DEFINE whole == [i \in 1 .. Len(b) + 1 |-> f[i]]
<1>2. ASSUME NEW i \in 1 .. Len(b) + 1 PROVE whole[i] = Read(b, whole, i)
  <2>1. i <= Len(b) => f[i + 1] = whole[i + 1]
    OBVIOUS
  <2>2. whole[i] = Read(b, f, i)
    BY <1>1
  <2> HIDE DEF whole
  <2> QED
    BY <2>1, <2>2, ReadIsLocal
<1>3. AsIs(whole)
  <2>1. whole = [i \in 1 .. Len(b) + 1 |-> whole[i]]
    OBVIOUS
  <2> HIDE DEF whole
  <2>2. whole = [i \in 1 .. Len(b) + 1 |-> Read(b, whole, i)]
    BY <1>2, <2>1
  <2> QED
    BY <2>2 DEF Read
<1> HIDE DEF whole
<1>4. VarintFrom(b) = CHOOSE g : AsIs(g)
  BY DEF VarintFrom
<1> HIDE DEF AsIs
<1>5. AsIs(VarintFrom(b))
  BY <1>3, <1>4
<1>6. VarintFrom(b) = [i \in 1 .. Len(b) + 1 |-> Read(b, VarintFrom(b), i)]
  BY <1>5 DEF AsIs, Read
<1> QED
  BY <1>6

\* b has the bytes of s from its place i on, as far as it goes.
Begins(b, i, s) == \A j \in 1 .. Len(s) : i + j - 1 <= Len(b) => b[i + j - 1] = s[j]

\* The varint of a large number lies in b as a group and the varint above it.
LEMMA BeginsLarge ==
    ASSUME NEW b, Len(b) \in Nat, NEW i \in 1 .. Len(b),
           NEW n \in Nat, n >= 128, Begins(b, i, Varint[n])
    PROVE  b[i] = 128 + (n % 128) /\ Begins(b, i + 1, Varint[n \div 128])
<1> DEFINE rest == Varint[n \div 128]
<1>1. Len(rest) \in Nat /\ Len(Varint[n]) \in Nat
  BY Divided, VarintType
<1>2. /\ Len(Varint[n]) = 1 + Len(rest)
      /\ Varint[n][1] = 128 + (n % 128)
      /\ \A j \in 1 .. Len(rest) : Varint[n][1 + j] = rest[j]
  BY VarintOfLarge
<1> HIDE DEF rest
<1>3. b[i] = Varint[n][1]
  <2>1. 1 \in 1 .. Len(Varint[n]) /\ i + 1 - 1 = i
    BY <1>1, <1>2
  <2>2. i + 1 - 1 <= Len(b)
    OBVIOUS
  <2> QED
    BY <2>1, <2>2, Zenon DEF Begins
<1>4. Begins(b, i + 1, rest)
  <2> SUFFICES ASSUME NEW j \in 1 .. Len(rest), (i + 1) + j - 1 <= Len(b)
               PROVE  b[(i + 1) + j - 1] = rest[j]
    BY DEF Begins
  <2>1. 1 + j \in 1 .. Len(Varint[n]) /\ i + (1 + j) - 1 = (i + 1) + j - 1
    BY <1>1, <1>2
  <2>2. b[i + (1 + j) - 1] = Varint[n][1 + j]
    BY <2>1, Zenon DEF Begins
  <2> QED
    BY <1>2, <2>1, <2>2, Zenon
<1> QED
  BY <1>2, <1>3, <1>4, Zenon DEF rest

\* A group that announces more.
LEMMA ReadsMore ==
    ASSUME NEW b, Len(b) \in Nat, NEW i \in 1 .. Len(b), NEW room \in Nat, room > 1,
           NEW n \in Nat, n >= 128, b[i] = 128 + (n % 128)
    PROVE  LET more == VarintFrom(b)[i + 1][(room + 127) \div 128]
           IN  VarintFrom(b)[i][room] =
                 IF more.ok THEN Value((n % 128) + 128 * more.value, more.at) ELSE Fail
<1> DEFINE more == VarintFrom(b)[i + 1][(room + 127) \div 128]
<1>1. VarintFrom(b)[i] = Read(b, VarintFrom(b), i)
  BY VarintFromUnfolds
<1>2. ~ (i > Len(b) \/ room <= 1) /\ ~ (b[i] < 128) /\ b[i] % 128 = n % 128
  BY Divided
<1>3. VarintFrom(b)[i][room] =
        IF i > Len(b) \/ room <= 1 THEN Fail
        ELSE IF b[i] < 128 THEN Value(b[i], i + 1)
        ELSE IF more.ok THEN Value((b[i] % 128) + 128 * more.value, more.at) ELSE Fail
  BY <1>1 DEF Read
<1> HIDE DEF more
<1>4. VarintFrom(b)[i][room] =
        IF more.ok THEN Value((b[i] % 128) + 128 * more.value, more.at) ELSE Fail
  BY <1>2, <1>3, Zenon
<1> QED
  BY <1>2, <1>4, Zenon DEF more

(* What is left of a varint after its first byte. *)
LEMMA EndOfVarint == \A i, x, y \in Nat : x = 1 + y => (i + 1) + y = i + x
OBVIOUS

\* The rest of one that lies in b lies there, the rest of one that b ends in
\* does not.
LEMMA RestOfVarint ==
    \A long, i, x, y \in Nat :
      y # 0 /\ x = 1 + y
      => /\ i >= 1 /\ i + x - 1 <= long => i + 1 \in 1 .. long /\ (i + 1) + y - 1 <= long
         /\ i \in 1 .. long /\ i + x - 1 > long
              => i + 1 \in 1 .. long + 1 /\ (i + 1) + y - 1 > long
OBVIOUS

(***************************************************************************)
(* A varint is read as the number it was written for, wherever it lies and *)
(* whatever is behind it, by a type the number fits into.                  *)
(***************************************************************************)
THEOREM VarintIsRead ==
    ASSUME NEW b, Len(b) \in Nat
    PROVE  \A n \in Nat : \A i \in 1 .. Len(b), room \in Nat :
             /\ n < room /\ 1 < room
             /\ i + Len(Varint[n]) - 1 <= Len(b) /\ Begins(b, i, Varint[n])
             => VarintFrom(b)[i][room] = Value(n, i + Len(Varint[n]))
<1> DEFINE Is(n) == \A i \in 1 .. Len(b), room \in Nat :
             /\ n < room /\ 1 < room
             /\ i + Len(Varint[n]) - 1 <= Len(b) /\ Begins(b, i, Varint[n])
             => VarintFrom(b)[i][room] = Value(n, i + Len(Varint[n]))
           S == {n \in Nat : Is(n)}
<1>1. ASSUME NEW n \in Nat, \A k \in 0 .. n - 1 : k \in S
      PROVE  Is(n)
  <2> SUFFICES ASSUME NEW i \in 1 .. Len(b), NEW room \in Nat, n < room, 1 < room,
                      i + Len(Varint[n]) - 1 <= Len(b), Begins(b, i, Varint[n])
               PROVE  VarintFrom(b)[i][room] = Value(n, i + Len(Varint[n]))
    OBVIOUS
  <2>1. CASE n < 128
    <3>1. Varint[n] = <<n>>
      BY <2>1, VarintUnfolds, Zenon DEF Grow
    <3>2. Len(<<n>>) = 1 /\ <<n>>[1] = n
      OBVIOUS
    <3>3. b[i] = n
      <4>1. 1 \in 1 .. 1 /\ i + 1 - 1 = i /\ i + 1 - 1 <= Len(b)
        OBVIOUS
      <4> QED
        BY <3>1, <3>2, <4>1, Zenon DEF Begins
    <3>4. ~ (i > Len(b) \/ room <= 1)
      OBVIOUS
    <3>5. VarintFrom(b)[i] = Read(b, VarintFrom(b), i)
      BY VarintFromUnfolds
    <3>6. VarintFrom(b)[i][room] = Value(n, i + 1)
      BY <2>1, <3>3, <3>4, <3>5 DEF Read
    <3> QED
      BY <3>1, <3>2, <3>6
  <2>2. CASE n >= 128
    <3> DEFINE q == n \div 128
               left == (room + 127) \div 128
               more == VarintFrom(b)[i + 1][left]
    <3>1. q \in 1 .. n - 1 /\ n = (n % 128) + 128 * q
      BY <2>2, Divided
    <3>2. left \in Nat /\ q < left /\ 1 < left
      BY <2>2
    <3>3. Len(Varint[q]) \in Nat \ {0} /\ Len(Varint[n]) = 1 + Len(Varint[q])
      BY <2>2, Divided, VarintType, VarintOfLarge
    <3>len. /\ Len(Varint[q]) \in Nat /\ Len(Varint[n]) \in Nat /\ i \in Nat /\ i >= 1
           /\ Len(Varint[q]) # 0 /\ Len(Varint[n]) = 1 + Len(Varint[q])
      BY <3>3, VarintType
    <3>4. b[i] = 128 + (n % 128) /\ Begins(b, i + 1, Varint[q])
      BY <2>2, BeginsLarge
    <3>5. q \in 0 .. n - 1
      BY <3>1
    <3> HIDE DEF S, q
    <3>6. q \in S
      BY <1>1, <3>5
    <3>7. Is(q)
      BY <3>6 DEF S
    <3>8. i + 1 \in 1 .. Len(b) /\ (i + 1) + Len(Varint[q]) - 1 <= Len(b)
      BY <3>len, RestOfVarint, Zenon
    <3> HIDE DEF left
    <3>9. more = Value(q, (i + 1) + Len(Varint[q]))
      BY <3>2, <3>4, <3>7, <3>8
    <3>10. VarintFrom(b)[i][room] =
             IF more.ok THEN Value((n % 128) + 128 * more.value, more.at) ELSE Fail
      BY <2>2, <3>4, ReadsMore DEF left
    <3>11. more.ok /\ more.value = q /\ more.at = (i + 1) + Len(Varint[q])
      <4> HIDE DEF more
      <4> QED
        BY <3>9 DEF Value
    <3>12. VarintFrom(b)[i][room] = Value((n % 128) + 128 * q, (i + 1) + Len(Varint[q]))
      <4> HIDE DEF more
      <4> QED
        BY <3>10, <3>11, Zenon
    <3>13. (i + 1) + Len(Varint[q]) = i + Len(Varint[n])
      BY <3>len, EndOfVarint, Zenon
    <3> QED
      BY <3>1, <3>12, <3>13, Zenon
  <2> QED
    BY <2>1, <2>2
<1> HIDE DEF Is
<1>2. \A n \in Nat : n \in S
  <2>1. S \in SUBSET Nat /\ \A n \in Nat : Is(n) => n \in S
    OBVIOUS
  <2> HIDE DEF S
  <2> QED
    BY <1>1, <2>1, CompleteInduction
<1> QED
  BY <1>2 DEF Is

(***************************************************************************)
(* A varint that is cut short is not read, by any type.                    *)
(***************************************************************************)
THEOREM CutVarintIsRefused ==
    ASSUME NEW b, Len(b) \in Nat
    PROVE  \A n \in Nat : \A i \in 1 .. Len(b) + 1, room \in Nat :
             i + Len(Varint[n]) - 1 > Len(b) /\ Begins(b, i, Varint[n])
             => VarintFrom(b)[i][room] = Fail
<1> DEFINE Is(n) == \A i \in 1 .. Len(b) + 1, room \in Nat :
             i + Len(Varint[n]) - 1 > Len(b) /\ Begins(b, i, Varint[n])
             => VarintFrom(b)[i][room] = Fail
           S == {n \in Nat : Is(n)}
<1>1. ASSUME NEW n \in Nat, \A k \in 0 .. n - 1 : k \in S
      PROVE  Is(n)
  <2> SUFFICES ASSUME NEW i \in 1 .. Len(b) + 1, NEW room \in Nat,
                      i + Len(Varint[n]) - 1 > Len(b), Begins(b, i, Varint[n])
               PROVE  VarintFrom(b)[i][room] = Fail
    OBVIOUS
  <2>0. VarintFrom(b)[i] = Read(b, VarintFrom(b), i)
    BY VarintFromUnfolds
  <2>1. CASE i > Len(b) \/ room <= 1
    BY <2>0, <2>1 DEF Read
  <2>2. CASE i <= Len(b) /\ room > 1
    <3> DEFINE q == n \div 128
               left == (room + 127) \div 128
               more == VarintFrom(b)[i + 1][left]
    <3>0. n >= 128
      <4> SUFFICES ASSUME n < 128 PROVE FALSE
        OBVIOUS
      <4>1. Varint[n] = <<n>>
        BY VarintUnfolds, Zenon DEF Grow
      <4> QED
        BY <2>2, <4>1
    <3>1. q \in 0 .. n - 1 /\ left \in Nat
      BY <3>0, Divided
    <3>3. Len(Varint[q]) \in Nat \ {0} /\ Len(Varint[n]) = 1 + Len(Varint[q])
      BY <3>0, Divided, VarintType, VarintOfLarge
    <3>len. /\ Len(Varint[q]) \in Nat /\ Len(Varint[n]) \in Nat /\ i \in Nat /\ i \in 1 .. Len(b)
           /\ Len(Varint[q]) # 0 /\ Len(Varint[n]) = 1 + Len(Varint[q])
      BY <2>2, <3>3, VarintType
    <3>4. b[i] = 128 + (n % 128) /\ Begins(b, i + 1, Varint[q])
      BY <2>2, <3>0, BeginsLarge
    <3> HIDE DEF S, q
    <3>6. q \in S
      BY <1>1, <3>1
    <3>7. Is(q)
      BY <3>6 DEF S
    <3>8. i + 1 \in 1 .. Len(b) + 1 /\ (i + 1) + Len(Varint[q]) - 1 > Len(b)
      BY <3>len, RestOfVarint, Zenon
    <3> HIDE DEF left
    <3>9. more = Fail
      BY <3>1, <3>4, <3>7, <3>8
    <3>10. VarintFrom(b)[i][room] =
             IF more.ok THEN Value((n % 128) + 128 * more.value, more.at) ELSE Fail
      BY <2>2, <3>0, <3>4, ReadsMore DEF left
    <3> HIDE DEF more
    <3> QED
      BY <3>9, <3>10 DEF Fail
  <2> QED
    BY <2>1, <2>2
<1> HIDE DEF Is
<1>2. \A n \in Nat : n \in S
  <2>1. S \in SUBSET Nat /\ \A n \in Nat : Is(n) => n \in S
    OBVIOUS
  <2> HIDE DEF S
  <2> QED
    BY <1>1, <2>1, CompleteInduction
<1> QED
  BY <1>2 DEF Is

\* A varint that lies in b whole is read, one that b ends in is not.
LEMMA VarintAtIsRead ==
    ASSUME NEW b, Len(b) \in Nat, NEW n \in Nat, NEW limit \in Nat, n < limit, 1 < limit,
           NEW p \in 1 .. Len(b), p + Len(Varint[n]) - 1 <= Len(b), Begins(b, p, Varint[n])
    PROVE  ReadVarint(b, p, limit) = Value(n, p + Len(Varint[n]))
<1>1. VarintFrom(b)[p][limit] = Value(n, p + Len(Varint[n]))
  BY VarintIsRead
<1>2. n % limit = n
  OBVIOUS
<1> DEFINE r == VarintFrom(b)[p][limit]
<1>3. r.ok /\ r.value = n /\ r.at = p + Len(Varint[n])
  <2> HIDE DEF r
  <2>1. r = Value(n, p + Len(Varint[n]))
    BY <1>1 DEF r
  <2> QED
    BY <2>1 DEF Value
<1>4. ReadVarint(b, p, limit) = IF r.ok THEN Value(r.value % limit, r.at) ELSE Fail
  BY DEF ReadVarint, Narrowed
<1> HIDE DEF r
<1> QED
  BY <1>2, <1>3, <1>4, Zenon

LEMMA VarintAtIsCut ==
    ASSUME NEW b, Len(b) \in Nat, NEW n \in Nat, NEW limit \in Nat,
           NEW p \in 1 .. Len(b) + 1, p + Len(Varint[n]) - 1 > Len(b), Begins(b, p, Varint[n])
    PROVE  ReadVarint(b, p, limit) = Fail
<1>1. VarintFrom(b)[p][limit] = Fail
  BY CutVarintIsRefused
<1> QED
  BY <1>1 DEF ReadVarint, Narrowed, Fail

-----------------------------------------------------------------------------
(* Sequences of bytes one behind the other. *)

\* f[i] is the first i elements of s one behind the other.
Flattens(s, f) == f[1] = s[1] /\ \A i \in 2 .. Len(s) : f[i] = f[i - 1] \o s[i]

\* FlattenSeq() is the last value of such a function.
LEMMA FlattenUnfolds ==
    ASSUME NEW s, Len(s) \in Nat \ {0}
    PROVE  \E f : Flattens(s, f) /\ FlattenSeq(s) = f[Len(s)]
<1> DEFINE First(k) == {i \in 1 .. Len(s) : i <= k}
           IsWhole(f) == f = [i \in 1 .. Len(s) |-> IF i = 1 THEN s[i] ELSE f[i - 1] \o s[i]]
           S == {k \in Nat : \E f : \A i \in First(k) : f[i] = IF i = 1 THEN s[i] ELSE f[i - 1] \o s[i]}
<1>1. 0 \in S
  <2>1. First(0) = {}
    OBVIOUS
  <2> HIDE DEF First
  <2> QED
    BY <2>1
<1>2. ASSUME NEW k \in S PROVE k + 1 \in S
  <2>1. PICK f : \A i \in First(k) : f[i] = IF i = 1 THEN s[i] ELSE f[i - 1] \o s[i]
    OBVIOUS
  <2> DEFINE g == [i \in First(k + 1) |->
                     IF i <= k THEN f[i] ELSE IF i = 1 THEN s[i] ELSE f[i - 1] \o s[i]]
  <2>2. ASSUME NEW i \in First(k + 1)
        PROVE  g[i] = IF i = 1 THEN s[i] ELSE g[i - 1] \o s[i]
    <3>1. g[i] = IF i = 1 THEN s[i] ELSE f[i - 1] \o s[i]
      BY <2>1
    <3>2. i # 1 => g[i - 1] = f[i - 1]
      <4> SUFFICES ASSUME i # 1 PROVE g[i - 1] = f[i - 1]
        OBVIOUS
      <4>1. i - 1 \in First(k + 1) /\ i - 1 <= k
        OBVIOUS
      <4> QED
        BY <4>1
    <3> HIDE DEF g
    <3> QED
      BY <3>1, <3>2, Zenon
  <2> HIDE DEF g
  <2> QED
    BY <2>2
<1> HIDE DEF S
<1>3. Len(s) \in S
  BY <1>1, <1>2, Induction, S \in SUBSET Nat DEF S
<1>4. PICK f : \A i \in 1 .. Len(s) : f[i] = IF i = 1 THEN s[i] ELSE f[i - 1] \o s[i]
  <2>1. First(Len(s)) = 1 .. Len(s)
    OBVIOUS
  <2> QED
    BY <1>3, <2>1 DEF S
<1> DEFINE h == [i \in 1 .. Len(s) |-> f[i]]
<1>5. IsWhole(h)
  <2>1. \A i \in 1 .. Len(s) : h[i] = IF i = 1 THEN s[i] ELSE h[i - 1] \o s[i]
    <3> TAKE i \in 1 .. Len(s)
    <3>1. i # 1 => i - 1 \in 1 .. Len(s)
      OBVIOUS
    <3> QED
      BY <1>4, <3>1
  <2> HIDE DEF h
  <2>2. h = [i \in 1 .. Len(s) |-> h[i]]
    BY DEF h
  <2>3. [i \in 1 .. Len(s) |-> h[i]]
          = [i \in 1 .. Len(s) |-> IF i = 1 THEN s[i] ELSE h[i - 1] \o s[i]]
    BY <2>1
  <2> QED
    BY <2>2, <2>3
<1> HIDE DEF h, IsWhole
<1> DEFINE flatten == CHOOSE f_1 : IsWhole(f_1)
<1>6. IsWhole(flatten)
  BY <1>5
<1>7. FlattenSeq(s) = flatten[Len(s)]
  BY Len(s) # 0 DEF FlattenSeq, IsWhole
<1> HIDE DEF flatten
<1>8. Flattens(s, flatten)
  <2>1. \A i \in 1 .. Len(s) : flatten[i] = IF i = 1 THEN s[i] ELSE flatten[i - 1] \o s[i]
    BY <1>6 DEF IsWhole
  <2>2. 1 \in 1 .. Len(s) /\ \A i \in 2 .. Len(s) : i \in 1 .. Len(s) /\ i # 1
    OBVIOUS
  <2>3. flatten[1] = s[1]
    BY <2>1, <2>2
  <2>4. \A i \in 2 .. Len(s) : flatten[i] = flatten[i - 1] \o s[i]
    BY <2>1, <2>2, Zenon
  <2> QED
    BY <2>3, <2>4 DEF Flattens
<1> QED
  BY <1>7, <1>8

\* Two such functions agree where the sequences do.
LEMMA FlattensIsUnique ==
    ASSUME NEW s, NEW t, NEW n \in Nat \ {0}, Len(s) \in Nat, Len(t) \in Nat,
           n <= Len(s), n <= Len(t),
           \A i \in 1 .. n : s[i] = t[i],
           NEW f, NEW g, Flattens(s, f), Flattens(t, g)
    PROVE  f[n] = g[n]
<1> DEFINE S == {k \in Nat : k + 1 <= n => f[k + 1] = g[k + 1]}
<1>1. 0 \in S
  BY DEF Flattens
<1>2. ASSUME NEW k \in S PROVE k + 1 \in S
  <2> SUFFICES ASSUME (k + 1) + 1 <= n PROVE f[(k + 1) + 1] = g[(k + 1) + 1]
    OBVIOUS
  <2> DEFINE i == (k + 1) + 1
  <2>1. i \in 2 .. Len(s) /\ i \in 2 .. Len(t) /\ i \in 1 .. n /\ i - 1 = k + 1 /\ k + 1 <= n
    OBVIOUS
  <2>2. f[i - 1] = g[i - 1]
    BY <2>1
  <2> HIDE DEF i, S
  <2>3. f[i] = f[i - 1] \o s[i] /\ g[i] = g[i - 1] \o t[i] /\ s[i] = t[i]
    BY <2>1 DEF Flattens
  <2>4. f[i] = g[i]
    BY <2>2, <2>3
  <2> QED
    BY <2>4 DEF i
<1> HIDE DEF S
<1>3. n - 1 \in S
  BY <1>1, <1>2, Induction, S \in SUBSET Nat, n - 1 \in Nat DEF S
<1> QED
  BY <1>3 DEF S

LEMMA FlattenEmpty == FlattenSeq(<<>>) = <<>>
BY Len(<<>>) = 0 DEF FlattenSeq

\* One more sequence comes behind the others.
LEMMA FlattenLast ==
    ASSUME NEW s, Len(s) \in Nat, NEW t, Len(t) = Len(s) + 1,
           \A i \in 1 .. Len(s) : t[i] = s[i]
    PROVE  FlattenSeq(t) = IF Len(s) = 0 THEN t[1] ELSE FlattenSeq(s) \o t[Len(t)]
<1>1. PICK g : Flattens(t, g) /\ FlattenSeq(t) = g[Len(t)]
  BY FlattenUnfolds
<1>2. CASE Len(s) = 0
  BY <1>1, <1>2 DEF Flattens
<1>3. CASE Len(s) # 0
  <2>1. PICK f : Flattens(s, f) /\ FlattenSeq(s) = f[Len(s)]
    BY <1>3, FlattenUnfolds
  <2>2. g[Len(s)] = f[Len(s)]
    <3>1. Len(s) \in Nat \ {0} /\ Len(s) <= Len(t) /\ Len(s) <= Len(s) /\ Len(t) \in Nat
      BY <1>3
    <3> QED
      BY <1>1, <2>1, <3>1, FlattensIsUnique
  <2>3. Len(t) \in 2 .. Len(t) /\ Len(t) - 1 = Len(s)
    BY <1>3
  <2>4. g[Len(t)] = g[Len(t) - 1] \o t[Len(t)]
    BY <1>1, <2>3 DEF Flattens
  <2> QED
    BY <1>1, <1>3, <2>1, <2>2, <2>3, <2>4
<1> QED
  BY <1>2, <1>3

\* Bytes behind one another are bytes, however they are grouped.
LEMMA BytesAssociate == \A s, t, u \in Seq(Byte) : (s \o t) \o u = s \o (t \o u)
BY ConcatAssociative

LEMMA BytesJoin == \A s, t \in Seq(Byte) : s \o t \in Seq(Byte)
BY ConcatProperties

\* A sequence has a length and a head.
LEMMA NoneIsEmpty == \A t \in Seq(Seq(Byte)) : Len(t) = 0 => t = <<>>
OBVIOUS

LEMMA SomeAreNot == \A t : Len(t) # 0 => t # <<>>
OBVIOUS

LEMMA HeadIsFirst == \A t \in Seq(Seq(Byte)) : Head(t) = t[1]
OBVIOUS

\* What lies behind one another is bytes when its parts are.
LEMMA FlattenType ==
    ASSUME NEW s \in Seq(Seq(Byte))
    PROVE  FlattenSeq(s) \in Seq(Byte)
<1> DEFINE Is(t) == FlattenSeq(t) \in Seq(Byte)
           S == {n \in Nat : \A t \in Seq(Seq(Byte)) : Len(t) = n => Is(t)}
<1>1. 0 \in S
  <2>1. <<>> \in Seq(Byte)
    OBVIOUS
  <2> QED
    BY <2>1, NoneIsEmpty, FlattenEmpty
<1>2. ASSUME NEW n \in S PROVE n + 1 \in S
  <2> SUFFICES ASSUME NEW t \in Seq(Seq(Byte)), Len(t) = n + 1 PROVE Is(t)
    OBVIOUS
  <2> DEFINE u == [i \in 1 .. n |-> t[i]]
  <2>1. u \in Seq(Seq(Byte)) /\ Len(u) = n /\ \A i \in 1 .. n : t[i] = u[i]
    OBVIOUS
  <2>2. Is(u)
    BY <2>1
  <2>3. t[1] \in Seq(Byte) /\ t[n + 1] \in Seq(Byte)
    OBVIOUS
  <2> HIDE DEF u, S
  <2>4. FlattenSeq(t) = IF Len(u) = 0 THEN t[1] ELSE FlattenSeq(u) \o t[Len(t)]
    <3>1. Len(u) \in Nat /\ Len(t) = Len(u) + 1 /\ \A i \in 1 .. Len(u) : t[i] = u[i]
      BY <2>1 DEF S
    <3> QED
      BY <3>1, FlattenLast
  <2>5. FlattenSeq(u) \o t[n + 1] \in Seq(Byte)
    BY <2>2, <2>3, ConcatProperties
  <2> QED
    BY <2>3, <2>4, <2>5
<1> HIDE DEF S, Is
<1>3. Len(s) \in S
  BY <1>1, <1>2, Induction, S \in SUBSET Nat, Len(s) \in Nat DEF S
<1> QED
  BY <1>3 DEF S, Is

\* The first sequence comes before what lies behind it.
LEMMA FlattenFirst ==
    ASSUME NEW s \in Seq(Seq(Byte)), s # <<>>
    PROVE  FlattenSeq(s) = Head(s) \o FlattenSeq(Tail(s))
<1> DEFINE Is(t) == FlattenSeq(t) = Head(t) \o FlattenSeq(Tail(t))
           S == {n \in Nat : \A t \in Seq(Seq(Byte)) : Len(t) = n + 1 => Is(t)}
<1>1. 0 \in S
  <2> SUFFICES ASSUME NEW t \in Seq(Seq(Byte)), Len(t) = 1 PROVE Is(t)
    OBVIOUS
  <2>1. Head(t) = t[1] /\ t[1] \in Seq(Byte) /\ Tail(t) = <<>>
    <3>1. t # <<>> /\ 1 \in 1 .. Len(t)
      <4>1. Len(t) # 0 /\ 1 \in 1 .. Len(t)
        OBVIOUS
      <4> QED
        BY <4>1, SomeAreNot, Zenon
    <3>2. Tail(t) \in Seq(Seq(Byte)) /\ Len(Tail(t)) = 0
      BY <3>1, HeadTailProperties
    <3>3. t[1] \in Seq(Byte)
      BY <3>1, ElementOfSeq
    <3> QED
      BY <3>2, <3>3, NoneIsEmpty, HeadIsFirst, Zenon
  <2>2. FlattenSeq(t) = t[1]
    <3>1. Len(<<>>) = 0 /\ Len(t) = Len(<<>>) + 1 /\ \A i \in 1 .. Len(<<>>) : t[i] = <<>>[i]
      OBVIOUS
    <3>2. Len(<<>>) \in Nat
      OBVIOUS
    <3> QED
      BY <3>1, <3>2, FlattenLast
  <2>3. t[1] \o <<>> = t[1]
    BY <2>1, ConcatEmptySeq
  <2> QED
    BY <2>1, <2>2, <2>3, FlattenEmpty
<1>2. ASSUME NEW n \in S PROVE n + 1 \in S
  <2> SUFFICES ASSUME NEW t \in Seq(Seq(Byte)), Len(t) = n + 2 PROVE Is(t)
    OBVIOUS
  <2> DEFINE u == [i \in 1 .. n + 1 |-> t[i]]
             x == t[n + 2]
             front == FlattenSeq(Tail(u))
  <2>1. /\ u \in Seq(Seq(Byte)) /\ Len(u) = n + 1 /\ u # <<>>
        /\ \A i \in 1 .. n + 1 : t[i] = u[i]
    <3>1. n \in Nat /\ \A i \in 1 .. n + 1 : t[i] \in Seq(Byte)
      OBVIOUS
    <3> HIDE DEF S
    <3>2. u \in Seq(Seq(Byte)) /\ Len(u) = n + 1
      BY <3>1
    <3>3. u # <<>>
      <4>1. Len(u) # 0
        BY <3>1, <3>2
      <4> QED
        BY <4>1, SomeAreNot, Zenon
    <3>4. \A i \in 1 .. n + 1 : t[i] = u[i]
      OBVIOUS
    <3> QED
      BY <3>2, <3>3, <3>4, Zenon
  <2>2. x \in Seq(Byte) /\ t # <<>>
    OBVIOUS
  <2>3. Is(u)
    BY <2>1
  <2> HIDE DEF u, S
  <2>4. Head(t) = Head(u) /\ Head(u) \in Seq(Byte)
    BY <2>1 DEF S
  <2>5. /\ Tail(u) \in Seq(Seq(Byte)) /\ Len(Tail(u)) = n
        /\ Tail(t) \in Seq(Seq(Byte)) /\ Len(Tail(t)) = n + 1
        /\ Tail(t)[n + 1] = x
        /\ \A i \in 1 .. n : Tail(t)[i] = Tail(u)[i]
    <3>1. /\ Tail(u) \in Seq(Seq(Byte)) /\ Len(Tail(u)) = Len(u) - 1
          /\ \A i \in 1 .. Len(Tail(u)) : Tail(u)[i] = u[i + 1]
      BY <2>1, HeadTailProperties
    <3>2. /\ Tail(t) \in Seq(Seq(Byte)) /\ Len(Tail(t)) = Len(t) - 1
          /\ \A i \in 1 .. Len(Tail(t)) : Tail(t)[i] = t[i + 1]
      BY <2>2, HeadTailProperties
    <3>3. n \in Nat
      BY DEF S
    <3>4. Len(Tail(u)) = n /\ Len(Tail(t)) = n + 1
      BY <2>1, <3>1, <3>2, <3>3
    <3>5. Tail(t)[n + 1] = x
      BY <3>2, <3>3, <3>4 DEF x
    <3>6. ASSUME NEW i \in 1 .. n PROVE Tail(t)[i] = Tail(u)[i]
      <4>1. i \in 1 .. n + 1 /\ i + 1 \in 1 .. n + 1
        BY <3>3
      <4>2. Tail(t)[i] = t[i + 1] /\ Tail(u)[i] = u[i + 1]
        BY <3>1, <3>2, <3>4, <4>1, Zenon
      <4> QED
        BY <2>1, <4>1, <4>2, Zenon
    <3> HIDE DEF x
    <3> QED
      BY <3>1, <3>2, <3>4, <3>5, <3>6
  <2>6. front \in Seq(Byte)
    BY <2>5, FlattenType
  <2>7. FlattenSeq(t) = FlattenSeq(u) \o x
    <3>1. /\ Len(u) \in Nat /\ Len(u) # 0 /\ Len(t) = Len(u) + 1 /\ Len(t) = n + 2
          /\ \A i \in 1 .. Len(u) : t[i] = u[i]
      BY <2>1 DEF S
    <3> HIDE DEF x
    <3>2. x = t[Len(t)]
      BY <3>1 DEF x
    <3> QED
      BY <3>1, <3>2, FlattenLast
  <2>8. FlattenSeq(Tail(t)) = front \o x
    <3>1. /\ Len(Tail(u)) \in Nat /\ Len(Tail(t)) = Len(Tail(u)) + 1
          /\ \A i \in 1 .. Len(Tail(u)) : Tail(t)[i] = Tail(u)[i]
          /\ x = Tail(t)[Len(Tail(t))] /\ x = Tail(t)[n + 1]
      BY <2>5 DEF S
    <3> HIDE DEF x
    <3>2. FlattenSeq(Tail(t)) = IF Len(Tail(u)) = 0 THEN Tail(t)[1] ELSE front \o x
      <4>1. FlattenSeq(Tail(t)) = IF Len(Tail(u)) = 0 THEN Tail(t)[1]
                                  ELSE FlattenSeq(Tail(u)) \o Tail(t)[Len(Tail(t))]
        BY <3>1, FlattenLast
      <4> QED
        BY <3>1, <4>1, Zenon
    <3>3. CASE n = 0
      <4>1. Len(Tail(u)) = 0 /\ Tail(t)[1] = x
        BY <2>5, <3>3, 0 + 1 = 1, Zenon
      <4>3. Tail(u) = <<>>
        BY <2>5, <4>1, NoneIsEmpty
      <4>2. <<>> \o x = x
        BY <2>2, ConcatEmptySeq
      <4> QED
        BY <3>2, <4>1, <4>2, <4>3, FlattenEmpty
    <3>4. CASE n # 0
      BY <2>5, <3>2, <3>4
    <3> QED
      BY <3>3, <3>4
  <2> HIDE DEF x, front
  <2>9. (Head(u) \o front) \o x = Head(u) \o (front \o x)
    BY <2>2, <2>4, <2>6, BytesAssociate, Zenon
  <2>10. FlattenSeq(u) = Head(u) \o front
    BY <2>3 DEF front
  <2> QED
    BY <2>4, <2>7, <2>8, <2>9, <2>10
<1> HIDE DEF S, Is
<1>3. Len(s) - 1 \in S /\ Len(s) = (Len(s) - 1) + 1
  <2>1. Len(s) - 1 \in Nat /\ Len(s) = (Len(s) - 1) + 1
    OBVIOUS
  <2> QED
    BY <1>1, <1>2, <2>1, Induction, S \in SUBSET Nat DEF S
<1> QED
  BY <1>3 DEF S, Is

-----------------------------------------------------------------------------
(* Recursion from each number to the next. *)

\* The functions that IotmpWire and IotmpJson define so: what each has for n,
\* where prior is what it has for n - 1.
Unfolding(of, n, prior) ==
    CASE of.name = "Values"  -> IF n = 0 THEN Scalars ELSE Scalars \cup Containers(prior)
      [] of.name = "Encoded" -> [value \in Values[n] |-> PsonBy(value, prior)]
      [] of.name = "Normals" -> [value \in Values[n] |-> NormalBy(value, prior)]
      [] of.name = "Items"   ->
            [kind \in {6, 7} |-> [p \in Nat |-> [i \in Nat |->
               IF i = 0 THEN Value(<<>>, p)
               ELSE IF n = 0 THEN Fail
               ELSE Followed(ItemOf(of.b, kind, p, prior), i - 1, prior[kind])]]]
      [] of.name = "Fields"  -> IF n = 0 THEN Value(<<>>, 1) ELSE NextField(of.b, prior)
      [] of.name = "Printable" ->
            IF n = 0 THEN PrintableScalars
            ELSE PrintableScalars
                   \cup [t : {"array"}, v : Seq(prior)]
                   \cup [t : {"object"}, v : Seq([key : Seq(Characters), value : prior])]
      [] of.name = "Texts"   -> [value \in Printable[n] |-> TextBy(value, prior, of.space)]
      [] of.name = "TextNormals" -> [value \in Printable[n] |-> TextNormalBy(value, prior)]
      [] of.name = "Number"  -> IF n = 0 THEN 0 ELSE 10 * prior + (of.text[of.p + n - 1] - Zero)
      [] of.name = "Strings" ->
            [p \in Nat |->
               IF At(of.text, p) = Quote THEN Parsed(<<>>, p + 1)
               ELSE IF At(of.text, p) = 0 \/ n = 0 THEN Unparsed
               ELSE WithRest(CharacterAt(of.text, p), prior)]
      [] of.name = "Rest"    ->
            [open \in {OpenArray, OpenObject} |-> [p \in Nat |->
               IF n = 0 THEN Unparsed
               ELSE Members(of.text, open, MemberAt(of.text, open, p, prior), prior[open])]]

\* What f has before n.
Prior(f, n) == IF n = 0 THEN <<>> ELSE f[n - 1]

\* f is such a function up to n.
Until(of, f, n) == \A i \in 0 .. n : f[i] = Unfolding(of, i, Prior(f, i))

\* Two of them agree as far as both go, and there is one up to each n.
LEMMA UntilIsUnique ==
    ASSUME NEW of, NEW f, NEW g, NEW k \in Nat, NEW l \in Nat, Until(of, f, k), Until(of, g, l)
    PROVE  \A i \in Nat : i <= k /\ i <= l => f[i] = g[i]
<1> DEFINE S == {i \in Nat : i <= k /\ i <= l => f[i] = g[i]}
<1>1. 0 \in S
  <2>1. Prior(f, 0) = Prior(g, 0)
    BY DEF Prior
  <2>2. f[0] = Unfolding(of, 0, Prior(f, 0)) /\ g[0] = Unfolding(of, 0, Prior(g, 0))
    BY 0 \in 0 .. k, 0 \in 0 .. l, Zenon DEF Until
  <2> QED
    BY <2>1, <2>2
<1>2. ASSUME NEW i \in S PROVE i + 1 \in S
  <2> SUFFICES ASSUME i + 1 <= k, i + 1 <= l PROVE f[i + 1] = g[i + 1]
    OBVIOUS
  <2>1. Prior(f, i + 1) = Prior(g, i + 1)
    BY DEF Prior
  <2>2. i + 1 \in 0 .. k /\ i + 1 \in 0 .. l
    OBVIOUS
  <2> QED
    BY <2>1, <2>2, Zenon DEF Until
<1> HIDE DEF S
<1>3. \A i \in Nat : i \in S
  BY <1>1, <1>2, Induction, S \in SUBSET Nat DEF S
<1> QED
  BY <1>3 DEF S

LEMMA UntilExists == ASSUME NEW of PROVE \A n \in Nat : \E f : Until(of, f, n)
<1> DEFINE S == {n \in Nat : \E f : Until(of, f, n)}
<1>1. 0 \in S
  <2> DEFINE f == [i \in {0} |-> Unfolding(of, i, <<>>)]
  <2>1. Until(of, f, 0)
    BY DEF Until, Prior
  <2> QED
    BY <2>1
<1>2. ASSUME NEW n \in S PROVE n + 1 \in S
  <2>1. PICK f : Until(of, f, n)
    OBVIOUS
  <2> DEFINE g == [i \in 0 .. n + 1 |-> IF i = n + 1 THEN Unfolding(of, i, f[n]) ELSE f[i]]
  <2>2. ASSUME NEW i \in 0 .. n + 1 PROVE g[i] = Unfolding(of, i, Prior(g, i))
    <3>1. CASE i = n + 1
      BY <3>1 DEF Prior
    <3>2. CASE i # n + 1
      <4>1. i \in 0 .. n /\ Prior(g, i) = Prior(f, i) /\ g[i] = f[i]
        BY <3>2 DEF Prior
      <4> HIDE DEF g
      <4> QED
        BY <2>1, <4>1, Zenon DEF Until
    <3> QED
      BY <3>1, <3>2
  <2> HIDE DEF g
  <2>3. Until(of, g, n + 1)
    BY <2>2, Zenon DEF Until
  <2> QED
    BY <2>3
<1> HIDE DEF S
<1>3. \A n \in Nat : n \in S
  BY <1>1, <1>2, Induction, S \in SUBSET Nat DEF S
<1> QED
  BY <1>3 DEF S

\* There are such functions.
LEMMA RecursionExists ==
    ASSUME NEW of
    PROVE  \E f : f = [n \in Nat |-> Unfolding(of, n, Prior(f, n))]
<1> DEFINE first(n) == CHOOSE f : Until(of, f, n)
           whole == [n \in Nat |-> first(n)[n]]
<1>1. \A n \in Nat : Until(of, first(n), n)
  BY UntilExists, Zenon
<1> HIDE DEF first
<1>2. ASSUME NEW n \in Nat PROVE whole[n] = Unfolding(of, n, Prior(whole, n))
  <2>1. whole[n] = Unfolding(of, n, Prior(first(n), n))
    BY <1>1, n \in 0 .. n DEF Until
  <2>2. Prior(first(n), n) = Prior(whole, n)
    <3>1. CASE n = 0
      BY <3>1 DEF Prior
    <3>2. CASE n # 0
      <4>1. n - 1 \in Nat /\ n - 1 <= n /\ n - 1 <= n - 1
        BY <3>2
      <4>2. first(n)[n - 1] = first(n - 1)[n - 1]
        BY <1>1, <4>1, UntilIsUnique
      <4>3. whole[n - 1] = first(n - 1)[n - 1]
        BY <4>1
      <4> QED
        BY <4>2, <4>3 DEF Prior
    <3> QED
      BY <3>1, <3>2
  <2> QED
    BY <2>1, <2>2
<1>3. whole = [n \in Nat |-> Unfolding(of, n, Prior(whole, n))]
  <2>1. whole = [n \in Nat |-> whole[n]]
    OBVIOUS
  <2> HIDE DEF whole
  <2> QED
    BY <1>2, <2>1
<1> HIDE DEF whole
<1> QED
  BY <1>3

(***************************************************************************)
(* So each of them is what its definition says.                            *)
(***************************************************************************)
LEMMA ValuesUnfold ==
    \A n \in Nat : Values[n] = IF n = 0 THEN Scalars ELSE Scalars \cup Containers(Values[n - 1])
<1> DEFINE Is(f) == f = [n \in Nat |-> IF n = 0 THEN Scalars ELSE Scalars \cup Containers(f[n - 1])]
           of == [name |-> "Values"]
<1>1. PICK f : f = [n \in Nat |-> Unfolding(of, n, Prior(f, n))]
  BY RecursionExists
<1>2. Is(f)
  <2>1. \A n \in Nat : Unfolding(of, n, Prior(f, n))
                         = IF n = 0 THEN Scalars ELSE Scalars \cup Containers(f[n - 1])
    BY DEF Unfolding, Prior
  <2> QED
    BY <1>1, <2>1, Zenon
<1>3. Values = CHOOSE g : Is(g)
  BY DEF Values
<1> HIDE DEF Is
<1>4. Is(Values)
  BY <1>2, <1>3
<1> QED
  BY <1>4 DEF Is

LEMMA EncodedUnfolds ==
    \A n \in Nat : Encoded[n] = [value \in Values[n] |-> PsonBy(value, Prior(Encoded, n))]
<1> DEFINE Is(f) == f = [n \in Nat |-> [value \in Values[n] |->
                           PsonBy(value, IF n = 0 THEN <<>> ELSE f[n - 1])]]
           of == [name |-> "Encoded"]
<1>1. PICK f : f = [n \in Nat |-> Unfolding(of, n, Prior(f, n))]
  BY RecursionExists
<1>2. Is(f)
  <2>1. \A n \in Nat : Unfolding(of, n, Prior(f, n))
                         = [value \in Values[n] |-> PsonBy(value, IF n = 0 THEN <<>> ELSE f[n - 1])]
    BY DEF Unfolding, Prior
  <2> QED
    BY <1>1, <2>1, Zenon
<1>3. Encoded = CHOOSE g : Is(g)
  BY DEF Encoded
<1> HIDE DEF Is
<1>4. Is(Encoded)
  BY <1>2, <1>3
<1> QED
  BY <1>4 DEF Is, Prior

LEMMA NormalsUnfold ==
    \A n \in Nat : Normals[n] = [value \in Values[n] |-> NormalBy(value, Prior(Normals, n))]
<1> DEFINE Is(f) == f = [n \in Nat |-> [value \in Values[n] |->
                           NormalBy(value, IF n = 0 THEN <<>> ELSE f[n - 1])]]
           of == [name |-> "Normals"]
<1>1. PICK f : f = [n \in Nat |-> Unfolding(of, n, Prior(f, n))]
  BY RecursionExists
<1>2. Is(f)
  <2>1. \A n \in Nat : Unfolding(of, n, Prior(f, n))
                         = [value \in Values[n] |-> NormalBy(value, IF n = 0 THEN <<>> ELSE f[n - 1])]
    BY DEF Unfolding, Prior
  <2> QED
    BY <1>1, <2>1, Zenon
<1>3. Normals = CHOOSE g : Is(g)
  BY DEF Normals
<1> HIDE DEF Is
<1>4. Is(Normals)
  BY <1>2, <1>3
<1> QED
  BY <1>4 DEF Is, Prior

LEMMA ItemsUnfold ==
    ASSUME NEW b, NEW kind \in {6, 7}
    PROVE  \A left \in Nat, p \in Nat :
             /\ Items(b)[left][kind][p][0] = Value(<<>>, p)
             /\ \A n \in Nat :
                  Items(b)[left + 1][kind][p][n + 1]
                    = Followed(ItemOf(b, kind, p, Items(b)[left]), n, Items(b)[left][kind])
<1> DEFINE Each(f, l) ==
               [k \in {6, 7} |-> [q \in Nat |-> [i \in Nat |->
                  IF i = 0 THEN Value(<<>>, q)
                  ELSE IF l = 0 THEN Fail
                  ELSE Followed(ItemOf(b, k, q, f[l - 1]), i - 1, f[l - 1][k])]]]
           Is(f) == f = [l \in Nat |-> Each(f, l)]
           of == [name |-> "Items", b |-> b]
<1>1. PICK f : f = [l \in Nat |-> Unfolding(of, l, Prior(f, l))]
  BY RecursionExists
<1>2. Is(f)
  <2>1. ASSUME NEW l \in Nat PROVE Unfolding(of, l, Prior(f, l)) = Each(f, l)
    <3>1. CASE l = 0
      BY <3>1 DEF Unfolding
    <3>2. CASE l # 0
      BY <3>2 DEF Unfolding, Prior
    <3> QED
      BY <3>1, <3>2
  <2> HIDE DEF Each
  <2> QED
    BY <1>1, <2>1, Zenon
<1>3. Items(b) = CHOOSE g : Is(g)
  BY DEF Items
<1> HIDE DEF Is
<1>4. Is(Items(b))
  BY <1>2, <1>3
<1> SUFFICES ASSUME NEW left \in Nat, NEW p \in Nat
             PROVE  /\ Items(b)[left][kind][p][0] = Value(<<>>, p)
                    /\ \A n \in Nat :
                         Items(b)[left + 1][kind][p][n + 1]
                           = Followed(ItemOf(b, kind, p, Items(b)[left]), n, Items(b)[left][kind])
  BY Zenon
<1>5. Items(b)[left] = Each(Items(b), left) /\ Items(b)[left + 1] = Each(Items(b), left + 1)
  <2>1. left + 1 \in Nat
    OBVIOUS
  <2> HIDE DEF Each
  <2>2. Items(b) = [l \in Nat |-> Each(Items(b), l)]
    BY <1>4 DEF Is
  <2> QED
    BY <2>1, <2>2
<1>6. Each(Items(b), left)[kind][p][0] = Value(<<>>, p)
  OBVIOUS
<1>7. ASSUME NEW n \in Nat
      PROVE  Each(Items(b), left + 1)[kind][p][n + 1]
               = Followed(ItemOf(b, kind, p, Items(b)[left]), n, Items(b)[left][kind])
  <2>1. left + 1 # 0 /\ (left + 1) - 1 = left /\ n + 1 \in Nat /\ n + 1 # 0 /\ (n + 1) - 1 = n
    OBVIOUS
  <2>2. Each(Items(b), left + 1)[kind][p][n + 1]
          = Followed(ItemOf(b, kind, p, Items(b)[(left + 1) - 1]), (n + 1) - 1,
                     Items(b)[(left + 1) - 1][kind])
    BY <2>1
  <2> QED
    BY <2>1, <2>2
<1> HIDE DEF Each
<1> QED
  BY <1>5, <1>6, <1>7, Zenon

LEMMA FieldsUnfold ==
    ASSUME NEW b
    PROVE  /\ Fields(b)[0] = Value(<<>>, 1)
           /\ \A n \in Nat : Fields(b)[n + 1] = NextField(b, Fields(b)[n])
<1> DEFINE Is(f) == f = [n \in Nat |-> IF n = 0 THEN Value(<<>>, 1) ELSE NextField(b, f[n - 1])]
           of == [name |-> "Fields", b |-> b]
<1>1. PICK f : f = [n \in Nat |-> Unfolding(of, n, Prior(f, n))]
  BY RecursionExists
<1>2. Is(f)
  <2>1. \A n \in Nat : Unfolding(of, n, Prior(f, n))
                         = IF n = 0 THEN Value(<<>>, 1) ELSE NextField(b, f[n - 1])
    BY DEF Unfolding, Prior
  <2> QED
    BY <1>1, <2>1, Zenon
<1>3. Fields(b) = CHOOSE g : Is(g)
  BY DEF Fields
<1> HIDE DEF Is
<1>4. Is(Fields(b))
  BY <1>2, <1>3
<1>5. \A n \in Nat : n + 1 \in Nat /\ n + 1 # 0 /\ (n + 1) - 1 = n
  OBVIOUS
<1>6. \A n \in Nat : Fields(b)[n] = IF n = 0 THEN Value(<<>>, 1) ELSE NextField(b, Fields(b)[n - 1])
  BY <1>4 DEF Is
<1>7. Fields(b)[0] = Value(<<>>, 1)
  BY <1>6, 0 \in Nat, Zenon
<1>8. \A n \in Nat : Fields(b)[n + 1] = NextField(b, Fields(b)[n])
  <2> TAKE n \in Nat
  <2>1. n + 1 \in Nat /\ n + 1 # 0 /\ (n + 1) - 1 = n
    OBVIOUS
  <2>2. Fields(b)[n + 1] = NextField(b, Fields(b)[(n + 1) - 1])
    BY <1>6, <2>1, Zenon
  <2> QED
    BY <2>1, <2>2
<1> QED
  BY <1>7, <1>8

-----------------------------------------------------------------------------
(* Bytes that lie in others. *)

\* s lies in b at p, as a whole.
Lies(b, p, s) == p + Len(s) - 1 <= Len(b) /\ Begins(b, p, s)

\* Part of a sequence of bytes is one that agrees with it there.
LEMMA PartIs ==
    ASSUME NEW b \in Seq(Byte), NEW s \in Seq(Byte), NEW first \in Nat \ {0}, NEW last \in Int,
           last = first + Len(s) - 1, last <= Len(b),
           \A j \in 1 .. Len(s) : b[first + j - 1] = s[j]
    PROVE  SubSeq(b, first, last) = s
<1>1. Len(b) \in Nat /\ Len(s) \in Nat
  BY LenProperties
<1>2. \A i \in first .. last : b[i] \in Byte
  <2> TAKE i \in first .. last
  <2>1. i \in 1 .. Len(b)
    BY <1>1
  <2> QED
    BY <2>1, ElementOfSeq
<1> DEFINE part == SubSeq(b, first, last)
<1>3. /\ part \in Seq(Byte) /\ Len(part) = IF first <= last THEN last - first + 1 ELSE 0
      /\ \A i \in 1 .. last - first + 1 : part[i] = b[first + i - 1]
  BY <1>2, SubSeqProperties
<1> HIDE DEF part
<1>4. Len(part) = Len(s) /\ last - first + 1 = Len(s)
  BY <1>1, <1>3
<1>5. \A i \in 1 .. Len(part) : part[i] = s[i]
  BY <1>3, <1>4
<1>6. part = s
  BY <1>3, <1>4, <1>5, SeqEqual
<1> QED
  BY <1>6 DEF part

\* What lies in b lies there part by part.
LEMMA PartsLie ==
    ASSUME NEW b \in Seq(Byte), NEW s \in Seq(Byte), NEW t \in Seq(Byte), NEW p \in Nat \ {0},
           Lies(b, p, s \o t)
    PROVE  /\ s \o t \in Seq(Byte) /\ Len(s \o t) = Len(s) + Len(t)
           /\ Lies(b, p, s) /\ Lies(b, p + Len(s), t)
           /\ p + Len(s) \in Nat \ {0} /\ (p + Len(s)) + Len(t) = p + Len(s \o t)
<1>1. /\ s \o t \in Seq(Byte)
      /\ Len(s \o t) = Len(s) + Len(t)
      /\ \A j \in 1 .. Len(s) : (s \o t)[j] = s[j]
      /\ \A j \in 1 .. Len(t) : (s \o t)[Len(s) + j] = t[j]
  BY Joined
<1>2. Len(s) \in Nat /\ Len(t) \in Nat /\ Len(b) \in Nat
  BY LenProperties
<1> DEFINE u == s \o t
<1>3. /\ p + Len(u) - 1 <= Len(b)
      /\ \A j \in 1 .. Len(u) : p + j - 1 <= Len(b) => b[p + j - 1] = u[j]
  BY DEF Lies, Begins
<1> HIDE DEF u
<1>4. ASSUME NEW j \in 1 .. Len(s) PROVE b[p + j - 1] = s[j]
  <2>1. j \in 1 .. Len(u) /\ p + j - 1 <= Len(b)
    BY <1>1, <1>2, <1>3 DEF u
  <2> QED
    BY <1>1, <1>3, <2>1 DEF u
<1>5. ASSUME NEW j \in 1 .. Len(t) PROVE b[(p + Len(s)) + j - 1] = t[j]
  <2>1. /\ Len(s) + j \in 1 .. Len(u) /\ p + (Len(s) + j) - 1 <= Len(b)
        /\ p + (Len(s) + j) - 1 = (p + Len(s)) + j - 1
    BY <1>1, <1>2, <1>3 DEF u
  <2>2. b[p + (Len(s) + j) - 1] = u[Len(s) + j]
    BY <1>3, <2>1, Zenon
  <2> QED
    BY <1>1, <2>1, <2>2, Zenon DEF u
<1>6. /\ p + Len(s) - 1 <= Len(b) /\ (p + Len(s)) + Len(t) - 1 <= Len(b)
      /\ p + Len(s) \in Nat \ {0} /\ (p + Len(s)) + Len(t) = p + Len(u)
  BY <1>1, <1>2, <1>3 DEF u
<1>7. Lies(b, p, s)
  BY <1>4, <1>6 DEF Lies, Begins
<1>8. Lies(b, p + Len(s), t)
  BY <1>5, <1>6 DEF Lies, Begins
<1> QED
  BY <1>1, <1>6, <1>7, <1>8, Zenon DEF u

\* A varint that lies in b is read there.
LEMMA LyingVarintIsRead ==
    ASSUME NEW b \in Seq(Byte), NEW p \in Nat \ {0}, NEW limit \in Nat, 1 < limit,
           NEW n \in 0 .. limit - 1, Lies(b, p, Varint[n])
    PROVE  ReadVarint(b, p, limit) = Value(n, p + Len(Varint[n]))
<1>1. n \in Nat /\ n < limit /\ Len(b) \in Nat /\ Len(Varint[n]) \in Nat \ {0}
  BY VarintType, LenProperties
<1>2. p + Len(Varint[n]) - 1 <= Len(b) /\ Begins(b, p, Varint[n])
  BY DEF Lies
<1>3. p \in 1 .. Len(b)
  BY <1>1, <1>2
<1> QED
  BY <1>1, <1>2, <1>3, VarintAtIsRead

\* Raw content that lies in b is read there.
LEMMA LyingRawIsRead ==
    ASSUME NEW b \in Seq(Byte), NEW p \in Nat \ {0}, NEW s \in Seq(Byte), Lies(b, p, s), NEW type
    PROVE  ReadRaw(b, p, Len(s), type) = Value([t |-> type, v |-> s], p + Len(s))
<1>1. Len(s) \in Nat /\ Len(b) \in Nat
  BY LenProperties
<1>2. p + Len(s) - 1 <= Len(b) /\ Begins(b, p, s)
  BY DEF Lies
<1>3. \A j \in 1 .. Len(s) : b[p + j - 1] = s[j]
  <2> TAKE j \in 1 .. Len(s)
  <2>1. p + j - 1 <= Len(b)
    BY <1>1, <1>2
  <2> QED
    BY <1>2, <2>1 DEF Begins
<1>4. SubSeq(b, p, p + Len(s) - 1) = s
  BY <1>1, <1>2, <1>3, PartIs
<1> QED
  BY <1>2, <1>4 DEF ReadRaw, Enough

-----------------------------------------------------------------------------
(* Tags. *)

\* A tag is bytes, at least one.
LEMMA TagBytes ==
    ASSUME NEW type \in 0 .. 7, NEW n \in Nat
    PROVE  PsonTag(type, n) \in Seq(Byte) /\ Len(PsonTag(type, n)) \in Nat \ {0}
<1>1. CASE n < 31
  <2>1. type * 32 + n \in Byte
    BY <1>1 DEF Byte
  <2>2. <<type * 32 + n>> \in Seq(Byte) /\ Len(<<type * 32 + n>>) = 1
    BY <2>1
  <2> QED
    BY <1>1, <2>2 DEF PsonTag
<1>2. CASE ~(n < 31)
  <2>1. type * 32 + 31 \in Byte
    BY DEF Byte
  <2> DEFINE s == <<type * 32 + 31>>
  <2>2. s \in Seq(Byte) /\ Len(s) = 1
    BY <2>1
  <2> DEFINE t == Varint[n]
  <2>3. t \in Seq(Byte) /\ Len(t) \in Nat
    BY VarintType
  <2>4. PsonTag(type, n) = s \o t
    BY <1>2 DEF PsonTag
  <2> HIDE DEF s, t
  <2>5. s \o t \in Seq(Byte) /\ Len(s \o t) = Len(s) + Len(t)
    BY <2>2, <2>3, Joined
  <2>6. Len(s \o t) \in Nat \ {0}
    BY <2>2, <2>3, <2>5
  <2> QED
    BY <2>4, <2>5, <2>6
<1> QED
  BY <1>1, <1>2

\* A tag that lies in b is read there.
LEMMA TagIsRead ==
    ASSUME NEW b \in Seq(Byte), NEW p \in Nat \ {0}, NEW type \in 0 .. 7,
           NEW n \in 0 .. Uint64 - 1, Lies(b, p, PsonTag(type, n))
    PROVE  ReadPsonTag(b, p) =
             [ok |-> TRUE, type |-> type, value |-> n, at |-> p + Len(PsonTag(type, n))]
<1>1. Len(b) \in Nat /\ n \in Nat
  BY LenProperties, WidthsAssumption, ValuesAssumption
<1>2. CASE n < 31
  <2> DEFINE s == <<type * 32 + n>>
  <2>1. PsonTag(type, n) = s
    BY <1>2 DEF PsonTag
  <2>2. Len(s) = 1 /\ s[1] = type * 32 + n
    OBVIOUS
  <2> HIDE DEF s
  <2>3. p + 1 - 1 <= Len(b) /\ p + 1 - 1 = p /\ 1 \in 1 .. 1
    BY <1>1, <2>1, <2>2 DEF Lies
  <2>4. b[p] = type * 32 + n
    BY <2>1, <2>2, <2>3, Zenon DEF Lies, Begins
  <2>5. /\ ~ (p > Len(b)) /\ b[p] % 32 = n /\ b[p] \div 32 = type /\ b[p] % 32 # 31
    BY <1>1, <1>2, <2>3, <2>4
  <2>6. ReadPsonTag(b, p) = TagOf(b[p], Value(n, p + 1))
    BY <2>5, Zenon DEF ReadPsonTag
  <2> QED
    BY <2>1, <2>2, <2>5, <2>6 DEF TagOf, Value
<1>3. CASE ~ (n < 31)
  <2> DEFINE s == <<type * 32 + 31>>
  <2>1. PsonTag(type, n) = s \o Varint[n]
    BY <1>3 DEF PsonTag
  <2>2. Len(s) = 1 /\ s[1] = type * 32 + 31
    OBVIOUS
  <2>bytes. s \in Seq(Byte)
    <3>1. type * 32 + 31 \in Byte
      BY DEF Byte
    <3> QED
      BY <3>1
  <2> DEFINE t == Varint[n]
  <2>3. t \in Seq(Byte)
    BY <1>1, VarintType
  <2> HIDE DEF s, t
  <2>4. /\ Len(s \o t) = Len(s) + Len(t) /\ Lies(b, p, s) /\ Lies(b, p + 1, t)
        /\ p + 1 \in Nat \ {0} /\ (p + 1) + Len(t) = p + Len(s \o t)
    <3>1. Lies(b, p, s \o t)
      BY <2>1 DEF t
    <3>2. /\ Len(s \o t) = Len(s) + Len(t) /\ Lies(b, p, s)
          /\ Lies(b, p + Len(s), t)
          /\ p + Len(s) \in Nat \ {0} /\ (p + Len(s)) + Len(t) = p + Len(s \o t)
      BY <2>bytes, <2>3, <3>1, PartsLie
    <3> QED
      BY <2>2, <3>2, Zenon
  <2>5. p + 1 - 1 <= Len(b) /\ p + 1 - 1 = p /\ 1 \in 1 .. 1
    BY <1>1, <2>2, <2>4 DEF Lies
  <2>6. b[p] = type * 32 + 31
    BY <2>2, <2>4, <2>5, Zenon DEF Lies, Begins
  <2>7. ~ (p > Len(b)) /\ b[p] % 32 = 31 /\ b[p] \div 32 = type
    BY <1>1, <2>5, <2>6
  <2>8. ReadVarint(b, p + 1, Uint64) = Value(n, p + Len(PsonTag(type, n)))
    <3>1. 1 < Uint64 /\ Uint64 \in Nat
      BY WidthsAssumption, ValuesAssumption, IntegersAssumption
    <3>2. ReadVarint(b, p + 1, Uint64) = Value(n, (p + 1) + Len(Varint[n]))
      BY <2>4, <3>1, LyingVarintIsRead DEF t
    <3> QED
      BY <2>1, <2>4, <3>2 DEF t
  <2>9. ReadPsonTag(b, p) = TagOf(b[p], Value(n, p + Len(PsonTag(type, n))))
    BY <2>7, <2>8, Zenon DEF ReadPsonTag
  <2> QED
    BY <2>7, <2>9 DEF TagOf, Value
<1> QED
  BY <1>2, <1>3

\* A tag that lies in b before what it announces.
LEMMA TaggedIsRead ==
    ASSUME NEW b \in Seq(Byte), NEW p \in Nat \ {0}, NEW type \in 0 .. 7,
           NEW n \in 0 .. Uint64 - 1, NEW s \in Seq(Byte), Lies(b, p, PsonTag(type, n) \o s),
           NEW at, at = p + Len(PsonTag(type, n))
    PROVE  /\ ReadPsonTag(b, p) = [ok |-> TRUE, type |-> type, value |-> n, at |-> at]
           /\ at \in Nat \ {0} /\ Lies(b, at, s) /\ at + Len(s) = p + Len(PsonTag(type, n) \o s)
           /\ Len(s) < Len(PsonTag(type, n) \o s)
<1>1. n \in Nat
  BY WidthsAssumption, ValuesAssumption
<1>2. PsonTag(type, n) \in Seq(Byte) /\ Len(PsonTag(type, n)) \in Nat \ {0}
  BY <1>1, TagBytes
<1>3. /\ Lies(b, p, PsonTag(type, n)) /\ Lies(b, at, s)
      /\ at \in Nat \ {0} /\ at + Len(s) = p + Len(PsonTag(type, n) \o s)
      /\ Len(PsonTag(type, n) \o s) = Len(PsonTag(type, n)) + Len(s)
  BY <1>2, PartsLie
<1>4. ReadPsonTag(b, p) = [ok |-> TRUE, type |-> type, value |-> n, at |-> at]
  BY <1>3, TagIsRead
<1>5. Len(s) < Len(PsonTag(type, n) \o s)
  BY <1>2, <1>3, LenProperties
<1> QED
  BY <1>3, <1>4, <1>5

-----------------------------------------------------------------------------
(* What maps and arrays hold. *)

\* e is read as x, wherever it lies in b, as long as enough values are left.
IsItem(b, kind, e, x) ==
    /\ Len(e) # 0
    /\ \A left \in Nat, p \in Nat \ {0} :
         Lies(b, p, e) /\ Len(e) <= left + 1
           => ItemOf(b, kind, p, Items(b)[left]) = Value(x, p + Len(e))

\* So are n of them, one after the other.
AreItems(b, kind, n, es, xs) ==
    Len(es) = n /\ Len(xs) = n /\ \A i \in 1 .. n : IsItem(b, kind, es[i], xs[i])

\* A sequence of n + 1 is its first and n behind it.
LEMMA FirstAndRest ==
    ASSUME NEW T, NEW s \in Seq(T), NEW n \in Nat, Len(s) = n + 1
    PROVE  /\ Head(s) = s[1] /\ s[1] \in T
           /\ Tail(s) \in Seq(T) /\ Len(Tail(s)) = n /\ \A i \in 1 .. n : Tail(s)[i] = s[i + 1]
           /\ <<s[1]>> \o Tail(s) = s
<1>1. s # <<>> /\ 1 \in 1 .. Len(s)
  <2>1. Len(s) # 0 /\ 1 \in 1 .. Len(s)
    OBVIOUS
  <2> QED
    BY <2>1, SomeAreNot, Zenon
<1>2. s[1] \in T
  BY <1>1, ElementOfSeq
<1>3. /\ Head(s) \in T /\ Tail(s) \in Seq(T) /\ Len(Tail(s)) = Len(s) - 1
      /\ \A i \in 1 .. Len(Tail(s)) : Tail(s)[i] = s[i + 1]
  BY <1>1, HeadTailProperties
<1>4. Head(s) = s[1]
  OBVIOUS
<1> DEFINE t == Tail(s)
           f == <<s[1]>>
<1>5. t \in Seq(T) /\ Len(t) = n /\ \A i \in 1 .. n : t[i] = s[i + 1]
  BY <1>3
<1>6. f \in Seq(T) /\ Len(f) = 1 /\ f[1] = s[1]
  BY <1>2
<1> HIDE DEF t, f
<1>7. /\ f \o t \in Seq(T) /\ Len(f \o t) = n + 1
      /\ \A j \in 1 .. Len(f) : (f \o t)[j] = f[j]
      /\ \A j \in 1 .. Len(t) : (f \o t)[Len(f) + j] = t[j]
  <2>1. f \in Seq(T) /\ t \in Seq(T)
    BY <1>5, <1>6
  <2>2. /\ f \o t \in Seq(T) /\ Len(f \o t) = Len(f) + Len(t)
        /\ \A j \in 1 .. Len(f) : (f \o t)[j] = f[j]
        /\ \A j \in 1 .. Len(t) : (f \o t)[Len(f) + j] = t[j]
    BY <2>1, Joined
  <2> QED
    BY <1>5, <1>6, <2>2
<1>8. ASSUME NEW i \in 1 .. n + 1 PROVE (f \o t)[i] = s[i]
  <2>1. CASE i = 1
    BY <1>6, <1>7, <2>1
  <2>2. CASE i # 1
    <3>1. i - 1 \in 1 .. n /\ 1 + (i - 1) = i /\ (i - 1) + 1 = i
      BY <2>2
    <3>2. (f \o t)[1 + (i - 1)] = t[i - 1]
      BY <1>5, <1>6, <1>7, <3>1
    <3> QED
      BY <1>5, <3>1, <3>2
  <2> QED
    BY <2>1, <2>2
<1>9. f \o t = s
  BY <1>7, <1>8, SeqEqual
<1> QED
  BY <1>2, <1>3, <1>4, <1>5, <1>9 DEF f, t

(***************************************************************************)
(* Items that lie one behind the other are read one after the other.       *)
(***************************************************************************)
LEMMA ItemsAreRead ==
    ASSUME NEW b \in Seq(Byte), NEW kind \in {6, 7}, NEW T
    PROVE  \A n \in Nat : \A es \in Seq(Seq(Byte)), xs \in Seq(T) :
             AreItems(b, kind, n, es, xs)
             => \A left \in Nat, p \in Nat \ {0} :
                  Lies(b, p, FlattenSeq(es)) /\ Len(FlattenSeq(es)) <= left
                  => Items(b)[left][kind][p][n] = Value(xs, p + Len(FlattenSeq(es)))
<1> DEFINE Are(n, es, xs) == AreItems(b, kind, n, es, xs)
           Read_(n, es, xs, left, p) ==
             Items(b)[left][kind][p][n] = Value(xs, p + Len(FlattenSeq(es)))
           Lie(es, left, p) == Lies(b, p, FlattenSeq(es)) /\ Len(FlattenSeq(es)) <= left
           Is(n) == \A es \in Seq(Seq(Byte)), xs \in Seq(T) : Are(n, es, xs) =>
                      \A left \in Nat, p \in Nat \ {0} : Lie(es, left, p) => Read_(n, es, xs, left, p)
           S == {n \in Nat : Is(n)}
<1>0. \A left \in Nat, p \in Nat, n \in Nat :
        /\ Items(b)[left][kind][p][0] = Value(<<>>, p)
        /\ Items(b)[left + 1][kind][p][n + 1]
             = Followed(ItemOf(b, kind, p, Items(b)[left]), n, Items(b)[left][kind])
  <2>1. \A left \in Nat, p \in Nat :
          /\ Items(b)[left][kind][p][0] = Value(<<>>, p)
          /\ \A n \in Nat :
               Items(b)[left + 1][kind][p][n + 1]
                 = Followed(ItemOf(b, kind, p, Items(b)[left]), n, Items(b)[left][kind])
    BY ItemsUnfold, Zenon
  <2> QED
    BY <2>1, Zenon
<1>1. Is(0)
  <2> SUFFICES ASSUME NEW es \in Seq(Seq(Byte)), NEW xs \in Seq(T), Are(0, es, xs),
                      NEW left \in Nat, NEW p \in Nat \ {0}
               PROVE  Read_(0, es, xs, left, p)
    BY Zenon
  <2>1. es = <<>> /\ xs = <<>>
    BY NoneIsEmpty DEF AreItems
  <2>2. Items(b)[left][kind][p][0] = Value(<<>>, p)
    BY <1>0
  <2>3. p + Len(<<>>) = p
    OBVIOUS
  <2> QED
    BY <2>1, <2>2, <2>3, FlattenEmpty
<1>2. ASSUME NEW n \in Nat, Is(n) PROVE Is(n + 1)
  <2> SUFFICES ASSUME NEW es \in Seq(Seq(Byte)), NEW xs \in Seq(T), Are(n + 1, es, xs),
                      NEW left \in Nat, NEW p \in Nat \ {0}, Lie(es, left, p)
               PROVE  Read_(n + 1, es, xs, left, p)
    BY Zenon
  <2> DEFINE e == es[1]
             x == xs[1]
             rest == FlattenSeq(Tail(es))
             q == p + Len(e)
  <2>1. /\ Head(es) = e /\ e \in Seq(Byte)
        /\ Tail(es) \in Seq(Seq(Byte)) /\ Len(Tail(es)) = n
        /\ \A i \in 1 .. n : Tail(es)[i] = es[i + 1]
    BY FirstAndRest DEF AreItems
  <2>2. /\ Tail(xs) \in Seq(T) /\ Len(Tail(xs)) = n
        /\ \A i \in 1 .. n : Tail(xs)[i] = xs[i + 1]
        /\ <<x>> \o Tail(xs) = xs
    BY FirstAndRest DEF AreItems
  <2>3. FlattenSeq(es) = e \o rest /\ rest \in Seq(Byte)
    <3>1. es # <<>>
      <4>1. Len(es) # 0
        BY DEF AreItems
      <4> QED
        BY <4>1, SomeAreNot, Zenon
    <3> QED
      BY <2>1, <3>1, FlattenFirst, FlattenType
  <2>4. /\ Len(e \o rest) = Len(e) + Len(rest) /\ Lies(b, p, e) /\ Lies(b, q, rest)
        /\ q \in Nat \ {0} /\ q + Len(rest) = p + Len(e \o rest) /\ Len(e \o rest) <= left
    BY <2>1, <2>3, PartsLie
  <2>5. IsItem(b, kind, e, x)
    <3>1. 1 \in 1 .. n + 1
      OBVIOUS
    <3> QED
      BY <3>1, Zenon DEF AreItems
  <2>6. Are(n, Tail(es), Tail(xs))
    <3>1. \A i \in 1 .. n : i + 1 \in 1 .. n + 1
      OBVIOUS
    <3>2. \A i \in 1 .. n : IsItem(b, kind, es[i + 1], xs[i + 1])
      BY <3>1, Zenon DEF AreItems
    <3> QED
      BY <2>1, <2>2, <3>2, Zenon DEF AreItems
  <2>7. /\ Len(e) \in Nat /\ Len(rest) \in Nat /\ Len(e) # 0
        /\ left - 1 \in Nat /\ left # 0 /\ Len(e) <= (left - 1) + 1 /\ Len(rest) <= left - 1
    <3>1. Len(e) \in Nat /\ Len(rest) \in Nat
      BY <2>1, <2>3, LenProperties
    <3>2. Len(e) # 0
      BY <2>5 DEF IsItem
    <3> HIDE DEF e, rest
    <3> QED
      BY <2>4, <3>1, <3>2
  <2>8. ItemOf(b, kind, p, Items(b)[left - 1]) = Value(x, q)
    BY <2>4, <2>5, <2>7, Zenon DEF IsItem
  <2>9. Items(b)[left - 1][kind][q][n] = Value(Tail(xs), q + Len(rest))
    <3>1. Lie(Tail(es), left - 1, q)
      BY <2>4, <2>7
    <3> HIDE DEF Are, Lie
    <3>2. Read_(n, Tail(es), Tail(xs), left - 1, q)
      BY <1>2, <2>1, <2>2, <2>4, <2>6, <2>7, <3>1, Zenon
    <3> QED
      BY <3>2
  <2>10. Items(b)[left][kind][p][n + 1]
           = Followed(Value(x, q), n, Items(b)[left - 1][kind])
    <3>1. left - 1 \in Nat /\ (left - 1) + 1 = left /\ p \in Nat
      BY <2>7
    <3>2. Items(b)[(left - 1) + 1][kind][p][n + 1]
            = Followed(ItemOf(b, kind, p, Items(b)[left - 1]), n, Items(b)[left - 1][kind])
      BY <1>0, <3>1, Zenon
    <3> QED
      BY <2>8, <3>1, <3>2, Zenon
  <2>11. Followed(Value(x, q), n, Items(b)[left - 1][kind]) = Value(xs, q + Len(rest))
    <3> HIDE DEF x, q, rest
    <3>1. Value(x, q).ok /\ Value(x, q).value = x /\ Value(x, q).at = q
      BY DEF Value
    <3>2. Followed(Value(x, q), n, Items(b)[left - 1][kind])
            = Before(Value(Tail(xs), q + Len(rest)), x)
      BY <2>9, <3>1, Zenon DEF Followed
    <3>3. Before(Value(Tail(xs), q + Len(rest)), x) = Value(<<x>> \o Tail(xs), q + Len(rest))
      BY DEF Before, Value
    <3> QED
      BY <2>2, <3>2, <3>3, Zenon
  <2> QED
    BY <2>3, <2>4, <2>10, <2>11, Zenon
<1> HIDE DEF Is
<1>3. \A n \in Nat : n \in S
  <2>1. 0 \in S /\ \A n \in S : n + 1 \in S
    BY <1>1, <1>2
  <2>2. S \in SUBSET Nat
    OBVIOUS
  <2> HIDE DEF S
  <2> QED
    BY <2>1, <2>2, Induction
<1> QED
  BY <1>3, Zenon DEF Is

-----------------------------------------------------------------------------
(* Values. *)

\* e is a value that is read as x, wherever it lies in b, as long as enough
\* values are left.
IsValue(b, e, x) ==
    /\ e \in Seq(Byte) /\ Len(e) # 0
    /\ \A left \in Nat, p \in Nat \ {0} :
         Lies(b, p, e) /\ Len(e) <= left + 1
           => PsonOf(b, ReadPsonTag(b, p), Items(b)[left]) = Value(x, p + Len(e))

\* What each tag says of the content behind it.
LEMMA TagDecides ==
    ASSUME NEW b, NEW n, NEW at, NEW items, NEW tag,
           NEW type \in 0 .. 7, tag = [ok |-> TRUE, type |-> type, value |-> n, at |-> at]
    PROVE  /\ type = 0 => PsonOf(b, tag, items) = Value(Unsigned(n), at)
           /\ type = 1 => PsonOf(b, tag, items) = Value(Signed(-n), at)
           /\ type = 2 /\ n = 0 => PsonOf(b, tag, items) = ReadRaw(b, at, 4, "float")
           /\ type = 2 /\ n = 1 => PsonOf(b, tag, items) = ReadRaw(b, at, 8, "double")
           /\ type = 3 /\ n = 2 => PsonOf(b, tag, items) = Value(Null, at)
           /\ type = 4 /\ n <= MaxString => PsonOf(b, tag, items) = ReadRaw(b, at, n, "string")
           /\ type = 5 /\ n <= MaxString => PsonOf(b, tag, items) = ReadRaw(b, at, n, "binary")
           /\ type = 6 => PsonOf(b, tag, items) = ObjectOf(items[6][at][n])
           /\ type = 7 => PsonOf(b, tag, items) = ArrayOf(items[7][at][n])
<1>1. tag.ok = TRUE /\ tag.type = type /\ tag.value = n /\ tag.at = at
  OBVIOUS
<1>2. CASE type = 0
  BY <1>1, <1>2 DEF PsonOf
<1>3. CASE type = 1
  BY <1>1, <1>3 DEF PsonOf
<1>4. CASE type = 2
  BY <1>1, <1>4 DEF PsonOf
<1>5. CASE type = 3 /\ n = 2
  BY <1>1, <1>5 DEF PsonOf
<1>6. CASE type = 4
  BY <1>1, <1>6 DEF PsonOf
<1>7. CASE type = 5
  BY <1>1, <1>7 DEF PsonOf
<1>8. CASE type = 6
  BY <1>1, <1>8 DEF PsonOf
<1>9. CASE type = 7
  BY <1>1, <1>9 DEF PsonOf
<1> QED
  BY <1>2, <1>3, <1>4, <1>5, <1>6, <1>7, <1>8, <1>9

\* So does that of a boolean.
LEMMA BooleanDecides ==
    ASSUME NEW b, NEW at, NEW items, NEW tag, NEW v \in BOOLEAN,
           tag = [ok |-> TRUE, type |-> 3, value |-> IF v THEN 1 ELSE 0, at |-> at]
    PROVE  PsonOf(b, tag, items) = Value(Boolean(v), at)
<1>1. tag.ok = TRUE /\ tag.type = 3 /\ tag.value \in {0, 1} /\ tag.at = at
  OBVIOUS
<1>2. (tag.value = 1) = v
  OBVIOUS
<1>3. PsonOf(b, tag, items) = Value(Boolean(tag.value = 1), tag.at)
  BY <1>1 DEF PsonOf
<1> QED
  BY <1>1, <1>2, <1>3, Zenon

\* A string, as value or as key.
LEMMA StringIsRead ==
    ASSUME NEW b \in Seq(Byte), NEW p \in Nat \ {0}, NEW s \in Text, Lies(b, p, PsonString(s)),
           NEW items
    PROVE  PsonOf(b, ReadPsonTag(b, p), items) = Value(String(s), p + Len(PsonString(s)))
<1> DEFINE n == Len(s)
           at == p + Len(PsonTag(4, n))
<1>1. s \in Seq(Byte) /\ n \in 0 .. Uint64 - 1 /\ n <= MaxString
  BY LenProperties, WidthsAssumption, ValuesAssumption DEF Text
<1>2. /\ ReadPsonTag(b, p) = [ok |-> TRUE, type |-> 4, value |-> n, at |-> at]
      /\ at \in Nat \ {0} /\ Lies(b, at, s) /\ at + n = p + Len(PsonString(s))
  <2> HIDE DEF n, at
  <2>1. Lies(b, p, PsonTag(4, n) \o s) /\ at = p + Len(PsonTag(4, n)) /\ 4 \in 0 .. 7
    BY DEF PsonString, n, at
  <2>2. /\ ReadPsonTag(b, p) = [ok |-> TRUE, type |-> 4, value |-> n, at |-> at]
        /\ at \in Nat \ {0} /\ Lies(b, at, s) /\ at + Len(s) = p + Len(PsonTag(4, n) \o s)
    BY <1>1, <2>1, TaggedIsRead
  <2> QED
    BY <2>2 DEF PsonString, n
<1> HIDE DEF n, at
<1>3. PsonOf(b, ReadPsonTag(b, p), items) = ReadRaw(b, at, n, "string")
  BY <1>1, <1>2, TagDecides
<1>4. ReadRaw(b, at, n, "string") = Value([t |-> "string", v |-> s], at + n)
  BY <1>1, <1>2, LyingRawIsRead DEF n
<1> QED
  BY <1>2, <1>3, <1>4 DEF String

\* A string is bytes, at least one.
LEMMA StringBytes ==
    ASSUME NEW s \in Text
    PROVE  PsonString(s) \in Seq(Byte) /\ Len(PsonString(s)) \in Nat \ {0}
<1> DEFINE t == PsonTag(4, Len(s))
<1>1. s \in Seq(Byte) /\ Len(s) \in Nat
  BY LenProperties DEF Text
<1>2. t \in Seq(Byte) /\ Len(t) \in Nat \ {0}
  BY <1>1, 4 \in 0 .. 7, TagBytes
<1>3. PsonString(s) = t \o s
  BY DEF PsonString
<1> HIDE DEF t
<1>4. t \o s \in Seq(Byte) /\ Len(t \o s) = Len(t) + Len(s)
  BY <1>1, <1>2, Joined
<1> QED
  BY <1>1, <1>2, <1>3, <1>4

\* A value that is all in its tag.
LEMMA TagIsValue ==
    ASSUME NEW b \in Seq(Byte), NEW type \in 0 .. 7, NEW n \in 0 .. Uint64 - 1, NEW x,
           \A at, items :
             PsonOf(b, [ok |-> TRUE, type |-> type, value |-> n, at |-> at], items) = Value(x, at)
    PROVE  IsValue(b, PsonTag(type, n), x)
<1> DEFINE e == PsonTag(type, n)
<1>0. n \in Nat
  BY WidthsAssumption, ValuesAssumption
<1>1. e \in Seq(Byte) /\ Len(e) # 0
  BY <1>0, TagBytes
<1>2. ASSUME NEW left \in Nat, NEW p \in Nat \ {0}, Lies(b, p, e)
      PROVE  PsonOf(b, ReadPsonTag(b, p), Items(b)[left]) = Value(x, p + Len(e))
  <2>1. ReadPsonTag(b, p) = [ok |-> TRUE, type |-> type, value |-> n, at |-> p + Len(e)]
    BY <1>2, TagIsRead
  <2> HIDE DEF e
  <2> QED
    BY <2>1, Zenon
<1> HIDE DEF e
<1>3. IsValue(b, e, x)
  BY <1>1, <1>2 DEF IsValue
<1> QED
  BY <1>3 DEF e

\* Behind such a tag is raw content of length n.
AnnouncesRaw(b, type, n, length, name) ==
    \A at, items :
      PsonOf(b, [ok |-> TRUE, type |-> type, value |-> n, at |-> at], items)
        = ReadRaw(b, at, length, name)

\* A value of raw content behind its tag.
LEMMA RawIsValue ==
    ASSUME NEW b \in Seq(Byte), NEW type \in {2, 4, 5}, NEW n \in 0 .. Uint64 - 1,
           NEW s \in Seq(Byte), NEW name, AnnouncesRaw(b, type, n, Len(s), name)
    PROVE  IsValue(b, PsonTag(type, n) \o s, [t |-> name, v |-> s])
<1> DEFINE t == PsonTag(type, n)
           e == t \o s
           x == [t |-> name, v |-> s]
<1>0. n \in Nat /\ type \in 0 .. 7
  BY WidthsAssumption, ValuesAssumption
<1>1. t \in Seq(Byte) /\ Len(t) \in Nat \ {0}
  BY <1>0, TagBytes
<1> HIDE DEF t, x
<1>2. e \in Seq(Byte) /\ Len(e) # 0
  <2>1. t \o s \in Seq(Byte) /\ Len(t \o s) = Len(t) + Len(s)
    BY <1>1, Joined
  <2>2. Len(s) \in Nat
    BY LenProperties
  <2> QED
    BY <1>1, <2>1, <2>2
<1> HIDE DEF e
<1>3. ASSUME NEW left \in Nat, NEW p \in Nat \ {0}, Lies(b, p, e)
      PROVE  PsonOf(b, ReadPsonTag(b, p), Items(b)[left]) = Value(x, p + Len(e))
  <2> DEFINE at == p + Len(t)
  <2>1. /\ ReadPsonTag(b, p) = [ok |-> TRUE, type |-> type, value |-> n, at |-> at]
        /\ at \in Nat \ {0} /\ Lies(b, at, s) /\ at + Len(s) = p + Len(e)
    <3>1. at = p + Len(PsonTag(type, n)) /\ Lies(b, p, PsonTag(type, n) \o s)
      BY <1>3 DEF t, e
    <3> HIDE DEF at
    <3>2. /\ ReadPsonTag(b, p) = [ok |-> TRUE, type |-> type, value |-> n, at |-> at]
          /\ at \in Nat \ {0} /\ Lies(b, at, s) /\ at + Len(s) = p + Len(PsonTag(type, n) \o s)
      BY <1>0, <3>1, TaggedIsRead
    <3> QED
      BY <3>2 DEF e, t
  <2> HIDE DEF at
  <2>2. PsonOf(b, ReadPsonTag(b, p), Items(b)[left]) = ReadRaw(b, at, Len(s), name)
    BY <2>1, Zenon DEF AnnouncesRaw
  <2>3. ReadRaw(b, at, Len(s), name) = Value(x, at + Len(s))
    BY <2>1, LyingRawIsRead DEF x
  <2> QED
    BY <2>1, <2>2, <2>3
<1>4. IsValue(b, e, x)
  BY <1>2, <1>3 DEF IsValue
<1> QED
  BY <1>4 DEF e, t, x

\* The small numbers are numbers of 64 bits.
LEMMA Widths == 2 \in 0 .. Uint64 - 1 /\ 1 \in 0 .. Uint64 - 1 /\ 0 \in 0 .. Uint64 - 1
BY WidthsAssumption, ValuesAssumption, IntegersAssumption

\* Each scalar is read as what can be told of it.
LEMMA NullIsRead ==
    ASSUME NEW b \in Seq(Byte), NEW inner
    PROVE  IsValue(b, PsonBy(Null, inner), Null)
<1>1. PsonBy(Null, inner) = PsonTag(3, 2)
  BY DEF PsonBy, Null
<1>2. \A at, items : PsonOf(b, [ok |-> TRUE, type |-> 3, value |-> 2, at |-> at], items)
                       = Value(Null, at)
  BY 3 \in 0 .. 7, TagDecides
<1>3. IsValue(b, PsonTag(3, 2), Null)
  BY <1>2, 3 \in 0 .. 7, Widths, TagIsValue
<1> QED
  BY <1>1, <1>3

LEMMA BooleanIsRead ==
    ASSUME NEW b \in Seq(Byte), NEW inner, NEW value, NEW v \in BOOLEAN,
           value = [t |-> "boolean", v |-> v]
    PROVE  IsValue(b, PsonBy(value, inner), value)
<1> DEFINE n == IF v THEN 1 ELSE 0
<1>1. PsonBy(value, inner) = PsonTag(3, n)
  <2>1. value.t = "boolean" /\ value.v = v
    OBVIOUS
  <2>2. PsonBy(value, inner) = PsonTag(3, IF value.v THEN 1 ELSE 0)
    BY <2>1 DEF PsonBy
  <2> QED
    BY <2>1, <2>2, Zenon
<1>2. \A at, items : PsonOf(b, [ok |-> TRUE, type |-> 3, value |-> n, at |-> at], items)
                       = Value(value, at)
  <2>1. Boolean(v) = value
    BY DEF Boolean
  <2>2. \A at, items : PsonOf(b, [ok |-> TRUE, type |-> 3, value |-> n, at |-> at], items)
                         = Value(Boolean(v), at)
    BY BooleanDecides
  <2> QED
    BY <2>1, <2>2, Zenon
<1>3. n \in 0 .. Uint64 - 1
  BY Widths
<1> HIDE DEF n
<1>4. IsValue(b, PsonTag(3, n), value)
  BY <1>2, <1>3, 3 \in 0 .. 7, TagIsValue
<1> QED
  BY <1>1, <1>4

LEMMA NaturalIsRead ==
    ASSUME NEW b \in Seq(Byte), NEW inner, NEW value, NEW v \in 0 .. Uint64 - 1,
           NEW t \in {"unsigned", "integer", "whole"}, value = [t |-> t, v |-> v]
    PROVE  IsValue(b, PsonBy(value, inner), Unsigned(v))
<1>1. PsonBy(value, inner) = PsonTag(0, v)
  <2>1. value.t = t /\ value.v = v /\ ~ (v < 0)
    BY WidthsAssumption, ValuesAssumption
  <2>2. CASE t = "unsigned"
    BY <2>1, <2>2 DEF PsonBy
  <2>3. CASE t \in {"integer", "whole"}
    <3>1. PsonBy(value, inner) = IF value.v < 0 THEN PsonTag(1, -value.v) ELSE PsonTag(0, value.v)
      BY <2>1, <2>3 DEF PsonBy
    <3> QED
      BY <2>1, <3>1
  <2> QED
    BY <2>2, <2>3
<1>2. \A at, items : PsonOf(b, [ok |-> TRUE, type |-> 0, value |-> v, at |-> at], items)
                       = Value(Unsigned(v), at)
  BY 0 \in 0 .. 7, TagDecides
<1>3. IsValue(b, PsonTag(0, v), Unsigned(v))
  BY <1>2, 0 \in 0 .. 7, TagIsValue
<1> QED
  BY <1>1, <1>3

LEMMA NegativeIsRead ==
    ASSUME NEW b \in Seq(Byte), NEW inner, NEW value, NEW v \in Integer64, v < 0,
           NEW t \in {"integer", "whole"}, value = [t |-> t, v |-> v]
    PROVE  IsValue(b, PsonBy(value, inner), Signed(v))
<1>1. PsonBy(value, inner) = PsonTag(1, -v)
  <2>1. value.t = t /\ value.v = v
    OBVIOUS
  <2>2. PsonBy(value, inner) = IF value.v < 0 THEN PsonTag(1, -value.v) ELSE PsonTag(0, value.v)
    BY <2>1 DEF PsonBy
  <2> QED
    BY <2>1, <2>2
<1> DEFINE n == -v
<1>2. n \in 0 .. Uint64 - 1 /\ -n = v
  BY WidthsAssumption, ValuesAssumption DEF Integer64
<1> HIDE DEF n
<1>3. \A at, items : PsonOf(b, [ok |-> TRUE, type |-> 1, value |-> n, at |-> at], items)
                       = Value(Signed(v), at)
  <2>1. \A at, items : PsonOf(b, [ok |-> TRUE, type |-> 1, value |-> n, at |-> at], items)
                         = Value(Signed(-n), at)
    BY 1 \in 0 .. 7, TagDecides
  <2> QED
    BY <1>2, <2>1
<1>4. IsValue(b, PsonTag(1, n), Signed(v))
  BY <1>2, <1>3, 1 \in 0 .. 7, TagIsValue
<1> QED
  BY <1>1, <1>4 DEF n

LEMMA FloatIsRead ==
    ASSUME NEW b \in Seq(Byte), NEW inner, NEW value, NEW s \in Seq(Byte),
           \/ value = [t |-> "float", v |-> s] /\ Len(s) = 4
           \/ value = [t |-> "double", v |-> s] /\ Len(s) = 8
    PROVE  IsValue(b, PsonBy(value, inner), value)
<1>1. CASE value = [t |-> "float", v |-> s] /\ Len(s) = 4
  <2>1. PsonBy(value, inner) = PsonTag(2, 0) \o s
    BY <1>1 DEF PsonBy
  <2>2. \A at, items : PsonOf(b, [ok |-> TRUE, type |-> 2, value |-> 0, at |-> at], items)
                         = ReadRaw(b, at, 4, "float")
    BY 2 \in 0 .. 7, TagDecides
  <2>3. IsValue(b, PsonTag(2, 0) \o s, [t |-> "float", v |-> s])
    <3>1. AnnouncesRaw(b, 2, 0, Len(s), "float")
      BY <1>1, <2>2, Zenon DEF AnnouncesRaw
    <3> QED
      BY <3>1, Widths, RawIsValue
  <2> QED
    BY <1>1, <2>1, <2>3
<1>2. CASE value = [t |-> "double", v |-> s] /\ Len(s) = 8
  <2>1. PsonBy(value, inner) = PsonTag(2, 1) \o s
    BY <1>2 DEF PsonBy
  <2>2. \A at, items : PsonOf(b, [ok |-> TRUE, type |-> 2, value |-> 1, at |-> at], items)
                         = ReadRaw(b, at, 8, "double")
    BY 2 \in 0 .. 7, TagDecides
  <2>3. IsValue(b, PsonTag(2, 1) \o s, [t |-> "double", v |-> s])
    <3>1. AnnouncesRaw(b, 2, 1, Len(s), "double")
      BY <1>2, <2>2, Zenon DEF AnnouncesRaw
    <3> QED
      BY <3>1, Widths, RawIsValue
  <2> QED
    BY <1>2, <2>1, <2>3
<1> QED
  BY <1>1, <1>2

LEMMA TextIsRead ==
    ASSUME NEW b \in Seq(Byte), NEW inner, NEW value, NEW s \in Text,
           NEW t \in {"string", "binary"}, value = [t |-> t, v |-> s]
    PROVE  IsValue(b, PsonBy(value, inner), value)
<1> DEFINE type == IF t = "string" THEN 4 ELSE 5
<1>1. s \in Seq(Byte) /\ Len(s) \in 0 .. Uint64 - 1 /\ Len(s) <= MaxString /\ type \in {4, 5}
  BY LenProperties, WidthsAssumption, ValuesAssumption DEF Text
<1>2. PsonBy(value, inner) = PsonTag(type, Len(s)) \o s
  <2>1. CASE t = "string"
    BY <2>1 DEF PsonBy, PsonString
  <2>2. CASE t = "binary"
    BY <2>2 DEF PsonBy
  <2> QED
    BY <2>1, <2>2
<1>3. ASSUME NEW at, NEW items
      PROVE  PsonOf(b, [ok |-> TRUE, type |-> type, value |-> Len(s), at |-> at], items)
               = ReadRaw(b, at, Len(s), t)
  <2> DEFINE tag == [ok |-> TRUE, type |-> type, value |-> Len(s), at |-> at]
  <2>1. /\ type = 4 => PsonOf(b, tag, items) = ReadRaw(b, at, Len(s), "string")
        /\ type = 5 => PsonOf(b, tag, items) = ReadRaw(b, at, Len(s), "binary")
    <3> HIDE DEF type
    <3> QED
      BY <1>1, type \in 0 .. 7, TagDecides
  <2> HIDE DEF tag
  <2>2. PsonOf(b, tag, items) = ReadRaw(b, at, Len(s), t)
    BY <2>1
  <2> QED
    BY <2>2 DEF tag
<1> HIDE DEF type
<1>4. AnnouncesRaw(b, type, Len(s), Len(s), t)
  BY <1>3 DEF AnnouncesRaw
<1>5. IsValue(b, PsonTag(type, Len(s)) \o s, [t |-> t, v |-> s])
  BY <1>1, <1>4, RawIsValue
<1> QED
  BY <1>2, <1>5

\* The scalars together.
LEMMA ScalarIsRead ==
    ASSUME NEW b \in Seq(Byte), NEW value \in Scalars, NEW inner, NEW within
    PROVE  IsValue(b, PsonBy(value, inner), NormalBy(value, within))
<1>1. CASE value = Null
  <2>1. NormalBy(value, within) = value
    BY <1>1 DEF NormalBy, Null
  <2> QED
    BY <1>1, <2>1, NullIsRead
<1>2. CASE value \in [t : {"boolean"}, v : BOOLEAN]
  <2>1. NormalBy(value, within) = value
    BY <1>2 DEF NormalBy
  <2>2. value.v \in BOOLEAN /\ value = [t |-> "boolean", v |-> value.v]
    BY <1>2
  <2> QED
    BY <2>1, <2>2, BooleanIsRead
<1>3. CASE value \in [t : {"unsigned"}, v : 0 .. Uint64 - 1]
  <2>1. NormalBy(value, within) = Unsigned(value.v)
    BY <1>3 DEF NormalBy, Unsigned
  <2>2. value.v \in 0 .. Uint64 - 1 /\ value.t \in {"unsigned"} /\ value = [t |-> value.t, v |-> value.v]
    BY <1>3
  <2> QED
    BY <2>1, <2>2, NaturalIsRead
<1>4. CASE value \in [t : {"integer", "whole"}, v : Integer64]
  <2>1. value.v \in Integer64 /\ value.t \in {"integer", "whole"} /\ value = [t |-> value.t, v |-> value.v]
    BY <1>4
  <2>2. NormalBy(value, within) = IF value.v < 0 THEN Signed(value.v) ELSE Unsigned(value.v)
    BY <2>1 DEF NormalBy
  <2>3. CASE value.v < 0
    BY <2>1, <2>2, <2>3, NegativeIsRead
  <2>4. CASE ~ (value.v < 0)
    <3>1. value.v \in 0 .. Uint64 - 1
      BY <2>1, <2>4, WidthsAssumption, ValuesAssumption DEF Integer64
    <3> QED
      BY <2>1, <2>2, <2>4, <3>1, NaturalIsRead
  <2> QED
    BY <2>3, <2>4
<1>5. CASE value \in [t : {"float"}, v : {s \in Seq(Byte) : Len(s) = 4}]
  <2>1. NormalBy(value, within) = value
    BY <1>5 DEF NormalBy
  <2>2. value.v \in Seq(Byte) /\ Len(value.v) = 4 /\ value = [t |-> "float", v |-> value.v]
    BY <1>5
  <2> QED
    BY <2>1, <2>2, FloatIsRead
<1>6. CASE value \in [t : {"double"}, v : {s \in Seq(Byte) : Len(s) = 8}]
  <2>1. NormalBy(value, within) = value
    BY <1>6 DEF NormalBy
  <2>2. value.v \in Seq(Byte) /\ Len(value.v) = 8 /\ value = [t |-> "double", v |-> value.v]
    BY <1>6
  <2> QED
    BY <2>1, <2>2, FloatIsRead
<1>7. CASE value \in [t : {"string", "binary"}, v : Text]
  <2>1. NormalBy(value, within) = value
    BY <1>7 DEF NormalBy
  <2>2. value.v \in Text /\ value.t \in {"string", "binary"} /\ value = [t |-> value.t, v |-> value.v]
    BY <1>7
  <2> QED
    BY <2>1, <2>2, TextIsRead
<1> QED
  BY <1>1, <1>2, <1>3, <1>4, <1>5, <1>6, <1>7 DEF Scalars

\* A container: its tag and, behind it, its items.
LEMMA ContainerIsRead ==
    ASSUME NEW b \in Seq(Byte), NEW kind \in {6, 7}, NEW T, NEW n \in 0 .. Uint64 - 1,
           NEW es \in Seq(Seq(Byte)), NEW xs \in Seq(T), AreItems(b, kind, n, es, xs)
    PROVE  IsValue(b, PsonTag(kind, n) \o FlattenSeq(es),
                   IF kind = 6 THEN Filled(xs) ELSE Array(xs))
<1> DEFINE t == PsonTag(kind, n)
           s == FlattenSeq(es)
           e == t \o s
           x == IF kind = 6 THEN Filled(xs) ELSE Array(xs)
<1>0. n \in Nat /\ kind \in 0 .. 7
  BY WidthsAssumption, ValuesAssumption
<1>1. t \in Seq(Byte) /\ Len(t) \in Nat \ {0}
  BY <1>0, TagBytes
<1>2. s \in Seq(Byte) /\ Len(s) \in Nat
  BY FlattenType, LenProperties
<1> HIDE DEF t, s, x
<1>3. e \in Seq(Byte) /\ Len(e) \in Nat /\ Len(e) # 0
  <2>1. t \o s \in Seq(Byte) /\ Len(t \o s) = Len(t) + Len(s)
    BY <1>1, <1>2, Joined
  <2> QED
    BY <1>1, <1>2, <2>1
<1> HIDE DEF e
<1>4. \A left \in Nat, p \in Nat \ {0} :
        Lies(b, p, s) /\ Len(s) <= left => Items(b)[left][kind][p][n] = Value(xs, p + Len(s))
  BY <1>0, ItemsAreRead DEF s
<1>5. ASSUME NEW left \in Nat, NEW p \in Nat \ {0}, Lies(b, p, e), Len(e) <= left + 1
      PROVE  PsonOf(b, ReadPsonTag(b, p), Items(b)[left]) = Value(x, p + Len(e))
  <2> DEFINE at == p + Len(t)
  <2>1. /\ ReadPsonTag(b, p) = [ok |-> TRUE, type |-> kind, value |-> n, at |-> at]
        /\ at \in Nat \ {0} /\ Lies(b, at, s) /\ at + Len(s) = p + Len(e) /\ Len(s) < Len(e)
    <3>1. at = p + Len(PsonTag(kind, n)) /\ Lies(b, p, PsonTag(kind, n) \o s)
      BY <1>5 DEF t, e
    <3> HIDE DEF at
    <3>2. /\ ReadPsonTag(b, p) = [ok |-> TRUE, type |-> kind, value |-> n, at |-> at]
          /\ at \in Nat \ {0} /\ Lies(b, at, s) /\ at + Len(s) = p + Len(PsonTag(kind, n) \o s)
          /\ Len(s) < Len(PsonTag(kind, n) \o s)
      BY <1>0, <1>2, <3>1, TaggedIsRead
    <3> QED
      BY <3>2 DEF e, t
  <2> HIDE DEF at
  <2>2. Items(b)[left][kind][at][n] = Value(xs, p + Len(e))
    <3>1. Len(s) <= left
      BY <1>2, <1>3, <1>5, <2>1
    <3> QED
      BY <1>4, <2>1, <3>1
  <2>3. CASE kind = 6
    <3>1. PsonOf(b, ReadPsonTag(b, p), Items(b)[left]) = ObjectOf(Items(b)[left][6][at][n])
      BY <1>0, <2>1, <2>3, TagDecides
    <3>2. ObjectOf(Value(xs, p + Len(e))) = Value(Filled(xs), p + Len(e))
      BY DEF ObjectOf, Value
    <3> QED
      BY <2>2, <2>3, <3>1, <3>2 DEF x
  <2>4. CASE kind = 7
    <3>1. PsonOf(b, ReadPsonTag(b, p), Items(b)[left]) = ArrayOf(Items(b)[left][7][at][n])
      BY <1>0, <2>1, <2>4, TagDecides
    <3>2. ArrayOf(Value(xs, p + Len(e))) = Value(Array(xs), p + Len(e))
      BY DEF ArrayOf, Value
    <3> QED
      BY <2>2, <2>4, <3>1, <3>2 DEF x
  <2> QED
    BY <2>3, <2>4
<1>6. IsValue(b, e, x)
  BY <1>3, <1>5 DEF IsValue
<1> QED
  BY <1>6 DEF e, t, s, x

\* What arrays and maps hold.
LEMMA ElementIsItem ==
    ASSUME NEW b \in Seq(Byte), NEW e, NEW x, IsValue(b, e, x)
    PROVE  IsItem(b, 7, e, x)
<1>1. \A p, items : ItemOf(b, 7, p, items) = PsonOf(b, ReadPsonTag(b, p), items)
  BY DEF ItemOf
<1> QED
  BY <1>1 DEF IsValue, IsItem

\* A key and a value that is read are an item of a map.
LEMMA PairIsItem ==
    ASSUME NEW b \in Seq(Byte), NEW key \in Text, NEW e, NEW x, IsValue(b, e, x)
    PROVE  IsItem(b, 6, PsonString(key) \o e, Pair(key, x)) /\ PsonString(key) \o e \in Seq(Byte)
<1> DEFINE s == PsonString(key)
           both == s \o e
<1>1. s \in Seq(Byte) /\ Len(s) \in Nat \ {0} /\ e \in Seq(Byte) /\ Len(e) \in Nat /\ Len(e) # 0
  BY StringBytes, LenProperties DEF IsValue
<1>2. both \in Seq(Byte) /\ Len(both) = Len(s) + Len(e)
  <2> HIDE DEF s
  <2> QED
    BY <1>1, Joined
<1>3. ASSUME NEW left \in Nat, NEW p \in Nat \ {0}, Lies(b, p, both), Len(both) <= left + 1
      PROVE  ItemOf(b, 6, p, Items(b)[left]) = Value(Pair(key, x), p + Len(both))
  <2> DEFINE q == p + Len(s)
  <2>1. /\ Lies(b, p, s) /\ Lies(b, q, e) /\ q \in Nat \ {0} /\ q + Len(e) = p + Len(both)
    <3> HIDE DEF s
    <3> QED
      BY <1>1, <1>3, PartsLie
  <2>2. \A items : PsonOf(b, ReadPsonTag(b, p), items) = Value(String(key), q)
    BY <2>1, StringIsRead
  <2>3. KeyOf(b, ReadPsonTag(b, p)) = Value(String(key), q)
    <3>1. \E n, at : ReadPsonTag(b, p) = [ok |-> TRUE, type |-> 4, value |-> n, at |-> at]
      <4>1. key \in Seq(Byte) /\ Len(key) \in 0 .. Uint64 - 1 /\ 4 \in 0 .. 7
        BY LenProperties, WidthsAssumption, ValuesAssumption DEF Text
      <4>2. Lies(b, p, PsonTag(4, Len(key)) \o key)
        BY <2>1 DEF PsonString
      <4>3. ReadPsonTag(b, p) = [ok |-> TRUE, type |-> 4, value |-> Len(key),
                                 at |-> p + Len(PsonTag(4, Len(key)))]
        BY <4>1, <4>2, TaggedIsRead
      <4> QED
        BY <4>3
    <3>2. ReadPsonTag(b, p).ok /\ ReadPsonTag(b, p).type = 4
      BY <3>1
    <3> QED
      BY <2>2, <3>2, Zenon DEF KeyOf
  <2>4. PsonOf(b, ReadPsonTag(b, q), Items(b)[left]) = Value(x, q + Len(e))
    <3>1. Len(e) <= left + 1
      BY <1>1, <1>2, <1>3
    <3> HIDE DEF s, q
    <3> QED
      BY <2>1, <3>1 DEF IsValue
  <2> HIDE DEF q
  <2>5. ItemOf(b, 6, p, Items(b)[left]) = PairOf(b, Value(String(key), q), Items(b)[left])
    BY <2>3 DEF ItemOf
  <2>6. PairOf(b, Value(String(key), q), Items(b)[left]) = Value(Pair(key, x), q + Len(e))
    <3>1. /\ Value(String(key), q).ok /\ Value(String(key), q).at = q
          /\ Value(String(key), q).value.v = key
      BY DEF Value, String
    <3>2. PairOf(b, Value(String(key), q), Items(b)[left])
            = WithKey(Value(String(key), q), Value(x, q + Len(e)))
      BY <2>4, <3>1, Zenon DEF PairOf
    <3>3. Value(x, q + Len(e)).ok /\ Value(x, q + Len(e)).value = x /\ Value(x, q + Len(e)).at = q + Len(e)
      BY DEF Value
    <3> QED
      BY <3>1, <3>2, <3>3, Zenon DEF WithKey
  <2> QED
    BY <2>1, <2>5, <2>6
<1> HIDE DEF both
<1>4. Len(both) # 0
  BY <1>1, <1>2
<1>5. IsItem(b, 6, both, Pair(key, x))
  BY <1>3, <1>4 DEF IsItem
<1> QED
  BY <1>2, <1>5 DEF both

\* The bytes and what they are read as, of the values of V.
AreValues(b, V, bytes, normals) == \A u \in V : IsValue(b, bytes[u], normals[u])

\* A container of values that are read is read.
LEMMA ArrayIsRead ==
    ASSUME NEW b \in Seq(Byte), NEW V, NEW bytes, NEW normals, AreValues(b, V, bytes, normals),
           NEW vs \in Lists(V), NEW value, value = [t |-> "array", v |-> vs]
    PROVE  IsValue(b, PsonBy(value, bytes), NormalBy(value, normals))
<1> DEFINE n == Len(vs)
           es == [i \in DOMAIN vs |-> bytes[vs[i]]]
           xs == [i \in DOMAIN vs |-> normals[vs[i]]]
           T == {normals[u] : u \in V}
<1>1. n \in 0 .. Uint64 - 1 /\ DOMAIN vs = 1 .. n /\ \A i \in 1 .. n : vs[i] \in V
  <2>1. vs \in Seq(V) /\ Len(vs) < Uint64
    BY DEF Lists
  <2> QED
    BY <2>1, WidthsAssumption, ValuesAssumption, LenProperties, ElementOfSeq
<1>2. \A i \in 1 .. n : IsValue(b, bytes[vs[i]], normals[vs[i]])
  BY <1>1 DEF AreValues
<1>3. es \in Seq(Seq(Byte)) /\ Len(es) = n /\ \A i \in 1 .. n : es[i] = bytes[vs[i]]
  <2>1. \A i \in 1 .. n : bytes[vs[i]] \in Seq(Byte)
    BY <1>2 DEF IsValue
  <2>2. n \in Nat
    BY <1>1, WidthsAssumption, ValuesAssumption
  <2> HIDE DEF n
  <2> QED
    BY <1>1, <2>1, <2>2
<1>4. xs \in Seq(T) /\ Len(xs) = n /\ \A i \in 1 .. n : xs[i] = normals[vs[i]]
  <2>1. \A i \in 1 .. n : normals[vs[i]] \in T
    BY <1>1
  <2>2. n \in Nat
    BY <1>1, WidthsAssumption, ValuesAssumption
  <2> HIDE DEF n, T
  <2> QED
    BY <1>1, <2>1, <2>2
<1>5. /\ PsonBy(value, bytes) = PsonTag(7, n) \o FlattenSeq(es)
      /\ NormalBy(value, normals) = Array(xs)
  <2>1. value.t = "array" /\ value.v = vs
    OBVIOUS
  <2>2. PsonBy(value, bytes)
          = PsonTag(7, Len(value.v)) \o FlattenSeq([i \in DOMAIN value.v |-> bytes[value.v[i]]])
    BY <2>1 DEF PsonBy
  <2>3. NormalBy(value, normals) = Array([i \in DOMAIN value.v |-> normals[value.v[i]]])
    BY <2>1 DEF NormalBy
  <2> QED
    BY <2>1, <2>2, <2>3, Zenon
<1> HIDE DEF n, es, xs, T
<1>6. AreItems(b, 7, n, es, xs)
  <2>1. \A i \in 1 .. n : IsItem(b, 7, es[i], xs[i])
    BY <1>2, <1>3, <1>4, ElementIsItem
  <2> QED
    BY <1>3, <1>4, <2>1 DEF AreItems
<1>7. IsValue(b, PsonTag(7, n) \o FlattenSeq(es), Array(xs))
  BY <1>1, <1>3, <1>4, <1>6, ContainerIsRead
<1> QED
  BY <1>5, <1>7

LEMMA ObjectIsRead ==
    ASSUME NEW b \in Seq(Byte), NEW V, NEW bytes, NEW normals, AreValues(b, V, bytes, normals),
           NEW ps \in Lists([key : Text, value : V]), NEW value, value = [t |-> "object", v |-> ps]
    PROVE  IsValue(b, PsonBy(value, bytes), NormalBy(value, normals))
<1> DEFINE n == Len(ps)
           es == [i \in DOMAIN ps |-> PsonString(ps[i].key) \o bytes[ps[i].value]]
           xs == [i \in DOMAIN ps |-> Pair(ps[i].key, normals[ps[i].value])]
           T == {Pair(k, normals[u]) : k \in Text, u \in V}
<1>1. /\ n \in 0 .. Uint64 - 1 /\ DOMAIN ps = 1 .. n
      /\ \A i \in 1 .. n : ps[i].key \in Text /\ ps[i].value \in V
  <2>1. ps \in Seq([key : Text, value : V]) /\ Len(ps) < Uint64
    BY DEF Lists
  <2>2. \A i \in 1 .. n : ps[i] \in [key : Text, value : V]
    BY <2>1, ElementOfSeq
  <2>3. n \in Nat /\ DOMAIN ps = 1 .. n
    BY <2>1, LenProperties
  <2> QED
    BY <2>1, <2>2, <2>3, WidthsAssumption, ValuesAssumption
<1>2. \A i \in 1 .. n : /\ PsonString(ps[i].key) \o bytes[ps[i].value] \in Seq(Byte)
                        /\ IsItem(b, 6, PsonString(ps[i].key) \o bytes[ps[i].value],
                                  Pair(ps[i].key, normals[ps[i].value]))
  <2> TAKE i \in 1 .. n
  <2>1. IsValue(b, bytes[ps[i].value], normals[ps[i].value]) /\ ps[i].key \in Text
    BY <1>1 DEF AreValues
  <2> QED
    BY <2>1, PairIsItem
<1>len. n \in Nat
  BY <1>1, WidthsAssumption, ValuesAssumption
<1>3. /\ es \in Seq(Seq(Byte)) /\ Len(es) = n
      /\ \A i \in 1 .. n : es[i] = PsonString(ps[i].key) \o bytes[ps[i].value]
  <2> DEFINE f(i) == PsonString(ps[i].key) \o bytes[ps[i].value]
  <2>1. \A i \in 1 .. n : f(i) \in Seq(Byte)
    BY <1>2
  <2>2. es = [i \in 1 .. n |-> f(i)]
    BY <1>1
  <2> HIDE DEF n, f, es
  <2>3. es \in Seq(Seq(Byte)) /\ Len(es) = n /\ \A i \in 1 .. n : es[i] = f(i)
    BY <1>len, <2>1, <2>2
  <2> QED
    BY <2>3 DEF f
<1>4. /\ xs \in Seq(T) /\ Len(xs) = n
      /\ \A i \in 1 .. n : xs[i] = Pair(ps[i].key, normals[ps[i].value])
  <2> DEFINE f(i) == Pair(ps[i].key, normals[ps[i].value])
  <2>1. \A i \in 1 .. n : f(i) \in T
    BY <1>1
  <2>2. xs = [i \in 1 .. n |-> f(i)]
    BY <1>1
  <2> HIDE DEF n, T, f, xs
  <2>3. xs \in Seq(T) /\ Len(xs) = n /\ \A i \in 1 .. n : xs[i] = f(i)
    BY <1>len, <2>1, <2>2
  <2> QED
    BY <2>3 DEF f
<1>5. /\ PsonBy(value, bytes) = PsonTag(6, n) \o FlattenSeq(es)
      /\ NormalBy(value, normals) = Filled(xs)
  <2>1. value.t = "object" /\ value.v = ps
    OBVIOUS
  <2>2. PsonBy(value, bytes)
          = PsonTag(6, Len(value.v)) \o
              FlattenSeq([i \in DOMAIN value.v |->
                            PsonString(value.v[i].key) \o bytes[value.v[i].value]])
    BY <2>1 DEF PsonBy
  <2>3. NormalBy(value, normals)
          = Filled([i \in DOMAIN value.v |-> Pair(value.v[i].key, normals[value.v[i].value])])
    BY <2>1 DEF NormalBy
  <2> QED
    BY <2>1, <2>2, <2>3, Zenon
<1> HIDE DEF n, es, xs, T
<1>6. AreItems(b, 6, n, es, xs)
  BY <1>2, <1>3, <1>4 DEF AreItems
<1>7. IsValue(b, PsonTag(6, n) \o FlattenSeq(es), Filled(xs))
  BY <1>1, <1>3, <1>4, <1>6, ContainerIsRead
<1> QED
  BY <1>5, <1>7

(***************************************************************************)
(* A value is read as what a reader can tell of it, wherever it lies,      *)
(* however deep it is nested and whatever is behind it.                    *)
(***************************************************************************)
THEOREM ValueIsRead ==
    ASSUME NEW b \in Seq(Byte)
    PROVE  \A d \in Nat : AreValues(b, Values[d], Encoded[d], Normals[d])
<1> DEFINE S == {d \in Nat : AreValues(b, Values[d], Encoded[d], Normals[d])}
<1>1. \A d \in Nat : \A value \in Values[d] :
        /\ Encoded[d][value] = PsonBy(value, Prior(Encoded, d))
        /\ Normals[d][value] = NormalBy(value, Prior(Normals, d))
  BY EncodedUnfolds, NormalsUnfold
<1>2. 0 \in S
  <2>1. Values[0] = Scalars
    BY ValuesUnfold
  <2>2. ASSUME NEW value \in Values[0] PROVE IsValue(b, Encoded[0][value], Normals[0][value])
    <3>1. IsValue(b, PsonBy(value, Prior(Encoded, 0)), NormalBy(value, Prior(Normals, 0)))
      BY <2>1, ScalarIsRead
    <3> QED
      BY <1>1, <3>1
  <2> QED
    BY <2>2 DEF AreValues
<1>3. ASSUME NEW d \in S PROVE d + 1 \in S
  <2> DEFINE V == Values[d]
             bytes == Encoded[d]
             normals == Normals[d]
  <2>1. d \in Nat /\ d + 1 \in Nat /\ AreValues(b, V, bytes, normals)
    OBVIOUS
  <2>2. /\ Values[d + 1] = Scalars \cup Containers(V)
        /\ Prior(Encoded, d + 1) = bytes /\ Prior(Normals, d + 1) = normals
    <3>1. d + 1 # 0 /\ (d + 1) - 1 = d
      BY <2>1
    <3>2. Values[d + 1] = Scalars \cup Containers(Values[(d + 1) - 1])
      BY <2>1, <3>1, ValuesUnfold
    <3> QED
      BY <3>1, <3>2 DEF Prior
  <2>3. ASSUME NEW value \in Values[d + 1]
        PROVE  IsValue(b, Encoded[d + 1][value], Normals[d + 1][value])
    <3>1. Encoded[d + 1][value] = PsonBy(value, bytes) /\ Normals[d + 1][value] = NormalBy(value, normals)
      BY <1>1, <2>1, <2>2
    <3> HIDE DEF V, bytes, normals, S
    <3>2. CASE value \in Scalars
      BY <3>1, <3>2, ScalarIsRead
    <3>3. CASE value \in [t : {"array"}, v : Lists(V)]
      <4>1. value.v \in Lists(V) /\ value = [t |-> "array", v |-> value.v]
        BY <3>3
      <4> QED
        BY <2>1, <3>1, <4>1, ArrayIsRead
    <3>4. CASE value \in [t : {"object"}, v : Lists([key : Text, value : V])]
      <4>1. value.v \in Lists([key : Text, value : V]) /\ value = [t |-> "object", v |-> value.v]
        BY <3>4
      <4> QED
        BY <2>1, <3>1, <4>1, ObjectIsRead
    <3> QED
      BY <2>2, <3>2, <3>3, <3>4 DEF Containers
  <2> HIDE DEF S
  <2>4. AreValues(b, Values[d + 1], Encoded[d + 1], Normals[d + 1])
    BY <2>3 DEF AreValues
  <2> QED
    BY <2>1, <2>4 DEF S
<1> HIDE DEF S
<1>4. \A d \in Nat : d \in S
  BY <1>2, <1>3, Induction, S \in SUBSET Nat DEF S
<1> QED
  BY <1>4 DEF S

-----------------------------------------------------------------------------
(* The fields of a message. *)

\* A value that a field carries to the reader.
Carries(value) ==
    /\ value \in Values[MaxNesting]
    /\ value.t \in {"unsigned", "integer"} => value.v \in 0 .. Uint32 - 1

\* No value that is sent is discarded, and whole numbers have nothing but a
\* type and a number.
LEMMA NumbersAndOthers ==
    ASSUME NEW d \in Nat, NEW value \in Values[d]
    PROVE  /\ value # Discarded
           /\ value.t \in {"unsigned", "integer"} => value = [t |-> value.t, v |-> value.v]
<1>1. value \in Scalars \/ \E S : value \in Containers(S)
  BY ValuesUnfold
<1>2. CASE value \in Scalars
  <2>1. CASE value = Null
    BY <2>1 DEF Null, Discarded
  <2>2. CASE value \in [t : {"boolean"}, v : BOOLEAN]
    BY <2>2 DEF Discarded
  <2>3. CASE value \in [t : {"unsigned"}, v : 0 .. Uint64 - 1]
    BY <2>3 DEF Discarded
  <2>4. CASE value \in [t : {"integer", "whole"}, v : Integer64]
    BY <2>4 DEF Discarded
  <2>5. CASE value \in [t : {"float"}, v : {s \in Seq(Byte) : Len(s) = 4}]
    BY <2>5 DEF Discarded
  <2>6. CASE value \in [t : {"double"}, v : {s \in Seq(Byte) : Len(s) = 8}]
    BY <2>6 DEF Discarded
  <2>7. CASE value \in [t : {"string", "binary"}, v : Text]
    BY <2>7 DEF Discarded
  <2> QED
    BY <1>2, <2>1, <2>2, <2>3, <2>4, <2>5, <2>6, <2>7 DEF Scalars
<1>3. CASE \E S : value \in Containers(S)
  <2>1. PICK S : value \in Containers(S)
    BY <1>3
  <2>2. CASE value \in [t : {"array"}, v : Lists(S)]
    BY <2>2 DEF Discarded
  <2>3. CASE value \in [t : {"object"}, v : Lists([key : Text, value : S])]
    BY <2>3 DEF Discarded
  <2> QED
    BY <2>1, <2>2, <2>3 DEF Containers
<1> QED
  BY <1>1, <1>2, <1>3

\* A number below 128 is a varint of one byte.
LEMMA SmallVarint == \A n \in 0 .. 127 : Varint[n] = <<n>> /\ <<n>> \in Seq(Byte) /\ Len(<<n>>) = 1
<1> TAKE n \in 0 .. 127
<1>1. n \in Nat /\ n < 128 /\ n \in Byte
  BY DEF Byte
<1>2. Varint[n] = <<n>>
  BY <1>1, VarintUnfolds, Zenon DEF Grow
<1> QED
  BY <1>1, <1>2

\* What is behind the tag of a field.
Inside(value) ==
    IF value.t \in {"unsigned", "integer"} THEN Varint[value.v] ELSE Encoded[MaxNesting][value]

TagOfField(f, value) == IF value.t \in {"unsigned", "integer"} THEN f * 8 ELSE f * 8 + 2

\* The bytes of a field are a tag of one byte and its content.
LEMMA FieldBytes ==
    ASSUME NEW f \in 0 .. 7, NEW value, Carries(value)
    PROVE  /\ EncodeField(f, value) = <<TagOfField(f, value)>> \o Inside(value)
           /\ TagOfField(f, value) \in 0 .. 127
           /\ Inside(value) \in Seq(Byte) /\ Len(Inside(value)) \in Nat \ {0}
           /\ EncodeField(f, value) \in Seq(Byte)
           /\ Len(EncodeField(f, value)) = 1 + Len(Inside(value))
<1>1. CASE value.t \in {"unsigned", "integer"}
  <2>1. value.v \in Nat /\ value.v % Uint64 = value.v
    BY <1>1, WidthsAssumption, ValuesAssumption, IntegersAssumption DEF Carries
  <2>2. EncodeField(f, value) = <<f * 8>> \o Varint[value.v]
    BY <1>1, <2>1, Zenon DEF EncodeField
  <2>3. Inside(value) \in Seq(Byte) /\ Len(Inside(value)) \in Nat \ {0}
    BY <1>1, <2>1, VarintType DEF Inside
  <2>4. TagOfField(f, value) \in 0 .. 127
    BY DEF TagOfField
  <2>5. EncodeField(f, value) = <<TagOfField(f, value)>> \o Inside(value)
    BY <1>1, <2>2, Zenon DEF TagOfField, Inside
  <2> DEFINE s == <<TagOfField(f, value)>>
             t == Inside(value)
  <2>6. s \in Seq(Byte) /\ Len(s) = 1 /\ t \in Seq(Byte)
    BY <2>3, <2>4, SmallVarint
  <2> HIDE DEF s, t
  <2>7. s \o t \in Seq(Byte) /\ Len(s \o t) = Len(s) + Len(t)
    BY <2>6, Joined
  <2> QED
    BY <2>3, <2>4, <2>5, <2>6, <2>7 DEF s, t
<1>2. CASE value.t \notin {"unsigned", "integer"}
  <2>1. value # Discarded /\ value \in Values[MaxNesting] /\ MaxNesting \in Nat
    BY NumbersAndOthers, WidthsAssumption, ValuesAssumption DEF Carries
  <2>2. EncodeField(f, value) = <<f * 8 + 2>> \o Encoded[MaxNesting][value]
    BY <1>2, <2>1, Zenon DEF EncodeField, Pson
  <2>3. Inside(value) \in Seq(Byte) /\ Len(Inside(value)) \in Nat \ {0}
    <3>1. \E b : b \in Seq(Byte)
      <4>1. <<>> \in Seq(Byte)
        OBVIOUS
      <4> QED
        BY <4>1
    <3>2. PICK b : b \in Seq(Byte)
      BY <3>1
    <3>3. IsValue(b, Encoded[MaxNesting][value], Normals[MaxNesting][value])
      BY <2>1, <3>2, ValueIsRead DEF AreValues
    <3>4. Inside(value) = Encoded[MaxNesting][value]
      BY <1>2 DEF Inside
    <3>5. Inside(value) \in Seq(Byte) /\ Len(Inside(value)) # 0
      BY <3>3, <3>4 DEF IsValue
    <3> QED
      BY <3>5, LenProperties
  <2>4. TagOfField(f, value) \in 0 .. 127
    BY DEF TagOfField
  <2>5. EncodeField(f, value) = <<TagOfField(f, value)>> \o Inside(value)
    BY <1>2, <2>2, Zenon DEF TagOfField, Inside
  <2> DEFINE s == <<TagOfField(f, value)>>
             t == Inside(value)
  <2>6. s \in Seq(Byte) /\ Len(s) = 1 /\ t \in Seq(Byte)
    BY <2>3, <2>4, SmallVarint
  <2> HIDE DEF s, t
  <2>7. s \o t \in Seq(Byte) /\ Len(s \o t) = Len(s) + Len(t)
    BY <2>6, Joined
  <2> QED
    BY <2>3, <2>4, <2>5, <2>6, <2>7 DEF s, t
<1> QED
  BY <1>1, <1>2

\* The content of a field that lies in b is read behind its tag.
LEMMA ContentIsRead ==
    ASSUME NEW b \in Seq(Byte), NEW f \in 0 .. 7, NEW value, Carries(value),
           NEW q \in Nat \ {0}, Lies(b, q, Inside(value))
    PROVE  ContentOf(b, Value(TagOfField(f, value), q))
             = Value(Normal(value), q + Len(Inside(value)))
<1> DEFINE tag == Value(TagOfField(f, value), q)
<1>1. tag.ok /\ tag.at = q /\ tag.value = TagOfField(f, value)
  BY DEF Value
<1>2. MaxNesting \in Nat /\ value \in Values[MaxNesting]
  BY WidthsAssumption, ValuesAssumption DEF Carries
<1>3. Normal(value) = NormalBy(value, Prior(Normals, MaxNesting))
  BY <1>2, NormalsUnfold DEF Normal
<1> HIDE DEF tag
<1>4. CASE value.t \in {"unsigned", "integer"}
  <2>1. value.v \in 0 .. Uint32 - 1 /\ value = [t |-> value.t, v |-> value.v]
    BY <1>2, <1>4, NumbersAndOthers DEF Carries
  <2>2. Normal(value) = Unsigned(value.v)
    <3>1. CASE value.t = "unsigned"
      <4>1. NormalBy(value, Prior(Normals, MaxNesting)) = value
        BY <3>1 DEF NormalBy
      <4> QED
        BY <1>3, <2>1, <3>1, <4>1 DEF Unsigned
    <3>2. CASE value.t = "integer"
      <4>1. NormalBy(value, Prior(Normals, MaxNesting))
              = IF value.v < 0 THEN Signed(value.v) ELSE Unsigned(value.v)
        BY <3>2 DEF NormalBy
      <4>2. ~ (value.v < 0)
        BY <2>1, IntegersAssumption
      <4> QED
        BY <1>3, <4>1, <4>2
    <3> QED
      BY <1>4, <3>1, <3>2
  <2>3. tag.value % 8 = 0
    BY <1>1, <1>4 DEF TagOfField
  <2>4. Inside(value) = Varint[value.v]
    BY <1>4 DEF Inside
  <2>5. ReadVarint(b, q, Uint32) = Value(value.v, q + Len(Inside(value)))
    <3>1. Uint32 \in Nat /\ 1 < Uint32
      BY WidthsAssumption, ValuesAssumption, IntegersAssumption
    <3> QED
      BY <2>1, <2>4, <3>1, LyingVarintIsRead
  <2>6. ContentOf(b, tag) = NumberOf(ReadVarint(b, q, Uint32))
    BY <1>1, <2>3 DEF ContentOf
  <2>7. NumberOf(Value(value.v, q + Len(Inside(value))))
          = Value(Unsigned(value.v), q + Len(Inside(value)))
    BY DEF NumberOf, Value
  <2> QED
    BY <2>2, <2>5, <2>6, <2>7 DEF tag
<1>5. CASE value.t \notin {"unsigned", "integer"}
  <2>1. tag.value % 8 = 2
    BY <1>1, <1>5 DEF TagOfField
  <2>2. Inside(value) = Encoded[MaxNesting][value]
    BY <1>5 DEF Inside
  <2>3. IsValue(b, Inside(value), Normal(value))
    BY <1>2, <2>2, ValueIsRead DEF AreValues, Normal
  <2>4. Len(Inside(value)) <= Len(b) + 1 /\ Len(b) \in Nat
    BY <2>3, LenProperties DEF Lies, IsValue
  <2>5. ReadPson(b, q) = Value(Normal(value), q + Len(Inside(value)))
    BY <2>3, <2>4 DEF IsValue, ReadPson
  <2>6. ContentOf(b, tag) = ReadPson(b, q)
    BY <1>1, <2>1 DEF ContentOf
  <2> QED
    BY <2>5, <2>6 DEF tag
<1> QED
  BY <1>4, <1>5

\* The numbers of fields.
FieldRange == 0 .. 7

\* A field that lies in b is read and set.
LEMMA FieldIsRead ==
    ASSUME NEW b \in Seq(Byte), NEW p \in Nat \ {0}, NEW f \in FieldRange, NEW value, Carries(value),
           Lies(b, p, EncodeField(f, value)), NEW fields
    PROVE  FieldAt(b, ReadVarint(b, p, Uint32), fields)
             = Value(Assign(fields, f, Normal(value)), p + Len(EncodeField(f, value)))
<1> DEFINE k == TagOfField(f, value)
           s == <<k>>
           t == Inside(value)
<1>f. f \in 0 .. 7
  BY DEF FieldRange
<1>1. /\ EncodeField(f, value) = s \o t /\ k \in 0 .. 127 /\ t \in Seq(Byte)
      /\ Len(EncodeField(f, value)) = 1 + Len(t) /\ Len(t) \in Nat
  BY <1>f, FieldBytes
<1>2. s = Varint[k] /\ s \in Seq(Byte) /\ Len(s) = 1
  BY <1>1, SmallVarint
<1>k. k \div 8 = f /\ k \in 0 .. Uint32 - 1
  BY <1>f, <1>1, WidthsAssumption, ValuesAssumption, IntegersAssumption DEF TagOfField
<1> HIDE DEF k, s, t
<1>3. Lies(b, p, s) /\ Lies(b, p + 1, t) /\ p + 1 \in Nat \ {0}
  <2>1. Lies(b, p, s) /\ Lies(b, p + Len(s), t)
    BY <1>1, <1>2, PartsLie
  <2> QED
    BY <1>2, <2>1
<1>4. ReadVarint(b, p, Uint32) = Value(k, p + 1)
  <2>1. Uint32 \in Nat /\ 1 < Uint32
    BY WidthsAssumption, ValuesAssumption, IntegersAssumption
  <2>2. ReadVarint(b, p, Uint32) = Value(k, p + Len(Varint[k]))
    BY <1>2, <1>3, <1>k, <2>1, LyingVarintIsRead
  <2> QED
    BY <1>2, <2>2
<1>5. ContentOf(b, Value(k, p + 1)) = Value(Normal(value), (p + 1) + Len(t))
  BY <1>f, <1>3, ContentIsRead DEF k, t
<1>6. (p + 1) + Len(t) = p + Len(EncodeField(f, value))
  BY <1>1
<1> DEFINE at == p + Len(EncodeField(f, value))
           tag == Value(k, p + 1)
<1>7. FieldAt(b, tag, fields) = WithField(fields, tag, Value(Normal(value), at))
  BY <1>5, <1>6 DEF FieldAt
<1>8. /\ Value(Normal(value), at).ok /\ Value(Normal(value), at).value = Normal(value)
      /\ Value(Normal(value), at).at = at /\ tag.value = k
  BY DEF Value
<1> HIDE DEF at, tag
<1>9. WithField(fields, tag, Value(Normal(value), at)) = Value(Assign(fields, f, Normal(value)), at)
  BY <1>8, <1>k, Zenon DEF WithField
<1> QED
  BY <1>4, <1>7, <1>9 DEF at, tag

-----------------------------------------------------------------------------
(* Bodies. *)

\* Nothing more is read when it is over.
LEMMA OverStays ==
    ASSUME NEW b, NEW n \in Nat, Over(b, Fields(b)[n])
    PROVE  \A k \in Nat : Fields(b)[n + k] = Fields(b)[n]
<1> DEFINE S == {k \in Nat : Fields(b)[n + k] = Fields(b)[n]}
<1>1. 0 \in S
  OBVIOUS
<1>2. ASSUME NEW k \in S PROVE k + 1 \in S
  <2>1. Fields(b)[(n + k) + 1] = NextField(b, Fields(b)[n + k])
    BY n + k \in Nat, FieldsUnfold
  <2>2. Fields(b)[n + k] = Fields(b)[n]
    OBVIOUS
  <2>3. NextField(b, Fields(b)[n]) = Fields(b)[n]
    BY DEF NextField
  <2>4. (n + k) + 1 = n + (k + 1) /\ k + 1 \in Nat
    OBVIOUS
  <2>5. Fields(b)[n + (k + 1)] = Fields(b)[n]
    BY <2>1, <2>2, <2>3, <2>4
  <2> QED
    BY <2>4, <2>5
<1> HIDE DEF S
<1>3. \A k \in Nat : k \in S
  BY <1>1, <1>2, Induction, S \in SUBSET Nat DEF S
<1> QED
  BY <1>3 DEF S

\* So it does not matter which end is taken.
LEMMA EndsAgree ==
    ASSUME NEW b, NEW n \in Nat, NEW k \in Nat, Over(b, Fields(b)[n]), Over(b, Fields(b)[k])
    PROVE  Fields(b)[n] = Fields(b)[k]
<1>1. CASE n <= k
  <2>1. k - n \in Nat /\ n + (k - n) = k
    BY <1>1
  <2>2. Fields(b)[n + (k - n)] = Fields(b)[n]
    BY <2>1, OverStays
  <2> QED
    BY <2>1, <2>2
<1>2. CASE k <= n
  <2>1. n - k \in Nat /\ k + (n - k) = n
    BY <1>2
  <2>2. Fields(b)[k + (n - k)] = Fields(b)[k]
    BY <2>1, OverStays
  <2> QED
    BY <2>1, <2>2
<1> QED
  BY <1>1, <1>2

\* Field f of m as it is written, and the first i of them.
Entry(m, f) == IF f \in DOMAIN m.fields THEN EncodeField(f, m.fields[f]) ELSE <<>>

FirstEntries(m, i) == FlattenSeq([j \in 1 .. i |-> Entry(m, j - 1)])

\* A field that is written is bytes, at least one.
LEMMA EntryBytes ==
    ASSUME NEW m, Portable(m), NEW f \in 0 .. 7
    PROVE  /\ Entry(m, f) \in Seq(Byte)
           /\ f \in DOMAIN m.fields => Carries(m.fields[f]) /\ Len(Entry(m, f)) \in Nat \ {0}
<1>1. CASE f \in DOMAIN m.fields
  <2>1. Carries(m.fields[f])
    BY <1>1 DEF Portable, Carries
  <2>2. /\ EncodeField(f, m.fields[f]) \in Seq(Byte)
        /\ Len(EncodeField(f, m.fields[f])) = 1 + Len(Inside(m.fields[f]))
        /\ Len(Inside(m.fields[f])) \in Nat
    BY <2>1, FieldBytes
  <2>3. Entry(m, f) = EncodeField(f, m.fields[f])
    BY <1>1 DEF Entry
  <2>4. Len(Entry(m, f)) \in Nat \ {0}
    BY <2>2, <2>3
  <2> QED
    BY <2>1, <2>2, <2>3, <2>4
<1>2. CASE f \notin DOMAIN m.fields
  <2>1. Entry(m, f) = <<>>
    BY <1>2 DEF Entry
  <2>2. <<>> \in Seq(Byte)
    OBVIOUS
  <2> QED
    BY <1>2, <2>1, <2>2
<1> QED
  BY <1>1, <1>2

\* The first fields are bytes, each behind those before it.
LEMMA EntriesGrow ==
    ASSUME NEW m, Portable(m)
    PROVE  /\ FirstEntries(m, 0) = <<>>
           /\ \A i \in 0 .. 8 : FirstEntries(m, i) \in Seq(Byte)
           /\ \A i \in 0 .. 7 : FirstEntries(m, i + 1) = FirstEntries(m, i) \o Entry(m, i)
           /\ FirstEntries(m, 8) = EncodeBody(m)
<1> DEFINE s(i) == [j \in 1 .. i |-> Entry(m, j - 1)]
<1>1. \A j \in 1 .. 8 : Entry(m, j - 1) \in Seq(Byte)
  <2> TAKE j \in 1 .. 8
  <2>1. j - 1 \in 0 .. 7
    OBVIOUS
  <2> QED
    BY <2>1, EntryBytes
<1>2. ASSUME NEW i \in 0 .. 8
      PROVE  s(i) \in Seq(Seq(Byte)) /\ Len(s(i)) = i /\ \A j \in 1 .. i : s(i)[j] = Entry(m, j - 1)
  <2> DEFINE g(j) == Entry(m, j - 1)
  <2>1. i \in Nat /\ \A j \in 1 .. i : g(j) \in Seq(Byte)
    <3>1. i \in Nat /\ \A j \in 1 .. i : j \in 1 .. 8
      OBVIOUS
    <3> QED
      BY <1>1, <3>1, Zenon
  <2>2. s(i) = [j \in 1 .. i |-> g(j)]
    OBVIOUS
  <2> HIDE DEF s, g
  <2>3. s(i) \in Seq(Seq(Byte)) /\ Len(s(i)) = i /\ \A j \in 1 .. i : s(i)[j] = g(j)
    BY <2>1, <2>2
  <2> QED
    BY <2>3 DEF g
<1>3. FirstEntries(m, 0) = <<>>
  <2>1. s(0) = <<>>
    BY <1>2, NoneIsEmpty
  <2> QED
    BY <2>1, FlattenEmpty DEF FirstEntries
<1>4. \A i \in 0 .. 8 : FirstEntries(m, i) \in Seq(Byte)
  <2> TAKE i \in 0 .. 8
  <2>1. s(i) \in Seq(Seq(Byte))
    BY <1>2
  <2> QED
    BY <2>1, FlattenType DEF FirstEntries
<1>5. ASSUME NEW i \in 0 .. 7 PROVE FirstEntries(m, i + 1) = FirstEntries(m, i) \o Entry(m, i)
  <2> DEFINE t == s(i)
             u == s(i + 1)
  <2>1. i \in 0 .. 8 /\ i + 1 \in 0 .. 8 /\ (i + 1) - 1 = i /\ i + 1 \in 1 .. i + 1
    OBVIOUS
  <2>2. /\ t \in Seq(Seq(Byte)) /\ Len(t) = i /\ \A j \in 1 .. i : t[j] = Entry(m, j - 1)
        /\ Len(u) = i + 1 /\ \A j \in 1 .. i + 1 : u[j] = Entry(m, j - 1)
    <3> HIDE DEF s
    <3> QED
      BY <1>2, <2>1, Zenon
  <2>3. FirstEntries(m, i) = FlattenSeq(t) /\ FirstEntries(m, i + 1) = FlattenSeq(u)
    BY DEF FirstEntries
  <2> HIDE DEF s, t, u
  <2>4. u[i + 1] = Entry(m, i) /\ \A j \in 1 .. Len(t) : u[j] = t[j]
    BY <2>1, <2>2
  <2>5. FlattenSeq(u) = IF Len(t) = 0 THEN u[1] ELSE FlattenSeq(t) \o u[Len(u)]
    <3>1. Len(t) \in Nat /\ Len(u) = Len(t) + 1
      BY <2>2
    <3> QED
      BY <2>4, <3>1, FlattenLast
  <2>6. CASE i = 0
    <3>1. FlattenSeq(t) = <<>>
      BY <2>2, <2>6, NoneIsEmpty, FlattenEmpty
    <3>2. <<>> \o Entry(m, i) = Entry(m, i)
      BY EntryBytes, ConcatEmptySeq
    <3>3. FlattenSeq(u) = Entry(m, i)
      BY <2>2, <2>4, <2>5, <2>6
    <3> QED
      BY <2>3, <3>1, <3>2, <3>3
  <2>7. CASE i # 0
    BY <2>2, <2>3, <2>4, <2>5, <2>7
  <2> QED
    BY <2>6, <2>7
<1>6. FirstEntries(m, 8) = EncodeBody(m)
  BY DEF FirstEntries, Entry, EncodeBody, MaxFields
<1> HIDE DEF s
<1> QED
  BY <1>3, <1>4, <1>5, <1>6

\* Each field lies in the body behind those before it.
LEMMA EntriesLie ==
    ASSUME NEW m, Portable(m)
    PROVE  /\ EncodeBody(m) \in Seq(Byte)
           /\ \A i \in 0 .. 7 :
                /\ Lies(EncodeBody(m), 1 + Len(FirstEntries(m, i)), Entry(m, i))
                /\ Len(FirstEntries(m, i + 1)) = Len(FirstEntries(m, i)) + Len(Entry(m, i))
<1> DEFINE b == EncodeBody(m)
           S == {j \in Nat : j <= 8 => Lies(b, 1, FirstEntries(m, 8 - j))}
<1>1. /\ b \in Seq(Byte) /\ FirstEntries(m, 8) = b
      /\ \A i \in 0 .. 8 : FirstEntries(m, i) \in Seq(Byte)
      /\ \A i \in 0 .. 7 : Entry(m, i) \in Seq(Byte)
      /\ \A i \in 0 .. 7 : FirstEntries(m, i + 1) = FirstEntries(m, i) \o Entry(m, i)
  <2>1. /\ \A i \in 0 .. 8 : FirstEntries(m, i) \in Seq(Byte)
        /\ \A i \in 0 .. 7 : FirstEntries(m, i + 1) = FirstEntries(m, i) \o Entry(m, i)
        /\ FirstEntries(m, 8) = b
    BY EntriesGrow, Zenon
  <2>2. \A i \in 0 .. 7 : Entry(m, i) \in Seq(Byte)
    BY EntryBytes, Zenon
  <2>3. b \in Seq(Byte)
    BY <2>1, 8 \in 0 .. 8
  <2> QED
    BY <2>1, <2>2, <2>3
<1> HIDE DEF b
<1>2. ASSUME NEW i \in 0 .. 7, Lies(b, 1, FirstEntries(m, i + 1))
      PROVE  /\ Lies(b, 1, FirstEntries(m, i)) /\ Lies(b, 1 + Len(FirstEntries(m, i)), Entry(m, i))
             /\ Len(FirstEntries(m, i + 1)) = Len(FirstEntries(m, i)) + Len(Entry(m, i))
  <2> DEFINE s == FirstEntries(m, i)
             t == Entry(m, i)
  <2>1. s \in Seq(Byte) /\ t \in Seq(Byte) /\ FirstEntries(m, i + 1) = s \o t
    BY <1>1, i \in 0 .. 8, Zenon
  <2> HIDE DEF s, t
  <2>2. Lies(b, 1, s \o t)
    BY <1>2, <2>1, Zenon
  <2>3. Len(s \o t) = Len(s) + Len(t) /\ Lies(b, 1, s) /\ Lies(b, 1 + Len(s), t)
    <3>1. b \in Seq(Byte) /\ s \in Seq(Byte) /\ t \in Seq(Byte)
      BY <1>1, <2>1
    <3>2. 1 \in Nat \ {0}
      OBVIOUS
    <3> QED
      BY <2>2, <3>1, <3>2, PartsLie
  <2> QED
    BY <2>1, <2>3 DEF s, t
<1>3. 0 \in S
  <2>1. Lies(b, 1, b)
    <3>1. Len(b) \in Nat
      BY <1>1, LenProperties
    <3>2. \A j \in 1 .. Len(b) : 1 + j - 1 = j
      BY <3>1
    <3>3. 1 + Len(b) - 1 <= Len(b)
      BY <3>1
    <3>4. \A j \in 1 .. Len(b) : b[1 + j - 1] = b[j]
      BY <3>2, Zenon
    <3> QED
      BY <3>3, <3>4 DEF Lies, Begins
  <2> QED
    BY <1>1, <2>1, 8 - 0 = 8
<1>4. ASSUME NEW j \in S PROVE j + 1 \in S
  <2> SUFFICES ASSUME j + 1 <= 8 PROVE Lies(b, 1, FirstEntries(m, 8 - (j + 1)))
    OBVIOUS
  <2> DEFINE i == 8 - (j + 1)
  <2>1. i \in 0 .. 7 /\ i + 1 = 8 - j /\ Lies(b, 1, FirstEntries(m, 8 - j))
    OBVIOUS
  <2> HIDE DEF i
  <2>2. Lies(b, 1, FirstEntries(m, i + 1))
    BY <2>1
  <2>3. Lies(b, 1, FirstEntries(m, i))
    BY <1>2, <2>1, <2>2
  <2> QED
    BY <2>3 DEF i
<1> HIDE DEF S
<1>5. \A j \in Nat : j \in S
  BY <1>3, <1>4, Induction, S \in SUBSET Nat DEF S
<1>6. ASSUME NEW i \in 0 .. 7 PROVE Lies(b, 1, FirstEntries(m, i + 1))
  <2>1. 7 - i \in Nat /\ 7 - i <= 8 /\ 8 - (7 - i) = i + 1
    OBVIOUS
  <2>2. Lies(b, 1, FirstEntries(m, 8 - (7 - i)))
    BY <1>5, <2>1 DEF S
  <2> QED
    BY <2>1, <2>2
<1>7. \A i \in 0 .. 7 :
        /\ Lies(b, 1 + Len(FirstEntries(m, i)), Entry(m, i))
        /\ Len(FirstEntries(m, i + 1)) = Len(FirstEntries(m, i)) + Len(Entry(m, i))
  BY <1>2, <1>6
<1> QED
  BY <1>1, <1>7 DEF b

\* What the reader has of m when it has read its first i fields.
HasRead(m, i) == [f \in {g \in DOMAIN m.fields : g < i} |-> Normal(m.fields[f])]

\* Each field that is there adds itself, and in the end all are read.
LEMMA OneMoreIsRead ==
    ASSUME NEW m, Portable(m), NEW i \in 0 .. 7
    PROVE  HasRead(m, i + 1) =
             IF i \in DOMAIN m.fields THEN Assign(HasRead(m, i), i, Normal(m.fields[i]))
             ELSE HasRead(m, i)
<1>1. \A f \in DOMAIN m.fields : f \in Nat
  BY DEF Portable, MaxFields
<1>2. CASE i \in DOMAIN m.fields
  <2> DEFINE D == {g \in DOMAIN m.fields : g < i}
             N(f) == Normal(m.fields[f])
  <2>1. i % 256 = i /\ i < MaxFields
    BY DEF MaxFields
  <2>2. DOMAIN HasRead(m, i) = D
    BY DEF HasRead
  <2>3. Assign(HasRead(m, i), i, Normal(m.fields[i]))
          = [g \in D \cup {i} |-> IF g = i THEN Normal(m.fields[i]) ELSE HasRead(m, i)[g]]
    BY <2>1, <2>2 DEF Assign, MaxFields
  <2>4. {g \in DOMAIN m.fields : g < i + 1} = D \cup {i}
    BY <1>1, <1>2
  <2>5. \A g \in D : HasRead(m, i)[g] = N(g)
    BY DEF HasRead
  <2>6. HasRead(m, i + 1) = [g \in D \cup {i} |-> N(g)]
    BY <2>4 DEF HasRead
  <2> HIDE DEF D, N
  <2>7. [g \in D \cup {i} |-> IF g = i THEN N(i) ELSE HasRead(m, i)[g]] = [g \in D \cup {i} |-> N(g)]
    BY <2>5
  <2> QED
    BY <1>2, <2>3, <2>6, <2>7 DEF N
<1>3. CASE i \notin DOMAIN m.fields
  <2>1. {g \in DOMAIN m.fields : g < i + 1} = {g \in DOMAIN m.fields : g < i}
    BY <1>1, <1>3
  <2> QED
    BY <1>3, <2>1, Zenon DEF HasRead
<1> QED
  BY <1>2, <1>3

LEMMA AllIsRead ==
    ASSUME NEW m, Portable(m)
    PROVE  HasRead(m, 0) = <<>> /\ HasRead(m, 8) = NormalMessage(m).fields
<1>1. \A f \in DOMAIN m.fields : f \in 0 .. 7
  BY DEF Portable, MaxFields
<1>2. {g \in DOMAIN m.fields : g < 0} = {} /\ {g \in DOMAIN m.fields : g < 8} = DOMAIN m.fields
  BY <1>1
<1>3. HasRead(m, 0) = <<>>
  BY <1>2 DEF HasRead
<1>4. HasRead(m, 8) = [f \in DOMAIN m.fields |-> Normal(m.fields[f])]
  BY <1>2 DEF HasRead
<1> QED
  BY <1>3, <1>4 DEF NormalMessage

(***************************************************************************)
(* The body of a message is read as what a reader can tell of its fields.  *)
(***************************************************************************)
THEOREM BodyIsRead ==
    ASSUME NEW m, Portable(m)
    PROVE  /\ EncodeBody(m) \in Seq(Byte)
           /\ DecodeFields(EncodeBody(m)) = [ok |-> TRUE, fields |-> NormalMessage(m).fields]
<1> DEFINE b == EncodeBody(m)
           After(i) == Value(HasRead(m, i), 1 + Len(FirstEntries(m, i)))
           Is(i, k) == k <= Len(FirstEntries(m, i)) /\ Fields(b)[k] = After(i)
           S == {i \in Nat : i <= 8 => \E k \in Nat : Is(i, k)}
<1>1. b \in Seq(Byte) /\ FirstEntries(m, 8) = b /\ Len(b) \in Nat
  BY EntriesLie, EntriesGrow, LenProperties
<1>2. \A i \in 0 .. 8 : Len(FirstEntries(m, i)) \in Nat
  BY EntriesGrow, LenProperties
<1>3. 0 \in S
  <2>1. FirstEntries(m, 0) = <<>> /\ Len(<<>>) = 0
    BY EntriesGrow
  <2>2. After(0) = Value(<<>>, 1)
    BY <2>1, AllIsRead
  <2>3. Is(0, 0)
    BY <2>1, <2>2, FieldsUnfold
  <2> QED
    BY <2>3
<1>4. ASSUME NEW i \in S PROVE i + 1 \in S
  <2> SUFFICES ASSUME i + 1 <= 8 PROVE \E k \in Nat : Is(i + 1, k)
    OBVIOUS
  <2>1. i \in 0 .. 7 /\ i \in 0 .. 8 /\ i + 1 \in 0 .. 8
    OBVIOUS
  <2>2. PICK k \in Nat : Is(i, k)
    OBVIOUS
  <2> DEFINE at == 1 + Len(FirstEntries(m, i))
             e == Entry(m, i)
  <2>3. /\ Lies(b, at, e) /\ Len(FirstEntries(m, i + 1)) = Len(FirstEntries(m, i)) + Len(e)
        /\ e \in Seq(Byte) /\ Len(e) \in Nat
    BY <2>1, EntriesLie, EntryBytes, LenProperties
  <2>4. CASE i \in DOMAIN m.fields
    <3>1. Carries(m.fields[i]) /\ Len(e) # 0 /\ e = EncodeField(i, m.fields[i])
      BY <2>1, <2>4, EntryBytes DEF Entry
    <3> DEFINE N == Normal(m.fields[i])
    <3>2. at \in Nat \ {0} /\ ~ (at > Len(b))
      <4>1. Len(FirstEntries(m, i)) \in Nat /\ at + Len(e) - 1 <= Len(b)
        BY <1>2, <2>1, <2>3, Zenon DEF Lies
      <4> HIDE DEF b, e
      <4> QED
        BY <1>1, <2>3, <3>1, <4>1
    <3>3. /\ After(i).ok /\ After(i).at = at /\ After(i).value = HasRead(m, i)
      BY DEF Value
    <3>4. ~ Over(b, Fields(b)[k])
      BY <2>2, <3>2, <3>3 DEF Over
    <3>5. Fields(b)[k + 1] = FieldAt(b, ReadVarint(b, at, Uint32), HasRead(m, i))
      <4>1. Fields(b)[k + 1] = NextField(b, Fields(b)[k])
        BY FieldsUnfold
      <4>2. NextField(b, Fields(b)[k])
              = FieldAt(b, ReadVarint(b, Fields(b)[k].at, Uint32), Fields(b)[k].value)
        BY <3>4 DEF NextField
      <4> HIDE DEF After
      <4> QED
        BY <2>2, <3>3, <4>1, <4>2
    <3> HIDE DEF b, at, e
    <3>6. FieldAt(b, ReadVarint(b, at, Uint32), HasRead(m, i))
            = Value(Assign(HasRead(m, i), i, N), at + Len(e))
      <4>1. Lies(b, at, EncodeField(i, m.fields[i])) /\ Carries(m.fields[i])
        BY <2>3, <3>1, Zenon
      <4>2. FieldAt(b, ReadVarint(b, at, Uint32), HasRead(m, i))
              = Value(Assign(HasRead(m, i), i, N), at + Len(EncodeField(i, m.fields[i])))
        <5>1. i \in FieldRange
          BY <2>1 DEF FieldRange
        <5> QED
          BY <1>1, <3>2, <4>1, <5>1, FieldIsRead
      <4> QED
        BY <3>1, <4>2, Zenon
    <3>7. HasRead(m, i + 1) = Assign(HasRead(m, i), i, N)
      BY <2>1, <2>4, OneMoreIsRead
    <3>8. at + Len(e) = 1 + Len(FirstEntries(m, i + 1)) /\ k + 1 <= Len(FirstEntries(m, i + 1))
      <4> DEFINE l == Len(FirstEntries(m, i))
      <4>1. l \in Nat
        BY <1>2, <2>1, Zenon
      <4>2. Len(FirstEntries(m, i + 1)) = l + Len(e)
        BY <2>3, Zenon
      <4>3. at = 1 + l
        BY Zenon DEF at
      <4>4. k <= l
        BY <2>2, Zenon
      <4> HIDE DEF l
      <4> QED
        BY <2>3, <3>1, <4>1, <4>2, <4>3, <4>4
    <3>9. k + 1 \in Nat /\ Is(i + 1, k + 1)
      BY <3>5, <3>6, <3>7, <3>8
    <3> QED
      BY <3>9
  <2>5. CASE i \notin DOMAIN m.fields
    <3>1. e = <<>> /\ Len(<<>>) = 0
      BY <2>5 DEF Entry
    <3>2. Len(FirstEntries(m, i + 1)) = Len(FirstEntries(m, i))
      <4> DEFINE l == Len(FirstEntries(m, i))
      <4>1. l \in Nat /\ Len(FirstEntries(m, i + 1)) = l + Len(e) /\ Len(e) = 0
        BY <1>2, <2>1, <2>3, <3>1, Zenon
      <4> HIDE DEF l, e
      <4>2. Len(FirstEntries(m, i + 1)) = l
        BY <4>1
      <4> QED
        BY <4>2 DEF l
    <3>3. HasRead(m, i + 1) = HasRead(m, i)
      BY <2>1, <2>5, OneMoreIsRead
    <3> QED
      BY <2>2, <3>2, <3>3
  <2> QED
    BY <2>4, <2>5
<1> HIDE DEF S
<1>5. 8 \in S
  BY <1>3, <1>4, Induction, S \in SUBSET Nat DEF S
<1>6. PICK k \in Nat : Is(8, k)
  BY <1>5, 8 <= 8 DEF S
<1>7. /\ k \in 0 .. Len(b)
      /\ Fields(b)[k] = Value(NormalMessage(m).fields, 1 + Len(b))
  BY <1>1, <1>6, AllIsRead
<1> HIDE DEF b
<1>8. Over(b, Fields(b)[k])
  BY <1>1, <1>7 DEF Over, Value
<1> DEFINE n == CHOOSE n_1 \in 0 .. Len(b) : Over(b, Fields(b)[n_1])
<1>9. n \in 0 .. Len(b) /\ Over(b, Fields(b)[n])
  BY <1>7, <1>8
<1>10. DecodeFields(b) = FieldsOf(Fields(b)[n])
  BY DEF DecodeFields
<1> HIDE DEF n
<1>11. Fields(b)[n] = Fields(b)[k]
  BY <1>1, <1>8, <1>9, EndsAgree
<1>12. DecodeFields(b) = [ok |-> TRUE, fields |-> NormalMessage(m).fields]
  BY <1>7, <1>10, <1>11 DEF FieldsOf, Value
<1> QED
  BY <1>1, <1>12 DEF b

=============================================================================

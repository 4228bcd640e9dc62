------------------------------ MODULE FramedProofs ------------------------------
(***************************************************************************)
(* The framed transport, for any messages, any base and width of the       *)
(* length prefix, any limits and any way the bytes are cut.                *)
(***************************************************************************)
EXTENDS Framed, SequenceTheorems, WellFoundedInduction, TLAPS

Byte == 0..(Base - 1)
-----------------------------------------------------------------------------
(* Induction: the least number that has a property *)

\* A set of numbers that is not empty has a least one.
LEMMA LeastNumber ==
  ASSUME NEW D, D \subseteq Nat, D # {}
  PROVE  \E m \in D : \A k \in D : m <= k
<1> DEFINE Less == OpToRel(<, Nat)
<1>1. \A x, y \in Nat : x < y => <<x, y>> \in Less
  BY DEF OpToRel
<1>2. IsWellFoundedOn(Less, Nat)
  BY NatLessThanWellFounded
<1> HIDE DEF Less
<1>3. PICK m \in D : \A k \in D : ~(<<k, m>> \in Less)
  BY <1>2, WFMin
<1>4. \A k \in D : m <= k
  <2>1. \A k \in D : k \in Nat /\ m \in Nat
    OBVIOUS
  <2>2. \A k \in D : ~(k < m)
    BY <1>1, <1>3, <2>1
  <2>3. QED
    BY <2>1, <2>2
<1>5. QED
  BY <1>4

\* So what holds of 0 and carries over from n - 1 to n holds up to any bound.
LEMMA UpTo ==
  ASSUME NEW n \in Nat, NEW T, 0 \in T, \A i \in 1..n : i - 1 \in T => i \in T
  PROVE  \A i \in 0..n : i \in T
<1> SUFFICES ASSUME NEW j \in 0..n, j \notin T PROVE FALSE
  OBVIOUS
<1> DEFINE D == {i \in 0..n : i \notin T}
<1>1. D \subseteq Nat /\ D # {}
  OBVIOUS
<1> HIDE DEF D
<1>2. PICK m \in D : \A k \in D : m <= k
  BY <1>1, LeastNumber
<1>3. m \in 0..n /\ m \notin T /\ m # 0
  BY DEF D
<1>4. m - 1 \in 0..n /\ m \in 1..n
  BY <1>3
<1>5. m - 1 \notin D
  BY <1>2, <1>3
<1>6. m - 1 \in T
  BY <1>4, <1>5 DEF D
<1>7. QED
  BY <1>3, <1>4, <1>6

\* A value built step by step: step[i] makes the i-th of the one before it.
Steps(n, S, step) == \A i \in 1..n : step[i] \in [S -> S]
Built(g, n, S, a, step) ==
  g \in [0..n -> S] /\ g[0] = a /\ \A i \in 1..n : g[i] = step[i][g[i - 1]]

\* It exists.
LEMMA Iterated ==
  ASSUME NEW S, NEW a \in S, NEW n \in Nat, NEW step, Steps(n, S, step)
  PROVE  \E g : Built(g, n, S, a, step)
<1> USE DEF Steps, Built
<1> DEFINE Good(j, g) == g \in [0..j -> S] /\ g[0] = a /\ \A i \in 1..j : g[i] = step[i][g[i - 1]]
           T == {j \in 0..n : \E g : Good(j, g)}
<1>1. 0 \in T
  <2>1. PICK g : g = [i \in 0..0 |-> a]
    OBVIOUS
  <2>2. Good(0, g)
    BY <2>1
  <2>3. QED
    BY <2>2
<1>2. ASSUME NEW j \in 1..n, j - 1 \in T PROVE j \in T
  <2>1. PICK g : Good(j - 1, g)
    BY <1>2
  <2>2. PICK h : h = [i \in 0..j |-> IF i = j THEN step[j][g[j - 1]] ELSE g[i]]
    OBVIOUS
  <2>3. g[j - 1] \in S
    BY <2>1
  <2>4. h \in [0..j -> S]
    <3>1. \A i \in 0..j : i = j \/ i \in 0..(j - 1)
      OBVIOUS
    <3>2. QED
      BY <2>1, <2>2, <2>3, <3>1
  <2>5. h[0] = a
    BY <2>1, <2>2
  <2>6. \A i \in 1..j : h[i] = step[i][h[i - 1]]
    <3> TAKE i \in 1..j
    <3>1. h[i - 1] = g[i - 1]
      BY <2>2
    <3>2. i # j => i \in 1..(j - 1) /\ h[i] = g[i]
      BY <2>2
    <3>3. QED
      BY <2>1, <2>2, <3>1, <3>2
  <2>7. QED
    BY <2>4, <2>5, <2>6
<1> HIDE DEF T
<1>3. \A i \in 0..n : i \in T
  BY <1>1, <1>2, UpTo
<1>4. n \in T
  BY <1>3
<1>5. QED
  BY <1>4 DEF T
-----------------------------------------------------------------------------
(* Lengths and codes as bytes *)

\* What FramedAssumption says of the numbers.
LEMMA ConstantTypes ==
  /\ Base \in Nat /\ Base > 5 /\ PrefixBytes \in Nat /\ PrefixBytes > 0 /\ Chunk \in Nat /\ Chunk > 0
  /\ ReaderMax \in Nat /\ WriterMax \in Nat /\ WireCap \in Nat /\ MaxItems \in Nat
  BY FramedAssumption

\* Weight is the function its recursion describes: the powers of Base.
LEMMA WeightIs ==
  /\ Weight = [k \in 0..(PrefixBytes + 2) |-> IF k = 0 THEN 1 ELSE Base * Weight[k - 1]]
  /\ \A k \in 0..(PrefixBytes + 2) : Weight[k] \in Nat /\ Weight[k] > 0
<1>1. PICK n \in Nat : n = PrefixBytes + 2
  BY ConstantTypes
<1>2. PICK times : times = [i \in 1..n |-> [x \in Nat |-> Base * x]]
  OBVIOUS
<1>3. \A i \in 1..n : times[i] \in [Nat -> Nat]
  BY <1>2, ConstantTypes
<1>4. PICK g \in [0..n -> Nat] : g[0] = 1 /\ \A i \in 1..n : g[i] = times[i][g[i - 1]]
  <2>1. PICK S, a : S = Nat /\ a = 1
    OBVIOUS
  <2>2. a \in S /\ Steps(n, S, times)
    BY <1>3, <2>1 DEF Steps
  <2>3. \E g : Built(g, n, S, a, times)
    BY <2>2, Iterated
  <2>4. QED
    BY <2>1, <2>3 DEF Built
<1>5. \A i \in 1..n : g[i] = Base * g[i - 1]
  BY <1>2, <1>4
<1>6. g = [k \in 0..n |-> IF k = 0 THEN 1 ELSE Base * g[k - 1]]
  BY <1>4, <1>5
<1>7. Weight = [k \in 0..n |-> IF k = 0 THEN 1 ELSE Base * Weight[k - 1]]
  BY <1>1, <1>6 DEF Weight
<1>8. PICK w : w = Weight
  OBVIOUS
<1>9. \A k \in 0..n : w[k] = IF k = 0 THEN 1 ELSE Base * w[k - 1]
  BY <1>7, <1>8
<1> DEFINE T == {k \in 0..n : w[k] \in Nat /\ w[k] > 0}
<1>10. 0 \in T
  BY <1>9
<1>11. ASSUME NEW k \in 1..n, k - 1 \in T PROVE k \in T
  <2>1. PICK x \in Nat : x = w[k - 1] /\ x > 0
    BY <1>11
  <2>2. w[k] = Base * x
    BY <1>9, <2>1
  <2>3. Base * x \in Nat /\ Base * x > 0
    BY <2>1, ConstantTypes
  <2>4. QED
    BY <2>2, <2>3
<1> HIDE DEF T
<1>12. \A k \in 0..n : k \in T
  BY <1>10, <1>11, UpTo
<1>13. QED
  BY <1>1, <1>7, <1>8, <1>12 DEF T

\* The values of the prefixes of a byte string.
Values(s) == CHOOSE v : v = [i \in 0..Len(s) |-> IF i = 0 THEN 0 ELSE v[i - 1] * Base + s[i]]

\* FromBytes reads one digit after the other.
LEMMA FromBytesIs ==
  ASSUME NEW s \in Seq(Byte)
  PROVE  /\ FromBytes(s) = Values(s)[Len(s)]
         /\ Values(s)[0] = 0
         /\ \A i \in 1..Len(s) : Values(s)[i] = Values(s)[i - 1] * Base + s[i]
         /\ \A i \in 0..Len(s) : Values(s)[i] \in Nat
<1>1. PICK n \in Nat : n = Len(s)
  OBVIOUS
<1>2. PICK more : more = [i \in 1..n |-> [x \in Nat |-> x * Base + s[i]]]
  OBVIOUS
<1>3. \A i \in 1..n : s[i] \in Nat
  <2>1. \A i \in 1..n : s[i] \in Byte
    BY <1>1
  <2>2. QED
    BY <2>1, ConstantTypes DEF Byte
<1>4. \A i \in 1..n : more[i] \in [Nat -> Nat]
  <2> TAKE i \in 1..n
  <2>1. PICK y \in Nat : y = s[i]
    BY <1>3
  <2>2. more[i] = [x \in Nat |-> x * Base + y]
    BY <1>2, <2>1
  <2>3. \A x \in Nat : x * Base + y \in Nat
    <3> TAKE x \in Nat
    <3>1. x * Base \in Nat
      BY ConstantTypes
    <3>2. QED
      BY <3>1
  <2>4. QED
    BY <2>2, <2>3
<1>5. PICK g \in [0..n -> Nat] : g[0] = 0 /\ \A i \in 1..n : g[i] = more[i][g[i - 1]]
  <2>1. PICK S, a : S = Nat /\ a = 0
    OBVIOUS
  <2>2. a \in S /\ Steps(n, S, more)
    BY <1>4, <2>1 DEF Steps
  <2>3. \E g : Built(g, n, S, a, more)
    BY <2>2, Iterated
  <2>4. QED
    BY <2>1, <2>3 DEF Built
<1>6. \A i \in 1..n : g[i] = g[i - 1] * Base + s[i]
  <2> TAKE i \in 1..n
  <2>1. PICK x \in Nat : x = g[i - 1]
    BY <1>5
  <2>2. more[i][x] = x * Base + s[i]
    BY <1>2
  <2>3. QED
    BY <1>5, <2>1, <2>2
<1>7. g = [i \in 0..n |-> IF i = 0 THEN 0 ELSE g[i - 1] * Base + s[i]]
  BY <1>5, <1>6
<1>8. PICK v : v = Values(s)
  OBVIOUS
<1>9. v = [i \in 0..n |-> IF i = 0 THEN 0 ELSE v[i - 1] * Base + s[i]]
  BY <1>1, <1>7, <1>8 DEF Values
<1>10. v[0] = 0 /\ \A i \in 1..n : v[i] = v[i - 1] * Base + s[i]
  BY <1>9
<1> DEFINE T == {i \in 0..n : v[i] \in Nat}
<1>11. 0 \in T
  BY <1>10
<1>12. ASSUME NEW i \in 1..n, i - 1 \in T PROVE i \in T
  <2>1. PICK x \in Nat, y \in Nat : x = v[i - 1] /\ y = s[i]
    BY <1>3, <1>12
  <2>2. v[i] = x * Base + y
    BY <1>10, <2>1
  <2>3. x * Base \in Nat
    BY ConstantTypes
  <2>4. QED
    BY <2>2, <2>3
<1> HIDE DEF T
<1>13. \A i \in 0..n : i \in T
  BY <1>11, <1>12, UpTo
<1>14. FromBytes(s) = Values(s)[Len(s)]
  BY DEF FromBytes, Values
<1>15. QED
  BY <1>1, <1>8, <1>10, <1>13, <1>14 DEF T

Parts(q, b) == \E x, r \in Nat : x = q \div b /\ r = q % b /\ q = x * b + r

\* A number is its quotient times b and its remainder.
LEMMA DivMod ==
  ASSUME NEW q \in Nat, NEW b \in Nat, b > 0
  PROVE  q % b \in 0..(b - 1) /\ q \div b \in Nat /\ Parts(q, b)
<1>1. q % b \in 0..(b - 1)
  OBVIOUS
<1>2. q \div b \in Nat
  OBVIOUS
<1>3. \E x \in Int, r \in Int : q = b * x + r /\ 0 <= r /\ r < b /\ x = q \div b /\ r = q % b
  OBVIOUS
<1>4. PICK x \in Int, r \in Int : q = b * x + r /\ x = q \div b /\ r = q % b
  BY <1>3
<1>5. x \in Nat /\ r \in Nat
  BY <1>1, <1>2, <1>4
<1>6. b * x = x * b
  OBVIOUS
<1>7. QED
  BY <1>1, <1>2, <1>4, <1>5, <1>6 DEF Parts

\* Two divisions are one.
Divides(n, w, b) == (n \div w) \div b = n \div (b * w)

\* Dividing by w and then by b is dividing by their product.
LEMMA DivDiv == \A n, w, b \in Nat : w > 0 /\ b > 0 => Divides(n, w, b)
  BY DEF Divides

\* BigEndian has the digits of n, the weightiest first.
LEMMA BigEndianIs ==
  ASSUME NEW n \in Nat, NEW width \in 0..(PrefixBytes + 2)
  PROVE  /\ BigEndian(n, width) \in Seq(Byte) /\ Len(BigEndian(n, width)) = width
         /\ \A i \in 1..width : BigEndian(n, width)[i] = (n \div Weight[width - i]) % Base
<1>1. width \in Nat
  BY ConstantTypes
<1>2. \A i \in 1..width : (n \div Weight[width - i]) % Base \in Byte
  <2> TAKE i \in 1..width
  <2>1. width - i \in 0..(PrefixBytes + 2)
    BY ConstantTypes
  <2>2. PICK w \in Nat : w = Weight[width - i] /\ w > 0
    BY <2>1, WeightIs
  <2>3. PICK q \in Nat : q = n \div w
    BY <2>2, DivMod
  <2>4. q % Base \in 0..(Base - 1)
    BY ConstantTypes, DivMod
  <2>5. QED
    BY <2>2, <2>3, <2>4 DEF Byte
<1>3. PICK s : s = BigEndian(n, width)
  OBVIOUS
<1>4. s = [i \in 1..width |-> (n \div Weight[width - i]) % Base]
  BY <1>3 DEF BigEndian
<1>5. s \in Seq(Byte) /\ Len(s) = width
  BY <1>1, <1>2, <1>4
<1>6. QED
  BY <1>3, <1>4, <1>5

\* A number that fits its width is what is read back.
LEMMA NumbersRoundTrip ==
  ASSUME NEW width \in 0..(PrefixBytes + 2), NEW n \in 0..(Weight[width] - 1)
  PROVE  FromBytes(BigEndian(n, width)) = n
<1>1. width \in Nat /\ Weight[width] \in Nat /\ n \in Nat /\ n < Weight[width]
  BY ConstantTypes, WeightIs
<1>2. PICK s \in Seq(Byte) : s = BigEndian(n, width)
  BY <1>1, BigEndianIs
<1>3. Len(s) = width /\ \A i \in 1..width : s[i] = (n \div Weight[width - i]) % Base
  BY <1>1, <1>2, BigEndianIs
<1>4. PICK v : v = Values(s)
  OBVIOUS
<1>5. /\ FromBytes(s) = v[width] /\ v[0] = 0
      /\ \A i \in 1..width : v[i] = v[i - 1] * Base + s[i]
  BY <1>3, <1>4, FromBytesIs
<1> DEFINE T == {i \in 0..width : v[i] = n \div Weight[width - i]}
<1>6. 0 \in T
  <2>1. PICK w \in Nat : w = Weight[width] /\ w > 0
    BY WeightIs
  <2>2. n \div w = 0
    BY <1>1, <2>1
  <2>3. QED
    BY <1>1, <1>5, <2>1, <2>2
<1>7. ASSUME NEW i \in 1..width, i - 1 \in T PROVE i \in T
  <2>1. width - i \in 0..(PrefixBytes + 2) /\ width - (i - 1) \in 1..(PrefixBytes + 2)
        /\ (width - (i - 1)) - 1 = width - i
    BY ConstantTypes
  <2>2. PICK w \in Nat : w = Weight[width - i] /\ w > 0
    BY <2>1, WeightIs
  <2>3. Weight[width - (i - 1)] = Base * w
    BY <2>1, <2>2, WeightIs
  <2>4. PICK q \in Nat : q = n \div w
    BY <1>1, <2>2, DivMod
  <2>5. v[i - 1] = q \div Base
    <3>1. PICK b \in Nat : b = Base /\ b > 0
      BY ConstantTypes
    <3>2. v[i - 1] = n \div (b * w)
      BY <1>7, <2>3, <3>1
    <3>3. n \in Nat /\ w \in Nat /\ w > 0 /\ b > 0
      BY <1>1, <2>2, <3>1
    <3>4. Divides(n, w, b)
      BY <3>3, DivDiv
    <3>5. QED
      BY <2>4, <3>1, <3>2, <3>4 DEF Divides
  <2>6. PICK x, r \in Nat : x = q \div Base /\ r = q % Base /\ q = x * Base + r
    <3>1. Parts(q, Base)
      BY ConstantTypes, DivMod
    <3>2. QED
      BY <3>1 DEF Parts
  <2>7. v[i] = x * Base + r
    <3>1. s[i] = r /\ v[i - 1] = x
      BY <1>3, <2>2, <2>4, <2>5, <2>6
    <3>2. QED
      BY <1>5, <3>1
  <2>8. QED
    BY <2>2, <2>4, <2>6, <2>7
<1> HIDE DEF T
<1>8. \A i \in 0..width : i \in T
  BY <1>1, <1>6, <1>7, UpTo
<1>9. v[width] = n \div Weight[0]
  BY <1>1, <1>8 DEF T
<1>10. Weight[0] = 1
  BY ConstantTypes, WeightIs
<1>11. QED
  BY <1>1, <1>2, <1>5, <1>9, <1>10
-----------------------------------------------------------------------------
(* Pieces of byte strings *)

\* What a concatenation holds, and where.
LEMMA Joined ==
  ASSUME NEW s \in Seq(Byte), NEW t \in Seq(Byte)
  PROVE  /\ s \o t \in Seq(Byte) /\ Len(s \o t) = Len(s) + Len(t)
         /\ \A i \in 1..Len(s) : (s \o t)[i] = s[i]
         /\ \A i \in 1..Len(t) : (s \o t)[Len(s) + i] = t[i]
  OBVIOUS

\* What a piece of a sequence holds, and where.
LEMMA Piece ==
  ASSUME NEW s \in Seq(Byte), NEW a \in Nat, NEW b \in Nat, a <= b, b <= Len(s)
  PROVE  /\ SubSeq(s, a + 1, b) \in Seq(Byte) /\ Len(SubSeq(s, a + 1, b)) = b - a
         /\ \A i \in 1..(b - a) : SubSeq(s, a + 1, b)[i] = s[a + i]
<1>1. PICK t : t = SubSeq(s, a + 1, b)
  OBVIOUS
<1>2. t = [i \in 1..(b - a) |-> s[a + i]]
  BY <1>1
<1>3. \A i \in 1..(b - a) : s[a + i] \in Byte
  OBVIOUS
<1>4. b - a \in Nat
  OBVIOUS
<1>5. QED
  BY <1>1, <1>2, <1>3, <1>4

\* t is what s holds after its first a bytes, up to the b-th.
PieceOf(t, s, a, b) == /\ t \in Seq(Byte) /\ Len(t) = b - a
                       /\ \A i \in 1..(b - a) : t[i] = s[a + i]

\* A piece, under a name of its own.
LEMMA PieceIs ==
  ASSUME NEW s \in Seq(Byte), NEW a \in Nat, NEW b \in Nat, a <= b, b <= Len(s)
  PROVE  \E t : t = SubSeq(s, a + 1, b) /\ PieceOf(t, s, a, b)
<1>1. PICK t : t = SubSeq(s, a + 1, b)
  OBVIOUS
<1>2. PieceOf(t, s, a, b)
  BY <1>1, Piece DEF PieceOf
<1>3. QED
  BY <1>1, <1>2

\* Sequences of one length and the same bytes are equal.
LEMMA SameBytes ==
  ASSUME NEW s \in Seq(Byte), NEW t \in Seq(Byte), Len(s) = Len(t), \A i \in 1..Len(s) : s[i] = t[i]
  PROVE  s = t
  OBVIOUS

\* A concatenation is taken apart where it was joined.
LEMMA Halves ==
  ASSUME NEW s \in Seq(Byte), NEW t \in Seq(Byte)
  PROVE  SubSeq(s \o t, 1, Len(s)) = s /\ SubSeq(s \o t, Len(s) + 1, Len(s \o t)) = t
<1>1. PICK b \in Seq(Byte) : b = s \o t
  BY Joined
<1>2. PICK x \in Nat, y \in Nat : x = Len(s) /\ y = Len(t)
  OBVIOUS
<1>3. /\ Len(b) = x + y
      /\ \A i \in 1..x : b[i] = s[i]
      /\ \A i \in 1..y : b[x + i] = t[i]
  BY <1>1, <1>2, Joined
<1>4. PICK z \in Nat : z = x + y /\ z = Len(b) /\ z <= Len(b) /\ x <= z /\ z - x = y
  BY <1>3
<1>5. PICK o \in Nat : o = 0 /\ o <= x /\ x <= Len(b)
  BY <1>4
<1>6. PICK u : u = SubSeq(b, o + 1, x) /\ PieceOf(u, b, o, x)
  BY <1>5, PieceIs
<1>7. u = s
  <2>1. u \in Seq(Byte) /\ Len(u) = x /\ \A i \in 1..x : u[i] = b[i]
    BY <1>5, <1>6 DEF PieceOf
  <2>2. QED
    BY <1>2, <1>3, <2>1, SameBytes
<1>8. PICK v : v = SubSeq(b, x + 1, z) /\ PieceOf(v, b, x, z)
  BY <1>4, PieceIs
<1>9. v = t
  <2>1. v \in Seq(Byte) /\ Len(v) = y /\ \A i \in 1..y : v[i] = b[x + i]
    BY <1>4, <1>8 DEF PieceOf
  <2>2. QED
    BY <1>2, <1>3, <2>1, SameBytes
<1>10. o + 1 = 1
  BY <1>5
<1>11. QED
  BY <1>1, <1>2, <1>4, <1>6, <1>7, <1>8, <1>9, <1>10

\* The kind bytes of encode, one per kind.
LEMMA KindByteIs ==
  /\ KindByte("text") = 0 /\ KindByte("binary") = 1 /\ KindByte("ping") = 2
  /\ KindByte("pong") = 3 /\ KindByte("close") = 4
  BY DEF KindByte, Kinds

\* A message is the record of its parts.
LEMMA MessageTypes ==
  ASSUME NEW m \in Messages
  PROVE  /\ m = Message(m.kind, m.code, m.data)
         /\ m.kind \in {"text", "binary", "ping", "pong", "close"}
         /\ m.code \in {None} \cup 0..(Weight[2] - 1)
         /\ m.data \in Seq(Byte)
  BY FramedAssumption DEF Message, Byte

\* A message is encoded in bytes.
LEMMA EncodeTypes ==
  ASSUME NEW m \in Messages
  PROVE  Encode(m) \in Seq(Byte)
<1>1. KindByte(m.kind) \in Byte
  BY KindByteIs, MessageTypes, ConstantTypes DEF Byte
<1>2. PICK k \in Seq(Byte) : k = <<KindByte(m.kind)>>
  <2>1. PICK b \in Byte : b = KindByte(m.kind)
    BY <1>1
  <2>2. <<b>> \in Seq(Byte)
    OBVIOUS
  <2>3. QED
    BY <2>1, <2>2
<1>3. PICK c \in Seq(Byte) : c = IF m.code = None THEN <<>> ELSE BigEndian(m.code, 2)
  <2>1. CASE m.code = None
    <3>1. PICK e : e = <<>>
      OBVIOUS
    <3>2. e \in Seq(Byte)
      BY <3>1
    <3>3. QED
      BY <2>1, <3>1, <3>2
  <2>2. CASE m.code # None
    <3>1. m.code \in Nat
      <4>1. Weight[2] \in Nat
        BY WeightIs, ConstantTypes
      <4>2. m.code \in 0..(Weight[2] - 1)
        BY <2>2, MessageTypes
      <4>3. QED
        BY <4>1, <4>2
    <3>2. 2 \in 0..(PrefixBytes + 2)
      BY ConstantTypes
    <3>3. BigEndian(m.code, 2) \in Seq(Byte)
      BY <3>1, <3>2, BigEndianIs
    <3>4. QED
      BY <2>2, <3>3
  <2>3. QED
    BY <2>1, <2>2
<1>4. PICK d \in Seq(Byte) : d = m.data
  BY MessageTypes
<1>5. (k \o c) \o d \in Seq(Byte)
  BY Joined
<1>6. QED
  BY <1>2, <1>3, <1>4, <1>5 DEF Encode

\* The length in a prefix that is whole is a number.
LEMMA FrameLenIs ==
  ASSUME read_buf \in Seq(Byte), Prefixed
  PROVE  FrameLen \in Nat
<1>1. PICK s \in Seq(Byte) : s = SubSeq(read_buf, 1, PrefixBytes)
  <2>1. 0 + 1 = 1
    OBVIOUS
  <2>2. SubSeq(read_buf, 0 + 1, PrefixBytes) \in Seq(Byte)
    BY ConstantTypes, Piece DEF Prefixed
  <2>3. QED
    BY <2>1, <2>2
<1>2. Len(s) \in 0..Len(s)
  OBVIOUS
<1>3. FromBytes(s) \in Nat
  BY <1>2, FromBytesIs
<1>4. QED
  BY <1>1, <1>3 DEF FrameLen
-----------------------------------------------------------------------------
(* The buffers *)

BytesInv == /\ write_buf \in Seq(Byte) /\ wire \in Seq(Byte) /\ read_buf \in Seq(Byte)
            /\ read_eof \in BOOLEAN
            /\ writer \in {"open", "closed", "cut"}
            /\ sent \in Seq(Items)
            /\ seen \in {"no", "end", "error"}

BoundInv == BytesInv /\ ReadBounded /\ WriteBounded

\* start_send adds one frame to a write_buf that poll_ready found below the
\* limit.
LEMMA PutKeeps ==
  ASSUME BoundInv, NEW payload \in Seq(Byte), Len(payload) <= WriterMax,
         NEW item \in Items, Ready, Put(payload, item)
  PROVE  BoundInv'
<1>1. PICK f \in Seq(Byte) : f = BigEndian(Len(payload), PrefixBytes) /\ Len(f) = PrefixBytes
  <2>1. PrefixBytes \in 0..(PrefixBytes + 2) /\ Len(payload) \in Nat
    BY ConstantTypes
  <2>2. QED
    BY <2>1, BigEndianIs
<1>2. PICK w \in Seq(Byte) : w = write_buf
  BY DEF BoundInv, BytesInv
<1>3. (w \o f) \o payload \in Seq(Byte) /\ Len((w \o f) \o payload) = Len(w) + PrefixBytes + Len(payload)
  BY <1>1, Joined
<1>4. write_buf' = (w \o f) \o payload /\ Len(w) < WriterMax
  BY <1>1, <1>2 DEF Put, Ready
<1>5. write_buf' \in Seq(Byte) /\ WriteBounded'
  BY <1>3, <1>4, ConstantTypes DEF WriteBounded
<1>6. sent' \in Seq(Items)
  BY DEF BoundInv, BytesInv, Put
<1>7. QED
  BY <1>5, <1>6 DEF BoundInv, BytesInv, Put, ReadBounded

\* A flush takes bytes off the front of write_buf.
LEMMA FlushKeeps ==
  ASSUME BoundInv, NEW n \in Room, Flush(n)
  PROVE  BoundInv' /\ n \in 0..Len(write_buf)
<1>1. PICK w \in Seq(Byte), x \in Seq(Byte) : w = write_buf /\ x = wire
  BY DEF BoundInv, BytesInv
<1>2. n \in 0..Len(w)
  BY <1>1, ConstantTypes DEF Room
<1>3. SubSeq(w, 0 + 1, n) \in Seq(Byte) /\ SubSeq(w, n + 1, Len(w)) \in Seq(Byte)
      /\ Len(SubSeq(w, n + 1, Len(w))) = Len(w) - n
  BY <1>2, Piece
<1>4. wire' \in Seq(Byte)
  <2>1. PICK y \in Seq(Byte) : y = SubSeq(w, 0 + 1, n)
    BY <1>3
  <2>2. x \o y \in Seq(Byte)
    BY Joined
  <2>3. 0 + 1 = 1
    OBVIOUS
  <2>4. QED
    BY <1>1, <2>1, <2>2, <2>3 DEF Flush
<1>5. write_buf' \in Seq(Byte) /\ WriteBounded'
  <2>1. PICK y \in Seq(Byte) : y = SubSeq(w, n + 1, Len(w)) /\ Len(y) = Len(w) - n
    BY <1>3
  <2>2. write_buf' = y
    BY <1>1, <2>1 DEF Flush
  <2>3. Len(w) < WriterMax + PrefixBytes + WriterMax
    BY <1>1 DEF BoundInv, WriteBounded
  <2>4. QED
    BY <1>2, <2>1, <2>2, <2>3, ConstantTypes DEF WriteBounded
<1>6. QED
  BY <1>1, <1>2, <1>4, <1>5 DEF BoundInv, BytesInv, Flush, ReadBounded

\* A cut empties write_buf and shortens the wire.
LEMMA CutKeeps ==
  ASSUME BoundInv, Cut
  PROVE  BoundInv'
<1>1. PICK n \in 0..Len(wire) : wire' = SubSeq(wire, 1, n)
  BY DEF Cut
<1>2. wire' \in Seq(Byte)
  <2>1. PICK x \in Seq(Byte) : x = wire
    BY DEF BoundInv, BytesInv
  <2>2. SubSeq(x, 0 + 1, n) \in Seq(Byte)
    BY <2>1, Piece
  <2>3. 0 + 1 = 1
    OBVIOUS
  <2>4. QED
    BY <1>1, <2>1, <2>2, <2>3
<1>3. write_buf' \in Seq(Byte) /\ Len(write_buf') = 0
  BY DEF Cut
<1>4. QED
  BY <1>2, <1>3, ConstantTypes DEF BoundInv, BytesInv, Cut, ReadBounded, WriteBounded

\* A frame taken leaves less in read_buf.
LEMMA TakeFrameKeeps ==
  ASSUME BoundInv, TakeFrame
  PROVE  BoundInv'
<1>1. PICK r \in Seq(Byte) : r = read_buf
  BY DEF BoundInv, BytesInv
<1>2. PICK k \in Nat : k = FrameLen
  BY FrameLenIs DEF TakeFrame, Whole, BoundInv, BytesInv
<1>3. PrefixBytes + k \in Nat /\ PrefixBytes + k <= Len(r)
  BY <1>1, <1>2, ConstantTypes DEF TakeFrame, Whole
<1>4. PICK y \in Seq(Byte) : y = SubSeq(r, PrefixBytes + k + 1, Len(r)) /\ Len(y) = Len(r) - (PrefixBytes + k)
  <2>1. PICK a \in Nat : a = PrefixBytes + k
    BY <1>3
  <2>2. SubSeq(r, a + 1, Len(r)) \in Seq(Byte) /\ Len(SubSeq(r, a + 1, Len(r))) = Len(r) - a
    BY <1>3, <2>1, Piece
  <2>3. QED
    BY <2>1, <2>2
<1>5. read_buf' = y
  BY <1>1, <1>2, <1>4 DEF TakeFrame
<1>6. Len(r) < PrefixBytes + ReaderMax + Chunk
  BY <1>1 DEF BoundInv, ReadBounded
<1>7. ReadBounded'
  BY <1>3, <1>4, <1>5, <1>6, ConstantTypes DEF ReadBounded
<1>8. QED
  BY <1>4, <1>5, <1>7 DEF BoundInv, BytesInv, TakeFrame, WriteBounded

\* A read adds at most Chunk bytes to a read_buf without a whole frame.
LEMMA FillKeeps ==
  ASSUME BoundInv, NEW n \in Arrived, Fill(n)
  PROVE  BoundInv' /\ n \in 0..Len(wire)
<1>1. PICK r \in Seq(Byte), x \in Seq(Byte) : r = read_buf /\ x = wire
  BY DEF BoundInv, BytesInv
<1>2. n \in 0..Len(x) /\ n <= Chunk
  BY <1>1, ConstantTypes DEF Arrived
<1>3. Len(r) < PrefixBytes + ReaderMax
  <2>1. CASE ~Prefixed
    BY <1>1, <2>1, ConstantTypes DEF Prefixed
  <2>2. CASE Prefixed
    <3>1. PICK k \in Nat : k = FrameLen
      BY <2>2, FrameLenIs DEF BoundInv, BytesInv
    <3>2. k <= ReaderMax /\ Len(r) < PrefixBytes + k
      BY <1>1, <2>2, <3>1, ConstantTypes DEF Fill, NotYet, Whole, Oversized
    <3>3. QED
      BY <3>2, ConstantTypes
  <2>3. QED
    BY <2>1, <2>2
<1>4. PICK y \in Seq(Byte) : y = SubSeq(x, 1, n) /\ Len(y) = n
  <2>1. SubSeq(x, 0 + 1, n) \in Seq(Byte) /\ Len(SubSeq(x, 0 + 1, n)) = n - 0
    BY <1>2, Piece
  <2>2. 0 + 1 = 1 /\ n - 0 = n
    BY <1>2
  <2>3. QED
    BY <2>1, <2>2
<1>5. r \o y \in Seq(Byte) /\ Len(r \o y) = Len(r) + n
  BY <1>4, Joined
<1>6. read_buf' = r \o y
  BY <1>1, <1>4 DEF Fill
<1>7. read_buf' \in Seq(Byte) /\ ReadBounded'
  BY <1>2, <1>3, <1>5, <1>6, ConstantTypes DEF ReadBounded
<1>8. SubSeq(x, n + 1, Len(x)) \in Seq(Byte)
  BY <1>2, Piece
<1>9. wire' \in Seq(Byte)
  BY <1>1, <1>8 DEF Fill
<1>10. QED
  BY <1>1, <1>2, <1>7, <1>9 DEF BoundInv, BytesInv, Fill, WriteBounded

\* What FramedAssumption says of payloads that do not decode.
LEMMA ForeignTypes ==
  ASSUME NEW p \in Foreign
  PROVE  p \in Seq(Byte) /\ Len(p) <= WriterMax /\ Len(p) <= ReaderMax /\ Decode(p).kind = "fault"
  BY FramedAssumption DEF Byte

\* Every step keeps the buffers bounded.
LEMMA BoundStep ==
  ASSUME BoundInv, [Next]_vars
  PROVE  BoundInv'
<1>1. ASSUME NEW m \in Messages, StartSend(m) PROVE BoundInv'
  <2>1. PICK e \in Seq(Byte) : e = Encode(m)
    BY EncodeTypes
  <2>2. m \in Items
    BY DEF Items
  <2>3. Ready /\ Len(e) <= WriterMax /\ Put(e, m)
    BY <1>1, <2>1 DEF StartSend
  <2>4. QED
    BY <2>2, <2>3, PutKeeps
<1>2. ASSUME NEW p \in Foreign, StartForeign(p) PROVE BoundInv'
  <2>1. PICK d \in Items : d = Decode(p)
    BY DEF Items
  <2>2. Ready /\ Put(p, d)
    BY <1>2, <2>1 DEF StartForeign
  <2>3. p \in Seq(Byte) /\ Len(p) <= WriterMax
    BY ForeignTypes
  <2>4. QED
    BY <2>2, <2>3, PutKeeps
<1>3. CASE Write
  BY <1>3, FlushKeeps DEF Write
<1>4. ASSUME NEW n \in Arrived, Fill(n) PROVE BoundInv'
  BY <1>4, FillKeeps
<1>5. CASE TakeFrame
  BY <1>5, TakeFrameKeeps
<1>6. CASE Cut
  BY <1>6, CutKeeps
<1>7. CASE Close
  BY <1>7 DEF Close, BoundInv, BytesInv, ReadBounded, WriteBounded
<1>8. CASE Refuse
  BY <1>8 DEF Refuse, BoundInv, BytesInv, ReadBounded, WriteBounded
<1>9. CASE FillEof
  BY <1>9 DEF FillEof, BoundInv, BytesInv, ReadBounded, WriteBounded
<1>10. CASE AtEof
  BY <1>10 DEF AtEof, BoundInv, BytesInv, ReadBounded, WriteBounded
<1>11. CASE UNCHANGED vars
  BY <1>11 DEF vars, BoundInv, BytesInv, ReadBounded, WriteBounded
<1>12. QED
  BY <1>1, <1>2, <1>3, <1>4, <1>5, <1>6, <1>7, <1>8, <1>9, <1>10, <1>11 DEF Next, Read

\* The buffers begin empty.
LEMMA BoundInit == Init => BoundInv
<1>1. PICK e : e = <<>>
  OBVIOUS
<1>2. e \in Seq(Byte) /\ e \in Seq(Items) /\ Len(e) = 0
  BY <1>1
<1>3. Init => write_buf = e /\ wire = e /\ read_buf = e /\ sent = e
  BY <1>1 DEF Init
<1>4. 0 < PrefixBytes + ReaderMax + Chunk /\ 0 < WriterMax + PrefixBytes + WriterMax
  BY ConstantTypes
<1>5. QED
  BY <1>2, <1>3, <1>4 DEF Init, BoundInv, BytesInv, ReadBounded, WriteBounded

\* Whatever lengths the peer announces, however the bytes are cut and however
\* often a send is dropped half-way: both buffers hold bytes, the reader's
\* stays below one frame and one read, the writer's below two frames.
THEOREM BuffersAreBounded == SafeSpec => []BuffersBounded
<1>1. BoundInv => BuffersBounded
  <2> SUFFICES ASSUME BoundInv PROVE TypeOK
    BY DEF BoundInv, BuffersBounded
  <2>1. \A b \in {write_buf, wire, read_buf} : b \in Seq(Byte)
    BY DEF BoundInv, BytesInv
  <2>2. \A b \in Seq(Byte) : \A i \in DOMAIN b : b[i] \in Byte
    OBVIOUS
  <2>3. \A i \in DOMAIN sent : sent[i] \in Items
    BY DEF BoundInv, BytesInv
  <2>4. QED
    BY <2>1, <2>2, <2>3 DEF BoundInv, BytesInv, TypeOK, Byte
<1>2. Init => BoundInv
  BY BoundInit
<1>3. BoundInv /\ [Next]_vars => BoundInv'
  BY BoundStep
<1>4. QED
  BY <1>1, <1>2, <1>3, PTL DEF SafeSpec
-----------------------------------------------------------------------------
(* What is encoded decodes to itself *)

\* By its first byte.
LEMMA DecodeIs ==
  ASSUME NEW e, e # <<>>
  PROVE  /\ Head(e) = 4 => Decode(e) = DecodeClose(Tail(e))
         /\ Head(e) \in 0..3 /\ (Head(e) = 0 => Utf8(Tail(e)))
              => Decode(e) = Message(Kinds[Head(e) + 1], None, Tail(e))
<1>1. PICK kind, payload : kind = Head(e) /\ payload = Tail(e)
  OBVIOUS
<1>2. Decode(e) = CASE kind > 4 -> Fault("UnknownKind")
                    [] kind = 4 -> DecodeClose(payload)
                    [] kind = 0 /\ ~Utf8(payload) -> Fault("InvalidUtf8")
                    [] OTHER -> Message(Kinds[kind + 1], None, payload)
  BY <1>1 DEF Decode
<1>3. kind = 4 => Decode(e) = DecodeClose(payload)
  BY <1>2
<1>4. kind \in 0..3 /\ (kind = 0 => Utf8(payload)) => Decode(e) = Message(Kinds[kind + 1], None, payload)
  BY <1>2
<1>5. QED
  BY <1>1, <1>3, <1>4

\* A message that has no code.
LEMMA PlainRoundTrip ==
  ASSUME NEW m \in Messages, m.code = None
  PROVE  Decode(Encode(m)) = m
<1>1. PICK k \in Byte : k = KindByte(m.kind)
  BY KindByteIs, MessageTypes, ConstantTypes DEF Byte
<1>2. PICK d \in Seq(Byte) : d = m.data
  BY MessageTypes
<1>3. PICK e \in Seq(Byte) : e = Encode(m)
  BY EncodeTypes
<1>4. e # <<>> /\ Head(e) = k /\ Tail(e) = d
  <2>1. e = (<<k>> \o <<>>) \o d
    BY <1>1, <1>2, <1>3 DEF Encode
  <2>2. QED
    BY <2>1
<1>5. /\ m.kind = "text" => Utf8(d)
      /\ m.kind = "close" => d = <<>>
  BY <1>2, FramedAssumption
<1>6. m = Message(m.kind, None, d)
  BY <1>2, MessageTypes
<1>7. Decode(e) = Message(m.kind, None, d)
  <2>1. CASE m.kind = "close"
    <3>1. k = 4
      BY <1>1, <2>1, KindByteIs
    <3>2. Decode(e) = DecodeClose(d)
      BY <1>4, <3>1, DecodeIs
    <3>3. DecodeClose(d) = Message("close", None, <<>>)
      BY <1>5, <2>1 DEF DecodeClose
    <3>4. QED
      BY <1>5, <2>1, <3>2, <3>3
  <2>2. CASE m.kind # "close"
    <3>1. k \in 0..3 /\ Kinds[k + 1] = m.kind /\ (k = 0 => m.kind = "text")
      BY <1>1, <2>2, KindByteIs, MessageTypes DEF Kinds
    <3>2. Decode(e) = Message(Kinds[k + 1], None, d)
      BY <1>4, <1>5, <3>1, DecodeIs
    <3>3. QED
      BY <3>1, <3>2
  <2>3. QED
    BY <2>1, <2>2
<1>8. QED
  BY <1>3, <1>6, <1>7

\* A close with a status.
LEMMA CloseRoundTrip ==
  ASSUME NEW m \in Messages, m.code # None
  PROVE  Decode(Encode(m)) = m
<1>1. m.kind = "close" /\ m.code \in 0..(Weight[2] - 1) /\ Utf8(m.data)
  <2>1. m.kind = "close"
    BY FramedAssumption
  <2>2. QED
    BY <2>1, FramedAssumption, MessageTypes
<1>2. 2 \in 0..(PrefixBytes + 2) /\ 4 \in Byte
  BY ConstantTypes DEF Byte
<1>3. m.code \in Nat
  BY <1>1, <1>2, WeightIs
<1>4. PICK c \in Seq(Byte) : c = BigEndian(m.code, 2) /\ Len(c) = 2
  BY <1>2, <1>3, BigEndianIs
<1>5. FromBytes(c) = m.code
  BY <1>1, <1>2, <1>4, NumbersRoundTrip
<1>6. PICK d \in Seq(Byte) : d = m.data
  BY MessageTypes
<1>7. PICK b \in Seq(Byte) : b = c \o d
  BY Joined
<1>8. Len(b) = 2 + Len(d) /\ SubSeq(b, 1, 2) = c /\ SubSeq(b, 3, Len(b)) = d
  <2>1. SubSeq(b, 1, Len(c)) = c /\ SubSeq(b, Len(c) + 1, Len(b)) = d /\ Len(b) = Len(c) + Len(d)
    BY <1>7, Halves, Joined
  <2>2. PICK n : n = Len(c)
    OBVIOUS
  <2>3. n = 2 /\ n + 1 = 3
    BY <1>4, <2>2
  <2>4. QED
    BY <2>1, <2>2, <2>3
<1>9. PICK e \in Seq(Byte) : e = Encode(m)
  BY EncodeTypes
<1>10. e # <<>> /\ Head(e) = 4 /\ Tail(e) = b
  <2>1. e = (<<4>> \o c) \o d
    BY <1>1, <1>4, <1>6, <1>9, KindByteIs DEF Encode
  <2>2. e = <<4>> \o b
    BY <1>7, <2>1
  <2>3. QED
    BY <2>2
<1>11. Decode(e) = DecodeClose(b)
  BY <1>10, DecodeIs
<1>12. DecodeClose(b) = Message("close", m.code, d)
  <2>1. Len(b) > 1 /\ b # <<>> /\ Len(b) # 1
    BY <1>8
  <2>2. Utf8(d)
    BY <1>1, <1>6
  <2>3. QED
    BY <1>5, <1>8, <2>1, <2>2 DEF DecodeClose
<1>13. QED
  BY <1>1, <1>6, <1>9, <1>11, <1>12, MessageTypes

\* Every message arrives as what was sent: kind, status and bytes.
THEOREM MessagesRoundTrip == \A m \in Messages : Decode(Encode(m)) = m
  BY PlainRoundTrip, CloseRoundTrip
-----------------------------------------------------------------------------
(* The direction as a pipe *)

TooBigItems == {m \in Items : m.kind # "fault" /\ Len(Encode(m)) > ReaderMax}

\* Bytes a+1 to b of h are the frame of item.
FrameAt(h, a, b, item) ==
  /\ a \in Nat /\ b \in Nat /\ a + PrefixBytes <= b /\ b <= Len(h)
  /\ b - (a + PrefixBytes) <= WriterMax
  /\ SubSeq(h, a + 1, a + PrefixBytes) = BigEndian(b - (a + PrefixBytes), PrefixBytes)
  /\ Decode(SubSeq(h, a + PrefixBytes + 1, b)) = item
  /\ b - (a + PrefixBytes) > ReaderMax <=> item \in TooBigItems

\* h is all that was ever encoded: the frames of items, the j-th ending at pos[j].
Framing(h, pos, items) ==
  /\ h \in Seq(Byte) /\ pos \in [0..Len(items) -> Nat]
  /\ pos[0] = 0 /\ pos[Len(items)] = Len(h)
  /\ \A j \in 1..Len(items) : FrameAt(h, pos[j - 1], pos[j], items[j])

\* Bytes added behind do not change a piece before them.
LEMMA SamePiece ==
  ASSUME NEW h \in Seq(Byte), NEW f \in Seq(Byte), NEW a \in Nat, NEW b \in Nat, a <= b, b <= Len(h)
  PROVE  SubSeq(h \o f, a + 1, b) = SubSeq(h, a + 1, b)
<1>1. PICK g \in Seq(Byte) : g = h \o f
  BY Joined
<1>2. b <= Len(g) /\ \A i \in 1..(b - a) : g[a + i] = h[a + i]
  <2>1. Len(g) = Len(h) + Len(f) /\ \A i \in 1..Len(h) : g[i] = h[i]
    BY <1>1, Joined
  <2>2. \A i \in 1..(b - a) : a + i \in 1..Len(h)
    OBVIOUS
  <2>3. b <= Len(g)
    BY <2>1
  <2>4. QED
    BY <2>1, <2>2, <2>3, Zenon
<1>3. PICK s : s = SubSeq(g, a + 1, b) /\ PieceOf(s, g, a, b)
  BY <1>2, PieceIs
<1>4. PICK t : t = SubSeq(h, a + 1, b) /\ PieceOf(t, h, a, b)
  BY PieceIs
<1>5. s \in Seq(Byte) /\ t \in Seq(Byte) /\ Len(s) = Len(t) /\ \A i \in 1..Len(s) : s[i] = t[i]
  BY <1>2, <1>3, <1>4 DEF PieceOf
<1>6. s = t
  BY <1>5, SameBytes
<1>7. QED
  BY <1>1, <1>3, <1>4, <1>6

\* A frame stays where it is when bytes are added behind it.
LEMMA FrameStays ==
  ASSUME NEW h \in Seq(Byte), NEW f \in Seq(Byte), NEW a, NEW b, NEW item, FrameAt(h, a, b, item)
  PROVE  FrameAt(h \o f, a, b, item)
<1>1. a \in Nat /\ b \in Nat /\ a + PrefixBytes <= b /\ b <= Len(h)
  BY DEF FrameAt
<1>2. PICK p \in Nat : p = a + PrefixBytes /\ a <= p /\ p <= b /\ p <= Len(h)
  BY <1>1, ConstantTypes
<1>3. SubSeq(h \o f, a + 1, p) = SubSeq(h, a + 1, p)
  <2>1. a \in Nat /\ a <= p /\ p <= Len(h)
    BY <1>1, <1>2
  <2>2. QED
    BY <2>1, SamePiece
<1>4. SubSeq(h \o f, p + 1, b) = SubSeq(h, p + 1, b)
  <2>1. b \in Nat /\ p <= b /\ b <= Len(h)
    BY <1>1, <1>2
  <2>2. QED
    BY <2>1, SamePiece
<1>5. PICK g \in Seq(Byte) : g = h \o f
  BY Joined
<1>6. b <= Len(g)
  BY <1>1, <1>5, Joined
<1>7. /\ b - p <= WriterMax
      /\ SubSeq(g, a + 1, p) = BigEndian(b - p, PrefixBytes)
      /\ Decode(SubSeq(g, p + 1, b)) = item
      /\ b - p > ReaderMax <=> item \in TooBigItems
  BY <1>2, <1>3, <1>4, <1>5 DEF FrameAt
<1>8. QED
  BY <1>1, <1>2, <1>5, <1>6, <1>7 DEF FrameAt

\* A new frame at the end.
LEMMA FrameAdded ==
  ASSUME NEW h \in Seq(Byte), NEW payload \in Seq(Byte), Len(payload) <= WriterMax,
         NEW item, Decode(payload) = item, Len(payload) > ReaderMax <=> item \in TooBigItems,
         NEW f \in Seq(Byte), f = BigEndian(Len(payload), PrefixBytes), Len(f) = PrefixBytes
  PROVE  FrameAt((h \o f) \o payload, Len(h), Len(h) + PrefixBytes + Len(payload), item)
<1>1. PICK g \in Seq(Byte) : g = h \o f
  BY Joined
<1>2. PICK a \in Nat, p \in Nat, b \in Nat :
         /\ a = Len(h) /\ p = a + PrefixBytes /\ b = p + Len(payload) /\ p = Len(g)
         /\ a <= p /\ p <= b /\ b - p = Len(payload)
  <2>1. Len(g) = Len(h) + PrefixBytes
    BY <1>1, Joined
  <2>2. PICK y \in Nat : y = Len(payload)
    OBVIOUS
  <2>3. PICK a \in Nat : a = Len(h)
    OBVIOUS
  <2>4. PICK p \in Nat : p = a + PrefixBytes /\ a <= p
    BY ConstantTypes
  <2>5. p + y \in Nat /\ p <= p + y /\ (p + y) - p = y
    OBVIOUS
  <2>6. QED
    BY <2>1, <2>2, <2>3, <2>4, <2>5
<1>3. PICK e \in Seq(Byte) : e = g \o payload
  BY Joined
<1>4. Len(e) = b
  <2>1. Len(e) = Len(g) + Len(payload)
    BY <1>3, Joined
  <2>2. QED
    BY <1>2, <2>1
<1>5. SubSeq(e, p + 1, b) = payload
  <2>1. SubSeq(e, Len(g) + 1, Len(e)) = payload
    BY <1>3, Halves
  <2>2. QED
    BY <1>2, <1>4, <2>1
<1>6. SubSeq(e, a + 1, p) = f
  <2>1. SubSeq(e, a + 1, p) = SubSeq(g, a + 1, p)
    <3>1. p <= Len(g) /\ a <= p
      BY <1>2
    <3>2. SubSeq(g \o payload, a + 1, p) = SubSeq(g, a + 1, p)
      BY <3>1, SamePiece
    <3>3. QED
      BY <1>3, <3>2
  <2>2. SubSeq(g, a + 1, p) = f
    <3>1. SubSeq(g, Len(h) + 1, Len(g)) = f
      BY <1>1, Halves
    <3>2. QED
      BY <1>2, <3>1
  <2>3. QED
    BY <2>1, <2>2
<1>7. b - p = Len(payload)
  BY <1>2
<1>8. FrameAt(e, a, b, item)
  <2>1. a + PrefixBytes = p
    BY <1>2
  <2>2. b <= Len(e)
    BY <1>4
  <2>3. Decode(SubSeq(e, p + 1, b)) = item
    BY <1>5
  <2>4. SubSeq(e, a + 1, p) = BigEndian(b - p, PrefixBytes)
    BY <1>6, <1>7
  <2>5. b - p <= WriterMax /\ (b - p > ReaderMax <=> item \in TooBigItems)
    BY <1>7
  <2>6. QED
    BY <1>2, <2>1, <2>2, <2>3, <2>4, <2>5 DEF FrameAt
<1>9. b = Len(h) + PrefixBytes + Len(payload)
  BY <1>2
<1>10. QED
  BY <1>1, <1>2, <1>3, <1>8, <1>9

\* A frame added behind the stream belongs to the item added to those sent.
LEMMA FramingGrows ==
  ASSUME NEW h, NEW pos, NEW items \in Seq(Items), Framing(h, pos, items),
         NEW payload \in Seq(Byte), Len(payload) <= WriterMax,
         NEW item \in Items, Decode(payload) = item, Len(payload) > ReaderMax <=> item \in TooBigItems,
         NEW f \in Seq(Byte), f = BigEndian(Len(payload), PrefixBytes), Len(f) = PrefixBytes
  PROVE  \E p : /\ Framing((h \o f) \o payload, p, Append(items, item))
                /\ \A j \in 0..Len(items) : p[j] = pos[j]
<1>1. h \in Seq(Byte) /\ pos \in [0..Len(items) -> Nat] /\ pos[0] = 0 /\ pos[Len(items)] = Len(h)
  BY DEF Framing
<1>2. PICK n \in Nat : n = Len(items)
  OBVIOUS
<1>3. PICK new \in Seq(Items) : new = Append(items, item)
  <2>1. PICK S : S = Items
    OBVIOUS
  <2>2. items \in Seq(S) /\ item \in S
    BY <2>1
  <2>3. Append(items, item) \in Seq(S)
    BY <2>2
  <2>4. QED
    BY <2>1, <2>3
<1>4. Len(new) = n + 1 /\ new[n + 1] = item /\ \A j \in 1..n : new[j] = items[j]
  BY <1>2, <1>3
<1>5. PICK g \in Seq(Byte) : g = h \o f
  BY <1>1, Joined
<1>6. PICK e \in Seq(Byte) : e = g \o payload
  BY Joined
<1>7. PICK b \in Nat : b = Len(h) + PrefixBytes + Len(payload) /\ b = Len(e)
  <2>1. Len(e) = Len(h) + PrefixBytes + Len(payload)
    BY <1>1, <1>5, <1>6, Joined
  <2>2. QED
    BY <1>1, <2>1, ConstantTypes
<1>8. FrameAt(e, pos[n], b, item)
  BY <1>1, <1>2, <1>5, <1>6, <1>7, FrameAdded
<1>9. \A j \in 1..n : FrameAt(e, pos[j - 1], pos[j], items[j])
  <2> TAKE j \in 1..n
  <2>1. FrameAt(h, pos[j - 1], pos[j], items[j])
    BY <1>2 DEF Framing
  <2>2. FrameAt(g, pos[j - 1], pos[j], items[j])
    BY <1>1, <1>5, <2>1, FrameStays
  <2>3. QED
    BY <1>6, <2>2, FrameStays
<1>10. PICK p : p = [j \in 0..(n + 1) |-> IF j = n + 1 THEN b ELSE pos[j]]
  OBVIOUS
<1>11. p \in [0..(n + 1) -> Nat] /\ p[n + 1] = b /\ \A j \in 0..n : p[j] = pos[j]
  <2>1. \A j \in 0..(n + 1) : j = n + 1 \/ j \in 0..n
    OBVIOUS
  <2>2. QED
    BY <1>1, <1>2, <1>10, <2>1
<1>12. \A j \in 1..(n + 1) : FrameAt(e, p[j - 1], p[j], new[j])
  <2> TAKE j \in 1..(n + 1)
  <2>1. CASE j = n + 1
    <3>1. j - 1 = n /\ n \in 0..n
      BY <2>1
    <3>2. p[j - 1] = pos[n] /\ p[j] = b /\ new[j] = item
      BY <1>4, <1>11, <2>1, <3>1
    <3>3. QED
      BY <1>8, <3>2
  <2>2. CASE j # n + 1
    <3>1. j \in 1..n /\ j - 1 \in 0..n /\ j \in 0..n
      BY <2>2
    <3>2. p[j - 1] = pos[j - 1] /\ p[j] = pos[j] /\ new[j] = items[j]
      BY <1>4, <1>11, <3>1
    <3>3. QED
      BY <1>9, <3>1, <3>2
  <2>3. QED
    BY <2>1, <2>2
<1>13. p[0] = 0
  BY <1>1, <1>11
<1>14. Framing(e, p, new)
  BY <1>4, <1>7, <1>11, <1>12, <1>13 DEF Framing
<1>15. QED
  BY <1>2, <1>3, <1>5, <1>6, <1>11, <1>14

\* The bytes t are in h, after its first a.
Lies(t, h, a) == /\ t \in Seq(Byte) /\ a \in Nat /\ a + Len(t) <= Len(h)
                 /\ \A i \in 1..Len(t) : t[i] = h[a + i]

\* A piece of the stream splits into two adjacent ones.
LEMMA LiesSplit ==
  ASSUME NEW h \in Seq(Byte), NEW t, NEW a, Lies(t, h, a), NEW n \in 0..Len(t)
  PROVE  /\ Lies(SubSeq(t, 1, n), h, a) /\ Len(SubSeq(t, 1, n)) = n
         /\ Lies(SubSeq(t, n + 1, Len(t)), h, a + n) /\ Len(SubSeq(t, n + 1, Len(t))) = Len(t) - n
<1>1. t \in Seq(Byte) /\ a \in Nat /\ a + Len(t) <= Len(h) /\ \A i \in 1..Len(t) : t[i] = h[a + i]
  BY DEF Lies
<1>2. PICK y \in Nat : y = Len(t) /\ y <= Len(t) /\ n \in Nat /\ n <= y
  BY <1>1
<1>3. PICK o \in Nat : o = 0 /\ o <= n /\ n <= Len(t) /\ o + 1 = 1
  BY <1>2
<1>4. PICK u : u = SubSeq(t, o + 1, n) /\ PieceOf(u, t, o, n)
  BY <1>1, <1>2, <1>3, PieceIs
<1>5. Lies(u, h, a) /\ Len(u) = n
  <2>1. u \in Seq(Byte) /\ Len(u) = n /\ \A i \in 1..n : u[i] = t[i]
    BY <1>2, <1>3, <1>4 DEF PieceOf
  <2>2. \A i \in 1..n : i \in 1..Len(t)
    BY <1>2
  <2>3. QED
    BY <1>1, <1>2, <2>1, <2>2 DEF Lies
<1>6. PICK v : v = SubSeq(t, n + 1, y) /\ PieceOf(v, t, n, y)
  BY <1>1, <1>2, PieceIs
<1>7. Lies(v, h, a + n) /\ Len(v) = y - n
  <2>1. v \in Seq(Byte) /\ Len(v) = y - n /\ \A i \in 1..(y - n) : v[i] = t[n + i]
    BY <1>6 DEF PieceOf
  <2>2. \A i \in 1..(y - n) : n + i \in 1..Len(t) /\ a + (n + i) = (a + n) + i
    BY <1>1, <1>2
  <2>3. \A i \in 1..(y - n) : v[i] = h[(a + n) + i]
    BY <1>1, <2>1, <2>2
  <2>4. a + n \in Nat /\ (a + n) + (y - n) <= Len(h)
    BY <1>1, <1>2
  <2>5. QED
    BY <2>1, <2>3, <2>4 DEF Lies
<1>8. QED
  BY <1>2, <1>3, <1>4, <1>5, <1>6, <1>7

\* Two adjacent pieces join to one.
LEMMA LiesJoin ==
  ASSUME NEW h \in Seq(Byte), NEW s, NEW t, NEW a, Lies(s, h, a), Lies(t, h, a + Len(s))
  PROVE  Lies(s \o t, h, a) /\ Len(s \o t) = Len(s) + Len(t)
<1>1. /\ s \in Seq(Byte) /\ t \in Seq(Byte) /\ a \in Nat
      /\ \A i \in 1..Len(s) : s[i] = h[a + i]
      /\ \A i \in 1..Len(t) : t[i] = h[(a + Len(s)) + i]
      /\ a + Len(s) + Len(t) <= Len(h)
  BY DEF Lies
<1>2. PICK b \in Seq(Byte) : b = s \o t
  BY <1>1, Joined
<1>3. PICK x \in Nat, y \in Nat : x = Len(s) /\ y = Len(t)
  BY <1>1
<1>4. Len(b) = x + y /\ (\A i \in 1..x : b[i] = s[i]) /\ (\A i \in 1..y : b[x + i] = t[i])
  BY <1>1, <1>2, <1>3, Joined
<1>5. \A i \in 1..(x + y) : b[i] = h[a + i]
  <2> TAKE i \in 1..(x + y)
  <2>1. CASE i \in 1..x
    BY <1>1, <1>3, <1>4, <2>1
  <2>2. CASE i \notin 1..x
    <3>1. PICK k \in 1..y : x + k = i /\ (a + x) + k = a + i
      <4>1. i - x \in 1..y /\ x + (i - x) = i /\ (a + x) + (i - x) = a + i
        BY <1>1, <2>2
      <4>2. QED
        BY <4>1
    <3>2. b[x + k] = t[k] /\ t[k] = h[(a + x) + k]
      BY <1>1, <1>3, <1>4
    <3>3. QED
      BY <3>1, <3>2
  <2>3. QED
    BY <2>1, <2>2
<1>6. a + (x + y) <= Len(h)
  BY <1>1, <1>3
<1>7. Lies(b, h, a)
  BY <1>1, <1>4, <1>5, <1>6 DEF Lies
<1>8. QED
  BY <1>2, <1>3, <1>4, <1>7

\* A piece stays where it is when the stream grows.
LEMMA LiesStays ==
  ASSUME NEW h \in Seq(Byte), NEW f \in Seq(Byte), NEW t, NEW a, Lies(t, h, a)
  PROVE  Lies(t, h \o f, a)
<1>1. t \in Seq(Byte) /\ a \in Nat /\ a + Len(t) <= Len(h) /\ \A i \in 1..Len(t) : t[i] = h[a + i]
  BY DEF Lies
<1>2. PICK g \in Seq(Byte) : g = h \o f
  BY Joined
<1>3. Len(g) = Len(h) + Len(f) /\ \A i \in 1..Len(h) : g[i] = h[i]
  BY <1>2, Joined
<1>4. \A i \in 1..Len(t) : a + i \in 1..Len(h)
  BY <1>1
<1>5. \A i \in 1..Len(t) : t[i] = g[a + i]
  BY <1>1, <1>3, <1>4
<1>6. a + Len(t) <= Len(g)
  BY <1>1, <1>3
<1>7. QED
  BY <1>1, <1>2, <1>5, <1>6 DEF Lies

\* What was added last lies at the end.
LEMMA LiesLast ==
  ASSUME NEW h \in Seq(Byte), NEW f \in Seq(Byte)
  PROVE  Lies(f, h \o f, Len(h))
  BY Joined DEF Lies

\* The front of what is unread is the next frame's.
LEMMA FirstFrame ==
  ASSUME NEW h \in Seq(Byte), NEW a, NEW b, NEW item, FrameAt(h, a, b, item),
         NEW r, Lies(r, h, a), PrefixBytes <= Len(r)
  PROVE  /\ FromBytes(SubSeq(r, 1, PrefixBytes)) = b - (a + PrefixBytes)
         /\ PrefixBytes + (b - (a + PrefixBytes)) <= Len(r) =>
              Decode(SubSeq(r, PrefixBytes + 1, PrefixBytes + (b - (a + PrefixBytes)))) = item
<1>1. /\ a \in Nat /\ b \in Nat /\ a + PrefixBytes <= b /\ b <= Len(h)
      /\ r \in Seq(Byte) /\ a + Len(r) <= Len(h) /\ \A i \in 1..Len(r) : r[i] = h[a + i]
  BY DEF FrameAt, Lies
<1>2. PICK P0 \in Nat : P0 = PrefixBytes
  BY ConstantTypes
<1>3. PICK p \in Nat, k \in Nat : p = a + P0 /\ k = b - p /\ b = p + k /\ a <= p /\ p <= b
  <2>1. a + P0 \in Nat /\ b - (a + P0) \in Nat /\ b = (a + P0) + (b - (a + P0))
    BY <1>1, <1>2
  <2>2. QED
    BY <1>1, <1>2, <2>1
<1>4. /\ k <= WriterMax
      /\ SubSeq(h, a + 1, p) = BigEndian(k, P0)
      /\ Decode(SubSeq(h, p + 1, b)) = item
  BY <1>2, <1>3 DEF FrameAt
<1>5. FromBytes(SubSeq(r, 1, P0)) = k
  <2>1. PICK o \in Nat : o = 0 /\ o + 1 = 1 /\ o <= P0 /\ P0 <= Len(r)
    BY <1>2
  <2>2. PICK u : u = SubSeq(r, o + 1, P0) /\ PieceOf(u, r, o, P0)
    BY <1>1, <2>1, PieceIs
  <2>3. p <= Len(h)
    BY <1>1, <1>3
  <2>4. PICK v : v = SubSeq(h, a + 1, p) /\ PieceOf(v, h, a, p)
    BY <1>1, <1>3, <2>3, PieceIs
  <2>5. u = v
    <3>1. u \in Seq(Byte) /\ Len(u) = P0 /\ \A i \in 1..P0 : u[i] = r[i]
      BY <2>1, <2>2 DEF PieceOf
    <3>2. p - a = P0
      BY <1>1, <1>3
    <3>3. v \in Seq(Byte) /\ Len(v) = P0 /\ \A i \in 1..P0 : v[i] = h[a + i]
      BY <2>4, <3>2 DEF PieceOf
    <3>4. \A i \in 1..P0 : i \in 1..Len(r)
      BY <1>1, <1>2
    <3>5. QED
      BY <1>1, <3>1, <3>3, <3>4, SameBytes
  <2>6. FromBytes(BigEndian(k, P0)) = k
    <3>1. PrefixBytes \in 0..(PrefixBytes + 2)
      BY ConstantTypes
    <3>2. k \in 0..(Weight[PrefixBytes] - 1)
      BY <1>4, <3>1, FramedAssumption, WeightIs
    <3>3. QED
      BY <1>2, <3>1, <3>2, NumbersRoundTrip
  <2>7. QED
    BY <1>4, <2>1, <2>2, <2>4, <2>5, <2>6
<1>6. ASSUME P0 + k <= Len(r) PROVE Decode(SubSeq(r, P0 + 1, P0 + k)) = item
  <2>1. PICK q \in Nat : q = P0 + k /\ P0 <= q /\ q <= Len(r) /\ q - P0 = k
    BY <1>6
  <2>2. PICK u : u = SubSeq(r, P0 + 1, q) /\ PieceOf(u, r, P0, q)
    BY <1>1, <2>1, PieceIs
  <2>3. PICK v : v = SubSeq(h, p + 1, b) /\ PieceOf(v, h, p, b)
    BY <1>1, <1>3, PieceIs
  <2>4. u \in Seq(Byte) /\ Len(u) = k /\ \A i \in 1..k : u[i] = r[P0 + i]
    BY <2>1, <2>2 DEF PieceOf
  <2>5. v \in Seq(Byte) /\ Len(v) = k /\ \A i \in 1..k : v[i] = h[p + i]
    BY <1>3, <2>3 DEF PieceOf
  <2>6. \A i \in 1..k : P0 + i \in 1..Len(r) /\ a + (P0 + i) = p + i
    BY <1>1, <1>3, <2>1
  <2>7. \A i \in 1..k : u[i] = v[i]
    BY <1>1, <2>4, <2>5, <2>6
  <2>8. u = v
    BY <2>4, <2>5, <2>7, SameBytes
  <2>9. QED
    BY <1>4, <2>1, <2>2, <2>3, <2>8
<1>7. QED
  BY <1>2, <1>3, <1>5, <1>6

\* What is unread lies in h after its first c bytes, in the order read_buf,
\* wire, write_buf, and only a cut has lost some.
Unread(h, c) == /\ Lies(read_buf, h, c)
                /\ Lies(wire, h, c + Len(read_buf))
                /\ Lies(write_buf, h, c + Len(read_buf) + Len(wire))
                /\ writer # "cut" => c + Len(read_buf) + Len(wire) + Len(write_buf) = Len(h)

GotInv == got \in Seq(Items) /\ Len(got) <= Len(sent) /\ \A i \in 1..Len(got) : got[i] = sent[i]

\* The reader stands at the end of the last frame it took.
StreamInv == \E h, pos : Framing(h, pos, sent) /\ Unread(h, pos[Len(got)])

EndInv == (writer # "open" => write_buf = <<>>) /\ (read_eof => wire = <<>> /\ writer # "open")

PipeInv == BoundInv /\ GotInv /\ StreamInv /\ EndInv

\* The types the steps below use.
LEMMA PipeTypes ==
  ASSUME PipeInv
  PROVE  /\ write_buf \in Seq(Byte) /\ wire \in Seq(Byte) /\ read_buf \in Seq(Byte)
         /\ sent \in Seq(Items) /\ got \in Seq(Items)
         /\ Len(got) \in Nat /\ Len(sent) \in Nat /\ Len(got) <= Len(sent)
  BY DEF PipeInv, BoundInv, BytesInv, GotInv

\* The frame a reader that has a prefix is looking at.
LEMMA Front ==
  ASSUME PipeInv, NEW h, NEW pos, Framing(h, pos, sent), Unread(h, pos[Len(got)]), Prefixed
  PROVE  LET g == Len(got) IN
         /\ g < Len(sent)
         /\ FrameAt(h, pos[g], pos[g + 1], sent[g + 1])
         /\ FrameLen = pos[g + 1] - (pos[g] + PrefixBytes)
         /\ PrefixBytes + FrameLen <= Len(read_buf) =>
              Decode(SubSeq(read_buf, PrefixBytes + 1, PrefixBytes + FrameLen)) = sent[g + 1]
<1>1. PICK g \in Nat, n \in Nat : g = Len(got) /\ n = Len(sent) /\ g <= n
  BY PipeTypes
<1>2. h \in Seq(Byte) /\ pos[n] = Len(h) /\ pos[g] \in Nat
  BY <1>1 DEF Framing
<1>3. Lies(read_buf, h, pos[g]) /\ PrefixBytes <= Len(read_buf)
  BY <1>1, ConstantTypes, PipeTypes DEF Unread, Prefixed
<1>4. pos[g] + Len(read_buf) <= Len(h) /\ Len(read_buf) \in Nat /\ Len(read_buf) > 0
  BY <1>3, ConstantTypes, PipeTypes DEF Lies
<1>5. g < n
  BY <1>1, <1>2, <1>4
<1>6. PICK j \in 1..n : j = g + 1 /\ j - 1 = g
  BY <1>5
<1>7. FrameAt(h, pos[g], pos[j], sent[j])
  <2>1. FrameAt(h, pos[j - 1], pos[j], sent[j])
    BY <1>1 DEF Framing
  <2>2. QED
    BY <1>6, <2>1
<1>8. PICK k : k = pos[j] - (pos[g] + PrefixBytes)
  OBVIOUS
<1>9. /\ FromBytes(SubSeq(read_buf, 1, PrefixBytes)) = k
      /\ PrefixBytes + k <= Len(read_buf) => Decode(SubSeq(read_buf, PrefixBytes + 1, PrefixBytes + k)) = sent[j]
  BY <1>2, <1>3, <1>7, <1>8, FirstFrame
<1>10. FrameLen = k
  BY <1>9 DEF FrameLen
<1>11. QED
  BY <1>1, <1>5, <1>6, <1>7, <1>8, <1>9, <1>10

\* start_send is Accept: the stream grows by the frame of the item.
LEMMA PutPipes ==
  ASSUME PipeInv, BoundInv', NEW payload \in Seq(Byte), Len(payload) <= WriterMax,
         NEW item \in Items, Decode(payload) = item, Len(payload) > ReaderMax <=> item \in TooBigItems,
         Put(payload, item)
  PROVE  PipeInv' /\ P!Accept(item)
<1>1. PICK h, pos : Framing(h, pos, sent) /\ Unread(h, pos[Len(got)])
  BY DEF PipeInv, StreamInv
<1>2. PICK f \in Seq(Byte) : f = BigEndian(Len(payload), PrefixBytes) /\ Len(f) = PrefixBytes
  <2>1. PrefixBytes \in 0..(PrefixBytes + 2) /\ Len(payload) \in Nat
    BY ConstantTypes
  <2>2. QED
    BY <2>1, BigEndianIs
<1>3. PICK p : /\ Framing((h \o f) \o payload, p, Append(sent, item))
               /\ \A j \in 0..Len(sent) : p[j] = pos[j]
  <2>1. sent \in Seq(Items)
    BY PipeTypes
  <2>2. QED
    BY <1>1, <1>2, <2>1, FramingGrows
<1>4. h \in Seq(Byte)
  BY <1>1 DEF Framing
<1>5. PICK g \in Seq(Byte) : g = h \o f
  BY <1>4, Joined
<1>6. PICK e \in Seq(Byte) : e = g \o payload
  BY Joined
<1>7. PICK c, r, x, w : c = pos[Len(got)] /\ r = read_buf /\ x = wire /\ w = write_buf
  OBVIOUS
<1>8. /\ Lies(r, h, c) /\ Lies(x, h, c + Len(r)) /\ Lies(w, h, c + Len(r) + Len(x))
      /\ c + Len(r) + Len(x) + Len(w) = Len(h)
  BY <1>1, <1>7 DEF Unread, Put
<1>9. Lies(r, e, c) /\ Lies(x, e, c + Len(r)) /\ Lies(w, e, c + Len(r) + Len(x))
  BY <1>4, <1>5, <1>6, <1>8, LiesStays
<1>10. Lies(f, e, Len(h))
  BY <1>4, <1>5, <1>6, LiesLast, LiesStays
<1>11. Lies(payload, e, Len(h) + Len(f))
  <2>1. Lies(payload, e, Len(g)) /\ Len(g) = Len(h) + Len(f)
    BY <1>4, <1>5, <1>6, LiesLast, Joined
  <2>2. QED
    BY <2>1
<1>12. PICK b \in Nat : b = c + Len(r) + Len(x) /\ Lies(w, e, b) /\ b + Len(w) = Len(h)
  BY <1>8, <1>9 DEF Lies
<1>13. Lies(w \o f, e, b) /\ Len(w \o f) = Len(w) + Len(f)
  <2>1. Lies(f, e, b + Len(w))
    BY <1>10, <1>12
  <2>2. QED
    BY <1>12, <2>1, LiesJoin
<1>14. PICK v : v = w \o f
  OBVIOUS
<1>15. Len(w) \in Nat /\ Len(f) \in Nat /\ b \in Nat /\ Len(h) \in Nat /\ Len(payload) \in Nat
  BY <1>4, <1>12 DEF Lies
<1>16. b + Len(v) = Len(h) + Len(f) /\ Len(v) \in Nat
  <2>1. PICK i \in Nat, j \in Nat, l \in Nat : i = Len(w) /\ j = Len(f) /\ l = Len(h) /\ b + i = l
    BY <1>12, <1>15
  <2>2. PICK m : m = Len(v)
    OBVIOUS
  <2>3. m = i + j
    BY <1>13, <1>14, <2>1, <2>2
  <2>4. b + (i + j) = l + j /\ i + j \in Nat
    <3>1. b + i = l
      BY <2>1
    <3>2. QED
      BY <3>1
  <2>5. QED
    BY <2>1, <2>2, <2>3, <2>4
<1>17. Lies(v \o payload, e, b) /\ Len(v \o payload) = Len(v) + Len(payload)
  <2>1. Lies(payload, e, b + Len(v)) /\ Lies(v, e, b)
    BY <1>11, <1>13, <1>14, <1>16
  <2>2. QED
    BY <2>1, LiesJoin
<1>18. Len(e) = Len(h) + Len(f) + Len(payload)
  BY <1>4, <1>5, <1>6, Joined
<1>19. PICK z : z = v \o payload
  OBVIOUS
<1>20. write_buf' = z /\ UNCHANGED <<wire, read_buf, read_eof, writer, got, seen>> /\ sent' = Append(sent, item)
       /\ writer = "open" /\ Len(sent) < MaxItems
  BY <1>2, <1>7, <1>14, <1>19 DEF Put
<1>21. Len(got) \in 0..Len(sent)
  BY PipeTypes
<1>22. p[Len(got')] = c
  BY <1>3, <1>7, <1>20, <1>21
<1>23. b + Len(z) = Len(e)
  <2>1. PICK i \in Nat, j \in Nat, l \in Nat, q \in Nat :
           i = Len(v) /\ j = Len(f) /\ l = Len(h) /\ q = Len(payload) /\ b + i = l + j
    BY <1>15, <1>16
  <2>2. PICK m, o : m = Len(z) /\ o = Len(e)
    OBVIOUS
  <2>3. m = i + q /\ o = l + j + q
    BY <1>17, <1>18, <1>19, <2>1, <2>2
  <2>4. b + m = o
    BY <1>15, <2>1, <2>3
  <2>5. QED
    BY <2>2, <2>4
<1>24. Unread(e, c)'
  BY <1>7, <1>9, <1>12, <1>17, <1>19, <1>20, <1>23 DEF Unread
<1>25. StreamInv'
  <2>1. Framing(e, p, sent')
    BY <1>3, <1>5, <1>6, <1>20
  <2>2. Unread(e, p[Len(got)])'
    BY <1>22, <1>24
  <2>3. QED
    BY <2>1, <2>2 DEF StreamInv
<1>26. GotInv'
  <2>1. PICK s \in Seq(Items), t \in Seq(Items) : s = sent /\ t = got
    BY PipeTypes
  <2>2. Len(Append(s, item)) = Len(s) + 1 /\ \A i \in 1..Len(s) : Append(s, item)[i] = s[i]
    OBVIOUS
  <2>3. Len(t) <= Len(s) /\ \A i \in 1..Len(t) : t[i] = s[i]
    BY <2>1 DEF PipeInv, GotInv
  <2>4. PICK u : u = Append(s, item)
    OBVIOUS
  <2>5. sent' = u /\ got' = t
    BY <1>20, <2>1, <2>4
  <2>6. Len(t) <= Len(u) /\ \A i \in 1..Len(t) : t[i] = u[i]
    BY <2>2, <2>3, <2>4
  <2>7. QED
    BY <2>1, <2>5, <2>6 DEF GotInv
<1>27. EndInv'
  BY <1>20 DEF PipeInv, EndInv
<1>28. QED
  BY <1>20, <1>25, <1>26, <1>27 DEF PipeInv, P!Accept

\* A step that moves bytes and leaves the items alone.
LEMMA BytesMove ==
  ASSUME PipeInv, UNCHANGED <<sent, got>>, BoundInv', EndInv',
         NEW h, NEW pos, Framing(h, pos, sent), Unread(h, pos[Len(got)])'
  PROVE  PipeInv'
<1>1. GotInv' /\ Framing(h, pos, sent')
  BY DEF PipeInv, GotInv
<1>2. QED
  BY <1>1 DEF PipeInv, StreamInv

\* A flush moves bytes from write_buf to the wire: a stutter.
LEMMA FlushPipes ==
  ASSUME PipeInv, NEW n \in Room, Flush(n)
  PROVE  PipeInv' /\ UNCHANGED <<sent, got, writer, seen>>
<1>1. BoundInv' /\ n \in 0..Len(write_buf)
  BY FlushKeeps DEF PipeInv
<1>2. PICK h, pos : Framing(h, pos, sent) /\ Unread(h, pos[Len(got)])
  BY DEF PipeInv, StreamInv
<1>3. PICK c, r, x, w : c = pos[Len(got)] /\ r = read_buf /\ x = wire /\ w = write_buf
  OBVIOUS
<1>4. /\ h \in Seq(Byte) /\ Lies(r, h, c) /\ Lies(x, h, c + Len(r)) /\ Lies(w, h, c + Len(r) + Len(x))
      /\ writer = "open" /\ c + Len(r) + Len(x) + Len(w) = Len(h) /\ n \in 0..Len(w)
  BY <1>1, <1>2, <1>3 DEF Framing, Unread, Flush
<1>5. PICK u, v : u = SubSeq(w, 1, n) /\ v = SubSeq(w, n + 1, Len(w))
  OBVIOUS
<1>6. PICK a, b : a = c + Len(r) /\ b = a + Len(x)
  OBVIOUS
<1>7. Lies(u, h, b) /\ Len(u) = n /\ Lies(v, h, b + n) /\ Len(v) = Len(w) - n
  <2>1. Lies(w, h, b)
    BY <1>4, <1>6
  <2>2. QED
    BY <1>4, <1>5, <2>1, LiesSplit
<1>8. PICK y : y = x \o u /\ Lies(y, h, a) /\ Len(y) = Len(x) + n
  <2>1. Lies(x, h, a) /\ Lies(u, h, a + Len(x))
    BY <1>4, <1>6, <1>7
  <2>2. Lies(x \o u, h, a) /\ Len(x \o u) = Len(x) + Len(u)
    BY <1>4, <2>1, LiesJoin
  <2>3. QED
    BY <1>7, <2>2
<1>9. PICK i \in Nat, j \in Nat, k \in Nat, l \in Nat :
         i = Len(r) /\ j = Len(x) /\ k = Len(w) /\ l = Len(h) /\ c \in Nat /\ n \in Nat /\ c + i + j + k = l
  BY <1>4 DEF Lies
<1>10. /\ wire' = y /\ write_buf' = v /\ read_buf' = r /\ UNCHANGED <<read_eof, writer, sent, got, seen>>
  BY <1>3, <1>5, <1>8 DEF Flush
<1>11. a + Len(y) = b + n /\ a + Len(y) + Len(v) = l
  <2>1. PICK m, o : m = Len(y) /\ o = Len(v)
    OBVIOUS
  <2>2. m = j + n /\ o = k - n /\ a = c + i /\ b = a + j
    BY <1>6, <1>7, <1>8, <1>9, <2>1
  <2>3. a + m = b + n /\ a + m + o = l
    BY <1>9, <2>2
  <2>4. QED
    BY <2>1, <2>3
<1>12. Unread(h, c)'
  BY <1>4, <1>6, <1>7, <1>8, <1>9, <1>10, <1>11 DEF Unread
<1>13. EndInv'
  BY <1>4, <1>10 DEF PipeInv, EndInv
<1>14. QED
  BY <1>1, <1>2, <1>3, <1>10, <1>12, <1>13, BytesMove

\* A read moves bytes from the wire to read_buf: a stutter.
LEMMA FillPipes ==
  ASSUME PipeInv, NEW n \in Arrived, Fill(n)
  PROVE  PipeInv' /\ UNCHANGED <<sent, got, writer, seen>>
<1>1. BoundInv' /\ n \in 0..Len(wire)
  BY FillKeeps DEF PipeInv
<1>2. PICK h, pos : Framing(h, pos, sent) /\ Unread(h, pos[Len(got)])
  BY DEF PipeInv, StreamInv
<1>3. PICK c, r, x, w : c = pos[Len(got)] /\ r = read_buf /\ x = wire /\ w = write_buf
  OBVIOUS
<1>4. /\ h \in Seq(Byte) /\ Lies(r, h, c) /\ Lies(x, h, c + Len(r)) /\ Lies(w, h, c + Len(r) + Len(x))
      /\ n \in 0..Len(x)
  BY <1>1, <1>2, <1>3 DEF Framing, Unread
<1>5. PICK u, v : u = SubSeq(x, 1, n) /\ v = SubSeq(x, n + 1, Len(x))
  OBVIOUS
<1>6. PICK a, b : a = c + Len(r) /\ b = a + Len(x)
  OBVIOUS
<1>7. Lies(u, h, a) /\ Len(u) = n /\ Lies(v, h, a + n) /\ Len(v) = Len(x) - n
  <2>1. Lies(x, h, a)
    BY <1>4, <1>6
  <2>2. QED
    BY <1>4, <1>5, <2>1, LiesSplit
<1>8. PICK y : y = r \o u /\ Lies(y, h, c) /\ Len(y) = Len(r) + n
  <2>1. Lies(r, h, c) /\ Lies(u, h, c + Len(r))
    BY <1>4, <1>6, <1>7
  <2>2. Lies(r \o u, h, c) /\ Len(r \o u) = Len(r) + Len(u)
    BY <1>4, <2>1, LiesJoin
  <2>3. QED
    BY <1>7, <2>2
<1>9. PICK i \in Nat, j \in Nat, k \in Nat :
         i = Len(r) /\ j = Len(x) /\ k = Len(w) /\ c \in Nat /\ n \in Nat
  BY <1>4 DEF Lies
<1>10. /\ read_buf' = y /\ wire' = v /\ write_buf' = w /\ UNCHANGED <<read_eof, writer, sent, got, seen>>
       /\ ~read_eof
  BY <1>3, <1>5, <1>8 DEF Fill
<1>11. c + Len(y) = a + n /\ c + Len(y) + Len(v) = b
  <2>1. PICK m, o : m = Len(y) /\ o = Len(v)
    OBVIOUS
  <2>2. m = i + n /\ o = j - n /\ a = c + i /\ b = a + j
    BY <1>6, <1>7, <1>8, <1>9, <2>1
  <2>3. c + m = a + n /\ c + m + o = b
    BY <1>9, <2>2
  <2>4. QED
    BY <2>1, <2>3
<1>12. writer # "cut" => b + Len(w) = Len(h)
  BY <1>2, <1>3, <1>6 DEF Unread
<1>13. Lies(w, h, b)
  BY <1>4, <1>6
<1>14. Unread(h, c)'
  BY <1>7, <1>8, <1>10, <1>11, <1>12, <1>13 DEF Unread
<1>15. EndInv'
  BY <1>3, <1>10 DEF PipeInv, EndInv
<1>16. QED
  BY <1>1, <1>2, <1>3, <1>10, <1>14, <1>15, BytesMove

\* A cut loses write_buf and the end of the wire: Cut.
LEMMA CutPipes ==
  ASSUME PipeInv, Cut
  PROVE  PipeInv' /\ P!Cut
<1>1. BoundInv'
  BY CutKeeps DEF PipeInv
<1>2. PICK h, pos : Framing(h, pos, sent) /\ Unread(h, pos[Len(got)])
  BY DEF PipeInv, StreamInv
<1>3. PICK n \in 0..Len(wire) : wire' = SubSeq(wire, 1, n)
  BY DEF Cut
<1>4. PICK c, r, x : c = pos[Len(got)] /\ r = read_buf /\ x = wire
  OBVIOUS
<1>5. h \in Seq(Byte) /\ Lies(r, h, c) /\ Lies(x, h, c + Len(r)) /\ n \in 0..Len(x)
  BY <1>2, <1>3, <1>4 DEF Framing, Unread
<1>6. PICK u : u = SubSeq(x, 1, n) /\ Lies(u, h, c + Len(r)) /\ Len(u) = n
  <2>1. PICK a : a = c + Len(r)
    OBVIOUS
  <2>2. Lies(x, h, a)
    BY <1>5, <2>1
  <2>3. Lies(SubSeq(x, 1, n), h, a) /\ Len(SubSeq(x, 1, n)) = n
    BY <1>5, <2>2, LiesSplit
  <2>4. QED
    BY <2>1, <2>3
<1>7. PICK e : e = <<>>
  OBVIOUS
<1>8. Lies(e, h, c + Len(r) + Len(u))
  <2>1. e \in Seq(Byte) /\ Len(e) = 0
    BY <1>7
  <2>2. u \in Seq(Byte) /\ c + Len(r) \in Nat /\ (c + Len(r)) + Len(u) <= Len(h)
    BY <1>6 DEF Lies
  <2>3. PICK a \in Nat : a = (c + Len(r)) + Len(u) /\ a <= Len(h)
    BY <2>2
  <2>4. QED
    BY <1>5, <2>1, <2>3 DEF Lies
<1>9. /\ writer = "open" /\ writer' = "cut" /\ write_buf' = e /\ wire' = u /\ read_buf' = r
      /\ UNCHANGED <<read_eof, sent, got, seen>>
  BY <1>3, <1>4, <1>6, <1>7 DEF Cut
<1>10. Unread(h, c)'
  BY <1>5, <1>6, <1>8, <1>9 DEF Unread
<1>11. EndInv'
  BY <1>7, <1>9 DEF PipeInv, EndInv
<1>12. PipeInv'
  BY <1>1, <1>2, <1>4, <1>9, <1>10, <1>11, BytesMove
<1>13. QED
  BY <1>9, <1>12 DEF P!Cut

\* The next whole frame is the next item: Deliver.
LEMMA TakeFramePipes ==
  ASSUME PipeInv, TakeFrame
  PROVE  PipeInv' /\ P!Deliver
<1>1. BoundInv'
  BY TakeFrameKeeps DEF PipeInv
<1>2. PICK h, pos : Framing(h, pos, sent) /\ Unread(h, pos[Len(got)])
  BY DEF PipeInv, StreamInv
<1>3. PICK g \in Nat, n \in Nat : g = Len(got) /\ n = Len(sent) /\ g <= n
  BY PipeTypes
<1>4. Prefixed /\ ~Oversized /\ Len(read_buf) >= PrefixBytes + FrameLen /\ seen = "no"
  BY DEF TakeFrame, Whole
<1>5. /\ g < n
      /\ FrameAt(h, pos[g], pos[g + 1], sent[g + 1])
      /\ FrameLen = pos[g + 1] - (pos[g] + PrefixBytes)
      /\ PrefixBytes + FrameLen <= Len(read_buf) =>
           Decode(SubSeq(read_buf, PrefixBytes + 1, PrefixBytes + FrameLen)) = sent[g + 1]
  BY <1>2, <1>3, <1>4, Front
<1>6. PICK c \in Nat, b \in Nat, k \in Nat : /\ c = pos[g] /\ b = pos[g + 1] /\ k = FrameLen
                                             /\ b = (c + PrefixBytes) + k
  <2>1. PICK c \in Nat, b \in Nat : c = pos[g] /\ b = pos[g + 1] /\ c + PrefixBytes <= b
    BY <1>5 DEF FrameAt
  <2>2. b - (c + PrefixBytes) \in Nat /\ b = (c + PrefixBytes) + (b - (c + PrefixBytes))
    BY <2>1, ConstantTypes
  <2>3. QED
    BY <1>5, <2>1, <2>2
<1>7. PICK q \in Nat : q = PrefixBytes + k /\ c + q = b
  BY <1>6, ConstantTypes
<1>8. PICK r, x, w : r = read_buf /\ x = wire /\ w = write_buf
  OBVIOUS
<1>9. /\ h \in Seq(Byte) /\ Lies(r, h, c) /\ Lies(x, h, c + Len(r)) /\ Lies(w, h, c + Len(r) + Len(x))
      /\ writer # "cut" => c + Len(r) + Len(x) + Len(w) = Len(h)
  BY <1>2, <1>3, <1>6, <1>8 DEF Framing, Unread
<1>10. r \in Seq(Byte) /\ Len(r) \in Nat /\ q \in 0..Len(r)
  BY <1>4, <1>6, <1>7, <1>8, PipeTypes
<1>11. PICK v : v = SubSeq(r, q + 1, Len(r)) /\ Lies(v, h, b) /\ Len(v) = Len(r) - q
  <2>1. Lies(SubSeq(r, q + 1, Len(r)), h, c + q) /\ Len(SubSeq(r, q + 1, Len(r))) = Len(r) - q
    BY <1>9, <1>10, LiesSplit
  <2>2. QED
    BY <1>7, <2>1
<1>12. PICK item : item = sent[g + 1]
  OBVIOUS
<1>13. /\ got' = Append(got, item) /\ read_buf' = v /\ wire' = x /\ write_buf' = w
       /\ UNCHANGED <<read_eof, writer, sent, seen>>
  <2>1. Decode(SubSeq(read_buf, PrefixBytes + 1, PrefixBytes + FrameLen)) = item
    <3>1. PrefixBytes + FrameLen <= Len(read_buf)
      BY <1>6, <1>7, <1>8, <1>10
    <3>2. QED
      BY <1>5, <1>12, <3>1
  <2>2. SubSeq(read_buf, PrefixBytes + FrameLen + 1, Len(read_buf)) = v
    BY <1>6, <1>7, <1>8, <1>11
  <2>3. QED
    BY <1>8, <2>1, <2>2 DEF TakeFrame
<1>14. PICK s \in Seq(Items), t \in Seq(Items) : s = sent /\ t = got
  BY PipeTypes
<1>15. item \in Items /\ Len(Append(t, item)) = g + 1
  <2>1. g + 1 \in 1..Len(s)
    BY <1>3, <1>5, <1>14
  <2>2. item \in Items
    BY <1>12, <1>14, <2>1
  <2>3. QED
    BY <1>3, <1>14, <2>2
<1>16. Unread(h, b)'
  <2>1. PICK i \in Nat, j \in Nat, l \in Nat : i = Len(r) /\ j = Len(x) /\ l = Len(v)
    <3>1. x \in Seq(Byte) /\ v \in Seq(Byte)
      BY <1>9, <1>11 DEF Lies
    <3>2. QED
      BY <1>10, <3>1
  <2>2. l = i - q
    BY <1>11, <2>1
  <2>3. b + l = c + i /\ b + l + j = c + i + j
    <3>1. c + q = b
      BY <1>7
    <3>2. QED
      BY <2>2, <3>1
  <2>4. b + Len(v) = c + Len(r) /\ b + Len(v) + Len(x) = c + Len(r) + Len(x)
    BY <2>1, <2>3
  <2>5. QED
    BY <1>9, <1>11, <1>13, <2>4 DEF Unread
<1>17. StreamInv'
  <2>1. pos[Len(got')] = b
    BY <1>6, <1>13, <1>14, <1>15
  <2>2. Framing(h, pos, sent') /\ Unread(h, pos[Len(got)])'
    BY <1>2, <1>13, <1>16, <2>1
  <2>3. QED
    BY <2>2 DEF StreamInv
<1>18. GotInv'
  <2>1. PICK u : u = Append(t, item)
    OBVIOUS
  <2>2. u \in Seq(Items) /\ Len(u) = g + 1 /\ u[g + 1] = item /\ \A i \in 1..g : u[i] = t[i]
    BY <1>3, <1>14, <1>15, <2>1
  <2>3. \A i \in 1..g : t[i] = s[i]
    BY <1>3, <1>14 DEF PipeInv, GotInv
  <2>4. \A i \in 1..(g + 1) : i = g + 1 \/ i \in 1..g
    OBVIOUS
  <2>5. \A i \in 1..(g + 1) : u[i] = s[i]
    BY <1>12, <1>14, <2>2, <2>3, <2>4
  <2>6. got' = u /\ sent' = s
    BY <1>13, <1>14, <2>1
  <2>7. g + 1 <= Len(s)
    BY <1>3, <1>5, <1>14
  <2>8. QED
    BY <2>2, <2>5, <2>6, <2>7 DEF GotInv
<1>19. EndInv'
  BY <1>8, <1>13 DEF PipeInv, EndInv
<1>20. item \notin TooBigItems
  <2>1. k <= ReaderMax
    BY <1>4, <1>6, ConstantTypes DEF Oversized
  <2>2. k > ReaderMax <=> item \in TooBigItems
    BY <1>5, <1>6, <1>12 DEF FrameAt
  <2>3. QED
    BY <2>1, <2>2, ConstantTypes
<1>21. P!Deliver
  BY <1>3, <1>4, <1>5, <1>12, <1>13, <1>20 DEF P!Deliver, P!Pending, P!NextItem, TooBigItems
<1>22. QED
  BY <1>1, <1>17, <1>18, <1>19, <1>21 DEF PipeInv

\* A length above the limit was written by a writer with a larger one:
\* ReportError.
LEMMA RefusePipes ==
  ASSUME PipeInv, Refuse
  PROVE  P!ReportError
<1>1. PICK h, pos : Framing(h, pos, sent) /\ Unread(h, pos[Len(got)])
  BY DEF PipeInv, StreamInv
<1>2. PICK g \in Nat, n \in Nat : g = Len(got) /\ n = Len(sent) /\ g <= n
  BY PipeTypes
<1>3. Prefixed /\ FrameLen > ReaderMax /\ seen = "no" /\ seen' = "error" /\ UNCHANGED <<sent, got, writer>>
  BY DEF Refuse, Oversized
<1>4. /\ g < n
      /\ FrameAt(h, pos[g], pos[g + 1], sent[g + 1])
      /\ FrameLen = pos[g + 1] - (pos[g] + PrefixBytes)
  BY <1>1, <1>2, <1>3, Front
<1>5. sent[g + 1] \in TooBigItems
  BY <1>3, <1>4 DEF FrameAt
<1>6. QED
  BY <1>2, <1>3, <1>4, <1>5 DEF P!ReportError, P!Pending, P!NextItem, TooBigItems

\* The end is clean only where nothing is missing, unless the stream was cut.
LEMMA AtEofPipes ==
  ASSUME PipeInv, AtEof
  PROVE  P!ReportEnd \/ P!ReportError
<1>1. /\ seen = "no" /\ NotYet /\ read_eof /\ UNCHANGED <<sent, got, writer>>
      /\ seen' = IF read_buf = <<>> THEN "end" ELSE "error"
  BY DEF AtEof
<1>2. CASE writer = "cut"
  BY <1>1, <1>2 DEF P!ReportEnd, P!ReportError
<1>3. CASE writer # "cut"
  <2>1. writer = "closed" /\ wire = <<>> /\ write_buf = <<>>
    BY <1>1, <1>3 DEF PipeInv, EndInv, BoundInv, BytesInv
  <2>2. PICK h, pos : Framing(h, pos, sent) /\ Unread(h, pos[Len(got)])
    BY DEF PipeInv, StreamInv
  <2>3. PICK g \in Nat, n \in Nat : g = Len(got) /\ n = Len(sent) /\ g <= n
    BY PipeTypes
  <2>4. PICK r \in Seq(Byte) : r = read_buf
    BY PipeTypes
  <2>5. PICK c \in Nat, i \in Nat : c = pos[g] /\ i = Len(r) /\ c + i = Len(h) /\ h \in Seq(Byte)
    <3>1. pos[g] + Len(r) + Len(wire) + Len(write_buf) = Len(h) /\ pos[g] \in Nat /\ h \in Seq(Byte)
      BY <1>3, <2>2, <2>3, <2>4 DEF Unread, Framing
    <3>2. Len(wire) = 0 /\ Len(write_buf) = 0
      BY <2>1
    <3>3. QED
      BY <2>4, <3>1, <3>2
  <2>6. g = n
    <3> SUFFICES ASSUME g < n PROVE FALSE
      BY <2>3
    <3>1. PICK j \in 1..n : j = g + 1 /\ j - 1 = g
      OBVIOUS
    <3>2. FrameAt(h, pos[j - 1], pos[j], sent[j])
      BY <2>2, <2>3 DEF Framing
    <3>3. PICK b \in Nat : b = pos[j] /\ c + PrefixBytes <= b /\ b <= Len(h)
      BY <2>5, <3>1, <3>2 DEF FrameAt
    <3>4. Prefixed
      BY <2>4, <2>5, <3>3, ConstantTypes DEF Prefixed
    <3>5. FrameLen = b - (c + PrefixBytes)
      BY <2>2, <2>3, <2>5, <3>1, <3>3, <3>4, Front
    <3>6. Len(read_buf) >= PrefixBytes + FrameLen
      <4>1. PrefixBytes + (b - (c + PrefixBytes)) = b - c /\ b - c <= i
        <5>1. PICK m \in Nat : m = PrefixBytes
          BY ConstantTypes
        <5>2. b <= c + i
          BY <2>5, <3>3, Zenon
        <5>3. m + (b - (c + m)) = b - c /\ b - c <= i
          BY <5>2
        <5>4. QED
          BY <5>1, <5>3
      <4>2. QED
        BY <2>4, <2>5, <3>3, <3>5, <4>1, ConstantTypes
    <3>7. QED
      BY <1>1, <3>4, <3>6 DEF NotYet, Whole
  <2>7. r = <<>>
    <3>1. c = Len(h)
      BY <2>2, <2>3, <2>5, <2>6 DEF Framing
    <3>2. i = 0
      BY <2>5, <3>1
    <3>3. Len(r) = 0
      BY <2>5, <3>2
    <3>4. QED
      BY <3>3
  <2>8. got = sent
    <3>1. PICK s \in Seq(Items), t \in Seq(Items) : s = sent /\ t = got
      BY PipeTypes
    <3>2. Len(s) = Len(t) /\ \A k \in 1..Len(t) : t[k] = s[k]
      BY <2>3, <2>6, <3>1 DEF PipeInv, GotInv
    <3>3. s = t
      BY <3>2
    <3>4. QED
      BY <3>1, <3>3
  <2>9. QED
    BY <1>1, <2>1, <2>4, <2>7, <2>8 DEF P!ReportEnd
<1>4. QED
  BY <1>2, <1>3

\* An action that leaves the bytes and the items alone.
LEMMA BytesStay ==
  ASSUME PipeInv, BoundInv', EndInv', UNCHANGED <<write_buf, wire, read_buf, sent, got>>,
         writer = "cut" => writer' = "cut"
  PROVE  PipeInv'
<1>1. PICK h, pos : Framing(h, pos, sent) /\ Unread(h, pos[Len(got)])
  BY DEF PipeInv, StreamInv
<1>2. Unread(h, pos[Len(got)])'
  BY <1>1 DEF Unread
<1>3. QED
  BY <1>1, <1>2, BytesMove

\* Both ways to start a send are steps of the pipe.
LEMMA StartPipes ==
  ASSUME PipeInv, BoundInv'
  PROVE  /\ \A m \in Messages : StartSend(m) => PipeInv' /\ P!Next
         /\ \A p \in Foreign : StartForeign(p) => PipeInv' /\ P!Next
<1>1. ASSUME NEW m \in Messages, StartSend(m) PROVE PipeInv' /\ P!Next
  <2>1. PICK e \in Seq(Byte) : e = Encode(m)
    BY EncodeTypes
  <2>2. m \in Items /\ m.kind # "fault"
    BY MessageTypes DEF Items
  <2>3. Len(e) <= WriterMax /\ Put(e, m)
    BY <1>1, <2>1 DEF StartSend
  <2>4. Decode(e) = m
    BY <2>1, MessagesRoundTrip
  <2>5. Len(e) > ReaderMax <=> m \in TooBigItems
    BY <2>1, <2>2 DEF TooBigItems
  <2>6. PipeInv' /\ P!Accept(m)
    BY <2>2, <2>3, <2>4, <2>5, PutPipes
  <2>7. QED
    BY <2>2, <2>6 DEF P!Next
<1>2. ASSUME NEW p \in Foreign, StartForeign(p) PROVE PipeInv' /\ P!Next
  <2>1. PICK d \in Items : d = Decode(p)
    BY DEF Items
  <2>2. /\ p \in Seq(Byte) /\ Len(p) <= WriterMax /\ Len(p) <= ReaderMax /\ d.kind = "fault"
    BY <2>1, ForeignTypes
  <2>3. Put(p, d)
    BY <1>2, <2>1 DEF StartForeign
  <2>4. Len(p) > ReaderMax <=> d \in TooBigItems
    <3>1. d \notin TooBigItems
      BY <2>2 DEF TooBigItems
    <3>2. ~(Len(p) > ReaderMax)
      BY <2>2, ConstantTypes
    <3>3. QED
      BY <3>1, <3>2
  <2>5. PipeInv' /\ P!Accept(d)
    BY <2>1, <2>2, <2>3, <2>4, PutPipes
  <2>6. QED
    BY <2>5 DEF P!Next
<1>3. QED
  BY <1>1, <1>2

\* Every step keeps the invariant and is a step of the pipe or a stutter.
LEMMA PipeStep ==
  ASSUME PipeInv, [Next]_vars
  PROVE  PipeInv' /\ [P!Next]_(P!vars)
<1>1. BoundInv'
  BY BoundStep DEF PipeInv
<1>2. ASSUME NEW m \in Messages, StartSend(m) PROVE PipeInv' /\ [P!Next]_(P!vars)
  BY <1>1, <1>2, StartPipes
<1>3. ASSUME NEW p \in Foreign, StartForeign(p) PROVE PipeInv' /\ [P!Next]_(P!vars)
  BY <1>1, <1>3, StartPipes
<1>4. CASE Write
  BY <1>4, FlushPipes DEF Write, P!vars
<1>5. CASE TakeFrame
  BY <1>5, TakeFramePipes DEF P!Next, P!Progress
<1>6. CASE Refuse
  <2>1. PipeInv'
    BY <1>1, <1>6, BytesStay DEF Refuse, PipeInv, EndInv
  <2>2. QED
    BY <1>6, <2>1, RefusePipes DEF P!Next, P!Progress
<1>7. CASE FillEof
  <2>1. PipeInv'
    BY <1>1, <1>7, BytesStay DEF FillEof, PipeInv, EndInv
  <2>2. QED
    BY <1>7, <2>1 DEF FillEof, P!vars
<1>8. CASE AtEof
  <2>1. PipeInv'
    BY <1>1, <1>8, BytesStay DEF AtEof, PipeInv, EndInv
  <2>2. QED
    BY <1>8, <2>1, AtEofPipes DEF P!Next, P!Progress
<1>9. ASSUME NEW n \in Arrived, Fill(n) PROVE PipeInv' /\ [P!Next]_(P!vars)
  BY <1>9, FillPipes DEF P!vars
<1>10. CASE Close
  <2>1. PipeInv'
    BY <1>1, <1>10, BytesStay DEF Close, PipeInv, EndInv
  <2>2. QED
    BY <1>10, <2>1 DEF Close, P!Next, P!Close
<1>11. CASE Cut
  BY <1>11, CutPipes DEF P!Next
<1>12. CASE UNCHANGED vars
  <2>1. PipeInv'
    BY <1>1, <1>12, BytesStay DEF vars, PipeInv, EndInv
  <2>2. QED
    BY <1>12, <2>1 DEF vars, P!vars
<1>13. QED
  BY <1>2, <1>3, <1>4, <1>5, <1>6, <1>7, <1>8, <1>9, <1>10, <1>11, <1>12 DEF Next, Read

\* The initial states are those of the pipe.
LEMMA PipeStart ==
  ASSUME Init
  PROVE  PipeInv /\ P!Init
<1>1. BoundInv
  BY BoundInit
<1>2. PICK e : e = <<>>
  OBVIOUS
<1>3. e \in Seq(Byte) /\ e \in Seq(Items) /\ Len(e) = 0
  BY <1>2
<1>4. write_buf = e /\ wire = e /\ read_buf = e /\ sent = e /\ got = e /\ ~read_eof /\ writer = "open"
  BY <1>2 DEF Init
<1>5. PICK p : p = [j \in 0..0 |-> 0]
  OBVIOUS
<1>6. p \in [0..0 -> Nat] /\ p[0] = 0
  BY <1>5
<1>7. Framing(e, p, e)
  BY <1>3, <1>6 DEF Framing
<1>8. Lies(e, e, 0)
  BY <1>3 DEF Lies
<1>9. Unread(e, 0)
  BY <1>3, <1>4, <1>8 DEF Unread
<1>10. StreamInv
  BY <1>3, <1>4, <1>6, <1>7, <1>9 DEF StreamInv
<1>11. GotInv /\ EndInv
  BY <1>3, <1>4 DEF GotInv, EndInv
<1>12. QED
  BY <1>1, <1>10, <1>11 DEF PipeInv, Init, P!Init

\* However the bytes are split, buffered and cut, the direction is the abstract
\* pipe: items arrive unchanged, in order and once, a close loses nothing, a
\* cut loses only a tail, an item over the reader's limit ends the stream in
\* an error, and a clean end is reported only on a frame boundary.
THEOREM DirectionIsPipe == SafeSpec => P!SafeSpec
<1>1. Init => PipeInv /\ P!Init
  BY PipeStart
<1>2. PipeInv /\ [Next]_vars => PipeInv' /\ [P!Next]_(P!vars)
  BY PipeStep
<1>3. QED
  BY <1>1, <1>2, PTL DEF SafeSpec, P!SafeSpec
================================================================================

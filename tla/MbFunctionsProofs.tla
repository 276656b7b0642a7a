------------------------- MODULE MbFunctionsProofs -------------------------
(***************************************************************************)
(* For every size of byte, every number of coils and every set of requests *)
(* whose multiple writes are padded with zeros: no write leaves the coil   *)
(* buffer or touches a coil it does not name, the lights show the coils, a *)
(* confirmed write has stored its values and a read returns the current    *)
(* ones.  And for every write, padded or not, the loop over its bytes is   *)
(* the one write that the handlers of the model make.                      *)
(***************************************************************************)
EXTENDS MbFunctions, WellFoundedInduction, TLAPS

----------------------------------------------------------------------------
(* About the operators.                                                    *)

(* The number of bytes of n bits is a natural number.                      *)
LEMMA BytesNat ==
  ASSUME NEW n \in Nat PROVE Bytes(n) \in Nat
<1>1. W \in Nat \ {0} BY FunctionsAssumption
<1>2. n \div W \in Nat BY <1>1, SMT
<1> QED BY <1>2 DEF Bytes

(* usRegAddress++ wraps to 0, which no callback accepts.                   *)
LEMMA AddressIs ==
  ASSUME NEW f \in Field, Address(f) >= 1
  PROVE  Address(f) = f + 1
<1>1. Ushort \in Nat /\ Ushort > 0 BY FunctionsAssumption
<1>2. f \in Nat /\ f < Ushort BY <1>1 DEF Field, Bits
<1>3. CASE f + 1 = Ushort
  <2>1. Address(f) = Ushort % Ushort BY <1>3 DEF Address
  <2>2. Ushort % Ushort = 0 BY <1>1, SMT
  <2> QED BY <2>1, <2>2
<1>4. CASE f + 1 < Ushort
  <2>1. (f + 1) % Ushort = f + 1 BY <1>1, <1>2, <1>4, SMT
  <2> QED BY <2>1 DEF Address
<1> QED BY <1>1, <1>2, <1>3, <1>4

(* A padded write leaves the bits outside its span as they are.            *)
LEMMA WriteCoilsSpan ==
  ASSUME NEW buf, NEW index \in Nat, NEW n \in Nat, NEW data,
         \A k \in 1..Bytes(n) : data[k] \subseteq Nat,
         \A k \in 1..Bytes(n) : \A i \in data[k] : W * (k - 1) + i < n
  PROVE  \A c : c \notin index..(index + n - 1) =>
                  (c \in WriteCoils(buf, index, n, data) <=> c \in buf)
<1> DEFINE New == UNION {{index + W * (k - 1) + i : i \in data[k]} : k \in 1..Bytes(n)}
<1>1. New \subseteq index..(index + n - 1)
  <2> SUFFICES ASSUME NEW k \in 1..Bytes(n), NEW i \in data[k]
               PROVE  index + W * (k - 1) + i \in index..(index + n - 1)
    OBVIOUS
  <2>1. k - 1 \in Nat /\ W \in Nat BY FunctionsAssumption, BytesNat
  <2>2. W * (k - 1) \in Nat BY <2>1, SMT
  <2>3. i \in Nat /\ W * (k - 1) + i < n OBVIOUS
  <2> QED BY <2>2, <2>3
<1>2. WriteCoils(buf, index, n, data) = (buf \ (index..(index + n - 1))) \cup New
  BY DEF WriteCoils
<1> QED BY <1>1, <1>2

(* Quotient and remainder.                                                 *)
LEMMA Quotient ==
  ASSUME NEW o \in Int, NEW w \in Int, w > 0
  PROVE  o = w * (o \div w) + (o % w)
BY SMTT(60)

(* Division by the width of a byte.                                        *)
LEMMA Division ==
  ASSUME NEW o \in Nat
  PROVE  /\ o \div W \in Nat /\ o % W \in 0..(W - 1)
         /\ o = W * (o \div W) + (o % W)
<1>1. W \in Nat \ {0} BY FunctionsAssumption
<1>2. o \div W \in Nat BY <1>1, SMT
<1>3. o % W \in 0..(W - 1) BY <1>1, SMT
<1>4. o = W * (o \div W) + (o % W) BY <1>1, Quotient
<1>. QED  BY <1>2, <1>3, <1>4

(* A smaller multiple of the width is smaller by a byte.                   *)
LEMMA Multiples ==
  ASSUME NEW p \in Nat, NEW q \in Nat, p < q
  PROVE  W * p + W <= W * q /\ W * p \in Nat /\ W * q \in Nat
<1>1. W \in Nat \ {0} BY FunctionsAssumption
<1>2. PICK d \in Nat : q = p + 1 + d
  <2>1. q - (p + 1) \in Nat OBVIOUS
  <2>2. q = p + 1 + (q - (p + 1)) OBVIOUS
  <2>. QED  BY <2>1, <2>2
<1>3. W * q = W * p + W + W * d BY <1>1, <1>2, SMT
<1>4. W * d \in Nat /\ W * p \in Nat /\ W * q \in Nat BY <1>1, SMT
<1>. QED  BY <1>1, <1>3, <1>4

(* A position in a byte, from the byte and from the front.                 *)
LEMMA Position ==
  ASSUME NEW q \in Nat, NEW i \in 0..(W - 1)
  PROVE  (W * q + i) \div W = q /\ (W * q + i) % W = i
<1>1. W \in Nat \ {0} BY FunctionsAssumption
<1>2. W * q + i \in Nat BY <1>1, SMT
<1>. DEFINE o == W * q + i
            p == o \div W
            j == o % W
<1>3. p \in Nat /\ j \in 0..(W - 1) /\ W * p + j = W * q + i /\ W * p \in Nat /\ W * q \in Nat
  <2>1. W * p \in Nat /\ W * q \in Nat
    <3>1. p \in Nat BY <1>2, Division
    <3>. QED  BY <1>1, <3>1, SMT
  <2>. QED  BY <1>2, <2>1, Division
<1>. HIDE DEF p, j, o
<1>4. ~(p < q) BY <1>1, <1>3, Multiples
<1>5. ~(q < p) BY <1>1, <1>3, Multiples
<1>6. p = q BY <1>3, <1>4, <1>5
<1>7. j = i BY <1>3, <1>6
<1>. QED  BY <1>6, <1>7 DEF p, j, o

(* The bytes of n bits hold the first n bits, and each has some of them.   *)
LEMMA BytesHold ==
  ASSUME NEW n \in Nat, NEW q \in Nat
  PROVE  q + 1 \in 1..Bytes(n) <=> W * q < n
<1>1. W \in Nat \ {0} BY FunctionsAssumption
<1>. DEFINE p == n \div W
            j == n % W
<1>2. p \in Nat /\ j \in 0..(W - 1) /\ n = W * p + j BY Division
<1>3. Bytes(n) = IF j # 0 THEN p + 1 ELSE p BY DEF Bytes
<1>. HIDE DEF p, j
<1>4. W * q \in Nat /\ W * p \in Nat BY <1>1, <1>2, SMT
<1>5. CASE q < p
  BY <1>1, <1>2, <1>3, <1>4, <1>5, Multiples
<1>6. CASE q = p
  BY <1>1, <1>2, <1>3, <1>4, <1>6
<1>7. CASE p < q
  <2>1. W * p + W <= W * q BY <1>2, <1>7, Multiples
  <2>. QED  BY <1>1, <1>2, <1>3, <1>4, <1>7, <2>1
<1>. QED  BY <1>2, <1>5, <1>6, <1>7

(* A set that has 0, and with each number the next, has them all.          *)
LEMMA Inductive ==
  ASSUME NEW S, 0 \in S, \A n \in Nat : n \in S => n + 1 \in S
  PROVE  Nat \subseteq S
<1>. DEFINE R == OpToRel(<, Nat)
            T == Nat \ S
<1>1. IsWellFoundedOn(R, Nat)
  BY NatLessThanWellFounded
<1>2. \A x, y \in Nat : x < y => <<x, y>> \in R
  BY DEF OpToRel
<1>. HIDE DEF R
<1>3. SUFFICES ASSUME T # {} PROVE FALSE
  OBVIOUS
<1>4. PICK x \in T : \A y \in T : <<y, x>> \notin R
  BY <1>1, <1>3, WFMin
<1>5. x \in Nat /\ x # 0 /\ x - 1 \in Nat
  BY <1>4
<1>6. x - 1 \in T
  BY <1>4, <1>5
<1>7. <<x - 1, x>> \in R
  BY <1>2, <1>5
<1>. QED  BY <1>4, <1>6, <1>7

(* Before byte k of a request there are W * (k - 1) bits, and byte k holds *)
(* the next W, or what is left of the n.                                   *)
LEMMA ChunkIs ==
  ASSUME NEW n \in Nat, NEW k \in 1..Bytes(n)
  PROVE  \E o \in Nat :
           /\ o = W * (k - 1) /\ o < n
           /\ Chunk(n, k) = IF k = Bytes(n) THEN n - o ELSE W
           /\ k # Bytes(n) => o + W = W * k /\ o + W < n
           /\ k = Bytes(n) => n <= o + W
<1>1. W \in Nat \ {0} /\ Bytes(n) \in Nat BY FunctionsAssumption, BytesNat
<1>2. PICK q \in Nat : k = q + 1
  <2>1. k - 1 \in Nat /\ k = (k - 1) + 1 BY <1>1
  <2>. QED  BY <2>1
<1>3. W * q \in Nat BY <1>1, <1>2, SMT
<1>4. W * (q + 1) = W * q + W BY <1>1, <1>2, SMT
<1>5. W * q < n BY <1>2, BytesHold
<1>6. k # Bytes(n) => W * (q + 1) < n
  <2>1. k # Bytes(n) => q + 1 \in Nat /\ (q + 1) + 1 \in 1..Bytes(n) BY <1>1, <1>2
  <2>. QED  BY <2>1, BytesHold
<1>7. k = Bytes(n) => ~(W * (q + 1) < n)
  <2>1. q + 1 \in Nat BY <1>2
  <2>2. k = Bytes(n) => ~((q + 1) + 1 \in 1..Bytes(n)) BY <1>1, <1>2
  <2>. QED  BY <2>1, <2>2, BytesHold
<1>8. PICK o \in Nat : o = W * q BY <1>3
<1>9. k - 1 = q BY <1>2
<1>10. Chunk(n, k) = IF n - o > W THEN W ELSE n - o BY <1>8, <1>9 DEF Chunk
<1>11. W * k = o + W BY <1>2, <1>4, <1>8
<1>12. k # Bytes(n) => o + W < n BY <1>4, <1>6, <1>8
<1>13. k = Bytes(n) => n <= o + W BY <1>1, <1>4, <1>7, <1>8
<1>14. Chunk(n, k) = IF k = Bytes(n) THEN n - o ELSE W BY <1>1, <1>10, <1>12, <1>13
<1>. QED  BY <1>5, <1>8, <1>9, <1>11, <1>12, <1>13, <1>14

\* The number of bits, and the bits that are set, in the first k bytes of n bits at index.
UpTo(n, k) == IF k = Bytes(n) THEN n ELSE W * k
Stored(index, data, k) == UNION {{index + W * (j - 1) + i : i \in data[j]} : j \in 1..k}

(* The first k bytes, stored as one field.                                 *)
AsOneField(buf, index, n, data, k) ==
  (buf \ (index..(index + UpTo(n, k) - 1))) \cup Stored(index, data, k)

(* One more turn of the loop is one more byte of the field: what was       *)
(* stored before lies below the bits that the turn clears.                 *)
LEMMA LoopTurn ==
  ASSUME NEW buf, NEW index \in Nat, NEW n \in Nat, NEW data,
         \A k \in 1..Bytes(n) : data[k] \in Byte,
         NEW k \in 1..Bytes(n)
  PROVE  AsOneField(buf, index, n, data, k)
           = xMBUtilSetBits(AsOneField(buf, index, n, data, k - 1),
                            index + W * (k - 1), Chunk(n, k), data[k])
<1>1. W \in Nat \ {0} /\ Bytes(n) \in Nat /\ k \in Nat /\ k - 1 \in Nat
  BY FunctionsAssumption, BytesNat
<1>2. PICK o \in Nat :
        /\ o = W * (k - 1) /\ o < n
        /\ Chunk(n, k) = IF k = Bytes(n) THEN n - o ELSE W
        /\ k # Bytes(n) => o + W = W * k /\ o + W < n
  BY ChunkIs
<1>3. UpTo(n, k - 1) = o BY <1>1, <1>2 DEF UpTo
<1>4. PICK c \in Nat : c = Chunk(n, k) BY <1>1, <1>2
<1>5. UpTo(n, k) = o + c BY <1>1, <1>2, <1>4 DEF UpTo
<1>. DEFINE Old == Stored(index, data, k - 1)
            New == {index + W * (k - 1) + i : i \in data[k]}
<1>6. Stored(index, data, k) = Old \cup New
  <2>1. 1..k = 1..(k - 1) \cup {k} BY <1>1
  <2>. QED  BY <2>1 DEF Stored
<1>7. \A x \in Old : x \in Int /\ x < index + o
  <2>. SUFFICES ASSUME NEW j \in 1..(k - 1), NEW i \in data[j]
                PROVE  index + W * (j - 1) + i \in Int /\ index + W * (j - 1) + i < index + o
    BY DEF Stored
  <2>1. j \in 1..Bytes(n) /\ j # Bytes(n) BY <1>1
  <2>2. i \in 0..(W - 1) BY <2>1 DEF Byte, Bits
  <2>3. PICK p \in Nat : p = W * (j - 1) /\ p + W = W * j BY <2>1, ChunkIs
  <2>4. W * j <= W * (k - 1)
    <3>1. PICK d \in Nat : k - 1 = j + d
      <4>1. (k - 1) - j \in Nat /\ k - 1 = j + ((k - 1) - j) BY <1>1
      <4>. QED  BY <4>1
    <3>2. W * (j + d) = W * j + W * d /\ W * d \in Nat /\ W * j \in Nat BY <1>1, SMT
    <3>. QED  BY <3>1, <3>2
  <2>. QED  BY <1>1, <1>2, <2>2, <2>3, <2>4
<1>8. index..(index + (o + c) - 1)
        = (index..(index + o - 1)) \cup ((index + o)..(index + o + c - 1))
  OBVIOUS
<1>9. \A x \in Old : x \notin (index + o)..(index + o + c - 1) BY <1>7
<1>. HIDE DEF Old, New
<1>10. AsOneField(buf, index, n, data, k)
         = (buf \ ((index..(index + o - 1)) \cup ((index + o)..(index + o + c - 1))))
             \cup Old \cup New
  BY <1>5, <1>6, <1>8 DEF AsOneField
<1>11. AsOneField(buf, index, n, data, k - 1) = (buf \ (index..(index + o - 1))) \cup Old
  BY <1>3 DEF AsOneField, Old
<1>12. xMBUtilSetBits(AsOneField(buf, index, n, data, k - 1),
                      index + W * (k - 1), Chunk(n, k), data[k])
         = (AsOneField(buf, index, n, data, k - 1) \ ((index + o)..(index + o + c - 1)))
             \cup New
  BY <1>2, <1>4 DEF xMBUtilSetBits, New
<1>. QED  BY <1>9, <1>10, <1>11, <1>12

(* For every buffer and every request with all its bytes, padded or not,   *)
(* the byte-wise loop of eMBRegCoilsCB writes the coils as one field: the  *)
(* handlers are modelled by that one write.                                *)
THEOREM LoopIsOneWrite ==
  ASSUME NEW buf, NEW index \in Nat, NEW n \in Nat, NEW data,
         \A k \in 1..Bytes(n) : data[k] \in Byte
  PROVE  WriteLoop(buf, index, n, data) = WriteCoils(buf, index, n, data)
<1>. DEFINE B == Bytes(n)
            G(k) == AsOneField(buf, index, n, data, k)
            Turn(b, k) == xMBUtilSetBits(b, index + W * (k - 1), Chunk(n, k), data[k])
            f == CHOOSE h : h = [k \in 0..B |-> IF k = 0 THEN buf ELSE Turn(h[k - 1], k)]
            g == [k \in 0..B |-> G(k)]
<1>1. W \in Nat \ {0} /\ B \in Nat BY FunctionsAssumption, BytesNat
<1>2. WriteLoop(buf, index, n, data) = f[B] BY DEF WriteLoop
<1>3. G(0) = buf
  <2>1. UpTo(n, 0) = 0
    <3>1. CASE B = 0
      <4>1. ~(W * 0 < n) BY <1>1, <3>1, BytesHold
      <4>2. W * 0 = 0 BY <1>1
      <4>. QED  BY <3>1, <4>1, <4>2 DEF UpTo
    <3>2. CASE B # 0 BY <1>1, <3>2 DEF UpTo
    <3>. QED  BY <3>1, <3>2
  <2>2. Stored(index, data, 0) = {} BY DEF Stored
  <2>. QED  BY <2>1, <2>2 DEF AsOneField
<1>4. \A k \in 1..B : G(k) = Turn(G(k - 1), k) BY LoopTurn
<1>5. G(B) = WriteCoils(buf, index, n, data) BY DEF AsOneField, UpTo, Stored, WriteCoils
<1>. HIDE DEF G, Turn, B
<1>6. g = [k \in 0..B |-> IF k = 0 THEN buf ELSE Turn(g[k - 1], k)]
  <2>1. \A k \in 0..B : k # 0 => k \in 1..B /\ g[k - 1] = G(k - 1) BY <1>1
  <2>2. \A k \in 0..B : G(k) = IF k = 0 THEN buf ELSE Turn(g[k - 1], k) BY <1>3, <1>4, <2>1
  <2>. HIDE DEF g
  <2>3. g = [k \in 0..B |-> G(k)] BY DEF g
  <2>. QED  BY <2>2, <2>3
<1>. HIDE DEF g
<1>7. f = [k \in 0..B |-> IF k = 0 THEN buf ELSE Turn(f[k - 1], k)] BY <1>6
<1>. HIDE DEF f
<1>8. f[B] = G(B)
  <2>. DEFINE S == {k \in Nat : k \in 0..B => f[k] = G(k)}
  <2>1. 0 \in S BY <1>1, <1>3, <1>7
  <2>2. ASSUME NEW k \in Nat, k \in S PROVE k + 1 \in S
    <3>. SUFFICES ASSUME k + 1 \in 0..B PROVE f[k + 1] = G(k + 1) OBVIOUS
    <3>1. k \in 0..B /\ k + 1 \in 1..B /\ (k + 1) - 1 = k BY <1>1
    <3>2. f[k + 1] = Turn(f[k], k + 1) BY <1>7, <3>1
    <3>3. G(k + 1) = Turn(G(k), k + 1) BY <1>4, <3>1
    <3>. QED  BY <2>2, <3>1, <3>2, <3>3
  <2>. HIDE DEF S
  <2>3. Nat \subseteq S BY <2>1, <2>2, Inductive
  <2>. QED  BY <1>1, <2>3 DEF S
<1>. QED  BY <1>2, <1>5, <1>8

(* A padded write stores bit i of byte k of the request at W * (k - 1) + i. *)
LEMMA WriteCoilsBits ==
  ASSUME NEW buf, NEW index \in Nat, NEW n \in Nat, NEW data,
         \A k \in 1..Bytes(n) : data[k] \in Byte,
         NEW o \in Bits(n)
  PROVE  index + o \in WriteCoils(buf, index, n, data) <=> o % W \in data[(o \div W) + 1]
<1>1. W \in Nat \ {0} /\ Bytes(n) \in Nat BY FunctionsAssumption, BytesNat
<1>2. o \in Nat /\ o < n BY DEF Bits
<1>3. index + o \in index..(index + n - 1) BY <1>2
<1>4. index + o \in WriteCoils(buf, index, n, data)
        <=> \E k \in 1..Bytes(n) : \E i \in data[k] : index + o = index + W * (k - 1) + i
  BY <1>3 DEF WriteCoils
<1>5. ASSUME NEW k \in 1..Bytes(n), NEW i \in data[k], index + o = index + W * (k - 1) + i
      PROVE  o % W \in data[(o \div W) + 1]
  <2>1. i \in 0..(W - 1) BY DEF Byte, Bits
  <2>2. k - 1 \in Nat BY <1>1
  <2>3. W * (k - 1) \in Nat BY <1>1, <2>2, SMT
  <2>4. o = W * (k - 1) + i BY <1>1, <1>2, <1>5, <2>1, <2>3
  <2>5. o \div W = k - 1 /\ o % W = i BY <2>1, <2>2, <2>4, Position
  <2>6. (o \div W) + 1 = k BY <1>1, <2>5
  <2>. QED  BY <2>5, <2>6
<1>6. ASSUME o % W \in data[(o \div W) + 1]
      PROVE  \E k \in 1..Bytes(n) : \E i \in data[k] : index + o = index + W * (k - 1) + i
  <2>. DEFINE q == o \div W
              j == o % W
  <2>1. q \in Nat /\ j \in 0..(W - 1) /\ o = W * q + j BY <1>2, Division
  <2>2. j \in data[q + 1] BY <1>6
  <2>. HIDE DEF q, j
  <2>3. W * q \in Nat BY <1>1, <2>1, SMT
  <2>4. W * q < n BY <1>1, <1>2, <2>1, <2>3
  <2>5. q + 1 \in 1..Bytes(n) BY <2>1, <2>4, BytesHold
  <2>6. PICK k \in 1..Bytes(n) : k = q + 1 BY <2>5
  <2>7. k - 1 = q BY <2>1, <2>6
  <2>8. index + o = index + W * (k - 1) + j BY <1>1, <2>1, <2>3, <2>7
  <2>9. j \in data[k] BY <2>2, <2>6
  <2>. QED  BY <2>8, <2>9
<1>. QED  BY <1>4, <1>5, <1>6

(* The bytes of a read hold the bits that are set, and only those.         *)
LEMMA ReadBitsAre ==
  ASSUME NEW buf, NEW index \in Nat, NEW n \in Nat
  PROVE  LET data == ReadBits(buf, index, n) IN
         UNION {{W * (k - 1) + i : i \in data[k]} : k \in DOMAIN data}
           = {o \in Bits(n) : index + o \in buf}
<1>1. W \in Nat \ {0} /\ Bytes(n) \in Nat BY FunctionsAssumption, BytesNat
<1>. DEFINE data == ReadBits(buf, index, n)
<1>2. DOMAIN data = 1..Bytes(n) BY DEF ReadBits
<1>3. \A k \in 1..Bytes(n) : data[k] = {i \in Bits(Chunk(n, k)) : index + W * (k - 1) + i \in buf}
  BY DEF ReadBits, xMBUtilGetBits
<1>4. ASSUME NEW k \in 1..Bytes(n)
      PROVE  /\ W * (k - 1) \in Nat /\ Chunk(n, k) \in Nat
             /\ Chunk(n, k) <= W /\ Chunk(n, k) <= n - W * (k - 1)
             /\ Chunk(n, k) = W \/ Chunk(n, k) = n - W * (k - 1)
  <2>1. k - 1 \in Nat /\ (k - 1) + 1 = k BY <1>1
  <2>2. W * (k - 1) \in Nat BY <1>1, <2>1, SMT
  <2>3. W * (k - 1) < n BY <2>1, BytesHold
  <2>. QED  BY <1>1, <2>2, <2>3 DEF Chunk
<1>. HIDE DEF data
<1>5. ASSUME NEW k \in 1..Bytes(n), NEW i \in data[k]
      PROVE  W * (k - 1) + i \in Bits(n) /\ index + (W * (k - 1) + i) \in buf
  <2>1. i \in Bits(Chunk(n, k)) /\ index + W * (k - 1) + i \in buf BY <1>3
  <2>2. i \in Nat /\ i < Chunk(n, k) BY <1>4, <2>1 DEF Bits
  <2>3. W * (k - 1) + i \in Nat /\ W * (k - 1) + i < n BY <1>1, <1>4, <2>2
  <2>4. index + W * (k - 1) + i = index + (W * (k - 1) + i) BY <1>4, <2>2
  <2>. QED  BY <2>1, <2>3, <2>4 DEF Bits
<1>6. ASSUME NEW o \in Bits(n), index + o \in buf
      PROVE  \E k \in 1..Bytes(n) : \E i \in data[k] : o = W * (k - 1) + i
  <2>. DEFINE q == o \div W
              j == o % W
  <2>0. o \in Nat /\ o < n BY DEF Bits
  <2>1. q \in Nat /\ j \in 0..(W - 1) /\ o = W * q + j BY <2>0, Division
  <2>. HIDE DEF q, j
  <2>3. W * q \in Nat BY <1>1, <2>1, SMT
  <2>4. W * q < n BY <1>1, <2>0, <2>1, <2>3
  <2>5. q + 1 \in 1..Bytes(n) BY <2>1, <2>4, BytesHold
  <2>6. PICK k \in 1..Bytes(n) : k = q + 1 BY <2>5
  <2>7. k - 1 = q BY <2>1, <2>6
  <2>8. j \in Bits(Chunk(n, k))
    <3>1. j \in Nat /\ j < W /\ j < n - W * q BY <1>1, <2>0, <2>1, <2>3
    <3>2. Chunk(n, k) \in Nat /\ (Chunk(n, k) = W \/ Chunk(n, k) = n - W * q) BY <1>4, <2>7
    <3>. QED  BY <3>1, <3>2 DEF Bits
  <2>9. index + W * (k - 1) + j = index + o BY <2>1, <2>3, <2>7
  <2>10. index + W * (k - 1) + j \in buf BY <1>6, <2>9
  <2>11. j \in data[k] BY <1>3, <2>8, <2>10
  <2>. QED  BY <2>1, <2>7, <2>11
<1>7. UNION {{W * (k - 1) + i : i \in data[k]} : k \in 1..Bytes(n)}
        = {o \in Bits(n) : index + o \in buf}
  BY <1>5, <1>6
<1>. QED  BY <1>2, <1>7 DEF data

(* A write of registers stores them.                                       *)
LEMMA WriteRegsStores ==
  ASSUME NEW field \in Field, NEW n \in Nat, NEW data, NEW regs, NEW o \in Bits(n),
         InRange(Address(field), n, NRegs)
  PROVE  WriteRegs(regs, Address(field), n, data)[field + o] = data[o + 1]
<1>1. Address(field) = field + 1 BY AddressIs DEF InRange
<1>2. NRegs \in Nat /\ field \in Nat /\ o \in Nat /\ o < n
  BY FunctionsAssumption DEF Field, Bits
<1>3. field + o \in Bits(NRegs) BY <1>1, <1>2 DEF InRange, Bits
<1>4. field + o \in (Address(field) - 1)..(Address(field) + n - 2) BY <1>1, <1>2
<1>5. (field + o) - Address(field) + 2 = o + 1 BY <1>1, <1>2
<1>. QED  BY <1>3, <1>4, <1>5 DEF WriteRegs

(* A read of registers returns them.                                       *)
LEMMA ReadRegsAre ==
  ASSUME NEW field \in Field, NEW n \in Nat, NEW regs, Address(field) >= 1
  PROVE  ReadRegs(regs, Address(field), n) = [k \in 1..n |-> regs[field + k - 1]]
<1>1. Address(field) = field + 1 /\ field \in Nat
  BY AddressIs, FunctionsAssumption DEF Field, Bits
<1>2. \A k \in 1..n : Address(field) - 1 + k - 1 = field + k - 1 BY <1>1
<1>. QED  BY <1>2 DEF ReadRegs

----------------------------------------------------------------------------
(* What the two handlers that write coils do, in the terms of the          *)
(* properties: a padded write of the bits of a request it accepted.        *)
Written(r) ==
  /\ Named(r) \subseteq Bits(NCoils)
  /\ reply'.ex = "NONE"
  /\ \A c : c \notin Named(r) => (c \in usRegCoilBuf' <=> c \in usRegCoilBuf)
  /\ lights' = [c \in Lights |-> IF c \in Named(r) THEN (IF c \in usRegCoilBuf' THEN "on" ELSE "off")
                                 ELSE lights[c]]

Refused == UNCHANGED <<usRegCoilBuf, lights>>

(* A single write is a padded write of one bit.                            *)
LEMMA WriteCoilStep ==
  ASSUME NEW r \in Requests, eMBFuncWriteCoil(r)
  PROVE  request' = r /\ r.fn \in CoilWrite /\ (Written(r) \/ Refused)
<1> DEFINE a == Address(r.addr)
           data == <<IF r.value = "on" THEN {0} ELSE {}>>
<1>1. request' = r /\ r.fn = "WRITE_SINGLE_COIL" BY DEF eMBFuncWriteCoil, Take
<1>2. r \in Request BY FunctionsAssumption
<1>3. r.addr \in Field BY <1>1, <1>2 DEF Request, ReadFn
<1>4. ASSUME ~Refused PROVE Written(r)
  <2>1. /\ r.len = 5 /\ r.value \in {"on", "off"}
        /\ InRange(a, 1, NCoils)
        /\ usRegCoilBuf' = WriteCoils(usRegCoilBuf, a - 1, 1, data)
        /\ lights' = Process(WriteCoils(usRegCoilBuf, a - 1, 1, data), a, 1)
    BY <1>4 DEF eMBFuncWriteCoil, Refused
  <2>2. reply'.ex = "NONE" BY <2>1 DEF eMBFuncWriteCoil, Answer
  <2>3. a = r.addr + 1 BY <1>3, <2>1, AddressIs DEF InRange
  <2>4. NCoils \in Nat /\ r.addr \in Nat /\ W \in Nat \ {0} BY <1>3, FunctionsAssumption DEF Field, Bits
  <2>5. Named(r) = {r.addr} /\ Named(r) = (a - 1)..(a + 1 - 2) /\ r.addr < NCoils
    BY <1>1, <2>1, <2>3, <2>4 DEF Named, InRange
  <2>6. Bytes(1) = 1
    <3>1. CASE W = 1
      <4>1. 1 % 1 = 0 /\ 1 \div 1 = 1 BY SMT
      <4> QED BY <3>1, <4>1 DEF Bytes
    <3>2. CASE W > 1
      <4>1. 1 % W = 1 /\ 1 \div W = 0 BY <2>4, <3>2, SMT
      <4> QED BY <4>1 DEF Bytes
    <3> QED BY <2>4, <3>1, <3>2
  <2>7. usRegCoilBuf' = (usRegCoilBuf \ {r.addr}) \cup (IF r.value = "on" THEN {r.addr} ELSE {})
    <3>1. (a - 1)..(a - 1 + 1 - 1) = {r.addr} BY <2>3, <2>4
    <3>2. UNION {{a - 1 + W * (k - 1) + i : i \in data[k]} : k \in 1..1}
            = {a - 1 + W * 0 + i : i \in data[1]}
      OBVIOUS
    <3>3. W * 0 = 0 BY <2>4, SMT
    <3>4. {a - 1 + W * 0 + i : i \in data[1]} = IF r.value = "on" THEN {r.addr} ELSE {}
      BY <2>3, <2>4, <3>3
    <3> QED BY <2>1, <2>6, <3>1, <3>2, <3>4 DEF WriteCoils
  <2>8. lights' = [c \in Lights |-> IF c \in Named(r) THEN (IF c \in usRegCoilBuf' THEN "on" ELSE "off")
                                    ELSE lights[c]]
    BY <2>1, <2>5 DEF Process
  <2>9. Named(r) \subseteq Bits(NCoils) BY <2>4, <2>5 DEF Bits
  <2>10. \A c : c \notin Named(r) => (c \in usRegCoilBuf' <=> c \in usRegCoilBuf)
    <3>1. \A c : c # r.addr => (c \in usRegCoilBuf' <=> c \in usRegCoilBuf) BY <2>7
    <3> QED BY <2>5, <3>1
  <2> QED BY <2>2, <2>8, <2>9, <2>10 DEF Written
<1> QED BY <1>1, <1>4 DEF CoilWrite

(* So is a multiple write of a padded request.                             *)
LEMMA WriteMultipleStep ==
  ASSUME PaddedRequests, NEW r \in Requests, eMBFuncWriteMultipleCoils(r)
  PROVE  request' = r /\ r.fn \in CoilWrite /\ (Written(r) \/ Refused)
<1> DEFINE a == Address(r.addr)
           buf == WriteCoils(usRegCoilBuf, a - 1, r.cnt, r.data)
<1>1. request' = r /\ r.fn = "WRITE_MULTIPLE_COILS" BY DEF eMBFuncWriteMultipleCoils, Take
<1>2. r \in Request BY FunctionsAssumption
<1>3. r.addr \in Field /\ r.cnt \in Field /\ r.data \in Seq(Byte) BY <1>1, <1>2 DEF Request, ReadFn
<1>4. ASSUME ~Refused PROVE Written(r)
  <2>1. /\ r.len > 5 /\ r.cnt >= 1 /\ r.cnt <= CoilWriteMax /\ Bytes(r.cnt) % Uchar = r.bytes
        /\ InRange(a, r.cnt, NCoils)
        /\ usRegCoilBuf' = buf
        /\ lights' = Process(buf, a, r.cnt)
    BY <1>4 DEF eMBFuncWriteMultipleCoils, Refused
  <2>2. reply'.ex = "NONE" BY <2>1 DEF eMBFuncWriteMultipleCoils, Answer
  <2>3. a = r.addr + 1 BY <1>3, <2>1, AddressIs DEF InRange
  <2>4. NCoils \in Nat /\ r.addr \in Nat /\ r.cnt \in Nat
    BY <1>3, FunctionsAssumption DEF Field, Bits
  <2>5. /\ Named(r) = (a - 1)..(a - 1 + r.cnt - 1)
        /\ Named(r) = (a - 1)..(a + r.cnt - 2)
        /\ r.addr + r.cnt <= NCoils
    <3>1. Named(r) = r.addr..(r.addr + r.cnt - 1) BY <1>1 DEF Named
    <3>2. /\ a - 1 = r.addr
          /\ r.addr + r.cnt - 1 = a - 1 + r.cnt - 1
          /\ r.addr + r.cnt - 1 = a + r.cnt - 2
      BY <2>3, <2>4
    <3>3. r.addr + r.cnt <= NCoils
      <4>1. a + r.cnt <= 1 + NCoils BY <2>1 DEF InRange
      <4>2. r.addr + 1 + r.cnt <= 1 + NCoils BY <2>3, <4>1
      <4> QED BY <2>4, <4>2
    <3> QED BY <3>1, <3>2, <3>3
  <2>6. \A k \in 1..Bytes(r.cnt) : r.data[k] \subseteq Nat
    <3> TAKE k \in 1..Bytes(r.cnt)
    <3>1. k \in 1..Len(r.data)
      <4>1. Bytes(r.cnt) <= Len(r.data) BY <1>1 DEF PaddedRequests
      <4>2. Bytes(r.cnt) \in Nat BY <2>4, BytesNat, Zenon
      <4>3. Len(r.data) \in Nat BY <1>3
      <4> QED BY <4>1, <4>2, <4>3
    <3>2. r.data[k] \in Byte BY <1>3, <3>1
    <3> QED BY <3>2, FunctionsAssumption DEF Byte, Bits
  <2>7. \A k \in 1..Bytes(r.cnt) : \A i \in r.data[k] : W * (k - 1) + i < r.cnt
    BY <1>1 DEF PaddedRequests
  <2>8. \A c : c \notin Named(r) => (c \in usRegCoilBuf' <=> c \in usRegCoilBuf)
    <3>1. a - 1 \in Nat BY <2>3, <2>4
    <3>2. \A c : c \notin (a - 1)..(a - 1 + r.cnt - 1) => (c \in buf <=> c \in usRegCoilBuf)
      BY <2>4, <2>6, <2>7, <3>1, WriteCoilsSpan
    <3> QED BY <2>1, <2>5, <3>2
  <2>9. Named(r) \subseteq Bits(NCoils) BY <2>3, <2>4, <2>5 DEF Bits
  <2>10. lights' = [c \in Lights |-> IF c \in Named(r) THEN (IF c \in usRegCoilBuf' THEN "on" ELSE "off")
                                     ELSE lights[c]]
    BY <2>1, <2>5 DEF Process
  <2> QED BY <2>2, <2>8, <2>9, <2>10 DEF Written
<1> QED BY <1>1, <1>4 DEF CoilWrite

(* Every other handler leaves the coils and the lights alone.              *)
LEMMA CoilStep ==
  ASSUME PaddedRequests, [Next]_vars
  PROVE  Refused \/ (request'.fn \in CoilWrite /\ Written(request'))
<1>1. CASE UNCHANGED vars BY <1>1 DEF vars, Refused
<1>2. ASSUME NEW r \in Requests, eMBFuncWriteCoil(r)
      PROVE  Refused \/ (request'.fn \in CoilWrite /\ Written(request'))
  BY <1>2, WriteCoilStep
<1>3. ASSUME NEW r \in Requests, eMBFuncWriteMultipleCoils(r)
      PROVE  Refused \/ (request'.fn \in CoilWrite /\ Written(request'))
  BY <1>3, WriteMultipleStep
<1>4. ASSUME NEW r \in Requests,
             \/ eMBFuncReadCoils(r) \/ eMBFuncReadDiscreteInputs(r)
             \/ eMBFuncWriteHoldingRegister(r) \/ eMBFuncWriteMultipleHoldingRegister(r)
             \/ eMBFuncReadHoldingRegister(r) \/ eMBFuncReadInputRegister(r)
             \/ eMBFuncReadWriteMultipleHoldingRegister(r)
      PROVE  Refused
  BY <1>4 DEF eMBFuncReadCoils, eMBFuncReadDiscreteInputs, eMBFuncWriteHoldingRegister,
     eMBFuncWriteMultipleHoldingRegister, eMBFuncReadHoldingRegister, eMBFuncReadInputRegister,
     eMBFuncReadWriteMultipleHoldingRegister, Refused
<1> QED BY <1>1, <1>2, <1>3, <1>4 DEF Next

(* A write of the registers of a request leaves the others alone.          *)
LEMMA WriteRegsSpan ==
  ASSUME NEW field \in Field, NEW n \in Nat, NEW data, NEW regs, NEW i \in Bits(NRegs),
         InRange(Address(field), n, NRegs),
         WriteRegs(regs, Address(field), n, data)[i] # regs[i]
  PROVE  i \in field..(field + n - 1)
<1>1. Address(field) = field + 1 BY AddressIs DEF InRange
<1>2. i \in (Address(field) - 1)..(Address(field) + n - 2) BY DEF WriteRegs
<1>3. field \in Nat /\ i \in Nat BY FunctionsAssumption DEF Field, Bits
<1> QED BY <1>1, <1>2, <1>3

(* What a step does to the holding registers.                              *)
LEMMA RegisterStep ==
  ASSUME [Next]_vars, NEW i \in Bits(NRegs), usRegHoldingBuf'[i] # usRegHoldingBuf[i]
  PROVE  /\ request'.fn \in RegWrite /\ i \in Named(request')
         /\ reply'.ex = "NONE" \/ request'.fn = "READWRITE_MULTIPLE_REGISTERS"
<1>0. PICK r \in Requests :
         eMBFuncWriteHoldingRegister(r) \/ eMBFuncWriteMultipleHoldingRegister(r)
           \/ eMBFuncReadWriteMultipleHoldingRegister(r)
  BY DEF Next, vars, eMBFuncReadCoils, eMBFuncReadDiscreteInputs, eMBFuncWriteCoil,
     eMBFuncWriteMultipleCoils, eMBFuncReadHoldingRegister, eMBFuncReadInputRegister
<1>1. r \in Request BY FunctionsAssumption
<1>2. CASE eMBFuncWriteHoldingRegister(r)
  <2>1. request' = r /\ r.fn = "WRITE_REGISTER" BY <1>2 DEF eMBFuncWriteHoldingRegister, Take
  <2>2. r.addr \in Field BY <1>1, <2>1 DEF Request, ReadFn
  <2>3. /\ r.len = 5 /\ InRange(Address(r.addr), 1, NRegs)
        /\ usRegHoldingBuf' = WriteRegs(usRegHoldingBuf, Address(r.addr), 1, <<r.value>>)
    BY <1>2 DEF eMBFuncWriteHoldingRegister
  <2>4. i \in r.addr..(r.addr + 1 - 1) BY <2>2, <2>3, WriteRegsSpan
  <2>5. reply'.ex = "NONE" BY <1>2, <2>3 DEF eMBFuncWriteHoldingRegister, Answer
  <2> QED BY <2>1, <2>4, <2>5 DEF Named, RegWrite
<1>3. CASE eMBFuncWriteMultipleHoldingRegister(r)
  <2>1. request' = r /\ r.fn = "WRITE_MULTIPLE_REGISTERS"
    BY <1>3 DEF eMBFuncWriteMultipleHoldingRegister, Take
  <2>2. r.addr \in Field /\ r.cnt \in Field BY <1>1, <2>1 DEF Request, ReadFn
  <2>3. r.cnt \in Nat BY <2>2, FunctionsAssumption DEF Field, Bits
  <2>4. /\ r.len >= 6 /\ r.cnt >= 1 /\ r.cnt <= RegWriteMax /\ r.bytes = (2 * r.cnt) % Uchar
        /\ InRange(Address(r.addr), r.cnt, NRegs)
        /\ usRegHoldingBuf' = WriteRegs(usRegHoldingBuf, Address(r.addr), r.cnt, r.data)
    BY <1>3 DEF eMBFuncWriteMultipleHoldingRegister
  <2>5. i \in r.addr..(r.addr + r.cnt - 1) BY <2>2, <2>3, <2>4, WriteRegsSpan
  <2>6. reply'.ex = "NONE" BY <1>3, <2>4 DEF eMBFuncWriteMultipleHoldingRegister, Answer
  <2> QED BY <2>1, <2>5, <2>6 DEF Named, RegWrite
<1>4. CASE eMBFuncReadWriteMultipleHoldingRegister(r)
  <2>1. request' = r /\ r.fn = "READWRITE_MULTIPLE_REGISTERS"
    BY <1>4 DEF eMBFuncReadWriteMultipleHoldingRegister, Take
  <2>2. r.addr \in Field /\ r.cnt \in Field BY <1>1, <2>1 DEF Request, ReadFn
  <2>3. r.cnt \in Nat BY <2>2, FunctionsAssumption DEF Field, Bits
  <2>4. /\ InRange(Address(r.addr), r.cnt, NRegs)
        /\ usRegHoldingBuf' = WriteRegs(usRegHoldingBuf, Address(r.addr), r.cnt, r.data)
    BY <1>4 DEF eMBFuncReadWriteMultipleHoldingRegister
  <2>5. i \in r.addr..(r.addr + r.cnt - 1) BY <2>2, <2>3, <2>4, WriteRegsSpan
  <2> QED BY <2>1, <2>5 DEF Named, RegWrite
<1> QED BY <1>0, <1>2, <1>3, <1>4

(* Which handler a step has executed, from the request it has taken.       *)
LEMMA StepIs ==
  ASSUME Next
  PROVE  LET r == request' IN
         /\ r \in Requests /\ r \in Request
         /\ r.fn = "READ_COILS" => eMBFuncReadCoils(r)
         /\ r.fn = "READ_DISCRETE_INPUTS" => eMBFuncReadDiscreteInputs(r)
         /\ r.fn = "WRITE_SINGLE_COIL" => eMBFuncWriteCoil(r)
         /\ r.fn = "WRITE_MULTIPLE_COILS" => eMBFuncWriteMultipleCoils(r)
         /\ r.fn = "WRITE_REGISTER" => eMBFuncWriteHoldingRegister(r)
         /\ r.fn = "WRITE_MULTIPLE_REGISTERS" => eMBFuncWriteMultipleHoldingRegister(r)
         /\ r.fn = "READ_HOLDING_REGISTER" => eMBFuncReadHoldingRegister(r)
         /\ r.fn = "READ_INPUT_REGISTER" => eMBFuncReadInputRegister(r)
         /\ r.fn = "READWRITE_MULTIPLE_REGISTERS" => eMBFuncReadWriteMultipleHoldingRegister(r)
<1>. DEFINE Ran(r) ==
       \/ r.fn = "READ_COILS" /\ eMBFuncReadCoils(r)
       \/ r.fn = "READ_DISCRETE_INPUTS" /\ eMBFuncReadDiscreteInputs(r)
       \/ r.fn = "WRITE_SINGLE_COIL" /\ eMBFuncWriteCoil(r)
       \/ r.fn = "WRITE_MULTIPLE_COILS" /\ eMBFuncWriteMultipleCoils(r)
       \/ r.fn = "WRITE_REGISTER" /\ eMBFuncWriteHoldingRegister(r)
       \/ r.fn = "WRITE_MULTIPLE_REGISTERS" /\ eMBFuncWriteMultipleHoldingRegister(r)
       \/ r.fn = "READ_HOLDING_REGISTER" /\ eMBFuncReadHoldingRegister(r)
       \/ r.fn = "READ_INPUT_REGISTER" /\ eMBFuncReadInputRegister(r)
       \/ r.fn = "READWRITE_MULTIPLE_REGISTERS" /\ eMBFuncReadWriteMultipleHoldingRegister(r)
<1>1. PICK r \in Requests : Ran(r)
  <2>1. PICK r \in Requests :
          \/ eMBFuncReadCoils(r) \/ eMBFuncReadDiscreteInputs(r)
          \/ eMBFuncWriteCoil(r) \/ eMBFuncWriteMultipleCoils(r)
          \/ eMBFuncWriteHoldingRegister(r) \/ eMBFuncWriteMultipleHoldingRegister(r)
          \/ eMBFuncReadHoldingRegister(r) \/ eMBFuncReadInputRegister(r)
          \/ eMBFuncReadWriteMultipleHoldingRegister(r)
    BY DEF Next
  <2>2. eMBFuncReadCoils(r) => Ran(r) BY DEF eMBFuncReadCoils, Take
  <2>3. eMBFuncReadDiscreteInputs(r) => Ran(r) BY DEF eMBFuncReadDiscreteInputs, Take
  <2>4. eMBFuncWriteCoil(r) => Ran(r) BY DEF eMBFuncWriteCoil, Take
  <2>5. eMBFuncWriteMultipleCoils(r) => Ran(r) BY DEF eMBFuncWriteMultipleCoils, Take
  <2>6. eMBFuncWriteHoldingRegister(r) => Ran(r) BY DEF eMBFuncWriteHoldingRegister, Take
  <2>7. eMBFuncWriteMultipleHoldingRegister(r) => Ran(r) BY DEF eMBFuncWriteMultipleHoldingRegister, Take
  <2>8. eMBFuncReadHoldingRegister(r) => Ran(r) BY DEF eMBFuncReadHoldingRegister, Take
  <2>9. eMBFuncReadInputRegister(r) => Ran(r) BY DEF eMBFuncReadInputRegister, Take
  <2>10. eMBFuncReadWriteMultipleHoldingRegister(r) => Ran(r) BY DEF eMBFuncReadWriteMultipleHoldingRegister, Take
  <2>. QED  BY <2>1, <2>2, <2>3, <2>4, <2>5, <2>6, <2>7, <2>8, <2>9, <2>10, Zenon
<1>2. request' = r
  BY <1>1 DEF Take, eMBFuncReadCoils, eMBFuncReadDiscreteInputs, eMBFuncWriteCoil,
     eMBFuncWriteMultipleCoils, eMBFuncWriteHoldingRegister, eMBFuncWriteMultipleHoldingRegister,
     eMBFuncReadHoldingRegister, eMBFuncReadInputRegister, eMBFuncReadWriteMultipleHoldingRegister
<1>3. r \in Request BY FunctionsAssumption
<1>. QED  BY <1>1, <1>2, <1>3

----------------------------------------------------------------------------
(* The theorems.                                                           *)

(* Function 23 looks at usLen first, and sends a PDU that is too short     *)
(* back as if it had been executed.                                        *)
CompleteRequests ==
  \A r \in Requests : r.fn = "READWRITE_MULTIPLE_REGISTERS" => r.len >= 10

(* eMBFuncReadHoldingRegister keeps the low byte of a count.               *)
SmallCounts ==
  \A r \in Requests : r.fn = "READ_HOLDING_REGISTER" => r.cnt < Uchar

(* No padded write leaves the coil buffer: the byte behind it, which       *)
(* xMBUtilSetBits rewrites, keeps its value.                               *)
THEOREM CoilsStayInBuffer == ASSUME PaddedRequests PROVE Spec => []BufferBounded
<1>1. Init => BufferBounded BY FunctionsAssumption DEF Init, BufferBounded
<1>2. BufferBounded /\ [Next]_vars => BufferBounded'
  <2> SUFFICES ASSUME BufferBounded, [Next]_vars PROVE BufferBounded' OBVIOUS
  <2>1. CASE Refused BY <2>1 DEF Refused, BufferBounded
  <2>2. CASE Written(request')
    <3>1. Named(request') \subseteq Bits(NCoils) BY <2>2 DEF Written
    <3>2. \A c \in usRegCoilBuf' : c \in Named(request') \/ c \in usRegCoilBuf
      BY <2>2 DEF Written
    <3> QED BY <3>1, <3>2 DEF BufferBounded
  <2> QED BY <2>1, <2>2, CoilStep
<1> QED BY <1>1, <1>2, PTL DEF Spec

(* coil_hardware_process is called for exactly the coils that changed, so  *)
(* a light that was ever switched shows its coil.                          *)
THEOREM LightsShowCoils == ASSUME PaddedRequests PROVE Spec => []LightsFollowCoils
<1>1. Init => LightsFollowCoils BY DEF Init, LightsFollowCoils
<1>2. LightsFollowCoils /\ [Next]_vars => LightsFollowCoils'
  <2> SUFFICES ASSUME LightsFollowCoils, [Next]_vars PROVE LightsFollowCoils' OBVIOUS
  <2>1. CASE Refused BY <2>1 DEF Refused, LightsFollowCoils
  <2>2. CASE Written(request')
    <3> SUFFICES ASSUME NEW c \in Lights, lights'[c] # "unset"
                 PROVE  lights'[c] = "on" <=> c \in usRegCoilBuf'
      BY DEF LightsFollowCoils
    <3>1. lights'[c] = IF c \in Named(request') THEN (IF c \in usRegCoilBuf' THEN "on" ELSE "off")
                       ELSE lights[c]
      BY <2>2 DEF Written
    <3>2. CASE c \in Named(request') BY <3>1, <3>2
    <3>3. CASE c \notin Named(request')
      <4>1. c \in usRegCoilBuf' <=> c \in usRegCoilBuf BY <2>2, <3>3 DEF Written
      <4> QED BY <3>1, <3>3, <4>1 DEF LightsFollowCoils
    <3> QED BY <3>2, <3>3
  <2> QED BY <2>1, <2>2, CoilStep
<1> QED BY <1>1, <1>2, PTL DEF Spec

(* A request changes the coils and registers it names, no others, and a    *)
(* refused one changes nothing, function 23 excepted.                      *)
THEOREM OnlyNamedChanges == ASSUME PaddedRequests PROVE Spec => OnlyNamedChange
<1> DEFINE Coils == \A c \in Bits(NCoils) : ~(c \in usRegCoilBuf' <=> c \in usRegCoilBuf) =>
                      request'.fn \in CoilWrite /\ c \in Named(request') /\ reply'.ex = "NONE"
           Regs  == \A i \in Bits(NRegs) : usRegHoldingBuf'[i] # usRegHoldingBuf[i] =>
                      /\ request'.fn \in RegWrite /\ i \in Named(request')
                      /\ reply'.ex = "NONE" \/ request'.fn = "READWRITE_MULTIPLE_REGISTERS"
<1>1. [Next]_vars => Coils
  <2> SUFFICES ASSUME [Next]_vars, NEW c \in Bits(NCoils),
                      ~(c \in usRegCoilBuf' <=> c \in usRegCoilBuf)
               PROVE  request'.fn \in CoilWrite /\ c \in Named(request') /\ reply'.ex = "NONE"
    OBVIOUS
  <2>1. ~Refused BY DEF Refused
  <2> QED BY <2>1, CoilStep DEF Written
<1>2. [Next]_vars => Regs BY RegisterStep
<1>3. [Next]_vars => [Coils /\ Regs]_vars BY <1>1, <1>2
<1> QED BY <1>3, PTL DEF Spec, OnlyNamedChange

(* A confirmed write has stored its values, bit by bit, across the byte    *)
(* boundaries of the PDU and of the buffer.                                *)
THEOREM WritesAreStored ==
  ASSUME PaddedRequests, CompleteRequests PROVE Spec => []ConfirmedIsStored
<1>1. Init => ConfirmedIsStored BY DEF Init, ConfirmedIsStored, Done, Executed
<1>2. ConfirmedIsStored /\ [Next]_vars => ConfirmedIsStored'
  <2>. SUFFICES ASSUME ConfirmedIsStored, [Next]_vars PROVE ConfirmedIsStored'  OBVIOUS
  <2>1. CASE UNCHANGED vars
    BY <2>1 DEF ConfirmedIsStored, Done, Executed, vars
  <2>2. CASE Next
    <3>. DEFINE r == request'
                a == Address(r.addr)
    <3>. SUFFICES ASSUME reply'.ex = "NONE"
                  PROVE  /\ r.fn = "WRITE_SINGLE_COIL" =>
                              (r.addr \in usRegCoilBuf' <=> r.value = "on")
                         /\ r.fn = "WRITE_MULTIPLE_COILS" => \A o \in Bits(r.cnt) :
                              (r.addr + o \in usRegCoilBuf' <=> o % W \in r.data[(o \div W) + 1])
                         /\ r.fn = "WRITE_REGISTER" => usRegHoldingBuf'[r.addr] = r.value
                         /\ r.fn \in {"WRITE_MULTIPLE_REGISTERS", "READWRITE_MULTIPLE_REGISTERS"} =>
                              \A o \in Bits(r.cnt) : usRegHoldingBuf'[r.addr + o] = r.data[o + 1]
      BY DEF ConfirmedIsStored, Done
    <3>0. r \in Requests /\ r \in Request BY <2>2, StepIs
    <3>1. ASSUME r.fn = "WRITE_SINGLE_COIL"
          PROVE  r.addr \in usRegCoilBuf' <=> r.value = "on"
      <4>1. eMBFuncWriteCoil(r) BY <2>2, <3>1, StepIs
      <4>. DEFINE data == <<IF r.value = "on" THEN {0} ELSE {}>>
      <4>2. r.addr \in Field BY <3>0, <3>1 DEF Request, ReadFn
      <4>3. /\ InRange(a, 1, NCoils)
            /\ usRegCoilBuf' = WriteCoils(usRegCoilBuf, a - 1, 1, data)
        BY <4>1 DEF eMBFuncWriteCoil, Answer
      <4>4. a - 1 = r.addr /\ r.addr \in Nat /\ W \in Nat \ {0} /\ W * 0 = 0
        <5>1. W \in Nat \ {0} /\ r.addr \in Nat BY <4>2, FunctionsAssumption DEF Field, Bits
        <5>2. a = r.addr + 1 BY <4>2, <4>3, AddressIs DEF InRange
        <5>. QED  BY <5>1, <5>2, SMT
      <4>5. 1 \in 1..Bytes(1) /\ \A k \in 1..Bytes(1) : k = 1
        <5>1. 0 + 1 \in 1..Bytes(1) BY <4>4, BytesHold
        <5>2. ASSUME NEW k \in 1..Bytes(1), k # 1 PROVE FALSE
          <6>1. k - 1 \in Nat /\ (k - 1) + 1 = k /\ 0 < k - 1 BY <5>2, BytesNat
          <6>2. W * (k - 1) < 1 BY <6>1, BytesHold
          <6>3. W * 0 + W <= W * (k - 1) /\ W * (k - 1) \in Nat BY <6>1, Multiples
          <6>. QED  BY <4>4, <6>2, <6>3
        <5>. QED  BY <5>1, <5>2
      <4>6. data[1] = IF r.value = "on" THEN {0} ELSE {} OBVIOUS
      <4>7. \A k \in 1..Bytes(1) : data[k] \in Byte BY <4>4, <4>5, <4>6 DEF Byte, Bits
      <4>. HIDE DEF data
      <4>8. 0 \in Bits(1) BY DEF Bits
      <4>9. r.addr + 0 \in usRegCoilBuf' <=> 0 % W \in data[(0 \div W) + 1]
        BY <4>3, <4>4, <4>7, <4>8, WriteCoilsBits
      <4>10. 0 \div W = 0 /\ 0 % W = 0
        <5>1. W * 0 + 0 = 0 BY <4>4
        <5>2. 0 \in 0..(W - 1) BY <4>4
        <5>3. (W * 0 + 0) \div W = 0 /\ (W * 0 + 0) % W = 0 BY <5>2, Position
        <5>. QED  BY <5>1, <5>3
      <4>11. r.addr + 0 = r.addr /\ (0 \div W) + 1 = 1 BY <4>4, <4>10
      <4>. QED  BY <4>6, <4>9, <4>10, <4>11
    <3>2. ASSUME r.fn = "WRITE_MULTIPLE_COILS", NEW o \in Bits(r.cnt)
          PROVE  r.addr + o \in usRegCoilBuf' <=> o % W \in r.data[(o \div W) + 1]
      <4>1. eMBFuncWriteMultipleCoils(r) BY <2>2, <3>2, StepIs
      <4>2. r.addr \in Field /\ r.cnt \in Field /\ r.data \in Seq(Byte)
        BY <3>0, <3>2 DEF Request, ReadFn
      <4>3. /\ InRange(a, r.cnt, NCoils)
            /\ usRegCoilBuf' = WriteCoils(usRegCoilBuf, a - 1, r.cnt, r.data)
        BY <4>1 DEF eMBFuncWriteMultipleCoils, Answer
      <4>4. a - 1 = r.addr /\ r.addr \in Nat /\ r.cnt \in Nat
        <5>1. r.cnt \in Nat /\ r.addr \in Nat BY <4>2, FunctionsAssumption DEF Field, Bits
        <5>2. a = r.addr + 1 BY <4>2, <4>3, AddressIs DEF InRange
        <5>. QED  BY <5>1, <5>2
      <4>5. \A k \in 1..Bytes(r.cnt) : r.data[k] \in Byte
        <5>1. Bytes(r.cnt) <= Len(r.data) BY <3>0, <3>2 DEF PaddedRequests
        <5>2. Bytes(r.cnt) \in Nat BY <4>4, BytesNat, Zenon
        <5>3. Len(r.data) \in Nat BY <4>2
        <5>. QED  BY <4>2, <5>1, <5>2, <5>3
      <4>. QED  BY <4>3, <4>4, <4>5, WriteCoilsBits
    <3>3. ASSUME r.fn = "WRITE_REGISTER" PROVE usRegHoldingBuf'[r.addr] = r.value
      <4>1. eMBFuncWriteHoldingRegister(r) BY <2>2, <3>3, StepIs
      <4>2. r.addr \in Field BY <3>0, <3>3 DEF Request, ReadFn
      <4>3. /\ InRange(a, 1, NRegs)
            /\ usRegHoldingBuf' = WriteRegs(usRegHoldingBuf, a, 1, <<r.value>>)
        BY <4>1 DEF eMBFuncWriteHoldingRegister, Answer
      <4>4. 0 \in Bits(1) /\ r.addr + 0 = r.addr /\ 0 + 1 = 1
        BY <4>2, FunctionsAssumption DEF Field, Bits
      <4>5. usRegHoldingBuf'[r.addr + 0] = <<r.value>>[0 + 1]
        BY <4>2, <4>3, <4>4, WriteRegsStores
      <4>. QED  BY <4>4, <4>5
    <3>4. ASSUME r.fn = "WRITE_MULTIPLE_REGISTERS", NEW o \in Bits(r.cnt)
          PROVE  usRegHoldingBuf'[r.addr + o] = r.data[o + 1]
      <4>1. eMBFuncWriteMultipleHoldingRegister(r) BY <2>2, <3>4, StepIs
      <4>2. r.addr \in Field /\ r.cnt \in Nat
        <5>1. r.addr \in Field /\ r.cnt \in Field BY <3>0, <3>4 DEF Request, ReadFn
        <5>2. r.cnt \in Nat BY <5>1, FunctionsAssumption DEF Field, Bits
        <5>. QED  BY <5>1, <5>2
      <4>3. /\ InRange(a, r.cnt, NRegs)
            /\ usRegHoldingBuf' = WriteRegs(usRegHoldingBuf, a, r.cnt, r.data)
        BY <4>1 DEF eMBFuncWriteMultipleHoldingRegister, Answer
      <4>. QED  BY <4>2, <4>3, WriteRegsStores
    <3>5. ASSUME r.fn = "READWRITE_MULTIPLE_REGISTERS", NEW o \in Bits(r.cnt)
          PROVE  usRegHoldingBuf'[r.addr + o] = r.data[o + 1]
      <4>1. eMBFuncReadWriteMultipleHoldingRegister(r) BY <2>2, <3>5, StepIs
      <4>2. r.addr \in Field /\ r.cnt \in Nat
        <5>1. r.addr \in Field /\ r.cnt \in Field BY <3>0, <3>5 DEF Request, ReadFn
        <5>. QED  BY <5>1, FunctionsAssumption DEF Field, Bits
      <4>3. r.len >= 10 BY <3>0, <3>5 DEF CompleteRequests
      <4>4. r.len \in Nat BY <3>0, <3>5 DEF Request, ReadFn
      <4>5. /\ InRange(a, r.cnt, NRegs)
            /\ usRegHoldingBuf' = WriteRegs(usRegHoldingBuf, a, r.cnt, r.data)
        BY <4>1, <4>3, <4>4 DEF eMBFuncReadWriteMultipleHoldingRegister, Answer
      <4>. QED  BY <4>2, <4>5, WriteRegsStores
    <3>. QED  BY <3>1, <3>2, <3>3, <3>4, <3>5
  <2>. QED  BY <2>1, <2>2
<1>. QED  BY <1>1, <1>2, PTL DEF Spec

(* A read returns what the buffers hold, function 23 what they hold after  *)
(* its write.                                                              *)
THEOREM ReadsReturnValues ==
  ASSUME CompleteRequests, SmallCounts PROVE Spec => []ReadsAreCurrent
<1>1. Init => ReadsAreCurrent BY DEF Init, ReadsAreCurrent, Done, Executed
<1>2. ReadsAreCurrent /\ [Next]_vars => ReadsAreCurrent'
  <2>. SUFFICES ASSUME ReadsAreCurrent, [Next]_vars PROVE ReadsAreCurrent'  OBVIOUS
  <2>1. CASE UNCHANGED vars
    BY <2>1 DEF ReadsAreCurrent, Done, Executed, vars
  <2>2. CASE Next
    <3>. DEFINE r == request'
                a == Address(r.addr)
                data == reply'.data
                Set(d) == UNION {{W * (k - 1) + i : i \in d[k]} : k \in DOMAIN d}
    <3>. SUFFICES ASSUME reply'.ex = "NONE"
                  PROVE  /\ r.fn = "READ_COILS" =>
                              Set(data) = {o \in Bits(r.cnt) : r.addr + o \in usRegCoilBuf'}
                         /\ r.fn = "READ_DISCRETE_INPUTS" =>
                              Set(data) = {o \in Bits(r.cnt) : r.addr + o \in Discrete}
                         /\ r.fn = "READ_HOLDING_REGISTER" =>
                              data = [k \in 1..r.cnt |-> usRegHoldingBuf'[r.addr + k - 1]]
                         /\ r.fn = "READ_INPUT_REGISTER" =>
                              data = [k \in 1..r.cnt |-> Input[r.addr + k - 1]]
                         /\ r.fn = "READWRITE_MULTIPLE_REGISTERS" =>
                              data = [k \in 1..r.rcnt |-> usRegHoldingBuf'[r.raddr + k - 1]]
      BY DEF ReadsAreCurrent, Done
    <3>0. r \in Requests /\ r \in Request BY <2>2, StepIs
    <3>1. ASSUME r.fn = "READ_COILS"
          PROVE  Set(data) = {o \in Bits(r.cnt) : r.addr + o \in usRegCoilBuf'}
      <4>1. eMBFuncReadCoils(r) BY <2>2, <3>1, StepIs
      <4>2. r.addr \in Field /\ r.addr \in Nat /\ r.cnt \in Nat
        <5>1. r.addr \in Field /\ r.cnt \in Field BY <3>0, <3>1 DEF Request, ReadFn
        <5>2. r.addr \in Nat /\ r.cnt \in Nat BY <5>1, FunctionsAssumption DEF Field, Bits
        <5>. QED  BY <5>1, <5>2
      <4>3. InRange(a, r.cnt, NCoils) /\ data = ReadBits(usRegCoilBuf, a - 1, r.cnt)
        BY <4>1 DEF eMBFuncReadCoils, Answer
      <4>4. a - 1 = r.addr
        <5>1. a = r.addr + 1 BY <4>2, <4>3, AddressIs DEF InRange
        <5>. QED  BY <4>2, <5>1
      <4>5. usRegCoilBuf' = usRegCoilBuf BY <4>1 DEF eMBFuncReadCoils
      <4>. QED  BY <4>2, <4>3, <4>4, <4>5, ReadBitsAre
    <3>2. ASSUME r.fn = "READ_DISCRETE_INPUTS"
          PROVE  Set(data) = {o \in Bits(r.cnt) : r.addr + o \in Discrete}
      <4>1. eMBFuncReadDiscreteInputs(r) BY <2>2, <3>2, StepIs
      <4>2. r.addr \in Field /\ r.addr \in Nat /\ r.cnt \in Nat
        <5>1. r.addr \in Field /\ r.cnt \in Field BY <3>0, <3>2 DEF Request, ReadFn
        <5>2. r.addr \in Nat /\ r.cnt \in Nat BY <5>1, FunctionsAssumption DEF Field, Bits
        <5>. QED  BY <5>1, <5>2
      <4>3. InRange(a, r.cnt, NCoils) /\ data = ReadBits(Discrete, a - 1, r.cnt)
        BY <4>1 DEF eMBFuncReadDiscreteInputs, Answer
      <4>4. a - 1 = r.addr
        <5>1. a = r.addr + 1 BY <4>2, <4>3, AddressIs DEF InRange
        <5>. QED  BY <4>2, <5>1
      <4>5. data = ReadBits(Discrete, r.addr, r.cnt) BY <4>3, <4>4
      <4>. QED  BY <4>2, <4>5, ReadBitsAre
    <3>3. ASSUME r.fn = "READ_HOLDING_REGISTER"
          PROVE  data = [k \in 1..r.cnt |-> usRegHoldingBuf'[r.addr + k - 1]]
      <4>1. eMBFuncReadHoldingRegister(r) BY <2>2, <3>3, StepIs
      <4>2. r.addr \in Field /\ r.cnt \in Nat
        <5>1. r.addr \in Field /\ r.cnt \in Field BY <3>0, <3>3 DEF Request, ReadFn
        <5>2. r.cnt \in Nat BY <5>1, FunctionsAssumption DEF Field, Bits
        <5>. QED  BY <5>1, <5>2
      <4>3. r.cnt % Uchar = r.cnt
        <5>1. r.cnt < Uchar BY <3>0, <3>3 DEF SmallCounts
        <5>2. Uchar \in Nat BY FunctionsAssumption
        <5>. QED  BY <4>2, <5>1, <5>2, SMT
      <4>4. InRange(a, r.cnt, NRegs) /\ data = ReadRegs(usRegHoldingBuf, a, r.cnt)
        BY <4>1, <4>3 DEF eMBFuncReadHoldingRegister, Answer
      <4>5. usRegHoldingBuf' = usRegHoldingBuf BY <4>1 DEF eMBFuncReadHoldingRegister
      <4>6. a >= 1 BY <4>4 DEF InRange
      <4>7. ReadRegs(usRegHoldingBuf, a, r.cnt)
              = [k \in 1..r.cnt |-> usRegHoldingBuf[r.addr + k - 1]]
        BY <4>2, <4>6, ReadRegsAre
      <4>. QED  BY <4>4, <4>5, <4>7
    <3>4. ASSUME r.fn = "READ_INPUT_REGISTER"
          PROVE  data = [k \in 1..r.cnt |-> Input[r.addr + k - 1]]
      <4>1. eMBFuncReadInputRegister(r) BY <2>2, <3>4, StepIs
      <4>2. r.addr \in Field /\ r.cnt \in Nat
        <5>1. r.addr \in Field /\ r.cnt \in Field BY <3>0, <3>4 DEF Request, ReadFn
        <5>2. r.cnt \in Nat BY <5>1, FunctionsAssumption DEF Field, Bits
        <5>. QED  BY <5>1, <5>2
      <4>3. InRange(a, r.cnt, NRegs) /\ data = ReadRegs(Input, a, r.cnt)
        BY <4>1 DEF eMBFuncReadInputRegister, Answer
      <4>4. a >= 1 BY <4>3 DEF InRange
      <4>5. ReadRegs(Input, a, r.cnt) = [k \in 1..r.cnt |-> Input[r.addr + k - 1]]
        BY <4>2, <4>4, ReadRegsAre
      <4>. QED  BY <4>3, <4>5
    <3>5. ASSUME r.fn = "READWRITE_MULTIPLE_REGISTERS"
          PROVE  data = [k \in 1..r.rcnt |-> usRegHoldingBuf'[r.raddr + k - 1]]
      <4>1. eMBFuncReadWriteMultipleHoldingRegister(r) BY <2>2, <3>5, StepIs
      <4>2. r.raddr \in Field /\ r.rcnt \in Nat /\ r.len \in Nat
        <5>1. r.raddr \in Field /\ r.rcnt \in Field /\ r.len \in Nat
          BY <3>0, <3>5 DEF Request, ReadFn
        <5>. QED  BY <5>1, FunctionsAssumption DEF Field, Bits
      <4>3. r.len >= 10 BY <3>0, <3>5 DEF CompleteRequests
      <4>4. /\ InRange(Address(r.raddr), r.rcnt, NRegs)
            /\ data = ReadRegs(usRegHoldingBuf', Address(r.raddr), r.rcnt)
        BY <4>1, <4>2, <4>3 DEF eMBFuncReadWriteMultipleHoldingRegister, Answer
      <4>5. Address(r.raddr) >= 1 BY <4>4 DEF InRange
      <4>. QED  BY <4>2, <4>4, <4>5, ReadRegsAre
    <3>. QED  BY <3>1, <3>2, <3>3, <3>4, <3>5
  <2>. QED  BY <2>1, <2>2
<1>. QED  BY <1>1, <1>2, PTL DEF Spec
============================================================================

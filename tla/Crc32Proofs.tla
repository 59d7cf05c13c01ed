----------------------------- MODULE Crc32Proofs -----------------------------
(***************************************************************************)
(* Proofs about the four checksum functions.  Words are sets of bits, so a *)
(* statement about a word is proved bit by bit, and one shift is a linear  *)
(* and injective map.  From it: the table makes eight shifts one look-up   *)
(* (crc32b and crc32c), four bytes may be taken in at once (crc32cx),      *)
(* shifting to the left is shifting to the right in a mirror (crc32a), and *)
(* what two messages differ by can be followed apart from what they share. *)
(***************************************************************************)
EXTENDS Crc32, TLAPS

\* One shift to the right; the loops of the model are unrolled to eight of them.
Shift(x) == Xor(Right(x, 1), IF 0 \in x THEN ReversedPolynomial ELSE {})

\* The inner loop of crc32b, unrolled.
LEMMA EightShiftsIs ==
    ASSUME NEW x
    PROVE  EightShifts(x) =
              Shift(Shift(Shift(Shift(Shift(Shift(Shift(Shift(x))))))))
<1> DEFINE s1 == Shift(x)
           s2 == Shift(s1)
           s3 == Shift(s2)
           s4 == Shift(s3)
           s5 == Shift(s4)
           s6 == Shift(s5)
           s7 == Shift(s6)
           s8 == Shift(s7)
           turn(f) == [n \in 0 .. 8 |-> IF n = 0 THEN x ELSE Shift(f[n - 1])]
           g == [n \in 0 .. 8 |->
                   IF n = 0 THEN x ELSE IF n = 1 THEN s1 ELSE IF n = 2 THEN s2
                   ELSE IF n = 3 THEN s3 ELSE IF n = 4 THEN s4 ELSE IF n = 5 THEN s5
                   ELSE IF n = 6 THEN s6 ELSE IF n = 7 THEN s7 ELSE s8]
           f == CHOOSE h : h = turn(h)
<1>1. EightShifts(x) = f[8]
  BY DEF EightShifts, Shift
<1>2. g = turn(g)
  <2> HIDE DEF s1, s2, s3, s4, s5, s6, s7, s8
  <2> SUFFICES ASSUME NEW n \in 0 .. 8 PROVE g[n] = IF n = 0 THEN x ELSE Shift(g[n - 1])
    OBVIOUS
  <2>1. /\ s1 = Shift(x) /\ s2 = Shift(s1) /\ s3 = Shift(s2) /\ s4 = Shift(s3)
        /\ s5 = Shift(s4) /\ s6 = Shift(s5) /\ s7 = Shift(s6) /\ s8 = Shift(s7)
    BY DEF s1, s2, s3, s4, s5, s6, s7, s8
  <2> QED  BY <2>1
<1>3. f = turn(f)
  <2> HIDE DEF turn, g
  <2> QED BY <1>2
<1> HIDE DEF f
<1>4. /\ f[0] = x /\ f[1] = Shift(f[0]) /\ f[2] = Shift(f[1]) /\ f[3] = Shift(f[2])
      /\ f[4] = Shift(f[3]) /\ f[5] = Shift(f[4]) /\ f[6] = Shift(f[5])
      /\ f[7] = Shift(f[6]) /\ f[8] = Shift(f[7])
  BY <1>3
<1> QED  BY <1>1, <1>4

-----------------------------------------------------------------------------
(***************************************************************************)
(* Words bit by bit.                                                       *)
(***************************************************************************)
Word == SUBSET Bits
Byte == SUBSET (0 .. 7)

\* Bit p of a word shifted to the right is bit p + n of the word.
LEMMA RightAt ==
    ASSUME NEW x \in Word, NEW n \in Nat
    PROVE  Right(x, n) \in Word /\ \A p \in Bits : p \in Right(x, n) <=> p + n \in x
BY DEF Right, Word, Bits

\* Bit p of a word shifted to the left is bit p - n of the word.
LEMMA LeftAt ==
    ASSUME NEW x \in Word, NEW n \in Nat
    PROVE  Left(x, n) \in Word /\ \A p \in Bits : p \in Left(x, n) <=> p - n \in x
BY DEF Left, Word, Bits

\* A bit of an exclusive or.
LEMMA XorAt ==
    ASSUME NEW x \in Word, NEW y \in Word
    PROVE  Xor(x, y) \in Word /\ \A p \in Bits : p \in Xor(x, y) <=> ~ (p \in x <=> p \in y)
BY DEF Xor, Word

\* Words with the same bits are one word.
LEMMA SameBits ==
    ASSUME NEW x \in Word, NEW y \in Word, \A p \in Bits : p \in x <=> p \in y
    PROVE  x = y
BY DEF Word

\* The two polynomials are words, and mirror images of each other.
LEMMA Polynomials ==
    /\ {} \in Word /\ Polynomial \in Word /\ ReversedPolynomial \in Word
    /\ 31 \in ReversedPolynomial
    /\ \A p \in Bits : p \in ReversedPolynomial <=> 31 - p \in Polynomial
BY DEF Word, Bits, Polynomial, ReversedPolynomial

\* A byte is a word whose higher bits are 0.
LEMMA ByteIsWord == Byte \subseteq Word
BY DEF Byte, Word, Bits

\* Exclusive or: commutative, associative, and every word its own inverse.
LEMMA XorLaws ==
    ASSUME NEW x \in Word, NEW y \in Word, NEW z \in Word
    PROVE  /\ Xor(x, y) = Xor(y, x) /\ Xor(Xor(x, y), z) = Xor(x, Xor(y, z))
           /\ Xor(x, {}) = x /\ Xor(x, x) = {} /\ (Xor(x, y) = {} => x = y)
BY DEF Xor

-----------------------------------------------------------------------------
(***************************************************************************)
(* One shift, and eight of them, are linear and lose nothing.              *)
(***************************************************************************)
LEMMA ShiftAt ==
    ASSUME NEW x \in Word
    PROVE  /\ Shift(x) \in Word
           /\ \A p \in Bits :
                 p \in Shift(x) <=> ~ (p + 1 \in x <=> 0 \in x /\ p \in ReversedPolynomial)
<1> DEFINE poly == IF 0 \in x THEN ReversedPolynomial ELSE {}
<1>1. poly \in Word /\ \A p \in Bits : p \in poly <=> 0 \in x /\ p \in ReversedPolynomial
  BY Polynomials
<1>2. Shift(x) = Xor(Right(x, 1), poly)
  BY DEF Shift
<1> HIDE DEF poly
<1> QED  BY <1>1, <1>2, RightAt, XorAt

\* A shift of a sum of words is the sum of their shifts.
LEMMA ShiftLinear ==
    ASSUME NEW x \in Word, NEW y \in Word
    PROVE  Shift(Xor(x, y)) = Xor(Shift(x), Shift(y))
<1>1. /\ Xor(x, y) \in Word /\ Shift(x) \in Word /\ Shift(y) \in Word
      /\ Shift(Xor(x, y)) \in Word /\ Xor(Shift(x), Shift(y)) \in Word
  BY XorAt, ShiftAt
<1>2. ASSUME NEW p \in Bits
      PROVE  p \in Shift(Xor(x, y)) <=> p \in Xor(Shift(x), Shift(y))
  <2>1. /\ 0 \in Xor(x, y) <=> ~ (0 \in x <=> 0 \in y)
        /\ p + 1 \in Xor(x, y) <=> ~ (p + 1 \in x <=> p + 1 \in y)
    BY DEF Xor, Bits
  <2>2. p \in Xor(Shift(x), Shift(y)) <=> ~ (p \in Shift(x) <=> p \in Shift(y))
    BY <1>1, XorAt
  <2> QED  BY <1>1, <2>1, <2>2, ShiftAt
<1> QED  BY <1>1, <1>2, SameBits

\* A shift loses nothing: only the word 0 becomes 0.
LEMMA ShiftInjective ==
    ASSUME NEW x \in Word, Shift(x) = {}
    PROVE  x = {}
<1>1. 0 \notin x
  <2>1. 31 \in Bits /\ 32 \notin x
    BY DEF Bits, Word
  <2> QED  BY <2>1, ShiftAt, Polynomials
<1>2. ASSUME NEW p \in x PROVE FALSE
  <2>1. p \in Bits /\ p # 0
    BY <1>1 DEF Word
  <2>2. p - 1 \in Bits /\ (p - 1) + 1 = p
    BY <2>1 DEF Bits
  <2>3. p - 1 \in Shift(x)
    BY <1>1, <2>2, ShiftAt
  <2> QED  BY <2>3
<1> QED  BY <1>2

\* Of a word with an empty low byte, the first eight shifts are plain ones.
LEMMA ShiftOut ==
    ASSUME NEW x \in Word, NEW n \in 1 .. 8, NEW y, y = Right(x, 8 - n),
           x \cap 0 .. 7 = {}
    PROVE  y \in Word /\ Shift(y) = Right(x, 9 - n)
<1>1. y \in Word /\ \A p \in Bits : p \in y <=> p + (8 - n) \in x
  BY RightAt
<1>2. 0 \notin y
  BY <1>1 DEF Bits
<1>3. ASSUME NEW p \in Bits PROVE p \in Shift(y) <=> p \in Right(x, 9 - n)
  <2>1. p \in Right(x, 9 - n) <=> p + (9 - n) \in x
    BY RightAt
  <2>2. p \in Shift(y) <=> p + 1 \in y
    BY <1>1, <1>2, ShiftAt
  <2>3. p + 1 \in y <=> p + (9 - n) \in x
    <3>1. CASE p + 1 \in Bits
      BY <1>1, <3>1 DEF Bits
    <3>2. CASE p + 1 \notin Bits
      <4>1. p + 1 \notin y
        BY <1>1, <3>2 DEF Word
      <4>2. p + (9 - n) \notin x
        BY <3>2 DEF Word, Bits
      <4> QED  BY <4>1, <4>2
    <3> QED  BY <3>1, <3>2
  <2> QED  BY <2>1, <2>2, <2>3
<1>4. Shift(y) \in Word /\ Right(x, 9 - n) \in Word
  BY <1>1, ShiftAt, RightAt
<1> QED  BY <1>1, <1>3, <1>4, SameBits

\* Eight shifts are linear too.
LEMMA EightShiftsLinear ==
    ASSUME NEW x \in Word, NEW y \in Word
    PROVE  /\ EightShifts(x) \in Word
           /\ EightShifts(Xor(x, y)) = Xor(EightShifts(x), EightShifts(y))
<1> DEFINE two(z) == Shift(Shift(z))
           four(z) == two(two(z))
<1>1. \A u, v \in Word : two(u) \in Word /\ two(Xor(u, v)) = Xor(two(u), two(v))
  BY ShiftAt, ShiftLinear
<1>2. \A u : EightShifts(u) = four(four(u))
  BY EightShiftsIs
<1> HIDE DEF two
<1>3. \A u, v \in Word : four(u) \in Word /\ four(Xor(u, v)) = Xor(four(u), four(v))
  BY <1>1
<1> HIDE DEF four
<1> QED  BY <1>2, <1>3

\* Eight shifts lose nothing either.
LEMMA EightShiftsInjective ==
    ASSUME NEW x \in Word, x # {}
    PROVE  EightShifts(x) # {}
<1> DEFINE two(z) == Shift(Shift(z))
           four(z) == two(two(z))
<1>1. \A u \in Word : two(u) \in Word /\ (u # {} => two(u) # {})
  BY ShiftAt, ShiftInjective
<1>2. EightShifts(x) = four(four(x))
  BY EightShiftsIs
<1> HIDE DEF two
<1> QED  BY <1>1, <1>2

\* Eight shifts of a word with an empty low byte only move it.
LEMMA EightShiftsOut ==
    ASSUME NEW x \in Word, x \cap 0 .. 7 = {}
    PROVE  EightShifts(x) = Right(x, 8)
<1>1. \A n \in 1 .. 8 : Shift(Right(x, 8 - n)) = Right(x, 9 - n)
  BY ShiftOut
<1>2. Right(x, 0) = x
  <2>1. Right(x, 0) \in Word /\ \A p \in Bits : p \in Right(x, 0) <=> p + 0 \in x
    BY RightAt
  <2> QED  BY <2>1, SameBits DEF Bits
<1>3. /\ Shift(Right(x, 0)) = Right(x, 1) /\ Shift(Right(x, 1)) = Right(x, 2)
      /\ Shift(Right(x, 2)) = Right(x, 3) /\ Shift(Right(x, 3)) = Right(x, 4)
      /\ Shift(Right(x, 4)) = Right(x, 5) /\ Shift(Right(x, 5)) = Right(x, 6)
      /\ Shift(Right(x, 6)) = Right(x, 7) /\ Shift(Right(x, 7)) = Right(x, 8)
  BY <1>1
<1> QED  BY <1>2, <1>3, EightShiftsIs

-----------------------------------------------------------------------------
(***************************************************************************)
(* The table makes eight shifts one look-up, and four bytes may be taken   *)
(* in at once.                                                             *)
(***************************************************************************)
LEMMA LookUpShifts ==
    ASSUME NEW x \in Word
    PROVE  LookUp(x) = EightShifts(x)
<1> DEFINE low == x \cap 0 .. 7
           high == x \ low
<1>1. low \in Byte /\ low \in Word /\ high \in Word /\ high \cap 0 .. 7 = {}
  BY DEF Byte, Word
<1>2. x = Xor(high, low)
  BY DEF Xor
<1>3. EightShifts(x) = Xor(EightShifts(high), EightShifts(low))
  <2> HIDE DEF high, low
  <2> QED  BY <1>1, <1>2, EightShiftsLinear
<1>4. EightShifts(high) = Right(high, 8)
  BY <1>1, EightShiftsOut
<1>5. Right(high, 8) = Right(x, 8)
  <2>1. \A p \in Bits : p + 8 \in high <=> p + 8 \in x
    BY DEF Bits
  <2>2. /\ Right(high, 8) \in Word /\ \A p \in Bits : p \in Right(high, 8) <=> p + 8 \in high
        /\ Right(x, 8) \in Word /\ \A p \in Bits : p \in Right(x, 8) <=> p + 8 \in x
    <3> HIDE DEF high
    <3> QED  BY <1>1, RightAt
  <2> HIDE DEF high
  <2> QED  BY <2>1, <2>2, SameBits
<1>6. table[low] = EightShifts(low)
  BY <1>1 DEF table, Byte
<1>7. LookUp(x) = Xor(Right(x, 8), table[low])
  BY DEF LookUp
<1> QED  BY <1>3, <1>4, <1>5, <1>6, <1>7

\* What crc32c looks up in its table is what crc32b computes.
LEMMA TurnCShifts ==
    ASSUME NEW x \in Word, NEW byte \in Byte
    PROVE  /\ TurnC(x, byte) = EightShifts(Xor(x, byte)) /\ TurnC(x, byte) \in Word
           /\ TurnB(x, byte) = TurnC(x, byte)
<1>1. byte \in Word /\ Xor(x, byte) \in Word
  BY ByteIsWord, XorAt
<1>2. Right(Xor(x, byte), 8) = Right(x, 8)
  <2>1. \A p \in Bits : p + 8 \in Xor(x, byte) <=> p + 8 \in x
    BY DEF Xor, Byte, Bits
  <2>2. /\ Right(Xor(x, byte), 8) \in Word /\ Right(x, 8) \in Word
        /\ \A p \in Bits : p \in Right(Xor(x, byte), 8) <=> p + 8 \in Xor(x, byte)
        /\ \A p \in Bits : p \in Right(x, 8) <=> p + 8 \in x
    BY <1>1, RightAt
  <2> QED  BY <2>1, <2>2, SameBits
<1>3. TurnC(x, byte) = LookUp(Xor(x, byte))
  BY <1>2 DEF TurnC, LookUp
<1> QED  BY <1>1, <1>3, LookUpShifts, EightShiftsLinear DEF TurnB

\* The first byte of a word is taken in, the others move down.
LEMMA TakeByte ==
    ASSUME NEW x \in Word, NEW byte \in Byte, NEW w \in SUBSET (0 .. 23)
    PROVE  /\ w \in Word /\ Left(w, 8) \in Word /\ Xor(byte, Left(w, 8)) \in Word
           /\ EightShifts(Left(w, 8)) = w
           /\ EightShifts(Xor(x, Xor(byte, Left(w, 8)))) = Xor(TurnC(x, byte), w)
<1>1. w \in Word /\ byte \in Word
  BY ByteIsWord DEF Word, Bits
<1>2. Left(w, 8) \in Word /\ \A p \in Bits : p \in Left(w, 8) <=> p - 8 \in w
  BY <1>1, LeftAt
<1>3. Left(w, 8) \cap 0 .. 7 = {}
  BY <1>2 DEF Bits
<1>4. EightShifts(Left(w, 8)) = w
  <2>1. EightShifts(Left(w, 8)) = Right(Left(w, 8), 8)
    BY <1>2, <1>3, EightShiftsOut
  <2>2. /\ Right(Left(w, 8), 8) \in Word
        /\ \A p \in Bits : p \in Right(Left(w, 8), 8) <=> p + 8 \in Left(w, 8)
    BY <1>2, RightAt
  <2>3. \A p \in Bits : p + 8 \in Left(w, 8) <=> p \in w
    <3> SUFFICES ASSUME NEW p \in Bits PROVE p + 8 \in Left(w, 8) <=> p \in w
      OBVIOUS
    <3>1. CASE p + 8 \in Bits
      <4>1. (p + 8) - 8 = p
        BY DEF Bits
      <4> QED  BY <1>2, <3>1, <4>1
    <3>2. CASE p + 8 \notin Bits
      <4>1. p + 8 \notin Left(w, 8)
        BY <1>2, <3>2 DEF Word
      <4>2. p \notin w
        BY <3>2 DEF Bits
      <4> QED  BY <4>1, <4>2
    <3> QED  BY <3>1, <3>2
  <2> QED  BY <1>1, <2>1, <2>2, <2>3, SameBits
<1>5. Xor(x, byte) \in Word /\ Xor(byte, Left(w, 8)) \in Word
  BY <1>1, <1>2, XorAt
<1>6. Xor(x, Xor(byte, Left(w, 8))) = Xor(Xor(x, byte), Left(w, 8))
  BY <1>1, <1>2, XorLaws
<1> QED  BY <1>1, <1>2, <1>4, <1>5, <1>6, EightShiftsLinear, TurnCShifts

\* A byte and what stands above it.
LEMMA ByteBelow ==
    ASSUME NEW byte \in Byte, NEW w \in SUBSET (0 .. 23), NEW p \in Int
    PROVE  p \in Xor(byte, Left(w, 8)) <=> p \in byte \/ p - 8 \in w
<1>1. p \in Left(w, 8) <=> p - 8 \in w
  <2>1. p \in Left(w, 8) <=> p \in Bits /\ \E q \in w : p = q + 8
    BY DEF Left
  <2>2. (\E q \in w : p = q + 8) <=> p - 8 \in w
    <3>1. ASSUME NEW q \in w, p = q + 8 PROVE p - 8 = q
      BY <3>1
    <3> QED  BY <3>1
  <2>3. p - 8 \in w => p \in Bits
    BY DEF Bits
  <2> QED  BY <2>1, <2>2, <2>3
<1>2. p - 8 \in w => p \notin byte
  BY DEF Byte
<1> QED  BY <1>1, <1>2 DEF Xor

\* Four tables for a little-endian word are four turns of crc32c.
LEMMA TurnCXShifts ==
    ASSUME NEW x \in Word, NEW bytes, \A n \in 1 .. 4 : bytes[n] \in Byte
    PROVE  TurnCX(x, WordOf(bytes)) =
              TurnC(TurnC(TurnC(TurnC(x, bytes[1]), bytes[2]), bytes[3]), bytes[4])
<1> DEFINE w3 == bytes[4]
           w2 == Xor(bytes[3], Left(w3, 8))
           w1 == Xor(bytes[2], Left(w2, 8))
           w0 == Xor(bytes[1], Left(w1, 8))
<1>1. /\ bytes[1] \in Byte /\ bytes[2] \in Byte /\ bytes[3] \in Byte /\ bytes[4] \in Byte
  OBVIOUS
<1>2. w3 \in SUBSET (0 .. 23) /\ w2 \in SUBSET (0 .. 23) /\ w1 \in SUBSET (0 .. 23)
  BY <1>1 DEF Byte, Xor, Left, Bits
<1>3. WordOf(bytes) = w0
  <2>1. WordOf(bytes) = Left(bytes[1], 0) \cup Left(bytes[2], 8) \cup Left(bytes[3], 16)
                        \cup Left(bytes[4], 24)
    <3>1. 1 .. 4 = {1, 2, 3, 4}
      OBVIOUS
    <3> QED  BY <3>1 DEF WordOf
  <2>2. ASSUME NEW p \in Int
        PROVE  p \in w0 <=> \/ p \in bytes[1] \/ p - 8 \in bytes[2]
                            \/ p - 16 \in bytes[3] \/ p - 24 \in bytes[4]
    <3>1. p \in w0 <=> p \in bytes[1] \/ p - 8 \in w1
      <4> HIDE DEF w1
      <4> QED  BY <1>1, <1>2, ByteBelow
    <3>2. p - 8 \in w1 <=> p - 8 \in bytes[2] \/ (p - 8) - 8 \in w2
      <4> HIDE DEF w2
      <4> QED  BY <1>1, <1>2, ByteBelow
    <3>3. p - 16 \in w2 <=> p - 16 \in bytes[3] \/ (p - 16) - 8 \in w3
      <4> HIDE DEF w3
      <4> QED  BY <1>1, <1>2, ByteBelow
    <3>4. (p - 8) - 8 = p - 16 /\ (p - 16) - 8 = p - 24
      OBVIOUS
    <3> HIDE DEF w0, w1, w2
    <3> QED  BY <3>1, <3>2, <3>3, <3>4
  <2>3. ASSUME NEW p \in Int
        PROVE  p \in WordOf(bytes) <=> \/ p \in bytes[1] \/ p - 8 \in bytes[2]
                                       \/ p - 16 \in bytes[3] \/ p - 24 \in bytes[4]
    <3>1. \A n \in {0, 8, 16, 24}, byte \in Byte : p \in Left(byte, n) <=> p - n \in byte
      <4> SUFFICES ASSUME NEW n \in {0, 8, 16, 24}, NEW byte \in Byte
                   PROVE  p \in Left(byte, n) <=> p - n \in byte
        OBVIOUS
      <4>1. p \in Left(byte, n) <=> p \in Bits /\ \E q \in byte : p = q + n
        BY DEF Left
      <4>2. ASSUME NEW q \in byte, p = q + n PROVE p - n = q
        BY <4>2 DEF Byte
      <4>3. p - n \in byte => p \in Bits /\ p = (p - n) + n
        BY DEF Bits, Byte
      <4> QED  BY <4>1, <4>2, <4>3
    <3> QED  BY <1>1, <2>1, <3>1
  <2>4. w0 \subseteq Int /\ WordOf(bytes) \subseteq Int
    <3>1. Bits \subseteq Int /\ bytes[1] \subseteq Int
      BY <1>1 DEF Bits, Byte
    <3> QED  BY <2>1, <3>1 DEF Xor, Left
  <2> HIDE DEF w0
  <2> QED  BY <2>2, <2>3, <2>4
<1>4. TurnCX(x, w0) = EightShifts(EightShifts(EightShifts(EightShifts(Xor(x, w0)))))
  <2>1. w0 \in Word
    <3> HIDE DEF w1
    <3> QED  BY <1>1, <1>2, TakeByte
  <2>2. Xor(x, w0) \in Word
    <3> HIDE DEF w0
    <3> QED  BY <2>1, XorAt
  <2> HIDE DEF w0
  <2> QED  BY <2>2, LookUpShifts, EightShiftsLinear DEF TurnCX
<1> DEFINE x1 == TurnC(x, bytes[1])
           x2 == TurnC(x1, bytes[2])
           x3 == TurnC(x2, bytes[3])
           x4 == TurnC(x3, bytes[4])
<1>5. x1 \in Word /\ EightShifts(Xor(x, w0)) = Xor(x1, w1)
  <2> HIDE DEF w1
  <2> QED  BY <1>1, <1>2, TakeByte, TurnCShifts
<1> HIDE DEF x1
<1>6. x2 \in Word /\ EightShifts(Xor(x1, w1)) = Xor(x2, w2)
  <2> HIDE DEF w2
  <2> QED  BY <1>1, <1>2, <1>5, TakeByte, TurnCShifts
<1> HIDE DEF x2
<1>7. x3 \in Word /\ EightShifts(Xor(x2, w2)) = Xor(x3, w3)
  <2> HIDE DEF w3
  <2> QED  BY <1>1, <1>2, <1>6, TakeByte, TurnCShifts
<1>8. EightShifts(Xor(x3, w3)) = x4
  <2> HIDE DEF x3
  <2> QED  BY <1>1, <1>7, TurnCShifts
<1> HIDE DEF w0, x3
<1>9. TurnCX(x, w0) = x4
  <2> HIDE DEF w1, w2, w3, x4
  <2> QED  BY <1>4, <1>5, <1>6, <1>7, <1>8
<1> QED  BY <1>3, <1>9 DEF x1, x2, x3

-----------------------------------------------------------------------------
(***************************************************************************)
(* reverse turns a word around, and the shifts to the left of crc32a are   *)
(* the shifts to the right of the others seen in that mirror.              *)
(***************************************************************************)
LEMMA SwapAt ==
    ASSUME NEW x \in Word, NEW n \in {1, 2, 4}, NEW mask, mask = {p \in Bits : p % (2 * n) < n}
    PROVE  /\ SwapGroups(x, mask, n) \in Word
           /\ \A p \in Bits :
                 p \in SwapGroups(x, mask, n) <=>
                    IF p % (2 * n) < n THEN p + n \in x ELSE p - n \in x
<1>1. x \cap mask \in Word /\ mask \in Word
  BY DEF Word
<1>2. /\ Left(x \cap mask, n) \in Word
      /\ \A p \in Bits : p \in Left(x \cap mask, n) <=> p - n \in x \cap mask
  BY <1>1, LeftAt
<1>3. Right(x, n) \in Word /\ \A p \in Bits : p \in Right(x, n) <=> p + n \in x
  BY RightAt
<1>4. ASSUME NEW p \in Bits
      PROVE  p \in SwapGroups(x, mask, n) <=>
                IF p % (2 * n) < n THEN p + n \in x ELSE p - n \in x
  <2>1. p \in SwapGroups(x, mask, n) <=>
           (p - n \in x /\ p - n \in mask) \/ (p + n \in x /\ p \in mask)
    BY <1>2, <1>3 DEF SwapGroups
  <2>2. p \in mask <=> p % (2 * n) < n
    OBVIOUS
  <2>3. p - n \in x => (p - n \in mask <=> ~ (p % (2 * n) < n))
    <3> SUFFICES ASSUME p - n \in x PROVE p - n \in mask <=> ~ (p % (2 * n) < n)
      OBVIOUS
    <3>1. p - n \in Bits
      BY DEF Word
    <3>2. (p - n) % (2 * n) < n <=> ~ (p % (2 * n) < n)
      <4>1. CASE n = 1
        BY <3>1, <4>1 DEF Bits
      <4>2. CASE n = 2
        BY <3>1, <4>2 DEF Bits
      <4>3. CASE n = 4
        BY <3>1, <4>3 DEF Bits
      <4> QED  BY <4>1, <4>2, <4>3
    <3> QED  BY <3>1, <3>2
  <2> QED  BY <2>1, <2>2, <2>3
<1>5. SwapGroups(x, mask, n) \in Word
  BY <1>2, <1>3 DEF SwapGroups, Word
<1> QED  BY <1>4, <1>5

\* reverse exchanges bits p and 31 - p.
LEMMA ReverseAt ==
    ASSUME NEW x \in Word
    PROVE  reverse(x) \in Word /\ \A p \in Bits : p \in reverse(x) <=> 31 - p \in x
<1> DEFINE ones  == SwapGroups(x, {p \in Bits : p % 2 < 1}, 1)
           twos  == SwapGroups(ones, {p \in Bits : p % 4 < 2}, 2)
           fours == SwapGroups(twos, {p \in Bits : p % 8 < 4}, 4)
           middle == fours \cap 8 .. 15
<1>1. /\ ones \in Word
      /\ \A p \in Bits : p \in ones <=> IF p % 2 < 1 THEN p + 1 \in x ELSE p - 1 \in x
  BY SwapAt
<1>2. /\ twos \in Word
      /\ \A p \in Bits : p \in twos <=> IF p % 4 < 2 THEN p + 2 \in ones ELSE p - 2 \in ones
  <2> HIDE DEF ones
  <2> QED  BY <1>1, SwapAt
<1>3. /\ fours \in Word
      /\ \A p \in Bits : p \in fours <=> IF p % 8 < 4 THEN p + 4 \in twos ELSE p - 4 \in twos
  <2> HIDE DEF twos
  <2> QED  BY <1>2, SwapAt
<1> HIDE DEF ones, twos, fours
<1>4. reverse(x) = Left(fours, 24) \cup Left(middle, 8)
                       \cup (Right(fours, 8) \cap 8 .. 15) \cup Right(fours, 24)
  BY DEF reverse, ones, twos, fours
<1>5. /\ Left(fours, 24) \in Word /\ Left(middle, 8) \in Word
      /\ Right(fours, 8) \in Word /\ Right(fours, 24) \in Word
      /\ \A p \in Bits : /\ p \in Left(fours, 24) <=> p - 24 \in fours
                         /\ p \in Left(middle, 8) <=> p - 8 \in middle
                         /\ p \in Right(fours, 8) <=> p + 8 \in fours
                         /\ p \in Right(fours, 24) <=> p + 24 \in fours
  <2>1. middle \in Word
    BY <1>3 DEF Word
  <2> HIDE DEF middle
  <2> QED  BY <1>3, <2>1, LeftAt, RightAt
<1>6. reverse(x) \in Word
  BY <1>4, <1>5 DEF Word
<1>7. ASSUME NEW p \in Bits
      PROVE  p \in reverse(x) <=>
                IF p < 8 THEN p + 24 \in fours ELSE IF p < 16 THEN p + 8 \in fours
                ELSE IF p < 24 THEN p - 8 \in fours ELSE p - 24 \in fours
  <2>1. \A q \in fours : q \in Bits
    BY <1>3 DEF Word
  <2> QED  BY <1>4, <1>5, <2>1 DEF Bits
<1> DEFINE e(p) == IF p < 8 THEN p + 24 ELSE IF p < 16 THEN p + 8
                   ELSE IF p < 24 THEN p - 8 ELSE p - 24
           f(p) == IF p % 8 < 4 THEN p + 4 ELSE p - 4
           t(p) == IF p % 4 < 2 THEN p + 2 ELSE p - 2
           o(p) == IF p % 2 < 1 THEN p + 1 ELSE p - 1
<1>8. ASSUME NEW p \in Bits
      PROVE  /\ e(p) \in Bits /\ f(p) \in Bits /\ t(p) \in Bits
             /\ o(t(f(e(p)))) = 31 - p
  BY DEF Bits
<1>9. ASSUME NEW p \in Bits
      PROVE  /\ p \in reverse(x) <=> e(p) \in fours
             /\ p \in fours <=> f(p) \in twos
             /\ p \in twos <=> t(p) \in ones
             /\ p \in ones <=> o(p) \in x
  BY <1>1, <1>2, <1>3, <1>7
<1> HIDE DEF e, f, t, o
<1> QED  BY <1>6, <1>8, <1>9

\* reverse undoes itself, and turns shifts to the left into shifts to the right.
LEMMA ReverseLaws ==
    ASSUME NEW x \in Word, NEW y \in Word
    PROVE  /\ reverse(reverse(x)) = x
           /\ reverse(Xor(x, y)) = Xor(reverse(x), reverse(y))
           /\ reverse(Left(x, 1)) = Right(reverse(x), 1)
           /\ reverse(Not(x)) = Not(reverse(x))
<1>1. /\ reverse(x) \in Word /\ reverse(y) \in Word /\ Xor(x, y) \in Word
      /\ Left(x, 1) \in Word /\ Not(x) \in Word /\ Not(reverse(x)) \in Word
      /\ Xor(reverse(x), reverse(y)) \in Word /\ Right(reverse(x), 1) \in Word
  <2>1. reverse(x) \in Word /\ reverse(y) \in Word
    BY ReverseAt
  <2>2. \A z : Not(z) \in Word
    BY DEF Not, Word
  <2> QED  BY <2>1, <2>2, XorAt, LeftAt, RightAt
<1>2. \A p \in Bits : 31 - p \in Bits /\ 31 - (31 - p) = p
  BY DEF Bits
<1>3. reverse(reverse(x)) = x
  <2>1. \A p \in Bits : p \in reverse(reverse(x)) <=> p \in x
    BY <1>1, <1>2, ReverseAt
  <2> QED  BY <1>1, <2>1, ReverseAt, SameBits
<1>4. reverse(Xor(x, y)) = Xor(reverse(x), reverse(y))
  <2>1. \A p \in Bits : p \in reverse(Xor(x, y)) <=> p \in Xor(reverse(x), reverse(y))
    BY <1>1, <1>2, ReverseAt, XorAt
  <2>2. reverse(Xor(x, y)) \in Word
    BY <1>1, ReverseAt
  <2> QED  BY <1>1, <2>1, <2>2, SameBits
<1>5. reverse(Left(x, 1)) = Right(reverse(x), 1)
  <2>1. ASSUME NEW p \in Bits
        PROVE  p \in reverse(Left(x, 1)) <=> p \in Right(reverse(x), 1)
    <3>1. p \in reverse(Left(x, 1)) <=> (31 - p) - 1 \in x
      BY <1>1, <1>2, ReverseAt, LeftAt
    <3>2. p \in Right(reverse(x), 1) <=> p + 1 \in reverse(x)
      BY <1>1, RightAt
    <3>3. p + 1 \in reverse(x) <=> 31 - (p + 1) \in x
      <4>1. CASE p + 1 \in Bits
        BY <4>1, ReverseAt
      <4>2. CASE p + 1 \notin Bits
        BY <1>1, <4>2 DEF Word, Bits
      <4> QED  BY <4>1, <4>2
    <3>4. (31 - p) - 1 = 31 - (p + 1)
      BY DEF Bits
    <3> QED  BY <3>1, <3>2, <3>3, <3>4
  <2>2. reverse(Left(x, 1)) \in Word
    BY <1>1, ReverseAt
  <2> QED  BY <1>1, <2>1, <2>2, SameBits
<1>6. reverse(Not(x)) = Not(reverse(x))
  <2>1. \A p \in Bits : p \in reverse(Not(x)) <=> p \in Not(reverse(x))
    <3>1. \A p \in Bits : p \in reverse(Not(x)) <=> 31 - p \in Not(x)
      BY <1>1, ReverseAt
    <3>2. \A p \in Bits : p \in reverse(x) <=> 31 - p \in x
      BY ReverseAt
    <3> QED  BY <1>2, <3>1, <3>2 DEF Not
  <2>2. reverse(Not(x)) \in Word
    BY <1>1, ReverseAt
  <2> QED  BY <1>1, <2>1, <2>2, SameBits
<1> QED  BY <1>3, <1>4, <1>5, <1>6

\* One bit of crc32a: the mirror image of what is shifted is shifted the other way.
ShiftA(s) ==
    [crc  |-> Xor(Left(s.crc, 1), IF 31 \in Xor(s.crc, s.byte) THEN Polynomial ELSE {}),
     byte |-> Left(s.byte, 1)]

Mirror(s) == reverse(Xor(s.crc, s.byte))

PairsOf(n) == [crc : Word, byte : SUBSET (n .. 31)]

\* One bit of crc32a is one shift of crc32b, seen in the mirror.
LEMMA ShiftAMirrored ==
    ASSUME NEW n \in 24 .. 31, NEW s \in PairsOf(n)
    PROVE  ShiftA(s) \in PairsOf(n + 1) /\ Mirror(ShiftA(s)) = Shift(Mirror(s))
<1> DEFINE sum == Xor(s.crc, s.byte)
           poly == IF 31 \in sum THEN Polynomial ELSE {}
           mirrored == IF 0 \in reverse(sum) THEN ReversedPolynomial ELSE {}
<1>1. s.crc \in Word /\ s.byte \in Word /\ s.byte \subseteq n .. 31
  BY DEF PairsOf, Word, Bits
<1>2. sum \in Word /\ poly \in Word /\ reverse(sum) \in Word
  <2>1. sum \in Word
    BY <1>1, XorAt
  <2> HIDE DEF sum
  <2> QED  BY <2>1, Polynomials, ReverseAt
<1>3. ShiftA(s) = [crc |-> Xor(Left(s.crc, 1), poly), byte |-> Left(s.byte, 1)]
  BY DEF ShiftA
<1>4. Left(s.crc, 1) \in Word /\ Left(s.byte, 1) \in Word
  BY <1>1, LeftAt
<1>5. Left(s.byte, 1) \subseteq (n + 1) .. 31
  BY <1>1 DEF Left, Bits
<1> HIDE DEF poly
<1>6. Xor(Left(s.crc, 1), poly) \in Word
  BY <1>2, <1>4, XorAt
<1>7. ShiftA(s) \in PairsOf(n + 1)
  BY <1>3, <1>5, <1>6 DEF PairsOf
<1>8. reverse(poly) = mirrored
  <2>1. 31 \in sum <=> 0 \in reverse(sum)
    <3> HIDE DEF sum
    <3> QED  BY <1>2, ReverseAt DEF Bits
  <2>2. reverse(Polynomial) = ReversedPolynomial
    <3>1. \A p \in Bits : p \in reverse(Polynomial) <=> p \in ReversedPolynomial
      BY Polynomials, ReverseAt
    <3> QED  BY <3>1, Polynomials, ReverseAt, SameBits
  <2>3. reverse({}) = {}
    <3>1. \A p \in Bits : p \in reverse({}) <=> p \in {}
      BY Polynomials, ReverseAt
    <3> QED  BY <3>1, Polynomials, ReverseAt, SameBits
  <2> HIDE DEF sum
  <2> QED  BY <2>1, <2>2, <2>3 DEF poly
<1>9. Xor(Left(s.crc, 1), Left(s.byte, 1)) = Left(sum, 1)
  <2>1. Xor(Left(s.crc, 1), Left(s.byte, 1)) \in Word /\ Left(sum, 1) \in Word
    <3> HIDE DEF sum
    <3> QED  BY <1>2, <1>4, XorAt, LeftAt
  <2>2. ASSUME NEW p \in Bits
        PROVE  p \in Xor(Left(s.crc, 1), Left(s.byte, 1)) <=> p \in Left(sum, 1)
    <3>1. p \in Left(sum, 1) <=> p - 1 \in sum
      <4> HIDE DEF sum
      <4> QED  BY <1>2, LeftAt
    <3>2. /\ p \in Left(s.crc, 1) <=> p - 1 \in s.crc
          /\ p \in Left(s.byte, 1) <=> p - 1 \in s.byte
      BY <1>1, LeftAt
    <3> QED  BY <1>4, <3>1, <3>2, XorAt DEF Xor
  <2> HIDE DEF sum
  <2> QED  BY <2>1, <2>2, SameBits
<1>10. Mirror(ShiftA(s)) = reverse(Xor(Left(sum, 1), poly))
  <2>1. Mirror(ShiftA(s)) = reverse(Xor(Xor(Left(s.crc, 1), poly), Left(s.byte, 1)))
    BY <1>3 DEF Mirror
  <2>2. Xor(Xor(Left(s.crc, 1), poly), Left(s.byte, 1))
           = Xor(Xor(Left(s.crc, 1), Left(s.byte, 1)), poly)
    BY DEF Xor
  <2> QED  BY <1>9, <2>1, <2>2
<1>11. Shift(reverse(sum)) = Xor(Right(reverse(sum), 1), mirrored)
  BY DEF Shift
<1>12. Mirror(s) = reverse(sum)
  BY DEF Mirror
<1> HIDE DEF sum, mirrored
<1>13. reverse(Xor(Left(sum, 1), poly)) = Xor(reverse(Left(sum, 1)), reverse(poly))
  BY <1>2, LeftAt, ReverseLaws
<1>14. reverse(Left(sum, 1)) = Right(reverse(sum), 1)
  BY <1>2, ReverseLaws
<1> QED  BY <1>7, <1>8, <1>10, <1>11, <1>12, <1>13, <1>14

\* The inner loop of crc32a, unrolled.
LEMMA TurnAIs ==
    ASSUME NEW x, NEW byte, NEW s0, s0 = [crc |-> x, byte |-> reverse(byte)]
    PROVE  TurnA(x, byte) =
              ShiftA(ShiftA(ShiftA(ShiftA(ShiftA(ShiftA(ShiftA(ShiftA(s0)))))))).crc
<1> DEFINE s1 == ShiftA(s0)
           s2 == ShiftA(s1)
           s3 == ShiftA(s2)
           s4 == ShiftA(s3)
           s5 == ShiftA(s4)
           s6 == ShiftA(s5)
           s7 == ShiftA(s6)
           s8 == ShiftA(s7)
           turn(f) == [n \in 0 .. 8 |-> IF n = 0 THEN s0 ELSE ShiftA(f[n - 1])]
           g == [n \in 0 .. 8 |->
                   IF n = 0 THEN s0 ELSE IF n = 1 THEN s1 ELSE IF n = 2 THEN s2
                   ELSE IF n = 3 THEN s3 ELSE IF n = 4 THEN s4 ELSE IF n = 5 THEN s5
                   ELSE IF n = 6 THEN s6 ELSE IF n = 7 THEN s7 ELSE s8]
           f == CHOOSE h : h = turn(h)
<1>1. TurnA(x, byte) = f[8].crc
  BY DEF TurnA, ShiftA
<1>2. g = turn(g)
  <2> HIDE DEF s1, s2, s3, s4, s5, s6, s7, s8
  <2> SUFFICES ASSUME NEW n \in 0 .. 8 PROVE g[n] = IF n = 0 THEN s0 ELSE ShiftA(g[n - 1])
    OBVIOUS
  <2>1. /\ s1 = ShiftA(s0) /\ s2 = ShiftA(s1) /\ s3 = ShiftA(s2) /\ s4 = ShiftA(s3)
        /\ s5 = ShiftA(s4) /\ s6 = ShiftA(s5) /\ s7 = ShiftA(s6) /\ s8 = ShiftA(s7)
    BY DEF s1, s2, s3, s4, s5, s6, s7, s8
  <2> QED  BY <2>1
<1>3. f = turn(f)
  <2> HIDE DEF turn, g
  <2> QED BY <1>2
<1> HIDE DEF f
<1>4. /\ f[0] = s0 /\ f[1] = ShiftA(f[0]) /\ f[2] = ShiftA(f[1]) /\ f[3] = ShiftA(f[2])
      /\ f[4] = ShiftA(f[3]) /\ f[5] = ShiftA(f[4]) /\ f[6] = ShiftA(f[5])
      /\ f[7] = ShiftA(f[6]) /\ f[8] = ShiftA(f[7])
  BY <1>3
<1> QED  BY <1>1, <1>4

\* One byte of crc32a is one byte of crc32b, seen in the mirror.
LEMMA TurnAMirrored ==
    ASSUME NEW x \in Word, NEW byte \in Byte
    PROVE  TurnA(x, byte) \in Word /\ reverse(TurnA(x, byte)) = TurnB(reverse(x), byte)
<1> DEFINE s0 == [crc |-> x, byte |-> reverse(byte)]
           s1 == ShiftA(s0)
           s2 == ShiftA(s1)
           s3 == ShiftA(s2)
           s4 == ShiftA(s3)
           s5 == ShiftA(s4)
           s6 == ShiftA(s5)
           s7 == ShiftA(s6)
           s8 == ShiftA(s7)
<1>1. byte \in Word /\ reverse(byte) \in Word /\ reverse(x) \in Word
  BY ByteIsWord, ReverseAt
<1>2. reverse(byte) \subseteq 24 .. 31
  <2>1. ASSUME NEW p \in reverse(byte) PROVE p \in 24 .. 31
    <3>1. p \in Bits
      BY <1>1 DEF Word
    <3>2. 31 - p \in 0 .. 7
      BY <1>1, <3>1, ReverseAt DEF Byte
    <3> QED  BY <3>1, <3>2 DEF Bits
  <2> QED  BY <2>1
<1>3. s0 \in PairsOf(24)
  BY <1>2 DEF PairsOf
<1>4. TurnA(x, byte) = s8.crc
  BY TurnAIs
<1>5. Mirror(s0) = Xor(reverse(x), byte)
  <2>1. Mirror(s0) = reverse(Xor(x, reverse(byte)))
    BY DEF Mirror
  <2> QED  BY <1>1, <2>1, ReverseLaws
<1> HIDE DEF s0
<1>6. s1 \in PairsOf(25) /\ Mirror(s1) = Shift(Mirror(s0))
  BY <1>3, ShiftAMirrored
<1> HIDE DEF s1
<1>7. s2 \in PairsOf(26) /\ Mirror(s2) = Shift(Mirror(s1))
  BY <1>6, ShiftAMirrored
<1> HIDE DEF s2
<1>8. s3 \in PairsOf(27) /\ Mirror(s3) = Shift(Mirror(s2))
  BY <1>7, ShiftAMirrored
<1> HIDE DEF s3
<1>9. s4 \in PairsOf(28) /\ Mirror(s4) = Shift(Mirror(s3))
  BY <1>8, ShiftAMirrored
<1> HIDE DEF s4
<1>10. s5 \in PairsOf(29) /\ Mirror(s5) = Shift(Mirror(s4))
  BY <1>9, ShiftAMirrored
<1> HIDE DEF s5
<1>11. s6 \in PairsOf(30) /\ Mirror(s6) = Shift(Mirror(s5))
  BY <1>10, ShiftAMirrored
<1> HIDE DEF s6
<1>12. s7 \in PairsOf(31) /\ Mirror(s7) = Shift(Mirror(s6))
  BY <1>11, ShiftAMirrored
<1> HIDE DEF s7
<1>13. s8 \in PairsOf(32) /\ Mirror(s8) = Shift(Mirror(s7))
  BY <1>12, ShiftAMirrored
<1> HIDE DEF s8
<1>14. s8.crc \in Word /\ s8.byte = {}
  BY <1>13 DEF PairsOf
<1>15. Mirror(s8) = reverse(s8.crc)
  BY <1>14, XorLaws, Polynomials DEF Mirror
<1> QED
  BY <1>4, <1>5, <1>6, <1>7, <1>8, <1>9, <1>10, <1>11, <1>12, <1>13, <1>14, <1>15,
     EightShiftsIs DEF TurnB

-----------------------------------------------------------------------------
(***************************************************************************)
(* The functions while they read.                                          *)
(***************************************************************************)
Types ==
    /\ message \in Seq(Bytes) /\ other \in Seq(Bytes) /\ Len(other) = Len(message)
    /\ a \in Word /\ b \in Word /\ c \in Word /\ cx \in Word /\ d \in Word

\* crc32a holds the mirror image of crc32b's word, and crc32cx is behind crc32c
\* by the bytes of the word it has not read yet.
InStep ==
    LET n == Len(message) IN
    ZeroFree(message) =>
        /\ reverse(a) = b /\ b = c
        /\ n % 4 = 0 => c = cx
        /\ n % 4 = 1 => c = TurnC(cx, message[n])
        /\ n % 4 = 2 => c = TurnC(TurnC(cx, message[n - 1]), message[n])
        /\ n % 4 = 3 => c = TurnC(TurnC(TurnC(cx, message[n - 2]), message[n - 1]), message[n])

Agreeing == Types /\ InStep

\* The bytes of the messages are bytes.
LEMMA BytesAreBytes == \A byte \in Bytes : byte \in Byte
BY Crc32Assumption DEF Byte

\* A message with one byte more.
LEMMA ReadBytes ==
    ASSUME NEW bytes \in Seq(Bytes), NEW byte \in Bytes
    PROVE  /\ Append(bytes, byte) \in Seq(Bytes) /\ Len(Append(bytes, byte)) = Len(bytes) + 1
           /\ \A k \in 1 .. Len(bytes) : Append(bytes, byte)[k] = bytes[k]
           /\ Append(bytes, byte)[Len(bytes) + 1] = byte
           /\ ZeroFree(Append(bytes, byte)) => ZeroFree(bytes)
<1>1. /\ Append(bytes, byte) \in Seq(Bytes) /\ Len(Append(bytes, byte)) = Len(bytes) + 1
      /\ \A k \in 1 .. Len(bytes) : Append(bytes, byte)[k] = bytes[k]
      /\ Append(bytes, byte)[Len(bytes) + 1] = byte
  OBVIOUS
<1>2. ASSUME {} \in Range(bytes) PROVE {} \in Range(Append(bytes, byte))
  <2>1. PICK k \in DOMAIN bytes : bytes[k] = {}
    BY <1>2 DEF Range
  <2>2. /\ DOMAIN bytes = 1 .. Len(bytes)
        /\ DOMAIN Append(bytes, byte) = 1 .. Len(Append(bytes, byte))
    BY <1>1
  <2>3. k \in DOMAIN Append(bytes, byte) /\ Append(bytes, byte)[k] = {}
    BY <1>1, <2>1, <2>2
  <2> QED  BY <2>3 DEF Range
<1> QED  BY <1>1, <1>2 DEF ZeroFree

\* Before a byte is read, all words are words.
LEMMA TypesHold == Init => Types
<1>1. Bits \in Word
  BY DEF Word
<1> QED  BY <1>1 DEF Init, Types

\* No turn leaves the 32 bits.
LEMMA TurnsKeepWords ==
    ASSUME NEW byte \in Bytes, NEW x \in Word
    PROVE  TurnA(x, byte) \in Word /\ TurnB(x, byte) \in Word /\ TurnC(x, byte) \in Word
<1>1. byte \in Byte
  BY BytesAreBytes
<1> QED  BY <1>1, TurnAMirrored, TurnCShifts

\* The word that crc32cx reads is the last four bytes, one after the other.
LEMMA LastWord ==
    ASSUME NEW read \in Seq(Bytes), Len(read) >= 4, NEW x \in Word, NEW last4,
           last4 = SubSeq(read, Len(read) - 3, Len(read))
    PROVE  /\ TurnCX(x, WordOf(last4)) =
                 TurnC(TurnC(TurnC(TurnC(x, read[Len(read) - 3]), read[Len(read) - 2]),
                             read[Len(read) - 1]), read[Len(read)])
           /\ TurnCX(x, WordOf(last4)) \in Word
<1>1. /\ last4[1] = read[Len(read) - 3] /\ last4[2] = read[Len(read) - 2]
      /\ last4[3] = read[Len(read) - 1] /\ last4[4] = read[Len(read)]
  OBVIOUS
<1>2. \A n \in 1 .. 4 : last4[n] \in Bytes
  OBVIOUS
<1>3. \A n \in 1 .. 4 : last4[n] \in Byte
  BY <1>2, BytesAreBytes
<1>4. TurnCX(x, WordOf(last4)) =
         TurnC(TurnC(TurnC(TurnC(x, last4[1]), last4[2]), last4[3]), last4[4])
  BY <1>3, TurnCXShifts
<1>5. /\ last4[1] \in Bytes /\ last4[2] \in Bytes /\ last4[3] \in Bytes /\ last4[4] \in Bytes
  BY <1>2
<1>6. TurnC(TurnC(TurnC(TurnC(x, last4[1]), last4[2]), last4[3]), last4[4]) \in Word
  BY <1>5, TurnsKeepWords
<1> QED  BY <1>1, <1>4, <1>6

\* Reading a byte keeps the types.
LEMMA TypesKept ==
    ASSUME Types, NEW byte \in Bytes, NEW otherByte \in Bytes, ReadByte(byte, otherByte)
    PROVE  Types'
<1> DEFINE last4 == SubSeq(message', Len(message') - 3, Len(message'))
<1>1. /\ message' = Append(message, byte) /\ other' = Append(other, otherByte)
      /\ message' \in Seq(Bytes) /\ other' \in Seq(Bytes) /\ Len(other') = Len(message')
      /\ Len(message') \in Nat \ {0}
  BY ReadBytes DEF Types, ReadByte
<1>2. a' \in Word /\ b' \in Word /\ c' \in Word /\ d' \in Word
  BY TurnsKeepWords DEF Types, ReadByte
<1>3. \/ cx' = cx
      \/ Len(message') % 4 = 0 /\ cx' = TurnCX(cx, WordOf(last4))
  BY <1>1 DEF ReadByte
<1>4. cx' \in Word
  <2>1. CASE cx' = cx
    BY <2>1 DEF Types
  <2>2. CASE Len(message') % 4 = 0 /\ cx' = TurnCX(cx, WordOf(last4))
    <3>1. Len(message') >= 4
      BY <1>1, <2>2
    <3>2. TurnCX(cx, WordOf(last4)) \in Word
      BY <1>1, <3>1, LastWord DEF Types
    <3> QED  BY <2>2, <3>2
  <2> QED  BY <1>3, <2>1, <2>2
<1> QED  BY <1>1, <1>2, <1>4 DEF Types

\* Reading a byte keeps the four functions in step.
LEMMA InStepKept ==
    ASSUME Agreeing, NEW byte \in Bytes, NEW otherByte \in Bytes, ReadByte(byte, otherByte)
    PROVE  InStep'
<1> DEFINE n == Len(message)
           last4 == SubSeq(message', Len(message') - 3, Len(message'))
<1> SUFFICES ASSUME ZeroFree(message')
             PROVE  LET k == Len(message') IN
                    /\ reverse(a') = b' /\ b' = c'
                    /\ k % 4 = 0 => c' = cx'
                    /\ k % 4 = 1 => c' = TurnC(cx', message'[k])
                    /\ k % 4 = 2 => c' = TurnC(TurnC(cx', message'[k - 1]), message'[k])
                    /\ k % 4 = 3 => c' = TurnC(TurnC(TurnC(cx', message'[k - 2]),
                                                     message'[k - 1]), message'[k])
  BY DEF InStep
<1>1. /\ message' = Append(message, byte) /\ message' \in Seq(Bytes) /\ n \in Nat
      /\ Len(message') = n + 1
      /\ \A k \in 1 .. n : message'[k] = message[k]
      /\ message'[n + 1] = byte
      /\ ZeroFree(message)
  BY ReadBytes DEF Agreeing, Types, ReadByte
<1>2. /\ a' = TurnA(a, byte) /\ b' = TurnB(b, byte) /\ c' = TurnC(c, byte)
      /\ (n + 1) % 4 = 0 => cx' = TurnCX(cx, WordOf(last4))
      /\ (n + 1) % 4 # 0 => cx' = cx
  BY <1>1 DEF ReadByte
<1>3. a \in Word /\ c \in Word /\ cx \in Word /\ byte \in Byte
  BY BytesAreBytes DEF Agreeing, Types
<1>4. /\ reverse(a) = b /\ b = c
      /\ n % 4 = 0 => c = cx
      /\ n % 4 = 1 => c = TurnC(cx, message[n])
      /\ n % 4 = 2 => c = TurnC(TurnC(cx, message[n - 1]), message[n])
      /\ n % 4 = 3 => c = TurnC(TurnC(TurnC(cx, message[n - 2]), message[n - 1]), message[n])
  BY <1>1 DEF Agreeing, InStep
<1>5. reverse(a') = b' /\ b' = c'
  <2>1. reverse(TurnA(a, byte)) = TurnB(reverse(a), byte)
    BY <1>3, TurnAMirrored
  <2>2. TurnB(c, byte) = TurnC(c, byte)
    BY <1>3, TurnCShifts
  <2> QED  BY <1>2, <1>4, <2>1, <2>2
<1>6. CASE n % 4 = 0
  <2>1. (n + 1) % 4 = 1
    BY <1>1, <1>6
  <2> QED  BY <1>1, <1>2, <1>4, <1>5, <1>6, <2>1
<1>7. CASE n % 4 = 1
  <2>1. (n + 1) % 4 = 2 /\ n \in 1 .. n /\ (n + 1) - 1 = n
    BY <1>1, <1>7
  <2>2. message'[n] = message[n]
    BY <1>1, <2>1
  <2>3. c' = TurnC(TurnC(cx', message'[n]), message'[n + 1])
    <3>1. cx' = cx /\ c = TurnC(cx, message[n])
      BY <1>2, <1>4, <1>7, <2>1
    <3> QED  BY <1>1, <1>2, <2>2, <3>1
  <2>4. /\ Len(message') % 4 = 2 /\ Len(message') = n + 1 /\ Len(message') - 1 = n
    BY <1>1, <2>1
  <2>5. c' = TurnC(TurnC(cx', message'[Len(message') - 1]), message'[Len(message')])
    BY <2>3, <2>4
  <2> HIDE DEF n, last4
  <2> QED  BY <1>5, <2>4, <2>5
<1>8. CASE n % 4 = 2
  <2>1. /\ (n + 1) % 4 = 3 /\ n \in 1 .. n /\ (n + 1) - 1 = n
        /\ (n + 1) - 2 = n - 1 /\ n - 1 \in 1 .. n
    BY <1>1, <1>8
  <2>2. message'[n] = message[n] /\ message'[n - 1] = message[n - 1]
    BY <1>1, <2>1
  <2> QED  BY <1>1, <1>2, <1>4, <1>5, <1>8, <2>1, <2>2
<1>9. CASE n % 4 = 3
  <2>1. /\ (n + 1) % 4 = 0 /\ n + 1 >= 4 /\ n \in 1 .. n /\ (n + 1) - 1 = n
        /\ (n + 1) - 2 = n - 1 /\ n - 1 \in 1 .. n
        /\ (n + 1) - 3 = n - 2 /\ n - 2 \in 1 .. n
    BY <1>1, <1>9
  <2>2. /\ message'[n] = message[n] /\ message'[n - 1] = message[n - 1]
        /\ message'[n - 2] = message[n - 2]
    BY <1>1, <2>1
  <2>3. TurnCX(cx, WordOf(last4)) =
           TurnC(TurnC(TurnC(TurnC(cx, message'[Len(message') - 3]), message'[Len(message') - 2]),
                       message'[Len(message') - 1]), message'[Len(message')])
    BY <1>1, <1>3, <2>1, LastWord
  <2>4. cx' = c'
    <3> HIDE DEF last4
    <3> QED  BY <1>1, <1>2, <1>4, <1>9, <2>1, <2>2, <2>3
  <2> QED  BY <1>1, <1>5, <2>1, <2>4
<1>10. n % 4 \in 0 .. 3
  BY <1>1
<1> QED  BY <1>6, <1>7, <1>8, <1>9, <1>10

(***************************************************************************)
(* The four functions compute the same checksum of every message they are  *)
(* made for, whatever its length and its bytes.                            *)
(***************************************************************************)
THEOREM ImplementationsAgree == Spec => []FormsAgree
<1>1. Init => Agreeing
  <2> SUFFICES ASSUME Init PROVE InStep
    BY TypesHold DEF Agreeing
  <2>1. reverse(Bits) = Bits
    <3>1. Bits \in Word
      BY DEF Word
    <3>2. reverse(Bits) \in Word /\ \A p \in Bits : p \in reverse(Bits) <=> 31 - p \in Bits
      BY <3>1, ReverseAt
    <3>3. \A p \in Bits : 31 - p \in Bits
      BY DEF Bits
    <3> QED  BY <3>1, <3>2, <3>3, SameBits
  <2>2. Len(message) = 0
    BY DEF Init
  <2> QED  BY <2>1, <2>2 DEF Init, InStep
<1>2. Agreeing /\ [Next]_vars => Agreeing'
  <2> SUFFICES ASSUME Agreeing, [Next]_vars PROVE Agreeing'
    OBVIOUS
  <2>1. ASSUME NEW byte \in Bytes, NEW otherByte \in Bytes, ReadByte(byte, otherByte)
        PROVE  Agreeing'
    BY <2>1, TypesKept, InStepKept DEF Agreeing
  <2>2. CASE UNCHANGED vars
    BY <2>2 DEF vars, Agreeing, Types, InStep, ZeroFree
  <2> QED  BY <2>1, <2>2 DEF Next
<1>3. Agreeing => FormsAgree
  <2> SUFFICES ASSUME Agreeing, ZeroFree(message)
               PROVE  /\ crc32a = crc32b /\ crc32b = crc32c
                      /\ Len(message) % 4 = 0 => crc32cx = crc32c
    BY DEF FormsAgree
  <2>1. reverse(a) = b /\ b = c /\ (Len(message) % 4 = 0 => c = cx) /\ a \in Word
    BY DEF Agreeing, InStep, Types
  <2>2. reverse(Not(a)) = Not(reverse(a))
    BY <2>1, ReverseLaws
  <2> QED  BY <2>1, <2>2 DEF crc32a, crc32b, crc32c, crc32cx
<1> QED  BY <1>1, <1>2, <1>3, PTL DEF Spec

-----------------------------------------------------------------------------
(***************************************************************************)
(* Two messages.  While their first difference is one of the last four     *)
(* bytes read, the words differ by what so many turns make of the          *)
(* differing bits; from then on every turn makes of two words that differ  *)
(* two words that differ.                                                  *)
(***************************************************************************)
FirstOfNear(m) == m \in Differences /\ \A k \in Differences : m <= k /\ k - m < 4

Made(turns, difference) ==
    \E w \in SUBSET (0 .. 8 * turns - 1) :
        /\ w # {}
        /\ turns = 1 => difference = EightShifts(w)
        /\ turns = 2 => difference = EightShifts(EightShifts(w))
        /\ turns = 3 => difference = EightShifts(EightShifts(EightShifts(w)))
        /\ turns = 4 => difference = EightShifts(EightShifts(EightShifts(EightShifts(w))))

ToldApart ==
    /\ Differences = {} => c = d
    /\ \A m \in Nat : FirstOfNear(m) =>
          LET turns == Len(message) - m + 1 IN
          IF turns <= 4 THEN Made(turns, Xor(c, d)) ELSE Xor(c, d) # {}

\* What two words differ by after a turn depends on what they differed by only.
LEMMA TurnsDiffer ==
    ASSUME NEW x \in Word, NEW y \in Word, NEW byte \in Byte, NEW otherByte \in Byte
    PROVE  /\ Xor(byte, otherByte) \in Byte
           /\ Xor(TurnC(x, byte), TurnC(y, otherByte))
                 = EightShifts(Xor(Xor(x, y), Xor(byte, otherByte)))
<1>1. byte \in Word /\ otherByte \in Word /\ Xor(x, byte) \in Word /\ Xor(y, otherByte) \in Word
  BY ByteIsWord, XorAt
<1>2. Xor(Xor(x, byte), Xor(y, otherByte)) = Xor(Xor(x, y), Xor(byte, otherByte))
  BY DEF Xor
<1>3. Xor(byte, otherByte) \in Byte
  BY DEF Xor, Byte
<1> QED  BY <1>1, <1>2, <1>3, EightShiftsLinear, TurnCShifts

\* A byte one place up comes down by eight shifts.
LEMMA LeftByte ==
    ASSUME NEW n \in {0, 8, 16}, NEW w \in SUBSET (n .. n + 7)
    PROVE  /\ Left(w, 8) \in SUBSET (n + 8 .. n + 15) /\ w \in Word /\ Left(w, 8) \in Word
           /\ EightShifts(Left(w, 8)) = w
<1>1. w \in SUBSET (0 .. 23) /\ {} \in Byte /\ {} \in Word
  BY DEF Byte, Word
<1>2. Left(w, 8) \in SUBSET (n + 8 .. n + 15)
  BY DEF Left, Bits
<1> QED  BY <1>1, <1>2, TakeByte

\* The byte read last stands above the others, and its turns are one fewer.
LEMMA MadeKept ==
    ASSUME NEW turns \in 1 .. 3, NEW x \in Word, Made(turns, x), NEW byte \in Byte
    PROVE  Made(turns + 1, EightShifts(Xor(x, byte)))
<1> DEFINE d1 == Left(byte, 8)
           d2 == Left(d1, 8)
           d3 == Left(d2, 8)
<1>1. byte \in SUBSET (0 .. 7) /\ byte \in Word
  BY ByteIsWord DEF Byte
<1>2. d1 \in SUBSET (8 .. 15) /\ d1 \in Word /\ EightShifts(d1) = byte
  BY <1>1, LeftByte
<1> HIDE DEF d1
<1>3. d2 \in SUBSET (16 .. 23) /\ d2 \in Word /\ EightShifts(d2) = d1
  BY <1>2, LeftByte
<1> HIDE DEF d2
<1>4. d3 \in SUBSET (24 .. 31) /\ d3 \in Word /\ EightShifts(d3) = d2
  BY <1>3, LeftByte
<1> HIDE DEF d3
<1>5. PICK w \in SUBSET (0 .. 8 * turns - 1) :
        /\ w # {}
        /\ turns = 1 => x = EightShifts(w)
        /\ turns = 2 => x = EightShifts(EightShifts(w))
        /\ turns = 3 => x = EightShifts(EightShifts(EightShifts(w)))
  BY DEF Made
<1>6. w \in Word
  BY DEF Word, Bits
<1>7. /\ EightShifts(w) \in Word /\ EightShifts(EightShifts(w)) \in Word
      /\ EightShifts(EightShifts(EightShifts(w))) \in Word
  BY <1>6, EightShiftsLinear
<1>8. CASE turns = 1
  <2> DEFINE v == Xor(w, d1)
  <2>1. v \in SUBSET (0 .. 15) /\ v # {}
    <3>1. w \subseteq 0 .. 7
      BY <1>8
    <3>2. PICK p \in w : TRUE
      BY <1>5
    <3>3. p \in v
      BY <1>2, <3>1, <3>2 DEF Xor
    <3> QED  BY <1>2, <3>1, <3>3 DEF Xor
  <2>2. EightShifts(Xor(x, byte)) = EightShifts(EightShifts(v))
    BY <1>2, <1>5, <1>6, <1>8, EightShiftsLinear
  <2> HIDE DEF v
  <2>3. 8 * (turns + 1) - 1 = 15 /\ turns + 1 = 2
    BY <1>8
  <2> QED  BY <2>1, <2>2, <2>3 DEF Made
<1>9. CASE turns = 2
  <2> DEFINE v == Xor(w, d2)
  <2>1. v \in SUBSET (0 .. 23) /\ v # {}
    <3>1. w \subseteq 0 .. 15
      BY <1>9
    <3>2. PICK p \in w : TRUE
      BY <1>5
    <3>3. p \in v
      BY <1>3, <3>1, <3>2 DEF Xor
    <3> QED  BY <1>3, <3>1, <3>3 DEF Xor
  <2>2. EightShifts(v) = Xor(EightShifts(w), d1)
    BY <1>3, <1>6, EightShiftsLinear
  <2> HIDE DEF v
  <2>3. EightShifts(EightShifts(v)) = Xor(x, byte)
    BY <1>2, <1>5, <1>7, <1>9, <2>2, EightShiftsLinear
  <2>4. 8 * (turns + 1) - 1 = 23 /\ turns + 1 = 3
    BY <1>9
  <2> QED  BY <2>1, <2>3, <2>4 DEF Made
<1>10. CASE turns = 3
  <2> DEFINE v == Xor(w, d3)
  <2>1. v \in SUBSET (0 .. 31) /\ v # {}
    <3>1. w \subseteq 0 .. 23
      BY <1>10
    <3>2. PICK p \in w : TRUE
      BY <1>5
    <3>3. p \in v
      BY <1>4, <3>1, <3>2 DEF Xor
    <3> QED  BY <1>4, <3>1, <3>3 DEF Xor
  <2>2. EightShifts(v) = Xor(EightShifts(w), d2)
    BY <1>4, <1>6, EightShiftsLinear
  <2> HIDE DEF v
  <2>3. EightShifts(EightShifts(v)) = Xor(EightShifts(EightShifts(w)), d1)
    BY <1>3, <1>7, <2>2, EightShiftsLinear
  <2>4. EightShifts(EightShifts(EightShifts(v))) = Xor(x, byte)
    BY <1>2, <1>5, <1>7, <1>10, <2>3, EightShiftsLinear
  <2>5. 8 * (turns + 1) - 1 = 31 /\ turns + 1 = 4
    BY <1>10
  <2> QED  BY <2>1, <2>4, <2>5 DEF Made
<1> QED  BY <1>8, <1>9, <1>10

\* What the turns make of a difference is never nothing.
LEMMA MadeDiffers ==
    ASSUME NEW turns \in 1 .. 4, NEW x, Made(turns, x)
    PROVE  x # {}
<1>1. PICK w \in SUBSET (0 .. 8 * turns - 1) :
        /\ w # {}
        /\ turns = 1 => x = EightShifts(w)
        /\ turns = 2 => x = EightShifts(EightShifts(w))
        /\ turns = 3 => x = EightShifts(EightShifts(EightShifts(w)))
        /\ turns = 4 => x = EightShifts(EightShifts(EightShifts(EightShifts(w))))
  BY DEF Made
<1>2. w \in Word
  BY DEF Word, Bits
<1>3. /\ EightShifts(w) \in Word \ {{}} /\ EightShifts(EightShifts(w)) \in Word \ {{}}
      /\ EightShifts(EightShifts(EightShifts(w))) \in Word \ {{}}
      /\ EightShifts(EightShifts(EightShifts(EightShifts(w)))) \in Word \ {{}}
  BY <1>1, <1>2, EightShiftsLinear, EightShiftsInjective
<1> QED  BY <1>1, <1>3

\* Reading a byte keeps two messages apart.
LEMMA ToldApartKept ==
    ASSUME Types, ToldApart, NEW byte \in Bytes, NEW otherByte \in Bytes,
           ReadByte(byte, otherByte)
    PROVE  ToldApart'
<1> DEFINE n == Len(message)
           both == Xor(c, d)
           delta == Xor(byte, otherByte)
<1>1. /\ n \in Nat /\ Len(message') = n + 1 /\ Len(other) = n
      /\ \A k \in 1 .. n : message'[k] = message[k] /\ other'[k] = other[k]
      /\ message'[n + 1] = byte /\ other'[n + 1] = otherByte
  BY ReadBytes DEF Types, ReadByte
<1>2. /\ Differences \subseteq 1 .. n /\ Differences \subseteq Differences'
      /\ Differences' \subseteq Differences \cup {n + 1}
      /\ n + 1 \in Differences' <=> byte # otherByte
  BY <1>1 DEF Differences
<1>3. /\ c \in Word /\ d \in Word /\ both \in Word /\ byte \in Byte /\ otherByte \in Byte
      /\ delta \in Byte /\ delta \in Word
      /\ Xor(c', d') = EightShifts(Xor(both, delta))
  <2>1. c \in Word /\ d \in Word /\ byte \in Byte /\ otherByte \in Byte
    BY BytesAreBytes DEF Types
  <2>2. c' = TurnC(c, byte) /\ d' = TurnC(d, otherByte)
    BY DEF ReadByte
  <2> QED  BY <2>1, <2>2, XorAt, TurnsDiffer, ByteIsWord
<1>4. byte = otherByte => delta = {}
  BY DEF Xor
<1>5. byte # otherByte => delta # {}
  BY <1>3, ByteIsWord, XorLaws
<1>6. c = d => both = {}
  BY DEF Xor
<1>7. Differences' = {} => c' = d'
  BY <1>2 DEF ReadByte, ToldApart
<1> HIDE DEF both, delta
<1>8. ASSUME NEW m \in Nat, FirstOfNear(m)'
      PROVE  LET turns == Len(message') - m + 1 IN
             IF turns <= 4 THEN Made(turns, Xor(c', d')) ELSE Xor(c', d') # {}
  <2>1. m \in Differences' /\ \A k \in Differences' : m <= k /\ k - m < 4
    BY <1>8 DEF FirstOfNear
  <2>2. CASE m = n + 1
    <3>1. Differences = {}
      BY <1>1, <1>2, <2>1, <2>2
    <3>2. both = {} /\ delta # {}
      BY <1>2, <1>5, <1>6, <2>1, <2>2, <3>1 DEF ToldApart
    <3>3. Xor(both, delta) = delta
      BY <3>2 DEF Xor
    <3>4. Xor(c', d') = EightShifts(delta) /\ delta \in SUBSET (0 .. 8 * 1 - 1)
      BY <1>3, <3>3 DEF Byte
    <3>5. Made(1, Xor(c', d'))
      BY <3>2, <3>4 DEF Made
    <3> QED  BY <1>1, <2>2, <3>5
  <2>3. CASE m \in Differences
    <3>1. FirstOfNear(m) /\ m \in 1 .. n
      BY <1>2, <2>1, <2>3 DEF FirstOfNear
    <3> DEFINE turns == n - m + 1
    <3>2. turns \in Nat \ {0} /\ Len(message') - m + 1 = turns + 1
      BY <1>1, <3>1
    <3>3. IF turns <= 4 THEN Made(turns, both) ELSE both # {}
      BY <3>1 DEF ToldApart, both
    <3> HIDE DEF turns
    <3>4. CASE turns \in 1 .. 3
      <4>1. Made(turns + 1, Xor(c', d'))
        BY <1>3, <3>3, <3>4, MadeKept
      <4> QED  BY <3>2, <3>4, <4>1
    <3>5. CASE turns \notin 1 .. 3
      <4>1. both # {}
        BY <3>2, <3>3, <3>5, MadeDiffers
      <4>2. n + 1 \notin Differences'
        BY <1>1, <2>1, <3>1, <3>2, <3>5 DEF turns
      <4>3. Xor(both, delta) = both
        BY <1>2, <1>3, <1>4, <4>2, XorLaws
      <4>4. Xor(c', d') # {}
        BY <1>3, <4>1, <4>3, EightShiftsInjective
      <4> QED  BY <3>2, <3>5, <4>4
    <3> QED  BY <3>4, <3>5
  <2> QED  BY <1>2, <2>1, <2>2, <2>3
<1> QED  BY <1>7, <1>8 DEF ToldApart

\* The first of the differing bytes, when they are near one another.
LEMMA FirstExists ==
    ASSUME Types, Differences # {}, \A m, n \in Differences : m - n < 4
    PROVE  \E m \in Nat : FirstOfNear(m)
<1>1. PICK m \in Differences : TRUE
  OBVIOUS
<1>2. Differences \subseteq Nat
  BY DEF Differences
<1>3. \A k \in Differences : k >= m - 3 /\ k \in Nat
  BY <1>1, <1>2
<1>4. CASE m - 3 \in Differences
  BY <1>2, <1>3, <1>4 DEF FirstOfNear
<1>5. CASE m - 3 \notin Differences /\ m - 2 \in Differences
  BY <1>2, <1>3, <1>5 DEF FirstOfNear
<1>6. CASE m - 3 \notin Differences /\ m - 2 \notin Differences /\ m - 1 \in Differences
  BY <1>2, <1>3, <1>6 DEF FirstOfNear
<1>7. CASE m - 3 \notin Differences /\ m - 2 \notin Differences /\ m - 1 \notin Differences
  <2>1. \A k \in Differences : m <= k
    BY <1>1, <1>2, <1>3, <1>7
  <2> QED  BY <1>1, <1>2, <2>1 DEF FirstOfNear
<1> QED  BY <1>4, <1>5, <1>6, <1>7

(***************************************************************************)
(* A difference within four bytes in a row is always seen: the checksums   *)
(* differ from the first of those bytes to the end of the message, however *)
(* long the message is.                                                    *)
(***************************************************************************)
THEOREM NearDifferencesSeen == Spec => []NearBlocksToldApart
<1>1. Init => Types /\ ToldApart
  <2> SUFFICES ASSUME Init PROVE ToldApart
    BY TypesHold
  <2>1. Differences = {} /\ c = d
    BY DEF Init, Differences
  <2> QED  BY <2>1 DEF ToldApart, FirstOfNear
<1>2. (Types /\ ToldApart) /\ [Next]_vars => (Types /\ ToldApart)'
  <2> SUFFICES ASSUME Types, ToldApart, [Next]_vars PROVE Types' /\ ToldApart'
    OBVIOUS
  <2>1. ASSUME NEW byte \in Bytes, NEW otherByte \in Bytes, ReadByte(byte, otherByte)
        PROVE  Types' /\ ToldApart'
    BY <2>1, TypesKept, ToldApartKept
  <2>2. CASE UNCHANGED vars
    BY <2>2 DEF vars, Types, ToldApart, FirstOfNear, Differences, Made
  <2> QED  BY <2>1, <2>2 DEF Next
<1>3. Types /\ ToldApart => NearBlocksToldApart
  <2> SUFFICES ASSUME Types, ToldApart, Differences # {},
                      \A m, n \in Differences : m - n < 4
               PROVE  c # d
    BY DEF NearBlocksToldApart
  <2>1. PICK m \in Nat : FirstOfNear(m)
    BY FirstExists
  <2> DEFINE turns == Len(message) - m + 1
  <2>2. turns \in Nat \ {0}
    BY <2>1 DEF FirstOfNear, Differences, Types
  <2>3. IF turns <= 4 THEN Made(turns, Xor(c, d)) ELSE Xor(c, d) # {}
    BY <2>1 DEF ToldApart
  <2> HIDE DEF turns
  <2>4. Xor(c, d) # {}
    BY <2>2, <2>3, MadeDiffers
  <2> QED  BY <2>4 DEF Xor
<1> QED  BY <1>1, <1>2, <1>3, PTL DEF Spec

=============================================================================

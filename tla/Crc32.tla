-------------------------------- MODULE Crc32 --------------------------------
(***************************************************************************)
(* crc32.c: the four implementations of one checksum, fed byte by byte     *)
(* with the same message, and crc32c a second time with another message of *)
(* the same length.  A step is one turn of each function's loop; what a    *)
(* function would return if the message ended here is defined from it.     *)
(*                                                                         *)
(* A word is the set of the positions of its 1 bits, 0 the lowest.  The    *)
(* table is static memory that is filled on the first call; it holds the   *)
(* same values ever after, and crc32c and crc32cx fill theirs alike.       *)
(***************************************************************************)
EXTENDS Integers, Sequences, Functions

CONSTANTS Bytes,      \* the bytes that messages are made of, as sets of bits
          MaxLength   \* bound on the length of a message

ASSUME Crc32Assumption == Bytes \subseteq SUBSET (0 .. 7) /\ MaxLength \in Nat

Bits == 0 .. 31

Xor(x, y) == (x \ y) \cup (y \ x)
Not(x) == Bits \ x
Left(x, n) == {p + n : p \in x} \cap Bits
Right(x, n) == {p - n : p \in x} \cap Bits

Polynomial == {26, 23, 22, 16, 12, 11, 10, 8, 7, 5, 4, 2, 1, 0}               \* 0x04C11DB7
ReversedPolynomial == {31, 30, 29, 27, 26, 24, 23, 21, 20, 19, 15, 9, 8, 5}   \* 0xEDB88320

-----------------------------------------------------------------------------
\* Exchange the groups of n bits; mask has every second group.
SwapGroups(x, mask, n) == Left(x \cap mask, n) \cup (Right(x, n) \cap mask)

\* Mutant of reverse: the bytes stay in their order.
ReverseInBytes(x) ==
    LET ones == SwapGroups(x, {p \in Bits : p % 2 < 1}, 1)
        twos == SwapGroups(ones, {p \in Bits : p % 4 < 2}, 2)
    IN  SwapGroups(twos, {p \in Bits : p % 8 < 4}, 4)

reverse(x) ==
    LET ones  == SwapGroups(x, {p \in Bits : p % 2 < 1}, 1)
        twos  == SwapGroups(ones, {p \in Bits : p % 4 < 2}, 2)
        fours == SwapGroups(twos, {p \in Bits : p % 8 < 4}, 4)
    IN  Left(fours, 24) \cup Left(fours \cap 8 .. 15, 8)
            \cup (Right(fours, 8) \cap 8 .. 15) \cup Right(fours, 24)

\* The inner loop of crc32a over the bits of a byte, highest first.
TurnA(crc, byte) ==
    LET shifted[n \in 0 .. 8] ==
            IF n = 0 THEN [crc |-> crc, byte |-> reverse(byte)]
            ELSE LET s == shifted[n - 1]
                 IN  [crc  |-> Xor(Left(s.crc, 1),
                                   IF 31 \in Xor(s.crc, s.byte) THEN Polynomial ELSE {}),
                      byte |-> Left(s.byte, 1)]
    IN  shifted[8].crc

\* Eight shifts to the right: the inner loop of crc32b, and of the table set-up.
EightShifts(crc) ==
    LET shifted[n \in 0 .. 8] ==
            IF n = 0 THEN crc
            ELSE Xor(Right(shifted[n - 1], 1),
                     IF 0 \in shifted[n - 1] THEN ReversedPolynomial ELSE {})
    IN  shifted[8]

TurnB(crc, byte) == EightShifts(Xor(crc, byte))

table == [byte \in SUBSET (0 .. 7) |-> EightShifts(byte)]

\* (crc >> 8) ^ table[crc & 0xFF].
LookUp(crc) == Xor(Right(crc, 8), table[crc \cap 0 .. 7])

\* Mutant of TurnC: & 0x7F.
TurnCSevenBits(crc, byte) == Xor(Right(crc, 8), table[Xor(crc, byte) \cap 0 .. 6])

\* (crc ^ byte) & 0xFF is the index; the byte does not reach the rest of crc.
TurnC(crc, byte) == Xor(Right(crc, 8), table[Xor(crc, byte) \cap 0 .. 7])

\* A word of four bytes in little-endian order.
WordOf(bytes) == UNION {Left(bytes[n], 8 * (n - 1)) : n \in 1 .. 4}

TurnCX(crc, word) == LookUp(LookUp(LookUp(LookUp(Xor(crc, word)))))

-----------------------------------------------------------------------------
VARIABLES message, other,   \* what is in the memory at the address passed
          a, b, c, cx,      \* crc of the four functions, for message
          d                 \* crc of crc32c, for other

vars == <<message, other, a, b, c, cx, d>>

Init ==
    /\ message = <<>> /\ other = <<>>
    /\ a = Bits /\ b = Bits /\ c = Bits /\ cx = Bits /\ d = Bits

\* A 0 byte ends the message of the functions that are not told its length.
ZeroFree(bytes) == {} \notin Range(bytes)

ReadByte(byte, otherByte) ==
    LET read == Append(message, byte)
        last4 == SubSeq(read, Len(read) - 3, Len(read))
    IN  /\ message' = read /\ other' = Append(other, otherByte)
        /\ a' = IF ZeroFree(read) THEN TurnA(a, byte) ELSE a
        /\ b' = IF ZeroFree(read) THEN TurnB(b, byte) ELSE b
        /\ c' = TurnC(c, byte)
        /\ d' = TurnC(d, otherByte)
        /\ cx' = IF Len(read) % 4 = 0 /\ ZeroFree(read) THEN TurnCX(cx, WordOf(last4)) ELSE cx

Next ==
    /\ Len(message) < MaxLength
    /\ \E byte, otherByte \in Bytes : ReadByte(byte, otherByte)

Spec == Init /\ [][Next]_vars

crc32a == reverse(Not(a))
crc32b == Not(b)
crc32c == Not(c)
crc32cx == Not(cx)

-----------------------------------------------------------------------------
(***************************************************************************)
(* The four functions compute the same checksum, of every message they are *)
(* made for: without a 0 byte, and for crc32cx (which reads words) of a    *)
(* whole number of words.                                                  *)
(***************************************************************************)
FormsAgree ==
    ZeroFree(message) =>
        /\ crc32a = crc32b /\ crc32b = crc32c
        /\ Len(message) % 4 = 0 => crc32cx = crc32c

(***************************************************************************)
(* What the receiver (receivefile.c:327) and readBlockFile rely on when    *)
(* they compare checksums: two blocks of the same length that differ in no *)
(* more than four bytes in a row, whatever stands before and after them    *)
(* and also when the bytes are 0, have different checksums.                *)
(***************************************************************************)
Differences == {n \in 1 .. Len(message) : message[n] # other[n]}

NearBlocksToldApart ==
    Differences # {} /\ (\A m, n \in Differences : m - n < 4) => c # d
=============================================================================

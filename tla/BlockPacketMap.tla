--------------------------- MODULE BlockPacketMap ---------------------------
(***************************************************************************)
(* blockpacketmap.c: the bitmap in which the receiver remembers which      *)
(* packets of a block it already holds.  A map is the header (packetTotal, *)
(* nbItems) and nbItems words of NbBitsItem bits; a word is modelled as    *)
(* the set of the positions of its 1 bits, so that |=, &= ~, ^= and & are  *)
(* the set operations.                                                     *)
(*                                                                         *)
(* In C, `1 << n` is undefined when n is the width of the operand, and     *)
(* isMapFull evaluates it for n = NbBitsItem whenever packetTotal is a     *)
(* multiple of NbBitsItem.  WideShift is the set of values this expression *)
(* can have in the build: x86 masks the shift count (the value is 1), ARM  *)
(* shifts the bit out (the value is 0).                                    *)
(***************************************************************************)
EXTENDS Integers

CONSTANTS NbBitsItem,  \* NB_BITS_ITEM, the bits of a tMapItem (32 in the code)
          WideShift    \* the values the build may give to 1 << NB_BITS_ITEM

ASSUME NbBitsItemAssumption == NbBitsItem \in Nat \ {0}
ASSUME WideShiftAssumption == WideShift \subseteq {0, 1} /\ WideShift # {}

BitNumbers == 0 .. NbBitsItem - 1

\* tMapItem; FullWord is UINT32_MAX.
Word == SUBSET BitNumbers
FullWord == BitNumbers

\* tBlockPacketMap after closeMap (and in the initializer of receiveFile).
ClosedMap == [packetTotal |-> 0, nbItems |-> 0, items |-> [i \in {} |-> {}]]

IsOpen(map) == map.nbItems # 0

NbItems(packetTotal) == (packetTotal - 1) \div NbBitsItem + 1

\* An open map has the words its packetTotal needs.
IsMap(map) ==
    \/ map = ClosedMap
    \/ /\ map.packetTotal \in Nat \ {0}
       /\ map.nbItems = NbItems(map.packetTotal)
       /\ map.items \in [0 .. map.nbItems - 1 -> Word]
       /\ map = [packetTotal |-> map.packetTotal, nbItems |-> map.nbItems,
                 items |-> map.items]

initMap(packetTotal) ==
    IF packetTotal < 1
    THEN ClosedMap
    ELSE [packetTotal |-> packetTotal,
          nbItems     |-> NbItems(packetTotal),
          items       |-> [i \in 0 .. NbItems(packetTotal) - 1 |-> {}]]

ItemOf(packetNumber) == packetNumber \div NbBitsItem

\* Mutant of BitOf: bits counted from 1.
BitFromOne(packetNumber) == (packetNumber % NbBitsItem) + 1

BitOf(packetNumber) == packetNumber % NbBitsItem

\* The guard the three updating functions and getMap share.
InMap(map, packetNumber) == packetNumber < map.packetTotal

\* The map with the word of packetNumber replaced by word.
UpdateItem(map, packetNumber, word) ==
    IF InMap(map, packetNumber)
    THEN [map EXCEPT !.items[ItemOf(packetNumber)] = word]
    ELSE map

setMap(map, packetNumber) ==
    UpdateItem(map, packetNumber,
               map.items[ItemOf(packetNumber)] \cup {BitOf(packetNumber)})

clearMap(map, packetNumber) ==
    UpdateItem(map, packetNumber,
               map.items[ItemOf(packetNumber)] \ {BitOf(packetNumber)})

toggleMap(map, packetNumber) ==
    UpdateItem(map, packetNumber,
               LET word == map.items[ItemOf(packetNumber)]
                   bit  == {BitOf(packetNumber)}
               IN  (word \ bit) \cup (bit \ word))

getMap(map, packetNumber) ==
    /\ InMap(map, packetNumber)
    /\ BitOf(packetNumber) \in map.items[ItemOf(packetNumber)]

\* Mutant of Mask: the highest used bit is not in the mask.
MaskTooShort(bits, wide) == 0 .. bits - 2

\* (1 << bits) - 1 for bits in 1 .. NbBitsItem, wide being 1 << NbBitsItem:
\* 1 - 1 is the empty mask, 0 - 1 the full one.
Mask(bits, wide) ==
    IF bits < NbBitsItem THEN 0 .. bits - 1
    ELSE IF wide = 0 THEN FullWord ELSE {}

isMapFull(map, wide) ==
    \/ ~ IsOpen(map)
    \/ LET lastItem == map.items[map.nbItems - 1]
           mask     == Mask(BitOf(map.packetTotal - 1) + 1, wide)
       IN  /\ \A i \in 0 .. map.nbItems - 2 : map.items[i] = FullWord
           /\ lastItem = FullWord \/ mask \subseteq lastItem

\* Mutant of closeMap: packetTotal is not reset.
closeMapKeepsTotal(map) == [ClosedMap EXCEPT !.packetTotal = map.packetTotal]

closeMap(map) == IF IsOpen(map) THEN ClosedMap ELSE map

\* The packets a map holds, read through getMap.
Held(map) == {p \in 0 .. map.packetTotal - 1 : getMap(map, p)}
=============================================================================

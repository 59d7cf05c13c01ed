------------------------ MODULE BlockPacketMapLemmas ------------------------
(***************************************************************************)
(* What the operators of blockpacketmap.c compute, for every word width,   *)
(* packet total and packet number, in terms of the set of packets held.    *)
(***************************************************************************)
EXTENDS BlockPacketMap, TLAPS


(***************************************************************************)
(* Arithmetic: a packet number has one word and one bit, and the word of a *)
(* packet below the total exists.                                          *)
(***************************************************************************)
\* packetNumber / NB_BITS_ITEM and packetNumber % NB_BITS_ITEM determine it.
LEMMA Position ==
    ASSUME NEW p \in Nat
    PROVE  /\ ItemOf(p) \in Nat
           /\ BitOf(p) \in BitNumbers
           /\ p = NbBitsItem * ItemOf(p) + BitOf(p)
  BY NbBitsItemAssumption DEF ItemOf, BitOf, BitNumbers

\* ... and every word and bit belong to the packet number built from them.
LEMMA PositionOf ==
    ASSUME NEW n \in Nat, NEW bit \in BitNumbers
    PROVE  /\ NbBitsItem * n + bit \in Nat
           /\ ItemOf(NbBitsItem * n + bit) = n
           /\ BitOf(NbBitsItem * n + bit) = bit
<1> DEFINE p == NbBitsItem * n + bit
<1>1. p \in Nat
  BY NbBitsItemAssumption DEF BitNumbers
<1>2. /\ ItemOf(p) \in Nat /\ BitOf(p) \in 0 .. NbBitsItem - 1
      /\ p = NbBitsItem * ItemOf(p) + BitOf(p)
  BY <1>1, Position DEF BitNumbers
<1>3. bit \in 0 .. NbBitsItem - 1
  BY DEF BitNumbers
<1> HIDE DEF p
<1>4. p = NbBitsItem * n + bit
  BY DEF p
<1>5. NbBitsItem * (ItemOf(p) - n) = bit - BitOf(p)
  BY <1>2, <1>3, <1>4, NbBitsItemAssumption
<1>6. ItemOf(p) = n
  <2>1. CASE ItemOf(p) - n >= 1
    <3>1. NbBitsItem * (ItemOf(p) - n) >= NbBitsItem
      BY <2>1, <1>2, NbBitsItemAssumption
    <3> QED  BY <3>1, <1>2, <1>3, <1>5, NbBitsItemAssumption
  <2>2. CASE n - ItemOf(p) >= 1
    <3>1. NbBitsItem * (n - ItemOf(p)) >= NbBitsItem
      BY <2>2, <1>2, NbBitsItemAssumption
    <3>2. NbBitsItem * (n - ItemOf(p)) = BitOf(p) - bit
      BY <1>5, <1>2, <1>3, NbBitsItemAssumption
    <3> QED  BY <3>1, <3>2, <1>2, <1>3, NbBitsItemAssumption
  <2> QED  BY <2>1, <2>2, <1>2
<1>7. BitOf(p) = bit
  BY <1>2, <1>3, <1>4, <1>6, NbBitsItemAssumption
<1> QED  BY <1>1, <1>6, <1>7 DEF p

\* The order of packet numbers is that of their words, then of their bits.
LEMMA PositionOrder ==
    ASSUME NEW p \in Nat, NEW q \in Nat, p <= q
    PROVE  /\ ItemOf(p) <= ItemOf(q)
           /\ ItemOf(p) = ItemOf(q) => BitOf(p) <= BitOf(q)
<1>1. /\ ItemOf(p) \in Nat /\ BitOf(p) \in 0 .. NbBitsItem - 1
      /\ p = NbBitsItem * ItemOf(p) + BitOf(p)
  BY Position DEF BitNumbers
<1>2. /\ ItemOf(q) \in Nat /\ BitOf(q) \in 0 .. NbBitsItem - 1
      /\ q = NbBitsItem * ItemOf(q) + BitOf(q)
  BY Position DEF BitNumbers
<1>3. ASSUME ItemOf(p) > ItemOf(q) PROVE FALSE
  <2>1. NbBitsItem * (ItemOf(p) - ItemOf(q)) >= NbBitsItem
    BY <1>1, <1>2, <1>3, NbBitsItemAssumption
  <2>2. NbBitsItem * (ItemOf(p) - ItemOf(q)) = NbBitsItem * ItemOf(p) - NbBitsItem * ItemOf(q)
    BY <1>1, <1>2, NbBitsItemAssumption
  <2> QED  BY <2>1, <2>2, <1>1, <1>2, NbBitsItemAssumption
<1>4. ItemOf(p) = ItemOf(q) => BitOf(p) <= BitOf(q)
  BY <1>1, <1>2, NbBitsItemAssumption
<1> QED  BY <1>1, <1>2, <1>3, <1>4

\* initMap allocates the word of every packet below the total.
LEMMA WordExists ==
    ASSUME NEW n \in Nat \ {0}, NEW p \in 0 .. n - 1
    PROVE  /\ NbItems(n) \in Nat \ {0}
           /\ NbItems(n) - 1 = ItemOf(n - 1)
           /\ ItemOf(p) \in 0 .. NbItems(n) - 1
<1>1. ItemOf(n - 1) \in Nat /\ ItemOf(p) \in Nat /\ ItemOf(p) <= ItemOf(n - 1)
  BY Position, PositionOrder
<1>2. NbItems(n) = ItemOf(n - 1) + 1
  BY DEF NbItems, ItemOf
<1> QED  BY <1>1, <1>2
-----------------------------------------------------------------------------
(***************************************************************************)
(* The operations keep a map a map.                                        *)
(***************************************************************************)
\* An open map, and the word of a packet it has.
LEMMA OpenMap ==
    ASSUME NEW m, IsMap(m), m # ClosedMap
    PROVE  /\ m.packetTotal \in Nat \ {0}
           /\ m.nbItems = NbItems(m.packetTotal)
           /\ m.nbItems \in Nat \ {0}
           /\ m.items \in [0 .. m.nbItems - 1 -> Word]
           /\ m = [packetTotal |-> m.packetTotal, nbItems |-> m.nbItems, items |-> m.items]
           /\ \A p \in 0 .. m.packetTotal - 1 : ItemOf(p) \in 0 .. m.nbItems - 1
<1>1. /\ m.packetTotal \in Nat \ {0} /\ m.nbItems = NbItems(m.packetTotal)
      /\ m.items \in [0 .. m.nbItems - 1 -> Word]
      /\ m = [packetTotal |-> m.packetTotal, nbItems |-> m.nbItems, items |-> m.items]
  BY DEF IsMap
<1>2. \A p \in 0 .. m.packetTotal - 1 : ItemOf(p) \in 0 .. m.nbItems - 1
  BY <1>1, WordExists
<1>3. m.nbItems \in Nat \ {0}
  <2>1. 0 \in 0 .. m.packetTotal - 1
    BY <1>1
  <2> QED  BY <1>1, <2>1, WordExists
<1> QED  BY <1>1, <1>2, <1>3

\* A closed map is a map and holds nothing.
LEMMA ClosedIsMap ==
    IsMap(ClosedMap) /\ Held(ClosedMap) = {} /\ ClosedMap.packetTotal = 0
  BY DEF IsMap, Held, ClosedMap, getMap, InMap

\* A new map is open and empty.
LEMMA InitMapEmpty ==
    ASSUME NEW n \in Nat \ {0}
    PROVE  /\ IsMap(initMap(n)) /\ initMap(n).packetTotal = n
           /\ Held(initMap(n)) = {}
<1> DEFINE m == initMap(n)
<1>1. m = [packetTotal |-> n, nbItems |-> NbItems(n),
           items |-> [i \in 0 .. NbItems(n) - 1 |-> {}]]
  BY DEF initMap
<1>2. IsMap(m)
  <2>1. m.items \in [0 .. NbItems(n) - 1 -> Word]
    BY <1>1 DEF Word
  <2> QED  BY <1>1, <2>1 DEF IsMap
<1>3. \A p \in 0 .. n - 1 : ~ getMap(m, p)
  <2> SUFFICES ASSUME NEW p \in 0 .. n - 1 PROVE ~ getMap(m, p)
    OBVIOUS
  <2>1. ItemOf(p) \in 0 .. NbItems(n) - 1
    BY WordExists
  <2>2. m.items[ItemOf(p)] = {}
    BY <1>1, <2>1
  <2> QED  BY <2>2 DEF getMap
<1>4. m.packetTotal = n
  BY <1>1
<1>5. Held(m) = {}
  BY <1>3, <1>4 DEF Held
<1> QED  BY <1>2, <1>4, <1>5

(***************************************************************************)
(* The functions that change one word leave a map, and a packet number     *)
(* other than theirs as it was: two packets with the same bit are in       *)
(* different words.                                                        *)
(***************************************************************************)
LEMMA UpdateKeepsMap ==
    ASSUME NEW m, IsMap(m), NEW p \in Nat, NEW word,
           InMap(m, p) => word \in Word
    PROVE  /\ IsMap(UpdateItem(m, p, word))
           /\ UpdateItem(m, p, word).packetTotal = m.packetTotal
<1>1. CASE ~ InMap(m, p)
  BY <1>1 DEF UpdateItem
<1>2. CASE InMap(m, p)
  <2>1. m # ClosedMap
    BY <1>2 DEF InMap, ClosedMap
  <2>2. UpdateItem(m, p, word) =
            [packetTotal |-> m.packetTotal, nbItems |-> m.nbItems,
             items |-> [m.items EXCEPT ![ItemOf(p)] = word]]
    BY <1>2, <2>1, OpenMap DEF UpdateItem
  <2>3. [m.items EXCEPT ![ItemOf(p)] = word] \in [0 .. m.nbItems - 1 -> Word]
    BY <1>2, <2>1, OpenMap
  <2> QED  BY <2>1, <2>2, <2>3, OpenMap DEF IsMap
<1> QED  BY <1>1, <1>2

\* Changing one item leaves the bits of the others alone.
LEMMA UpdateChangesOne ==
    ASSUME NEW m, IsMap(m), NEW p \in Nat, NEW word, InMap(m, p),
           NEW q \in 0 .. m.packetTotal - 1
    PROVE  getMap(UpdateItem(m, p, word), q) <=>
               IF ItemOf(q) = ItemOf(p) THEN BitOf(q) \in word ELSE getMap(m, q)
<1>1. m # ClosedMap
  BY DEF InMap, ClosedMap
<1>2. /\ m.packetTotal \in Nat /\ ItemOf(q) \in 0 .. m.nbItems - 1
      /\ m.items \in [0 .. m.nbItems - 1 -> Word]
      /\ m = [packetTotal |-> m.packetTotal, nbItems |-> m.nbItems, items |-> m.items]
  BY <1>1, OpenMap
<1>3. UpdateItem(m, p, word) =
          [packetTotal |-> m.packetTotal, nbItems |-> m.nbItems,
           items |-> [m.items EXCEPT ![ItemOf(p)] = word]]
  BY <1>2 DEF UpdateItem
<1>4. UpdateItem(m, p, word).items[ItemOf(q)] =
          IF ItemOf(q) = ItemOf(p) THEN word ELSE m.items[ItemOf(q)]
  <2> DEFINE items == m.items
             old == ItemOf(p)
             new == ItemOf(q)
  <2>1. UpdateItem(m, p, word).items = [items EXCEPT ![old] = word]
    BY <1>3
  <2>2. items \in [0 .. m.nbItems - 1 -> Word] /\ new \in 0 .. m.nbItems - 1
    BY <1>2
  <2> HIDE DEF items, old, new
  <2>3. [items EXCEPT ![old] = word][new] = IF new = old THEN word ELSE items[new]
    BY <2>2
  <2> QED  BY <2>1, <2>3 DEF items, old, new
<1>5. UpdateItem(m, p, word).packetTotal = m.packetTotal
  BY <1>3
<1> QED  BY <1>2, <1>4, <1>5 DEF getMap, InMap
\* A packet of another number has another position.
LEMMA OtherPosition ==
    ASSUME NEW p \in Nat, NEW q \in Nat, ItemOf(q) = ItemOf(p), BitOf(q) = BitOf(p)
    PROVE  q = p
  BY Position

\* The word of a packet of the map, and what getMap reads in it.
LEMMA WordOfPacket ==
    ASSUME NEW m, IsMap(m), NEW p \in Nat, InMap(m, p)
    PROVE  /\ m.items[ItemOf(p)] \in Word
           /\ p \in 0 .. m.packetTotal - 1
           /\ \A q \in 0 .. m.packetTotal - 1 :
                 q \in Held(m) <=> BitOf(q) \in m.items[ItemOf(q)]
<1>1. m # ClosedMap
  BY DEF InMap, ClosedMap
<1>2. p \in 0 .. m.packetTotal - 1
  BY <1>1, OpenMap DEF InMap
<1>3. m.items[ItemOf(p)] \in Word
  BY <1>1, <1>2, OpenMap
<1> QED  BY <1>1, <1>2, <1>3, OpenMap DEF Held, getMap, InMap

(***************************************************************************)
(* setMap, clearMap and toggleMap change the packet they are given in the  *)
(* set of held packets, and nothing else.                                  *)
(***************************************************************************)
LEMMA HeldAfterUpdate ==
    ASSUME NEW m, IsMap(m), NEW p \in Nat, NEW word, InMap(m, p),
           \A bit \in BitNumbers \ {BitOf(p)} :
               bit \in word <=> bit \in m.items[ItemOf(p)]
    PROVE  Held(UpdateItem(m, p, word)) =
               IF BitOf(p) \in word THEN Held(m) \cup {p} ELSE Held(m) \ {p}
<1> DEFINE new == UpdateItem(m, p, word)
<1>1. /\ p \in 0 .. m.packetTotal - 1 /\ m.packetTotal \in Nat
      /\ \A q \in 0 .. m.packetTotal - 1 :
            q \in Held(m) <=> BitOf(q) \in m.items[ItemOf(q)]
  <2>1. m # ClosedMap
    BY DEF InMap, ClosedMap
  <2> QED  BY <2>1, WordOfPacket, OpenMap
<1>2. new.packetTotal = m.packetTotal
  <2>1. m # ClosedMap
    BY DEF InMap, ClosedMap
  <2>2. m = [packetTotal |-> m.packetTotal, nbItems |-> m.nbItems, items |-> m.items]
    BY <2>1, OpenMap
  <2>3. new = [packetTotal |-> m.packetTotal, nbItems |-> m.nbItems,
               items |-> [m.items EXCEPT ![ItemOf(p)] = word]]
    BY <2>2 DEF UpdateItem
  <2> QED  BY <2>3
<1>3. ASSUME NEW q \in 0 .. m.packetTotal - 1
      PROVE  getMap(new, q) <=> IF q = p THEN BitOf(p) \in word ELSE q \in Held(m)
  <2>1. getMap(new, q) <=>
            IF ItemOf(q) = ItemOf(p) THEN BitOf(q) \in word ELSE getMap(m, q)
    BY UpdateChangesOne
  <2>2. getMap(m, q) <=> q \in Held(m)
    BY DEF Held
  <2>3. CASE q = p
    BY <2>1, <2>3
  <2>4. CASE q # p /\ ItemOf(q) # ItemOf(p)
    BY <2>1, <2>2, <2>4
  <2>5. CASE q # p /\ ItemOf(q) = ItemOf(p)
    <3>1. q \in Nat
      BY <1>1
    <3>2. BitOf(q) \in BitNumbers \ {BitOf(p)}
      BY <2>5, <3>1, OtherPosition, Position
    <3>3. q \in Held(m) <=> BitOf(q) \in m.items[ItemOf(p)]
      BY <1>1, <2>5
    <3> QED  BY <2>1, <2>5, <3>2, <3>3
  <2> QED  BY <2>3, <2>4, <2>5
<1>4. Held(new) = {q \in 0 .. m.packetTotal - 1 : getMap(new, q)}
  BY <1>2 DEF Held
<1>5. Held(m) \subseteq 0 .. m.packetTotal - 1
  BY DEF Held
<1> HIDE DEF new
<1>6. CASE BitOf(p) \in word
  <2>1. Held(new) = Held(m) \cup {p}
    BY <1>1, <1>3, <1>4, <1>5, <1>6
  <2> QED  BY <2>1, <1>6 DEF new
<1>7. CASE BitOf(p) \notin word
  <2>1. Held(new) = Held(m) \ {p}
    BY <1>1, <1>3, <1>4, <1>5, <1>7
  <2> QED  BY <2>1, <1>7 DEF new
<1> QED  BY <1>6, <1>7

\* setMap adds a packet of the block, and nothing else.
LEMMA SetMapAdds ==
    ASSUME NEW m, IsMap(m), NEW p \in Nat
    PROVE  /\ IsMap(setMap(m, p)) /\ setMap(m, p).packetTotal = m.packetTotal
           /\ Held(setMap(m, p)) = IF p < m.packetTotal THEN Held(m) \cup {p} ELSE Held(m)
<1> DEFINE word == m.items[ItemOf(p)] \cup {BitOf(p)}
<1>1. InMap(m, p) => word \in Word
  BY WordOfPacket, Position DEF Word
<1>2. IsMap(setMap(m, p)) /\ setMap(m, p).packetTotal = m.packetTotal
  BY <1>1, UpdateKeepsMap DEF setMap
<1>3. CASE InMap(m, p)
  <2>1. Held(UpdateItem(m, p, word)) = Held(m) \cup {p}
    BY <1>3, HeldAfterUpdate
  <2> QED  BY <1>2, <1>3, <2>1 DEF setMap, InMap
<1>4. CASE ~ InMap(m, p)
  BY <1>2, <1>4 DEF setMap, UpdateItem, InMap
<1> QED  BY <1>3, <1>4

\* clearMap removes one packet, and nothing else.
LEMMA ClearMapRemoves ==
    ASSUME NEW m, IsMap(m), NEW p \in Nat
    PROVE  /\ IsMap(clearMap(m, p)) /\ clearMap(m, p).packetTotal = m.packetTotal
           /\ Held(clearMap(m, p)) = IF p < m.packetTotal THEN Held(m) \ {p} ELSE Held(m)
<1> DEFINE word == m.items[ItemOf(p)] \ {BitOf(p)}
<1>1. InMap(m, p) => word \in Word
  BY WordOfPacket DEF Word
<1>2. IsMap(clearMap(m, p)) /\ clearMap(m, p).packetTotal = m.packetTotal
  BY <1>1, UpdateKeepsMap DEF clearMap
<1>3. CASE InMap(m, p)
  <2>1. Held(UpdateItem(m, p, word)) = Held(m) \ {p}
    BY <1>3, HeldAfterUpdate
  <2> QED  BY <1>2, <1>3, <2>1 DEF clearMap, InMap
<1>4. CASE ~ InMap(m, p)
  BY <1>2, <1>4 DEF clearMap, UpdateItem, InMap
<1> QED  BY <1>3, <1>4

\* toggleMap adds a packet or removes it.
LEMMA ToggleMapFlips ==
    ASSUME NEW m, IsMap(m), NEW p \in Nat
    PROVE  /\ IsMap(toggleMap(m, p)) /\ toggleMap(m, p).packetTotal = m.packetTotal
           /\ Held(toggleMap(m, p)) =
                 IF p < m.packetTotal THEN (Held(m) \ {p}) \cup ({p} \ Held(m)) ELSE Held(m)
<1> DEFINE bit == {BitOf(p)}
           old == m.items[ItemOf(p)]
           word == (old \ bit) \cup (bit \ old)
<1>1. InMap(m, p) => word \in Word
  BY WordOfPacket, Position DEF Word
<1>2. toggleMap(m, p) = UpdateItem(m, p, word)
  BY DEF toggleMap
<1>3. IsMap(toggleMap(m, p)) /\ toggleMap(m, p).packetTotal = m.packetTotal
  BY <1>1, <1>2, UpdateKeepsMap
<1>4. CASE InMap(m, p)
  <2>1. Held(UpdateItem(m, p, word)) =
            IF BitOf(p) \in word THEN Held(m) \cup {p} ELSE Held(m) \ {p}
    BY <1>4, HeldAfterUpdate
  <2>2. p \in Held(m) <=> BitOf(p) \in old
    BY <1>4, WordOfPacket
  <2> QED  BY <1>2, <1>3, <1>4, <2>1, <2>2 DEF InMap
<1>5. CASE ~ InMap(m, p)
  BY <1>2, <1>3, <1>5 DEF UpdateItem, InMap
<1> QED  BY <1>4, <1>5
-----------------------------------------------------------------------------
(***************************************************************************)
(* isMapFull.  ShiftDefined says that the mask of the last word does not   *)
(* need 1 << NB_BITS_ITEM, or that the build shifts the bit out.           *)
(***************************************************************************)
ShiftDefined(n, wide) == wide = 0 \/ n % NbBitsItem # 0

\* The mask covers the used bits of the last word, all of them and no others.
LEMMA MaskCoversLastWord ==
    ASSUME NEW n \in Nat \ {0}, NEW wide, ShiftDefined(n, wide)
    PROVE  Mask(BitOf(n - 1) + 1, wide) = 0 .. BitOf(n - 1)
<1>1. BitOf(n - 1) \in 0 .. NbBitsItem - 1
  BY Position DEF BitNumbers
<1>2. CASE BitOf(n - 1) + 1 < NbBitsItem
  <2> DEFINE b == BitOf(n - 1)
  <2>1. Mask(b + 1, wide) = 0 .. (b + 1) - 1
    BY <1>2 DEF Mask
  <2> HIDE DEF b
  <2>2. b \in Int
    BY <1>1 DEF b
  <2>3. (b + 1) - 1 = b
    BY <2>2
  <2> QED  BY <2>1, <2>3 DEF b
<1>3. CASE BitOf(n - 1) = NbBitsItem - 1
  <2>1. n = NbBitsItem * ItemOf(n - 1) + NbBitsItem /\ ItemOf(n - 1) \in Nat
    BY <1>3, Position, NbBitsItemAssumption
  <2>2. n = NbBitsItem * (ItemOf(n - 1) + 1) + 0
    BY <2>1, NbBitsItemAssumption
  <2>3. BitOf(n) = 0
    <3>1. 0 \in BitNumbers /\ ItemOf(n - 1) + 1 \in Nat
      BY <2>1, NbBitsItemAssumption DEF BitNumbers
    <3> QED  BY <2>2, <3>1, PositionOf
  <2>4. wide = 0
    BY <2>3 DEF ShiftDefined, BitOf
  <2> QED  BY <1>3, <2>4, <1>1, NbBitsItemAssumption DEF Mask, FullWord, BitNumbers
<1> QED  BY <1>1, <1>2, <1>3, NbBitsItemAssumption

\* Where the shift is defined, isMapFull answers whether every packet is held.
LEMMA FullIffAllHeld ==
    ASSUME NEW m, IsMap(m), NEW wide,
           m.packetTotal # 0 => ShiftDefined(m.packetTotal, wide)
    PROVE  isMapFull(m, wide) <=> Held(m) = 0 .. m.packetTotal - 1
<1>1. CASE m = ClosedMap
  <2>1. ~ IsOpen(m) /\ Held(m) = {} /\ m.packetTotal = 0
    BY <1>1, ClosedIsMap DEF IsOpen, ClosedMap
  <2> QED  BY <2>1 DEF isMapFull
<1>2. CASE m # ClosedMap
  <2> DEFINE n == m.packetTotal
             last == m.nbItems - 1
             mask == Mask(BitOf(n - 1) + 1, wide)
  <2>1. /\ n \in Nat \ {0} /\ m.nbItems \in Nat \ {0}
        /\ m.items \in [0 .. last -> Word]
        /\ \A p \in 0 .. n - 1 : ItemOf(p) \in 0 .. last
    BY <1>2, OpenMap
  <2>2. last = ItemOf(n - 1)
    BY <1>2, OpenMap, WordExists
  <2>3. mask = 0 .. BitOf(n - 1)
    BY <2>1, MaskCoversLastWord
  <2>4. \A p \in 0 .. n - 1 : p \in Held(m) <=> BitOf(p) \in m.items[ItemOf(p)]
    BY <2>1, WordOfPacket DEF Held, getMap, InMap
  <2>5. BitOf(n - 1) \in 0 .. NbBitsItem - 1 /\ n - 1 = NbBitsItem * last + BitOf(n - 1)
    <3>1. n - 1 \in Nat
      BY <2>1
    <3>2. BitOf(n - 1) \in BitNumbers /\ n - 1 = NbBitsItem * ItemOf(n - 1) + BitOf(n - 1)
      BY <3>1, Position
    <3> QED  BY <2>2, <3>2 DEF BitNumbers
  <2>6. isMapFull(m, wide) <=>
            /\ \A i \in 0 .. m.nbItems - 2 : m.items[i] = FullWord
            /\ m.items[last] = FullWord \/ mask \subseteq m.items[last]
    BY <2>1 DEF isMapFull, IsOpen
  <2> HIDE DEF n, last, mask
  <2>7. ASSUME isMapFull(m, wide), NEW p \in 0 .. n - 1 PROVE p \in Held(m)
    <3>1. p \in Nat /\ n - 1 \in Nat /\ p <= n - 1
      BY <2>1
    <3>2. BitOf(p) \in BitNumbers /\ ItemOf(p) \in 0 .. last
      BY <2>1, <3>1, Position
    <3>3. CASE ItemOf(p) # last
      <4>1. ItemOf(p) \in 0 .. m.nbItems - 2
        BY <2>1, <3>2, <3>3 DEF last
      <4> QED  BY <2>4, <2>6, <2>7, <3>2, <4>1 DEF FullWord
    <3>4. CASE ItemOf(p) = last
      <4>1. BitOf(p) <= BitOf(n - 1)
        BY <2>2, <3>1, <3>4, PositionOrder
      <4>2. BitOf(p) \in mask
        BY <2>3, <2>5, <3>2, <4>1 DEF BitNumbers
      <4> QED  BY <2>4, <2>6, <2>7, <3>2, <3>4, <4>2 DEF FullWord
    <3> QED  BY <3>3, <3>4
  <2>8. ASSUME Held(m) = 0 .. n - 1 PROVE isMapFull(m, wide)
    <3>1. ASSUME NEW i \in 0 .. m.nbItems - 2 PROVE m.items[i] = FullWord
      <4>1. m.items[i] \subseteq BitNumbers /\ i \in Nat /\ i < last /\ last \in Nat
        BY <2>1 DEF Word, last
      <4>2. ASSUME NEW bit \in BitNumbers PROVE bit \in m.items[i]
        <5>1. NbBitsItem * (last - i) >= NbBitsItem
          BY <4>1, NbBitsItemAssumption
        <5>2. NbBitsItem * (last - i) = NbBitsItem * last - NbBitsItem * i
          BY <4>1, NbBitsItemAssumption
        <5>3. NbBitsItem * i + bit <= n - 1
          <6> DEFINE x == NbBitsItem * i
                     y == NbBitsItem * last
          <6>1. x \in Int /\ y \in Int /\ y - x >= NbBitsItem
            BY <4>1, <5>1, <5>2, NbBitsItemAssumption
          <6>2. n - 1 = y + BitOf(n - 1)
            BY <2>5
          <6> HIDE DEF x, y
          <6>3. x + bit <= n - 1
            BY <2>1, <2>5, <6>1, <6>2, NbBitsItemAssumption DEF BitNumbers
          <6> QED  BY <6>3 DEF x
        <5>4. /\ NbBitsItem * i + bit \in Nat
              /\ ItemOf(NbBitsItem * i + bit) = i /\ BitOf(NbBitsItem * i + bit) = bit
          BY <4>1, PositionOf
        <5>5. NbBitsItem * i + bit \in 0 .. n - 1
          BY <2>1, <5>3, <5>4
        <5> QED  BY <2>4, <2>8, <5>4, <5>5
      <4> QED  BY <4>1, <4>2 DEF FullWord
    <3>2. mask \subseteq m.items[last]
      <4> SUFFICES ASSUME NEW bit \in 0 .. BitOf(n - 1) PROVE bit \in m.items[last]
        BY <2>3
      <4>1. bit \in BitNumbers /\ bit <= BitOf(n - 1) /\ last \in Nat
        BY <2>1, <2>5, NbBitsItemAssumption DEF BitNumbers, last
      <4>2. /\ NbBitsItem * last + bit \in Nat
            /\ ItemOf(NbBitsItem * last + bit) = last /\ BitOf(NbBitsItem * last + bit) = bit
        BY <4>1, PositionOf
      <4>3. NbBitsItem * last + bit \in 0 .. n - 1
        BY <2>1, <2>5, <4>1, <4>2, NbBitsItemAssumption
      <4> QED  BY <2>4, <2>8, <4>2, <4>3
    <3> QED  BY <2>6, <3>1, <3>2
  <2>9. Held(m) \subseteq 0 .. n - 1
    BY DEF Held, n
  <2>10. isMapFull(m, wide) <=> Held(m) = 0 .. n - 1
    BY <2>7, <2>8, <2>9
  <2> QED  BY <2>10 DEF n
<1> QED  BY <1>1, <1>2
=============================================================================

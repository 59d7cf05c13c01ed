------------------------ MODULE BlockPacketMapProofs ------------------------
(***************************************************************************)
(* Proofs about blockpacketmap.c, for every word width, every set of       *)
(* totals and every set of packet numbers: the map never leaves its type,  *)
(* and it implements a set of packet numbers wherever 1 << NB_BITS_ITEM is *)
(* not evaluated or shifts the bit out.                                    *)
(***************************************************************************)
EXTENDS BlockPacketMapSpec, BlockPacketMapLemmas

(***************************************************************************)
(* Whatever is called in whatever order, the header and the words fit      *)
(* together: every access of blockpacketmap.c to pItems is in range.       *)
(***************************************************************************)
THEOREM PacketMapTypeCorrect == Spec => []TypeOK
<1>1. Init => TypeOK
  BY ClosedIsMap DEF Init, TypeOK
<1>2. TypeOK /\ [Next]_vars => TypeOK'
  <2> SUFFICES ASSUME TypeOK, [Next]_vars PROVE TypeOK'
    OBVIOUS
  <2> USE DEF TypeOK
  <2>1. ASSUME NEW n \in Totals, InitMap(n) PROVE TypeOK'
    <3>1. n \in Nat \ {0}
      BY TotalsAssumption
    <3> QED  BY <2>1, <3>1, InitMapEmpty DEF InitMap
  <2>2. ASSUME NEW p \in PacketNumbers, SetMap(p) PROVE TypeOK'
    BY <2>2, SetMapAdds, PacketNumbersAssumption DEF SetMap
  <2>3. ASSUME NEW p \in PacketNumbers, ClearMap(p) PROVE TypeOK'
    BY <2>3, ClearMapRemoves, PacketNumbersAssumption DEF ClearMap
  <2>4. ASSUME NEW p \in PacketNumbers, ToggleMap(p) PROVE TypeOK'
    BY <2>4, ToggleMapFlips, PacketNumbersAssumption DEF ToggleMap
  <2>5. ASSUME NEW p \in PacketNumbers, GetMap(p) PROVE TypeOK'
    BY <2>5 DEF GetMap, Answer
  <2>6. CASE IsMapFull
    BY <2>6 DEF IsMapFull, Answer
  <2>7. CASE CloseMap
    BY <2>7, ClosedIsMap DEF CloseMap, closeMap
  <2>8. CASE UNCHANGED vars
    BY <2>8 DEF vars
  <2> QED  BY <2>1, <2>2, <2>3, <2>4, <2>5, <2>6, <2>7, <2>8 DEF Next
<1> QED  BY <1>1, <1>2, PTL DEF Spec

(***************************************************************************)
(* The packet map implements a set of packet numbers, and isMapFull says   *)
(* whether it is complete, in every build that shifts the bit out and, in  *)
(* the others, for all totals that are no multiple of the word width.      *)
(***************************************************************************)
THEOREM PacketMapIsSet ==
    ASSUME \A n \in Totals, wide \in WideShift : ShiftDefined(n, wide)
    PROVE  Spec => ImplementsPacketSet
<1>1. Init => AbstractSet!Init
  BY ClosedIsMap DEF Init, AbstractSet!Init
<1>2. TypeOK /\ [Next]_vars => [AbstractSet!Next]_AbstractSet!vars
  <2> SUFFICES ASSUME TypeOK, [Next]_vars PROVE [AbstractSet!Next]_AbstractSet!vars
    OBVIOUS
  <2>0. IsMap(map) /\ map.packetTotal \in Totals \cup {0}
    BY DEF TypeOK
  <2>1. ASSUME NEW n \in Totals, InitMap(n) PROVE AbstractSet!Open(n)
    <3>1. n \in Nat \ {0}
      BY TotalsAssumption
    <3>2. map.packetTotal = 0
      BY <2>0, <2>1, OpenMap, ClosedIsMap DEF InitMap, IsOpen
    <3> QED  BY <2>1, <3>1, <3>2, InitMapEmpty DEF InitMap, AbstractSet!Open
  <2>2. ASSUME NEW p \in PacketNumbers, SetMap(p) PROVE AbstractSet!Add(p)
    BY <2>0, <2>2, SetMapAdds, PacketNumbersAssumption
       DEF SetMap, AbstractSet!Add, AbstractSet!Change
  <2>3. ASSUME NEW p \in PacketNumbers, ClearMap(p) PROVE AbstractSet!Remove(p)
    BY <2>0, <2>3, ClearMapRemoves, PacketNumbersAssumption
       DEF ClearMap, AbstractSet!Remove, AbstractSet!Change
  <2>4. ASSUME NEW p \in PacketNumbers, ToggleMap(p) PROVE AbstractSet!Flip(p)
    BY <2>0, <2>4, ToggleMapFlips, PacketNumbersAssumption
       DEF ToggleMap, AbstractSet!Flip, AbstractSet!Change
  <2>5. ASSUME NEW p \in PacketNumbers, GetMap(p) PROVE AbstractSet!Has(p)
    <3>1. getMap(map, p) <=> p \in Held(map)
      <4>1. CASE map = ClosedMap
        <5>1. p \in Nat
          BY PacketNumbersAssumption
        <5> QED  BY <4>1, <5>1, ClosedIsMap DEF getMap, InMap
      <4>2. CASE map # ClosedMap
        BY <2>0, <4>2, OpenMap, PacketNumbersAssumption DEF Held, getMap, InMap
      <4> QED  BY <4>1, <4>2
    <3> QED  BY <2>5, <3>1 DEF GetMap, Answer, AbstractSet!Has, AbstractSet!Answer
  <2>6. ASSUME IsMapFull PROVE AbstractSet!Full
    <3>1. PICK wide \in WideShift : ret' = Answer(isMapFull(map, wide)) /\ UNCHANGED map
      BY <2>6 DEF IsMapFull
    <3>2. isMapFull(map, wide) <=> Held(map) = 0 .. map.packetTotal - 1
      BY <2>0, FullIffAllHeld
    <3> QED  BY <3>1, <3>2 DEF Answer, AbstractSet!Full, AbstractSet!Answer
  <2>7. ASSUME CloseMap PROVE AbstractSet!Close
    <3>1. map' = ClosedMap
      BY <2>0, <2>7, OpenMap DEF CloseMap, closeMap, IsOpen
    <3> QED  BY <2>7, <3>1, ClosedIsMap DEF CloseMap, AbstractSet!Close
  <2>8. ASSUME UNCHANGED vars PROVE UNCHANGED AbstractSet!vars
    BY <2>8 DEF vars, AbstractSet!vars, Held
  <2> QED
    BY <2>1, <2>2, <2>3, <2>4, <2>5, <2>6, <2>7, <2>8 DEF Next, AbstractSet!Next
<1> QED
  BY <1>1, <1>2, PacketMapTypeCorrect, PTL DEF Spec, ImplementsPacketSet, AbstractSet!Spec
=============================================================================

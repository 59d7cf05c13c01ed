------------------------- MODULE BlockPacketMapSpec -------------------------
(***************************************************************************)
(* The functions of blockpacketmap.h as the actions of one map, called in  *)
(* any order its users may call them, and its refinement of PacketSet.     *)
(***************************************************************************)
EXTENDS BlockPacketMap

CONSTANTS Totals, PacketNumbers

ASSUME TotalsAssumption == Totals \subseteq Nat \ {0}
ASSUME PacketNumbersAssumption == PacketNumbers \subseteq Nat

VARIABLES map,   \* the tBlockPacketMap
          ret    \* the value the last call returned, "void" if none

vars == <<map, ret>>

Answer(b) == IF b THEN "true" ELSE "false"

Init == map = ClosedMap /\ ret = "void"

InitMap(n) == ~ IsOpen(map) /\ map' = initMap(n) /\ ret' = "void"
SetMap(p) == map' = setMap(map, p) /\ ret' = "void"
ClearMap(p) == map' = clearMap(map, p) /\ ret' = "void"
ToggleMap(p) == map' = toggleMap(map, p) /\ ret' = "void"
GetMap(p) == ret' = Answer(getMap(map, p)) /\ UNCHANGED map
IsMapFull ==
    \E wide \in WideShift : ret' = Answer(isMapFull(map, wide)) /\ UNCHANGED map
CloseMap == map' = closeMap(map) /\ ret' = "void"

Next ==
    \/ \E n \in Totals : InitMap(n)
    \/ \E p \in PacketNumbers :
          SetMap(p) \/ ClearMap(p) \/ ToggleMap(p) \/ GetMap(p)
    \/ IsMapFull
    \/ CloseMap

Spec == Init /\ [][Next]_vars

-----------------------------------------------------------------------------
(***************************************************************************)
(* The header and the words fit together: nbItems is the number of words   *)
(* packetTotal needs and every word stays within its width, after any      *)
(* sequence of calls.  Every access of setMap, getMap and isMapFull        *)
(* indexes pItems under this invariant.                                    *)
(***************************************************************************)
TypeOK ==
    /\ IsMap(map) /\ map.packetTotal \in Totals \cup {0}
    /\ ret \in {"void", "true", "false"}

(***************************************************************************)
(* The map is a set of packet numbers: each call changes exactly the       *)
(* packet it names and isMapFull answers whether every packet is in.  It   *)
(* holds where 1 << NB_BITS_ITEM is never evaluated (no total is a         *)
(* multiple of the width) or shifts the bit out.                           *)
(***************************************************************************)
AbstractSet == INSTANCE PacketSet WITH total <- map.packetTotal, got <- Held(map)
ImplementsPacketSet == AbstractSet!Spec

(***************************************************************************)
(* receivefile.c:326-331 writes the block when isMapFull answers TRUE, "If *)
(* the last packet was received": a full map holds every packet.           *)
(***************************************************************************)
FullMeansAllReceived ==
    \A wide \in WideShift :
        isMapFull(map, wide) => Held(map) = 0 .. map.packetTotal - 1

=============================================================================

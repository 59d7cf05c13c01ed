----------------------------- MODULE MCPacketMap -----------------------------
(* Values for the constants of BlockPacketMapSpec: words of 2 or 3 bits, so  *)
(* that maps of one, two and three words, with and without a partly used     *)
(* last word, are reached with a handful of packets.                         *)
EXTENDS BlockPacketMapSpec

MCPacketNumbers == 0 .. 7
MCTotals == 1 .. 7
\* No multiple of 3: the totals for which the x86 build is well defined.
MCTotalsNotMultiple == {1, 2, 4, 5, 7}
=============================================================================

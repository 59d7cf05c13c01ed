---------------------------- MODULE MCTransmitter ----------------------------
(***************************************************************************)
(* Two files and an empty one.  Packets carry two bytes and a block of     *)
(* more than MAX_PACKET_NUMBER = 2 packets is skipped; blocks of 2 bytes   *)
(* are one packet and an empty one, of 3 bytes two, of 7 bytes four, more  *)
(* than readPacket would accept.  Block numbers have room for 3: 7 and     *)
(* 9 bytes in blocks of 2 are 4 and 5 blocks, which is 0 and 1 in such a   *)
(* number; in blocks of 3 they are 3, with a short last one or without; in *)
(* blocks of 7 they are one, or one and a short one.                       *)
(***************************************************************************)
EXTENDS Transmitter

MCInputs == {<<>>, <<1, 2, 3, 4, 5, 6, 7>>, <<9, 8, 7, 6, 5, 4, 3, 2, 1>>}
MCPublications == {Cut(file, n) : file \in MCInputs \ {<<>>}, n \in {2, 3, 7}}
=============================================================================

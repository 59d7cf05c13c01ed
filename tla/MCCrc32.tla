------------------------------- MODULE MCCrc32 -------------------------------
(***************************************************************************)
(* Messages of up to five bytes 0x00, 0x31 and 0xB1: with and without a 0  *)
(* byte, one whole word and what is left of a second one, and two bytes    *)
(* that differ in a single bit.                                            *)
(***************************************************************************)
EXTENDS Crc32

MCBytes == {{}, {5, 4, 0}, {7, 5, 4, 0}}
=============================================================================

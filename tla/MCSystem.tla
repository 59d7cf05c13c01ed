------------------------------- MODULE MCSystem -------------------------------
(***************************************************************************)
(* Small publications for the whole system.  Packets carry two bytes and   *)
(* words have three bits.                                                  *)
(***************************************************************************)
EXTENDS System

F(n) == [b \in 1 .. n |-> b]

\* Receivable: two equal blocks of two packets; one of four, in two words.
\* Not receivable: a full number of packets; a last block of one packet; three
\* packets, one full word; too many packets; too many blocks.
MCSmall == {Cut(F(6), 3), Cut(F(7), 7),
            Cut(F(8), 4), Cut(F(4), 3), Cut(F(5), 5), Cut(F(11), 11), Cut(F(12), 3)}

\* The last block fits in one packet.
MCShortBlock == {Cut(F(4), 3)}
=============================================================================

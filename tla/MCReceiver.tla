------------------------------ MODULE MCReceiver ------------------------------
(***************************************************************************)
(* Small publications for the receiver, as splitFile cuts them: blocks of  *)
(* one size, the last one shorter.  Packets carry two bytes.  A block of   *)
(* three bytes is two packets and one of five bytes three; in words of two *)
(* bits that is one word, and two with the second half used, in words of   *)
(* three bits one word, used in part or in full.                           *)
(***************************************************************************)
EXTENDS ReceiverSafety

\* Three blocks, so that a block has a next one and one that is not next.
MCOne == {Cut(<<1, 2, 3, 4, 5, 6, 7, 8, 9, 8, 7, 6, 5>>, 5)}

\* A file and its next version: the blocks differ but the first one begins with
\* the same packet.
MCTwo == {Cut(<<1, 2, 3, 4, 5, 6, 7, 8>>, 5), Cut(<<1, 2, 9, 9, 9, 6, 8, 8>>, 5)}
=============================================================================

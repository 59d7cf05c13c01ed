-------------------------------- MODULE Files --------------------------------
(***************************************************************************)
(* The files of an output directory, as parsefile.c writes and reads them: *)
(* what a write, a refused write or a kill in the middle of one leaves,    *)
(* and what the read functions make of it.  A file that cannot be removed  *)
(* stays as it is.                                                         *)
(*                                                                         *)
(* A file is absent, torn, or whole with its contents.  Every write begins *)
(* with fopen "wb+", which empties the file, and nothing is sure to be in  *)
(* it before fclose: until then a kill or an error leaves it torn.  The    *)
(* read functions find a torn file short and fail.                         *)
(***************************************************************************)
EXTENDS DataPacket

CONSTANTS
    WritesMayFail,    \* whether the disk may refuse a write
    RemovesMayFail    \* whether it may refuse to remove a file

ASSUME FilesAssumption == {WritesMayFail, RemovesMayFail} \subseteq BOOLEAN

Absent == [is |-> "absent"]
Torn == [is |-> "torn"]
Whole(x) == [is |-> "whole", data |-> x]
IsWhole(file) == file.is = "whole"
Exists(file) == file.is # "absent"

\* What a kill may leave of a file that is being written: fopen has not been
\* reached yet, or fclose has not.
Tear(file) == {file, Torn}

\* The same for an error: fopen fails, or one of the calls after it.
RefusedWrite(file) == IF WritesMayFail THEN Tear(file) ELSE {}

WriteOutcomes(file, x) == {Whole(x)} \cup RefusedWrite(file)

\* Mutant of BlockImage: the whole allocation is written.
BlockAllocation(block) == block

\* The block file createBlockFile writes: the header and payloadSize bytes.
BlockImage(block) == [block EXCEPT !.payload = SubSeq(@, 1, block.payloadSize)]

\* A header alone is as good as a torn file: readBlockFile asks fread for one
\* item of no bytes, gets none and fails.
BlockWritten(block) == IF block.payloadSize = 0 THEN Torn ELSE Whole(BlockImage(block))

\* readBlockFile succeeds, with the checksum verified.
ReadsVerified(file) == IsWhole(file) /\ file.data.checksum = crc32c(file.data.payload)
=============================================================================

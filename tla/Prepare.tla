------------------------------- MODULE Prepare -------------------------------
(***************************************************************************)
(* splitFile of splitfile.c, with the file functions of parsefile.c it     *)
(* calls: the preparations of files in one directory, one after the other, *)
(* each of them killed anywhere or failing anywhere.                       *)
(*                                                                         *)
(* What the directory holds is the only thing that one run of the program  *)
(* leaves to the next.  input, size and unnoticed are history: they say    *)
(* what the latest preparation that got past its reset was asked to do,    *)
(* and whether an error was passed over on the way.                        *)
(***************************************************************************)
EXTENDS Files

CONSTANTS
    Inputs,           \* the files that are prepared, <<>> for an empty or missing one
    BlockSizes,       \* the block sizes asked for
    MIN_BLOCK_SIZE,   \* constantes.h: 1024
    Uninitialised,    \* block numbers that memory fresh from malloc may hold
    ReadsMayFail      \* whether fread may come short before the end of the input

ASSUME PrepareAssumption ==
    /\ Inputs \subseteq Seq(Nat) /\ BlockSizes \subseteq Nat
    /\ MIN_BLOCK_SIZE \in Nat \ {0}
    /\ Uninitialised \subseteq 0 .. MAX_BLOCK_NUMBER + 1
    /\ ReadsMayFail \in BOOLEAN

VARIABLES
    pc,                     \* where splitFile is, "off" when it does not run
    nbItems, blockNumber,   \* of splitFile
    cursor,                 \* the loop counter of resetOuputDir
    blockFile, indexFile,   \* the output directory
    input, size,            \* history: what is being or was prepared
    unnoticed               \* history: an error splitFile did not look at

directory == <<blockFile, indexFile>>
memory == <<nbItems, blockNumber, cursor>>
history == <<input, size, unnoticed>>
prepareVars == <<pc, memory, directory, history>>

\* The file of a number found in an index; there is none beyond the last block.
FileAt(b) == IF b \in BlockNumbers THEN blockFile[b] ELSE Absent

PrepareInit ==
    /\ pc = "off" /\ nbItems = 0 /\ blockNumber = 0 /\ cursor = 0
    /\ blockFile = [b \in BlockNumbers |-> Absent]
    /\ indexFile = Absent
    /\ input = <<>> /\ size = 0 /\ unnoticed = FALSE

Begin == pc = "off" /\ pc' = "reset" /\ UNCHANGED <<memory, directory, history>>

\* exit, with or without success.
Leave == pc' = "off" /\ nbItems' = 0 /\ blockNumber' = 0 /\ cursor' = 0

-----------------------------------------------------------------------------
\* resetOuputDir: nothing without an index file; else remove the blocks it
\* lists and then the index, and exit when one of them cannot be removed.
ResetNothing ==
    /\ pc = "reset" /\ ~ IsWhole(indexFile)
    /\ pc' = "open"
    /\ UNCHANGED <<memory, directory, history>>

ResetBlock ==
    /\ pc = "reset" /\ IsWhole(indexFile) /\ cursor < indexFile.data.nbItems
    /\ LET b == indexFile.data.items[cursor]
       IN  \/ /\ Exists(FileAt(b))
              /\ blockFile' = [blockFile EXCEPT ![b] = Absent]
              /\ cursor' = cursor + 1
              /\ UNCHANGED <<pc, nbItems, blockNumber>>
           \/ /\ ~ Exists(FileAt(b)) \/ RemovesMayFail
              /\ Leave
              /\ UNCHANGED blockFile
    /\ UNCHANGED <<indexFile, history>>

ResetIndex ==
    /\ pc = "reset" /\ IsWhole(indexFile) /\ cursor = indexFile.data.nbItems
    /\ \/ /\ indexFile' = Absent
          /\ cursor' = 0
          /\ pc' = "open"
          /\ UNCHANGED <<nbItems, blockNumber>>
       \/ /\ RemovesMayFail
          /\ Leave
          /\ UNCHANGED indexFile
    /\ UNCHANGED <<blockFile, history>>

-----------------------------------------------------------------------------
\* Mutants of NbItems: a full last block is not seen; the 16 bits are forgotten.
NbItemsOneMore(file, n) == (Len(file) \div n + 1) % (MAX_BLOCK_NUMBER + 2)
NbItemsWide(file, n) == (Len(file) - 1) \div n + 1

\* A tBlockNumber has just room for MAX_BLOCK_NUMBER + 1, so that the check for
\* too many blocks after it never finds any.
NbItems(file, n) == ((Len(file) - 1) \div n + 1) % (MAX_BLOCK_NUMBER + 2)

\* Open the input and count its blocks.  The directory has been reset before
\* the program finds that the input is missing or empty.
Open ==
    /\ pc = "open"
    /\ \E file \in Inputs, n \in {m \in BlockSizes : m >= MIN_BLOCK_SIZE} :
          /\ input' = file /\ size' = n /\ unnoticed' = FALSE
          /\ \/ file = <<>> /\ Leave
             \/ file # <<>> /\ nbItems' = NbItems(file, n) /\ pc' = "split"
                            /\ UNCHANGED <<blockNumber, cursor>>
    /\ UNCHANGED directory

\* What is left of the input, up to one block.
NextChunk ==
    LET sent == blockNumber * size
    IN  SubSeq(input, sent + 1, IF sent + size <= Len(input) THEN sent + size ELSE Len(input))

\* What fread makes of it.
Reads == {NextChunk} \cup
         (IF ReadsMayFail THEN {SubSeq(NextChunk, 1, n) : n \in 0 .. Len(NextChunk) - 1} ELSE {})

BlockOf(bytes) ==
    [blockNumber |-> blockNumber, checksum |-> crc32c(bytes),
     payloadSize |-> Len(bytes), payload |-> bytes]

(***************************************************************************)
(* One turn of the loop: read a block, enter it in the table, write it.    *)
(* A read that comes short ends the loop like the end of the input, and    *)
(* nobody asks createBlockFile how it went: a refused write that leaves an *)
(* older block in place goes unnoticed also later.                         *)
(***************************************************************************)
Split ==
    /\ pc = "split"
    /\ \E bytes \in Reads :
          \/ /\ bytes = <<>>
             /\ pc' = "index"
             /\ unnoticed' = (unnoticed \/ bytes # NextChunk)
             /\ UNCHANGED <<memory, blockFile>>
          \/ /\ bytes # <<>> /\ blockNumber >= nbItems
             /\ Leave
             /\ UNCHANGED <<unnoticed, blockFile>>
          \/ /\ bytes # <<>> /\ blockNumber < nbItems
             /\ \E file \in WriteOutcomes(blockFile[blockNumber], BlockOf(bytes)) :
                   /\ blockFile' = [blockFile EXCEPT ![blockNumber] = file]
                   /\ unnoticed' = \/ unnoticed \/ bytes # NextChunk
                                   \/ IsWhole(file) /\ file # Whole(BlockOf(bytes))
             /\ blockNumber' = blockNumber + 1
             /\ pc' = IF Len(bytes) = size THEN "split" ELSE "index"
             /\ UNCHANGED <<nbItems, cursor>>
    /\ UNCHANGED <<indexFile, input, size>>

\* Write the index: the numbers of the blocks made, and whatever the memory
\* held for those that were not.  The offsets in it are read by nobody.
CreateIndex ==
    /\ pc = "index"
    /\ \E rest \in [blockNumber .. nbItems - 1 -> Uninitialised] :
          indexFile' \in WriteOutcomes(indexFile,
             [nbItems |-> nbItems,
              items |-> [b \in 0 .. nbItems - 1 |-> IF b < blockNumber THEN b ELSE rest[b]]])
    /\ Leave
    /\ UNCHANGED <<blockFile, history>>

Kill ==
    /\ pc # "off"
    /\ Leave
    /\ blockFile' \in IF pc = "split" /\ blockNumber < nbItems
                      THEN {[blockFile EXCEPT ![blockNumber] = file] :
                               file \in Tear(blockFile[blockNumber])}
                      ELSE {blockFile}
    /\ indexFile' \in IF pc = "index" THEN Tear(indexFile) ELSE {indexFile}
    /\ UNCHANGED history

Work == ResetNothing \/ ResetBlock \/ ResetIndex \/ Open \/ Split \/ CreateIndex
=============================================================================

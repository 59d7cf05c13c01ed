---------------------------- MODULE ReceiverProofs ----------------------------
(***************************************************************************)
(* Proofs about the receiver, for every set of publications, every packet  *)
(* and word size, every number of sessions, kills at every point, and a    *)
(* publication that changes while it is received.                          *)
(*                                                                         *)
(* They come in three parts: what holds whatever the disk refuses; what    *)
(* needs that files can be removed, or else the map of a block outlives    *)
(* what it says; and what needs that files can be written.                 *)
(***************************************************************************)
EXTENDS ReceiverSafety, DataPacketLemmas, BlockPacketMapLemmas, FiniteSetTheorems,
        WellFoundedInduction

(***************************************************************************)
(* The invariant on any disk.  The receiver has a block in memory exactly  *)
(* in the phases that use one, and a packet in hand in those that handle   *)
(* it; from the test for a completed block to the end of the packet the    *)
(* block is that of the packet and not completed.                          *)
(***************************************************************************)
Idle == {"off", "reset", "generate", "erase", "exit"}
Handling == {"save", "savemap", "restore", "accept", "store", "check", "write"}
Holding == {"save", "savemap", "store", "check", "write"}

Phases ==
    /\ pc \in Idle => indexTable = NoIndex
    /\ pc \in Holding => Loaded
    /\ Loaded => pc \in Holding \cup {"receive", "accept", "undefined"}
    /\ pc \in Handling => /\ packet \in AllPackets /\ readPacket(packet)
                          /\ packet.blockTotal = indexTable.nbItems
    /\ pc \in {"store", "check", "write"} => /\ dataBlock.blockNumber = packet.blockNumber
                                             /\ packet.blockNumber \notin Completed
    /\ IsWhole(indexFile) => pc \in Idle \cup {"undefined"}

\* A block has the checksum of a published one.  A block file holds the block of
\* its number and as many bytes as its header says, at least one.
BlockKnown == Loaded => dataBlock.checksum \in Checksums(dataBlock.blockNumber)

FilesKnown ==
    \A b \in BlockNumbers :
        IsWhole(blockFile[b]) =>
            LET block == blockFile[b].data
            IN  /\ block.blockNumber = b /\ block.checksum \in Checksums(b)
                /\ block.payloadSize = Len(block.payload) /\ block.payload # <<>>

\* A block without a map, for which there was no memory, is a new one on its way to
\* be checked, and its first packet fits.
MapAtHand ==
    Loaded /\ blockPacketMap = ClosedMap =>
        \/ /\ pc = "store" /\ ~ IsLastPacket(packet) /\ maxPacketSize = ThrotData
           /\ dataBlock.payloadSize = packet.packetTotal * ThrotData
        \/ pc \in {"check", "write", "undefined"}

\* A block is about to be written only if its checksum is right.
Verified == pc = "write" => ~ OutgrowsPayload /\ ChecksumMatches

IndexByNumber ==
    IsWhole(indexFile) => \A i \in DOMAIN indexFile.data.items :
                              indexFile.data.items[i].number = i

Base ==
    /\ TypeOK /\ Phases /\ BlockKnown /\ FilesKnown /\ MapAtHand /\ Verified
    /\ IndexByNumber /\ CountMatchesIndex /\ CountedBlocksVerified

-----------------------------------------------------------------------------
(***************************************************************************)
(* Facts about the data that several steps use.                            *)
(***************************************************************************)
LEMMA NothingLoaded == NoBlock \in Block /\ NoBlock.payload = <<>>
  BY MaximaAssumption, EmptySeq DEF NoBlock, Block, BlockNumbers, crc32c

\* A size_t holds the size of any block and of any packet.
LEMMA SizesFit == ThrotData <= SIZE_MAX /\ SIZE_MAX \in Nat
<1>1. (MAX_PACKET_NUMBER + 1) * ThrotData = MAX_PACKET_NUMBER * ThrotData + ThrotData
  BY MaximaAssumption, ThrotDataAssumption
<1>2. MAX_PACKET_NUMBER * ThrotData \in Nat
  BY MaximaAssumption, ThrotDataAssumption
<1> QED  BY <1>1, <1>2, ReceiverAssumption, ThrotDataAssumption

\* A write leaves what was to be written, what was there, or a torn file.
LEMMA WriteLeaves ==
    ASSUME NEW file, NEW x, NEW f \in WriteOutcomes(file, x)
    PROVE  f \in {Whole(x), file, Torn}
BY DEF WriteOutcomes, RefusedWrite, Tear

\* closeMap leaves an empty map.
LEMMA CloseGivesClosed == ASSUME NEW map, IsMap(map) PROVE closeMap(map) = ClosedMap
<1>1. map # ClosedMap => map.nbItems \in Nat \ {0}
  BY OpenMap
<1> QED  BY <1>1 DEF closeMap, IsOpen

\* The block file is the block, cut at its payload size.
LEMMA ImageOfBlock ==
    ASSUME NEW block \in Block, block.payloadSize \in 1 .. Len(block.payload)
    PROVE  /\ BlockImage(block) \in Block
           /\ BlockImage(block).blockNumber = block.blockNumber
           /\ BlockImage(block).checksum = block.checksum
           /\ BlockImage(block).payloadSize = block.payloadSize
           /\ BlockImage(block).payload = SubSeq(block.payload, 1, block.payloadSize)
           /\ Len(BlockImage(block).payload) = block.payloadSize
<1> DEFINE cut == SubSeq(block.payload, 1, block.payloadSize)
<1>1. /\ block.blockNumber \in BlockNumbers /\ block.checksum \in [crc : Seq(Nat)]
      /\ block.payloadSize \in Nat /\ block.payload \in Seq(Nat)
  BY DEF Block
<1>2. \A i \in 1 .. block.payloadSize : block.payload[i] \in Nat
  BY <1>1, ElementOfSeq
<1>3. cut \in Seq(Nat) /\ Len(cut) = block.payloadSize
  BY <1>1, <1>2, SubSeqProperties
<1>4. BlockImage(block) = [block EXCEPT !.payload = cut]
  BY DEF BlockImage
<1> HIDE DEF cut
<1>5. /\ BlockImage(block).blockNumber = block.blockNumber
      /\ BlockImage(block).checksum = block.checksum
      /\ BlockImage(block).payloadSize = block.payloadSize
      /\ BlockImage(block).payload = cut
  BY <1>4 DEF Block
<1>6. BlockImage(block) \in Block
  BY <1>1, <1>3, <1>4 DEF Block
<1>7. Len(BlockImage(block).payload) = block.payloadSize
  BY <1>3, <1>5
<1>8. BlockImage(block).payload = SubSeq(block.payload, 1, block.payloadSize)
  BY <1>5 DEF cut
<1> QED  BY <1>5, <1>6, <1>7, <1>8

\* The block that has been verified is one that was published.
LEMMA WrittenBlock ==
    ASSUME TypeOK, Phases, BlockKnown, pc \in {"check", "write"},
           ~ OutgrowsPayload, ChecksumMatches
    PROVE  LET n == packet.blockNumber
           IN  /\ dataBlock.blockNumber = n /\ dataBlock \in Block
               /\ dataBlock.payloadSize \in 1 .. Len(dataBlock.payload)
               /\ BlockImage(dataBlock).payload \in PublishedBlocks(n)
               /\ Len(BlockImage(dataBlock).payload) = dataBlock.payloadSize
               /\ ReadsVerified(Whole(BlockImage(dataBlock)))
<1> DEFINE n == packet.blockNumber
           size == dataBlock.payloadSize
           bytes == SubSeq(dataBlock.payload, 1, size)
<1>1. /\ dataBlock.blockNumber = n /\ dataBlock \in Block /\ Loaded
      /\ dataBlock.checksum \in Checksums(n)
  BY DEF TypeOK, Phases, Holding, BlockKnown
<1>2. crc32c(bytes) = dataBlock.checksum
  BY DEF ChecksumMatches
<1>3. /\ size \in 0 .. Len(dataBlock.payload) /\ dataBlock.payload \in Seq(Nat)
      /\ n \in Nat
  BY <1>1, <1>2, LenProperties, MaximaAssumption DEF OutgrowsPayload, Block, BlockNumbers
<1> HIDE DEF size, n
<1>4. PICK file \in Publications : n < Len(file) /\ bytes = file[n + 1]
  BY <1>1, <1>2 DEF Checksums, crc32c
<1>5. bytes # <<>>
  <2>1. file \in Seq(Seq(Nat)) /\ Len(file) \in Nat
    BY PublicationsAssumption, LenProperties
  <2>2. n + 1 \in 1 .. Len(file)
    BY <1>3, <1>4, <2>1
  <2> QED  BY <1>4, <2>2, PublicationsAssumption
<1>6. size # 0
  <2>1. size = 0 => bytes = <<>>
    BY <1>3, SubSeqProperties, EmptySeq
  <2> QED  BY <1>5, <2>1
<1>7. size \in 1 .. Len(dataBlock.payload)
  BY <1>3, <1>6, LenProperties
<1>8. /\ BlockImage(dataBlock).payload = bytes
      /\ BlockImage(dataBlock).checksum = dataBlock.checksum
      /\ Len(BlockImage(dataBlock).payload) = size
  BY <1>1, <1>7, ImageOfBlock DEF size
<1>9. bytes \in PublishedBlocks(n)
  BY <1>4 DEF PublishedBlocks
<1>10. ReadsVerified(Whole(BlockImage(dataBlock)))
  BY <1>2, <1>8 DEF ReadsVerified, IsWhole, Whole
<1> HIDE DEF bytes
<1> QED  BY <1>1, <1>7, <1>8, <1>9, <1>10 DEF size, n

\* The file of a block is what was there, torn, or the block as long as its size says.
LEMMA BlockFileWritten ==
    ASSUME Base, SaveBlock \/ WriteBlock
    PROVE  LET n == dataBlock.blockNumber
           IN  /\ n \in BlockNumbers /\ DOMAIN blockFile' = BlockNumbers
               /\ \A b \in BlockNumbers : b # n => blockFile'[b] = blockFile[b]
               /\ \/ blockFile'[n] \in {blockFile[n], Torn}
                  \/ /\ dataBlock.payloadSize \in 1 .. Len(dataBlock.payload)
                     /\ blockFile'[n] = Whole(BlockImage(dataBlock))
<1> DEFINE n == dataBlock.blockNumber
<1>1. /\ dataBlock \in Block /\ n \in BlockNumbers /\ DOMAIN blockFile = BlockNumbers
      /\ dataBlock.payloadSize \in Nat /\ Len(dataBlock.payload) \in Nat
  BY LenProperties DEF Base, TypeOK, Block
<1>2. CASE OutgrowsPayload /\ blockFile' = blockFile
  BY <1>1, <1>2
<1>3. ASSUME NEW file, blockFile' = [blockFile EXCEPT ![n] = file],
             \/ file \in {blockFile[n], Torn}
             \/ /\ dataBlock.payloadSize \in 1 .. Len(dataBlock.payload)
                /\ file = Whole(BlockImage(dataBlock))
      PROVE  /\ n \in BlockNumbers /\ DOMAIN blockFile' = BlockNumbers
             /\ \A b \in BlockNumbers : b # n => blockFile'[b] = blockFile[b]
             /\ \/ blockFile'[n] \in {blockFile[n], Torn}
                \/ /\ dataBlock.payloadSize \in 1 .. Len(dataBlock.payload)
                   /\ blockFile'[n] = Whole(BlockImage(dataBlock))
  <2> HIDE DEF n
  <2> QED  BY <1>1, <1>3
<1>4. CASE SaveBlock
  <2>1. CASE \E file \in RefusedWrite(blockFile[n]) : blockFile' = [blockFile EXCEPT ![n] = file]
    <3>1. PICK file \in RefusedWrite(blockFile[n]) : blockFile' = [blockFile EXCEPT ![n] = file]
      BY <2>1
    <3>2. file \in {blockFile[n], Torn}
      BY DEF RefusedWrite, Tear
    <3> QED  BY <1>3, <3>1, <3>2
  <2>2. CASE ~ OutgrowsPayload /\ blockFile' = [blockFile EXCEPT ![n] = BlockWritten(dataBlock)]
    <3>1. BlockWritten(dataBlock) = Torn
          \/ (dataBlock.payloadSize # 0 /\ BlockWritten(dataBlock) = Whole(BlockImage(dataBlock)))
      BY DEF BlockWritten
    <3>2. dataBlock.payloadSize # 0 => dataBlock.payloadSize \in 1 .. Len(dataBlock.payload)
      BY <1>1, <2>2 DEF OutgrowsPayload
    <3> QED  BY <1>3, <2>2, <3>1, <3>2
  <2> QED  BY <1>2, <1>4, <2>1, <2>2 DEF SaveBlock
<1>5. CASE WriteBlock
  <2>1. PICK file \in WriteOutcomes(blockFile[n], BlockImage(dataBlock)) :
            blockFile' = [blockFile EXCEPT ![n] = file]
    BY <1>5 DEF WriteBlock
  <2>2. file \in {Whole(BlockImage(dataBlock)), blockFile[n], Torn}
    BY WriteLeaves
  <2>3. dataBlock.payloadSize \in 1 .. Len(dataBlock.payload)
    BY <1>5, WrittenBlock DEF Base, WriteBlock, Verified
  <2> QED  BY <1>3, <2>1, <2>2, <2>3
<1> QED  BY <1>4, <1>5

\* The table lists finitely many blocks, and all of them when their number says so.
LEMMA CompletedIsFinite ==
    ASSUME TypeOK
    PROVE  /\ Completed \subseteq 0 .. indexTable.nbItems - 1
           /\ IsFiniteSet(Completed)
           /\ Cardinality(Completed) \in Nat
           /\ Cardinality(Completed) <= indexTable.nbItems
           /\ Cardinality(Completed) = indexTable.nbItems =>
                 Completed = 0 .. indexTable.nbItems - 1
<1> DEFINE all == 0 .. indexTable.nbItems - 1
<1>1. indexTable.nbItems \in Nat /\ DOMAIN indexTable.items = all
  BY MaximaAssumption DEF TypeOK, IsIndexTable
<1>2. Completed \subseteq all
  BY <1>1 DEF Completed
<1>3. IsFiniteSet(all) /\ Cardinality(all) = indexTable.nbItems
  BY <1>1, FS_Interval
<1>4. IsFiniteSet(Completed) /\ Cardinality(Completed) <= Cardinality(all)
      /\ (Cardinality(all) = Cardinality(Completed) => all = Completed)
  BY <1>2, <1>3, FS_Subset
<1>5. Cardinality(Completed) \in Nat
  BY <1>4, FS_CardinalityType
<1> QED  BY <1>2, <1>3, <1>4, <1>5

\* The empty index table.
LEMMA NoIndexType ==
    /\ IsIndexTable(NoIndex) /\ NoIndex.items \in [DOMAIN NoIndex.items -> Sizes]
    /\ NoIndex.nbItems = 0 /\ DOMAIN NoIndex.items = {}
  BY MaximaAssumption DEF NoIndex, IsIndexTable

\* What the variables of an idle receiver amount to.
LEMMA NoneCompleted ==
    ASSUME indexTable = NoIndex
    PROVE  Completed = {} /\ Cardinality(Completed) = 0
  BY NoIndexType, FS_EmptySet DEF Completed

-----------------------------------------------------------------------------
(***************************************************************************)
(* Any disk: the environment.                                              *)
(***************************************************************************)
LEMMA InitBase == Init => Base
<1> SUFFICES ASSUME Init PROVE Base
  OBVIOUS
<1> USE DEF Init, InitMemory
<1>1. ~ Loaded /\ indexTable = NoIndex
  BY DEF Loaded, NoBlock
<1>2. Completed = {} /\ Cardinality(Completed) = 0
  BY <1>1, NoneCompleted
<1>3. TypeOK
  <2>1. \A b \in BlockNumbers : blockFile[b] = Absent /\ mapFile[b] = Absent
    OBVIOUS
  <2>2. DOMAIN blockFile = BlockNumbers /\ DOMAIN mapFile = BlockNumbers
    OBVIOUS
  <2> QED
    BY <2>1, <2>2, NothingLoaded, NoIndexType, ClosedIsMap, ReceiverAssumption,
       ThrotDataAssumption, MaximaAssumption, EmptySeq
       DEF TypeOK, FileOf, Absent
<1>4. ~ IsWhole(indexFile) /\ \A b \in BlockNumbers : ~ IsWhole(blockFile[b])
  BY DEF IsWhole, Absent
<1> QED
  BY <1>1, <1>2, <1>3, <1>4
     DEF Base, Phases, Idle, Holding, Handling, BlockKnown, FilesKnown, MapAtHand, Verified,
         IndexByNumber, CountMatchesIndex, CountedBlocksVerified

\* A step that changes neither memory nor disk, nor the phase.
LEMMA SamePhaseBase ==
    ASSUME Base, UNCHANGED <<sessions, pc, memory, disk>>, onAir' \in Publications
    PROVE  Base'
<1> USE DEF Base, memory, disk
<1>1. TypeOK'
  BY DEF TypeOK
<1>2. Completed' = Completed /\ Loaded' = Loaded
  BY DEF Completed, Loaded
<1>3. Phases'
  BY <1>2 DEF Phases
<1>4. BlockKnown' /\ FilesKnown' /\ MapAtHand' /\ IndexByNumber'
  BY <1>2 DEF BlockKnown, FilesKnown, MapAtHand, IndexByNumber
<1>5. Verified'
  BY DEF Verified, ChecksumMatches, OutgrowsPayload
<1>6. CountMatchesIndex' /\ CountedBlocksVerified'
  BY <1>2 DEF CountMatchesIndex, CountedBlocksVerified
<1> QED  BY <1>1, <1>3, <1>4, <1>5, <1>6

LEMMA RepublishBase == ASSUME Base, Republish PROVE Base'
  BY SamePhaseBase DEF Republish

LEMMA StutterBase == ASSUME Base, UNCHANGED vars PROVE Base'
<1>1. onAir' \in Publications
  BY DEF Base, TypeOK, vars, environment
<1> QED  BY <1>1, SamePhaseBase DEF vars, environment

\* What is left to prove of a step between idle phases, or out of them.
LEMMA IdleBase ==
    ASSUME Base, pc \in Idle, pc' \in Idle \cup {"receive", "undefined"}, TypeOK', FilesKnown',
           pc' = "receive" => ~ IsWhole(indexFile'),
           UNCHANGED <<indexTable, dataBlock, nbBlockRead>>,
           IsWhole(indexFile') => indexFile' = indexFile,
           pc' \in {"off", "reset", "receive"} => pc \in {"off", "reset"}
    PROVE  Base'
<1> USE DEF Base
<1>1. ~ Loaded /\ ~ Loaded' /\ indexTable = NoIndex /\ indexTable' = NoIndex
  BY DEF Phases, Loaded, Idle, Holding
<1>2. Completed = {} /\ Completed' = {} /\ Cardinality(Completed) = 0
  BY <1>1, NoneCompleted, NoIndexType DEF Completed
<1>3. Phases'
  BY <1>1, <1>2 DEF Phases, Idle, Holding, Handling
<1>4. BlockKnown' /\ MapAtHand' /\ Verified' /\ IndexByNumber'
  BY <1>1 DEF BlockKnown, MapAtHand, Verified, IndexByNumber, Idle
<1>5. CountMatchesIndex' /\ CountedBlocksVerified'
  BY <1>2 DEF CountMatchesIndex, CountedBlocksVerified, Idle
<1> QED  BY <1>3, <1>4, <1>5

LEMMA StartBase == ASSUME Base, Start PROVE Base'
<1> USE DEF Start, memory, disk
<1>1. TypeOK' /\ FilesKnown'
  BY ReceiverAssumption DEF Base, TypeOK, FilesKnown
<1> QED  BY <1>1, IdleBase DEF Idle

\* What a kill does to the files.
LEMMA CrashTears ==
    ASSUME Base, Crash
    PROVE  /\ DOMAIN blockFile' = BlockNumbers /\ DOMAIN mapFile' = BlockNumbers
           /\ \A b \in BlockNumbers :
                 /\ \/ blockFile'[b] = blockFile[b]
                    \/ blockFile'[b] = Torn /\ Loaded /\ dataBlock.blockNumber = b
                 /\ mapFile'[b] \in {mapFile[b], Torn}
           /\ indexFile' \in {indexFile, Torn}
           /\ output' \in {output, Torn, Whole(stream)}
<1> USE DEF Base
<1>0. DOMAIN blockFile = BlockNumbers /\ DOMAIN mapFile = BlockNumbers
  BY DEF TypeOK
<1>1. \A b \in BlockNumbers :
          /\ \/ blockFile'[b] = blockFile[b]
             \/ blockFile'[b] = Torn /\ Loaded /\ dataBlock.blockNumber = b
          /\ mapFile'[b] \in {mapFile[b], Torn}
  <2> SUFFICES ASSUME NEW b \in BlockNumbers
               PROVE  /\ \/ blockFile'[b] = blockFile[b]
                         \/ blockFile'[b] = Torn /\ Loaded /\ dataBlock.blockNumber = b
                      /\ mapFile'[b] \in {mapFile[b], Torn}
    OBVIOUS
  <2>1. CASE pc \in {"save", "write"}
    <3>1. PICK f \in Tear(blockFile[dataBlock.blockNumber]) :
              blockFile' = [blockFile EXCEPT ![dataBlock.blockNumber] = f]
      BY <2>1 DEF Crash
    <3>2. mapFile' = mapFile /\ Loaded
      BY <2>1 DEF Crash, Phases, Holding
    <3>3. f \in {blockFile[dataBlock.blockNumber], Torn}
      BY DEF Tear
    <3> HIDE DEF Base
    <3> QED  BY <1>0, <3>1, <3>2, <3>3
  <2>2. CASE pc \notin {"save", "write"}
    <3>1. blockFile' = blockFile
      BY <2>2 DEF Crash
    <3>2. mapFile'[b] \in {mapFile[b], Torn}
      <4>1. CASE pc = "savemap"
        <5>1. PICK f \in Tear(mapFile[dataBlock.blockNumber]) :
                  mapFile' = [mapFile EXCEPT ![dataBlock.blockNumber] = f]
          BY <4>1 DEF Crash
        <5>2. f \in {mapFile[dataBlock.blockNumber], Torn}
          BY DEF Tear
        <5> HIDE DEF Base
        <5> QED  BY <1>0, <5>1, <5>2
      <4>2. CASE pc # "savemap"
        BY <4>2 DEF Crash
      <4> QED  BY <4>1, <4>2
    <3> QED  BY <3>1, <3>2
  <2> QED  BY <2>1, <2>2
<1>2. /\ DOMAIN blockFile' = BlockNumbers /\ DOMAIN mapFile' = BlockNumbers
      /\ indexFile' \in {indexFile, Torn}
      /\ output' \in {output, Torn, Whole(stream)}
  BY DEF Tear, TypeOK, Crash
<1> QED  BY <1>1, <1>2

LEMMA CrashBase == ASSUME Base, Crash PROVE Base'
<1> USE DEF Base
<1>1. ~ Loaded' /\ indexTable' = NoIndex /\ pc' = "off" /\ nbBlockRead' = 0
  BY DEF Loaded, NoBlock, Crash, ClearMemory
<1>2. Completed' = {} /\ Cardinality(Completed') = 0
  BY <1>1, NoIndexType, FS_EmptySet DEF Completed
<1>3. ~ IsWhole(Torn)
  BY DEF IsWhole, Torn
<1>4. TypeOK'
  <2>1. output' \in FileOf(Seq(Seq(Nat)))
    <3>1. output' \in {output, Torn, Whole(stream)}
      BY CrashTears
    <3> QED  BY <3>1 DEF TypeOK, FileOf, Torn, Whole
  <2>2. \A b \in BlockNumbers : blockFile'[b] \in FileOf(Block)
    <3>1. Torn \in FileOf(Block) /\ \A b \in BlockNumbers : blockFile[b] \in FileOf(Block)
      BY DEF TypeOK, FileOf, Torn
    <3> QED  BY <3>1, CrashTears
  <2>3. \A b \in BlockNumbers :
            \/ mapFile'[b] \in {Absent, Torn}
            \/ /\ mapFile'[b] = Whole(mapFile'[b].data)
               /\ IsMap(mapFile'[b].data) /\ IsOpen(mapFile'[b].data)
    <3>1. \A b \in BlockNumbers : mapFile'[b] \in {mapFile[b], Torn}
      BY CrashTears
    <3> QED  BY <3>1 DEF TypeOK
  <2>4. \/ indexFile' \in {Absent, Torn}
        \/ indexFile' = Whole(indexFile'.data) /\ IsIndexTable(indexFile'.data)
    <3>1. indexFile' \in {indexFile, Torn}
      BY CrashTears
    <3> QED  BY <3>1 DEF TypeOK
  <2>5. DOMAIN blockFile' = BlockNumbers /\ DOMAIN mapFile' = BlockNumbers
    BY CrashTears
  <2> QED
    BY <2>1, <2>2, <2>3, <2>4, <2>5, NothingLoaded, NoIndexType, ClosedIsMap,
       ThrotDataAssumption, MaximaAssumption, EmptySeq
       DEF TypeOK, Crash, ClearMemory, environment
<1>5. Phases'
  BY <1>1 DEF Phases, Idle, Holding, Handling
<1>6. FilesKnown'
  <2>1. \A b \in BlockNumbers : IsWhole(blockFile'[b]) => blockFile'[b] = blockFile[b]
    BY <1>3, CrashTears
  <2> QED  BY <2>1 DEF FilesKnown
<1>7. IndexByNumber'
  <2>1. IsWhole(indexFile') => indexFile' = indexFile
    BY <1>3, CrashTears
  <2> QED  BY <2>1 DEF IndexByNumber
<1> QED
  BY <1>1, <1>2, <1>4, <1>5, <1>6, <1>7
     DEF BlockKnown, MapAtHand, Verified, CountMatchesIndex, CountedBlocksVerified

-----------------------------------------------------------------------------
(***************************************************************************)
(* Any disk: resetOuputDir, the index file and the output.                 *)
(***************************************************************************)
LEMMA ResetNothingBase == ASSUME Base, ResetNothing PROVE Base'
<1> USE DEF ResetNothing, memory, disk, environment
<1>1. TypeOK' /\ FilesKnown'
  BY DEF Base, TypeOK, AfterReset, FilesKnown
<1> QED  BY <1>1, IdleBase DEF Idle, AfterReset

\* The block that is removed is the next of the index file.
LEMMA ResetRemoves ==
    ASSUME Base, ResetRemoveBlock
    PROVE  /\ cursor \in BlockNumbers /\ cursor + 1 \in 0 .. MAX_BLOCK_NUMBER
           /\ cursor \in DOMAIN indexFile.data.items
           /\ DOMAIN blockFile' = BlockNumbers
           /\ blockFile'[cursor] \in {blockFile[cursor], Absent}
           /\ \A n \in BlockNumbers : n # cursor => blockFile'[n] = blockFile[n]
<1> USE DEF Base, ResetRemoveBlock
<1> DEFINE table == indexFile.data
<1>1. IsIndexTable(table) /\ cursor \in 0 .. table.nbItems - 1
  BY MaximaAssumption DEF TypeOK, IsWhole, Absent, Torn, IsIndexTable
<1>2. table.items[cursor].number = cursor /\ cursor \in DOMAIN table.items
  BY <1>1 DEF IndexByNumber, IsIndexTable
<1>3. cursor + 1 \in 0 .. MAX_BLOCK_NUMBER /\ cursor \in BlockNumbers
  BY <1>1, MaximaAssumption DEF IsIndexTable, BlockNumbers
<1>4. blockFile' \in {blockFile, [blockFile EXCEPT ![cursor] = Absent]}
  BY <1>2
<1>5. DOMAIN blockFile = BlockNumbers
  BY DEF TypeOK
<1> HIDE DEF Base, ResetRemoveBlock, table
<1> QED  BY <1>2, <1>3, <1>4, <1>5 DEF table

LEMMA ResetRemoveBlockBase == ASSUME Base, ResetRemoveBlock PROVE Base'
<1>1. \A n \in BlockNumbers : blockFile'[n] \in {blockFile[n], Absent}
  BY ResetRemoves
<1>2. /\ pc' \in {pc, "off", "exit"} /\ pc \in {"reset", "erase"}
      /\ pc' = "off" => pc = "reset"
      /\ cursor' \in {cursor, cursor + 1, 0}
      /\ UNCHANGED <<onAir, sessions, packet, indexTable, dataBlock, blockPacketMap,
                     nbBlockRead, maxPacketSize, stream, mapFile, indexFile, output>>
  BY DEF ResetRemoveBlock, FailReset, environment
<1>3. TypeOK'
  <2>1. \A n \in BlockNumbers : blockFile'[n] \in FileOf(Block)
    BY <1>1 DEF Base, TypeOK, FileOf, Absent
  <2>2. cursor' \in 0 .. MAX_BLOCK_NUMBER /\ DOMAIN blockFile' = BlockNumbers
    BY <1>2, ResetRemoves, MaximaAssumption DEF BlockNumbers
  <2> QED  BY <1>2, <2>1, <2>2 DEF Base, TypeOK
<1>4. FilesKnown'
  <2>1. \A n \in BlockNumbers : IsWhole(blockFile'[n]) => blockFile'[n] = blockFile[n]
    BY <1>1 DEF IsWhole, Absent
  <2> QED  BY <2>1 DEF Base, FilesKnown
<1> QED  BY <1>2, <1>3, <1>4, IdleBase DEF Idle

LEMMA ResetRemoveIndexBase == ASSUME Base, ResetRemoveIndex PROVE Base'
<1> USE DEF ResetRemoveIndex, FailReset, AfterReset, environment
<1>1. TypeOK' /\ FilesKnown'
  BY MaximaAssumption DEF Base, TypeOK, FilesKnown
<1> QED  BY <1>1, IdleBase DEF Idle, IsWhole, Absent

\* The table that is written lists every block by its number.
LEMMA IndexTableWritten ==
    ASSUME Base, CreateIndex
    PROVE  LET table == [indexTable EXCEPT !.items = Offsets(@)]
           IN  /\ indexFile' \in {Whole(table), Torn, indexFile} /\ ~ IsWhole(indexFile)
               /\ IsWhole(indexFile') => indexFile' = Whole(table) /\ indexFile'.data = table
               /\ IsIndexTable(table) /\ DOMAIN table.items = Completed
               /\ \A i \in DOMAIN table.items : table.items[i].number = i
<1> USE DEF Base
<1> DEFINE table == [indexTable EXCEPT !.items = Offsets(@)]
<1>1. pc = "index" /\ indexFile' \in {Whole(table), indexFile, Torn}
  BY WriteLeaves DEF CreateIndex
<1>2. ~ IsWhole(indexFile)
  BY <1>1 DEF Phases, Idle
<1>3. Completed = 0 .. indexTable.nbItems - 1
  BY <1>1 DEF CountMatchesIndex
<1>4. /\ indexTable.nbItems \in 0 .. MAX_BLOCK_NUMBER
      /\ DOMAIN indexTable.items = 0 .. indexTable.nbItems - 1
      /\ indexTable.items \in [DOMAIN indexTable.items -> Sizes]
      /\ indexTable = [nbItems |-> indexTable.nbItems, items |-> indexTable.items]
  BY DEF TypeOK, IsIndexTable
<1>5. /\ DOMAIN Offsets(indexTable.items) = DOMAIN indexTable.items
      /\ \A b \in DOMAIN indexTable.items :
             Offsets(indexTable.items)[b].number = indexTable.items[b].number
  BY <1>4 DEF Offsets, Sizes
<1>6. table = [nbItems |-> indexTable.nbItems, items |-> Offsets(indexTable.items)]
  BY <1>4
<1> HIDE DEF table
<1>7. \A i \in DOMAIN table.items : table.items[i].number = i
  BY <1>3, <1>4, <1>5, <1>6 DEF CountedBlocksVerified
<1>8. IsIndexTable(table)
  BY <1>4, <1>5, <1>6 DEF IsIndexTable, Sizes
<1>9. IsWhole(indexFile') => indexFile' = Whole(table) /\ indexFile'.data = table
  BY <1>1, <1>2 DEF IsWhole, Whole, Torn
<1>10. DOMAIN table.items = Completed
  BY <1>3, <1>4, <1>5, <1>6
<1> QED  BY <1>1, <1>2, <1>7, <1>8, <1>9, <1>10 DEF table

LEMMA CreateIndexBase == ASSUME Base, CreateIndex PROVE Base'
<1> USE DEF Base
<1> DEFINE table == [indexTable EXCEPT !.items = Offsets(@)]
<1>1. /\ pc = "index" /\ pc' = "generate" /\ indexTable' = NoIndex
      /\ UNCHANGED <<onAir, sessions, packet, dataBlock, blockPacketMap, nbBlockRead,
                     maxPacketSize, cursor, stream, blockFile, mapFile, output>>
  BY DEF CreateIndex, environment
<1>2. ~ Loaded /\ ~ Loaded'
  BY <1>1 DEF Phases, Holding, Loaded
<1>3. Completed' = {}
  BY <1>1, NoIndexType DEF Completed
<1>4. /\ indexFile' \in {Whole(table), Torn, indexFile} /\ IsIndexTable(table)
      /\ IsWhole(indexFile') => indexFile'.data = table
      /\ \A i \in DOMAIN table.items : table.items[i].number = i
  BY IndexTableWritten
<1> HIDE DEF table
<1>5. TypeOK'
  <2>1. \/ indexFile' \in {Absent, Torn}
        \/ indexFile' = Whole(indexFile'.data) /\ IsIndexTable(indexFile'.data)
    BY <1>4 DEF Whole, TypeOK
  <2> QED  BY <1>1, <2>1, NoIndexType DEF TypeOK
<1>6. Phases'
  BY <1>1, <1>2 DEF Phases, Idle, Holding, Handling
<1>7. IndexByNumber'
  BY <1>4 DEF IndexByNumber
<1> QED
  BY <1>1, <1>2, <1>3, <1>5, <1>6, <1>7
     DEF BlockKnown, FilesKnown, MapAtHand, Verified, CountMatchesIndex, CountedBlocksVerified

LEMMA GenerateDataFileBase == ASSUME Base, GenerateDataFile PROVE Base'
<1> USE DEF Base
<1>1. /\ pc = "generate" /\ pc' \in {"erase", "undefined"}
      /\ output' \in {output, Torn}
      /\ UNCHANGED <<onAir, sessions, packet, indexTable, dataBlock, blockPacketMap,
                     nbBlockRead, maxPacketSize, cursor, blockFile, mapFile, indexFile>>
  BY DEF GenerateDataFile, environment
<1>2. stream' \in Seq(Seq(Nat))
  <2>1. CASE stream' = stream
    BY <2>1 DEF TypeOK
  <2>2. CASE stream' # stream
    <3> DEFINE table == indexFile.data
               block(i) == blockFile[table.items[i].number]
    <3>1. /\ IsWhole(indexFile)
          /\ \A i \in DOMAIN table.items : IsWhole(block(i))
          /\ stream' = [i \in 1 .. table.nbItems |-> block(i - 1).data.payload]
      BY <2>2 DEF GenerateDataFile, DataFile, ReadsVerified
    <3>2. IsIndexTable(table)
      BY <3>1 DEF TypeOK, IsWhole, Absent, Torn
    <3>3. table.nbItems \in 0 .. MAX_BLOCK_NUMBER
          /\ DOMAIN table.items = 0 .. table.nbItems - 1
      BY <3>2 DEF IsIndexTable
    <3>4. \A i \in 1 .. table.nbItems : block(i - 1).data.payload \in Seq(Nat)
      <4> SUFFICES ASSUME NEW i \in 1 .. table.nbItems
                   PROVE  block(i - 1).data.payload \in Seq(Nat)
        OBVIOUS
      <4>1. i - 1 \in DOMAIN table.items /\ i - 1 \in BlockNumbers
        BY <3>3, MaximaAssumption DEF BlockNumbers
      <4>2. block(i - 1) = blockFile[i - 1] /\ IsWhole(blockFile[i - 1])
        BY <3>1, <4>1 DEF IndexByNumber
      <4>3. blockFile[i - 1] \in FileOf(Block)
        BY <4>1 DEF TypeOK
      <4>4. blockFile[i - 1].data \in Block
        BY <4>2, <4>3 DEF FileOf, IsWhole
      <4> QED  BY <4>2, <4>4 DEF Block
    <3> HIDE DEF table, block
    <3>5. table.nbItems \in Nat
      BY <3>3, MaximaAssumption
    <3> QED  BY <3>1, <3>4, <3>5, IsASeq
  <2> QED  BY <2>1, <2>2
<1>3. TypeOK'
  <2>1. output' \in FileOf(Seq(Seq(Nat)))
    BY <1>1 DEF TypeOK, FileOf, Torn
  <2> QED  BY <1>1, <1>2, <2>1 DEF TypeOK
<1>4. FilesKnown'
  BY <1>1 DEF FilesKnown
<1> QED  BY <1>1, <1>3, <1>4, IdleBase DEF Idle

LEMMA ExitBase == ASSUME Base, Exit PROVE Base'
<1> USE DEF Base
<1>1. /\ pc = "exit" /\ pc' = "off" /\ ClearMemory
      /\ output' \in {output, Whole(stream), Torn}
      /\ UNCHANGED <<onAir, sessions, blockFile, mapFile, indexFile>>
  BY WriteLeaves DEF Exit, environment
<1>2. ~ Loaded' /\ indexTable' = NoIndex /\ nbBlockRead' = 0
  BY <1>1 DEF Loaded, NoBlock, ClearMemory
<1>3. Completed' = {} /\ Cardinality(Completed') = 0
  BY <1>2, NoIndexType, FS_EmptySet DEF Completed
<1>4. TypeOK'
  <2>1. output' \in FileOf(Seq(Seq(Nat)))
    BY <1>1 DEF TypeOK, FileOf, Whole, Torn
  <2> QED
    BY <1>1, <2>1, NothingLoaded, NoIndexType, ClosedIsMap, ThrotDataAssumption,
       MaximaAssumption, EmptySeq DEF TypeOK, ClearMemory
<1>5. Phases'
  BY <1>1, <1>2 DEF Phases, Idle, Holding, Handling
<1>6. FilesKnown' /\ IndexByNumber'
  BY <1>1 DEF FilesKnown, IndexByNumber
<1> QED
  BY <1>1, <1>2, <1>3, <1>4, <1>5, <1>6
     DEF BlockKnown, MapAtHand, Verified, CountMatchesIndex, CountedBlocksVerified

-----------------------------------------------------------------------------
(***************************************************************************)
(* Any disk: the packet loop.                                              *)
(***************************************************************************)
\* A packet in hand, and what it has been checked for.
LEMMA PacketInHand ==
    ASSUME Base, pc \in Handling
    PROVE  /\ packet.blockNumber \in BlockNumbers
           /\ packet.blockNumber \in DOMAIN indexTable.items
           /\ packet.packetTotal \in Nat \ {0}
           /\ packet.packetNumber \in 0 .. packet.packetTotal - 1
           /\ packet.payload \in Seq(Nat) /\ Len(packet.payload) \in 1 .. ThrotData
           /\ ~ IsLastPacket(packet) => Len(packet.payload) = ThrotData
           /\ packet.checksum \in Checksums(packet.blockNumber)
           /\ packet.checksum \in [crc : Seq(Nat)]
<1>1. packet \in AllPackets /\ readPacket(packet) /\ packet.blockTotal = indexTable.nbItems
  BY DEF Base, Phases
<1>2. /\ packet.blockTotal \in Nat \ {0} /\ packet.blockNumber \in 0 .. packet.blockTotal - 1
      /\ packet.packetTotal \in Nat \ {0}
      /\ packet.packetNumber \in 0 .. packet.packetTotal - 1
      /\ packet.payload \in Seq(Nat) /\ Len(packet.payload) \in 0 .. ThrotData
      /\ ~ IsLastPacket(packet) => Len(packet.payload) = ThrotData
      /\ packet.checksum \in Checksums(packet.blockNumber)
  BY <1>1, PacketFacts
<1>3. Len(packet.payload) # 0
  BY <1>1 DEF readPacket
<1>4. /\ indexTable.nbItems \in 0 .. MAX_BLOCK_NUMBER
      /\ DOMAIN indexTable.items = 0 .. indexTable.nbItems - 1
  BY DEF Base, TypeOK, IsIndexTable
<1>5. packet.blockNumber \in BlockNumbers /\ packet.blockNumber \in DOMAIN indexTable.items
  BY <1>1, <1>2, <1>4, MaximaAssumption DEF BlockNumbers
<1>6. packet.checksum \in [crc : Seq(Nat)]
  <2>1. PICK file \in Publications : /\ packet.blockNumber < Len(file)
                                     /\ packet.checksum = crc32c(file[packet.blockNumber + 1])
    BY <1>2 DEF Checksums
  <2>2. file \in Seq(Seq(Nat))
    BY PublicationsAssumption
  <2>3. file[packet.blockNumber + 1] \in Seq(Nat)
    BY <1>2, <2>1, <2>2, ElementOfSeq, LenProperties
  <2> QED  BY <2>1, <2>3 DEF crc32c
<1>7. Len(packet.payload) \in 1 .. ThrotData
  BY <1>2, <1>3, ThrotDataAssumption
<1> QED  BY <1>2, <1>5, <1>6, <1>7

\* What is left to prove of a step of the loop that neither verifies nor completes
\* a block.
LEMMA LoopBase ==
    ASSUME Base, pc \in Handling \cup {"receive"},
           pc' \in (Handling \ {"write"}) \cup {"receive", "undefined"},
           TypeOK', Phases', BlockKnown', FilesKnown', MapAtHand', Completed' = Completed,
           \A b \in Completed : indexTable'.items[b] = indexTable.items[b],
           UNCHANGED <<nbBlockRead, indexFile>>
    PROVE  Base'
<1> USE DEF Base
<1>1. ~ IsWhole(indexFile')
  BY DEF Phases, Handling, Idle
<1>2. Verified' /\ IndexByNumber'
  BY <1>1 DEF Verified, IndexByNumber, Handling
<1>3. CountMatchesIndex'
  BY DEF CountMatchesIndex, Handling
<1>4. CountedBlocksVerified'
  BY DEF CountedBlocksVerified, Handling
<1> QED  BY <1>2, <1>3, <1>4

\* Reading a packet gives the index table its size and completes no block.
LEMMA TableOfPacket ==
    ASSUME Base, NEW p \in PacketsOf(onAir), ReceivePacket(p)
    PROVE  /\ indexTable'.nbItems = p.blockTotal /\ IsIndexTable(indexTable')
           /\ indexTable'.items \in [DOMAIN indexTable'.items -> Sizes]
           /\ Completed' = Completed
           /\ \A b \in Completed : indexTable'.items[b] = indexTable.items[b]
<1> USE DEF Base
<1>1. /\ FitsIndexTable(p)
      /\ indexTable' = IF indexTable.nbItems = 0
                       THEN allocateIndexTable(p.blockTotal) ELSE indexTable
  BY DEF ReceivePacket, Accepts
<1>2. p.blockTotal \in Nat \ {0}
  <2>1. p \in AllPackets
    BY DEF AllPackets, TypeOK
  <2> QED  BY <2>1, PacketFacts
<1>3. DOMAIN indexTable.items = 0 .. indexTable.nbItems - 1
  BY DEF TypeOK, IsIndexTable
<1>4. CASE indexTable.nbItems = 0
  <2>1. indexTable' = allocateIndexTable(p.blockTotal) /\ p.blockTotal <= MAX_BLOCK_NUMBER
    BY <1>1, <1>4 DEF FitsIndexTable
  <2>2. /\ indexTable'.nbItems = p.blockTotal
        /\ DOMAIN indexTable'.items = 0 .. p.blockTotal - 1
        /\ \A b \in 0 .. p.blockTotal - 1 : indexTable'.items[b] = InvalidItem
        /\ indexTable' = [nbItems |-> indexTable'.nbItems, items |-> indexTable'.items]
        /\ indexTable'.items \in [0 .. p.blockTotal - 1 -> {InvalidItem}]
    BY <2>1 DEF allocateIndexTable
  <2>3. InvalidItem \in Sizes /\ InvalidItem.number = INVALID_BLOCK_NUMBER
        /\ INVALID_BLOCK_NUMBER \in Nat
    BY MaximaAssumption DEF InvalidItem, Sizes, INVALID_BLOCK_NUMBER
  <2>4. Completed = {}
    BY <1>3, <1>4 DEF Completed
  <2>5. Completed' = {}
    BY <2>2, <2>3 DEF Completed
  <2>6. IsIndexTable(indexTable')
    BY <1>2, <2>1, <2>2, <2>3, MaximaAssumption DEF IsIndexTable
  <2> QED  BY <2>2, <2>3, <2>4, <2>5, <2>6
<1>5. CASE indexTable.nbItems # 0
  BY <1>1, <1>5 DEF FitsIndexTable, TypeOK, Completed
<1> QED  BY <1>4, <1>5

LEMMA ReceivePacketBase ==
    ASSUME Base, NEW p \in PacketsOf(onAir), ReceivePacket(p)
    PROVE  Base'
<1> USE DEF Base
<1>1. /\ pc = "receive" /\ packet' = p /\ readPacket(p)
      /\ pc' = IF OfCurrentBlock(p) THEN "accept" ELSE "save"
      /\ UNCHANGED <<onAir, sessions, dataBlock, blockPacketMap, nbBlockRead,
                     maxPacketSize, cursor, stream, blockFile, mapFile, indexFile, output>>
  BY DEF ReceivePacket, Accepts, environment, disk
<1>2. p \in AllPackets
  BY DEF AllPackets, TypeOK
<1>3. /\ indexTable'.nbItems = p.blockTotal /\ IsIndexTable(indexTable')
      /\ indexTable'.items \in [DOMAIN indexTable'.items -> Sizes]
      /\ Completed' = Completed
      /\ \A b \in Completed : indexTable'.items[b] = indexTable.items[b]
  BY TableOfPacket
<1>4. TypeOK'
  <2>1. packet' \in {NoPacket} \cup UNION {PacketsOf(file) : file \in Publications}
    BY <1>1, <1>2 DEF AllPackets
  <2>2. pc' \in {"accept", "save"}
    BY <1>1
  <2> QED  BY <1>1, <1>3, <2>1, <2>2 DEF TypeOK
<1>5. Phases'
  BY <1>1, <1>2, <1>3 DEF Phases, Idle, Holding, Handling, Loaded, OfCurrentBlock
<1>6. BlockKnown' /\ FilesKnown' /\ MapAtHand'
  BY <1>1 DEF BlockKnown, FilesKnown, MapAtHand, Loaded
<1>7. pc' \in Handling \ {"write"}
  BY <1>1 DEF Handling
<1> HIDE DEF Base
<1> QED  BY <1>1, <1>3, <1>4, <1>5, <1>6, <1>7, LoopBase

\* The block of a whole file is a block.
LEMMA BlockOnDisk ==
    ASSUME Base, NEW b \in BlockNumbers, IsWhole(blockFile[b])
    PROVE  /\ blockFile[b].data \in Block /\ blockFile[b].data.blockNumber = b
           /\ blockFile[b].data.checksum \in Checksums(b)
           /\ blockFile[b].data.payload # <<>>
<1>1. blockFile[b] \in FileOf(Block)
  BY DEF Base, TypeOK
<1>2. blockFile[b].data \in Block
  BY <1>1 DEF FileOf, IsWhole
<1> QED  BY <1>2 DEF Base, FilesKnown

\* So it is after a block file is written.
LEMMA WrittenFileKnown ==
    ASSUME Base, SaveBlock \/ WriteBlock
    PROVE  /\ FilesKnown' /\ DOMAIN blockFile' = BlockNumbers
           /\ \A b \in BlockNumbers : blockFile'[b] \in FileOf(Block)
<1> DEFINE n == dataBlock.blockNumber
           image == BlockImage(dataBlock)
<1>1. /\ n \in BlockNumbers /\ DOMAIN blockFile' = BlockNumbers
      /\ \A b \in BlockNumbers : b # n => blockFile'[b] = blockFile[b]
      /\ \/ blockFile'[n] \in {blockFile[n], Torn}
         \/ /\ dataBlock.payloadSize \in 1 .. Len(dataBlock.payload)
            /\ blockFile'[n] = Whole(image)
  BY BlockFileWritten
<1>2. dataBlock \in Block /\ Loaded
  BY DEF Base, TypeOK, Phases, Holding, SaveBlock, WriteBlock
<1>3. \A b \in BlockNumbers : blockFile[b] \in FileOf(Block)
  BY DEF Base, TypeOK
<1>4. CASE blockFile'[n] \in {blockFile[n], Torn}
  <2>1. \A b \in BlockNumbers : blockFile'[b] \in {blockFile[b], Torn}
    <3> HIDE DEF n
    <3> QED  BY <1>1, <1>4
  <2>2. ~ IsWhole(Torn) /\ Torn \in FileOf(Block)
    BY DEF IsWhole, Torn, FileOf
  <2>3. \A b \in BlockNumbers : IsWhole(blockFile'[b]) => blockFile'[b] = blockFile[b]
    BY <2>1, <2>2
  <2>4. FilesKnown'
    BY <2>3 DEF Base, FilesKnown
  <2> QED  BY <1>1, <1>3, <2>1, <2>2, <2>4
<1>5. CASE /\ dataBlock.payloadSize \in 1 .. Len(dataBlock.payload)
           /\ blockFile'[n] = Whole(image)
  <2>1. /\ image \in Block /\ image.blockNumber = n /\ image.checksum = dataBlock.checksum
        /\ image.payloadSize = Len(image.payload) /\ Len(image.payload) # 0
    BY <1>2, <1>5, ImageOfBlock
  <2>2. image.checksum \in Checksums(n)
    BY <1>2, <2>1 DEF Base, BlockKnown
  <2>3. image.payload # <<>>
    BY <2>1, EmptySeq
  <2>4. blockFile'[n].data = image /\ blockFile'[n] \in FileOf(Block)
    BY <1>5, <2>1 DEF Whole, FileOf
  <2> HIDE DEF image, n
  <2>5. FilesKnown'
    BY <1>1, <2>1, <2>2, <2>3, <2>4 DEF Base, FilesKnown
  <2>6. \A b \in BlockNumbers : blockFile'[b] \in FileOf(Block)
    BY <1>1, <1>3, <2>4
  <2> QED  BY <1>1, <2>5, <2>6
<1> QED  BY <1>1, <1>4, <1>5

LEMMA SaveBlockBase == ASSUME Base, SaveBlock PROVE Base'
<1>1. /\ pc = "save" /\ pc' \in {"savemap", "restore", "undefined"}
      /\ UNCHANGED <<onAir, sessions, packet, indexTable, nbBlockRead, maxPacketSize,
                     cursor, stream, mapFile, indexFile, output>>
      /\ pc' = "restore" => ReleaseBlock
      /\ pc' # "restore" => UNCHANGED <<dataBlock, blockPacketMap>>
  BY DEF SaveBlock, environment
<1> USE DEF Base
<1>2. /\ pc' = "restore" => dataBlock' = NoBlock /\ blockPacketMap' = ClosedMap
      /\ Loaded /\ blockPacketMap # ClosedMap
  BY <1>1, CloseGivesClosed DEF ReleaseBlock, TypeOK, Phases, Holding, MapAtHand
<1>3. Completed' = Completed
  BY <1>1 DEF Completed
<1>4. TypeOK'
  <2>1. dataBlock' \in Block /\ IsMap(blockPacketMap')
    BY <1>1, <1>2, NothingLoaded, ClosedIsMap DEF TypeOK
  <2> QED  BY <1>1, <2>1, WrittenFileKnown DEF TypeOK
<1>5. Phases'
  BY <1>1, <1>2, NothingLoaded DEF Phases, Idle, Holding, Handling, Loaded
<1>6. BlockKnown' /\ MapAtHand'
  BY <1>1, <1>2, NothingLoaded DEF BlockKnown, MapAtHand, Loaded
<1>7. pc \in Handling /\ pc' \in (Handling \ {"write"}) \cup {"undefined"}
  BY <1>1 DEF Handling
<1> HIDE DEF Base
<1> QED  BY <1>1, <1>3, <1>4, <1>5, <1>6, <1>7, WrittenFileKnown, LoopBase

\* A map file is what was there, torn, or the map in memory.
LEMMA MapFileWritten ==
    ASSUME Base, SaveMap
    PROVE  LET n == dataBlock.blockNumber
           IN  /\ n \in BlockNumbers /\ DOMAIN mapFile' = BlockNumbers
               /\ \A b \in BlockNumbers : b # n => mapFile'[b] = mapFile[b]
               /\ mapFile'[n] \in {Whole(blockPacketMap), mapFile[n], Torn}
               /\ IsMap(blockPacketMap) /\ IsOpen(blockPacketMap)
<1> DEFINE n == dataBlock.blockNumber
<1>1. PICK file \in WriteOutcomes(mapFile[n], blockPacketMap) :
         mapFile' = [mapFile EXCEPT ![n] = file]
  BY DEF SaveMap
<1>2. file \in {Whole(blockPacketMap), mapFile[n], Torn}
  BY WriteLeaves
<1>3. n \in BlockNumbers /\ DOMAIN mapFile = BlockNumbers /\ IsMap(blockPacketMap)
  BY DEF Base, TypeOK, Block
<1>4. blockPacketMap # ClosedMap
  BY DEF Base, Phases, Holding, MapAtHand, SaveMap
<1>5. IsOpen(blockPacketMap)
  BY <1>3, <1>4, OpenMap DEF IsOpen
<1> HIDE DEF n
<1> QED  BY <1>1, <1>2, <1>3, <1>5 DEF n

LEMMA SaveMapBase == ASSUME Base, SaveMap PROVE Base'
<1> DEFINE n == dataBlock.blockNumber
<1>1. /\ pc = "savemap" /\ pc' = "restore" /\ ReleaseBlock
      /\ UNCHANGED <<onAir, sessions, packet, indexTable, nbBlockRead, maxPacketSize,
                     cursor, stream, blockFile, indexFile, output>>
  BY DEF SaveMap, environment
<1> USE DEF Base
<1>2. dataBlock' = NoBlock /\ blockPacketMap' = ClosedMap /\ Completed' = Completed
  BY <1>1, CloseGivesClosed DEF ReleaseBlock, Completed, TypeOK
<1>3. TypeOK'
  <2>1. ASSUME NEW b \in BlockNumbers
        PROVE  \/ mapFile'[b] \in {Absent, Torn}
               \/ /\ mapFile'[b] = Whole(mapFile'[b].data)
                  /\ IsMap(mapFile'[b].data) /\ IsOpen(mapFile'[b].data)
    <3>1. CASE mapFile'[b] \in {mapFile[b], Torn}
      BY <3>1 DEF TypeOK
    <3>2. CASE mapFile'[b] = Whole(blockPacketMap)
      <4>1. mapFile'[b].data = blockPacketMap
        BY <3>2 DEF Whole
      <4>2. IsMap(blockPacketMap) /\ IsOpen(blockPacketMap)
        BY MapFileWritten
      <4> QED  BY <3>2, <4>1, <4>2
    <3>3. mapFile'[b] \in {Whole(blockPacketMap), mapFile[b], Torn}
      BY MapFileWritten
    <3> QED  BY <3>1, <3>2, <3>3
  <2>2. DOMAIN mapFile' = BlockNumbers
    BY MapFileWritten
  <2> QED  BY <1>1, <1>2, <2>1, <2>2, NothingLoaded, ClosedIsMap DEF TypeOK
<1>4. Phases' /\ BlockKnown' /\ FilesKnown' /\ MapAtHand'
  BY <1>1, <1>2, NothingLoaded
     DEF Phases, Idle, Holding, Handling, Loaded, BlockKnown, FilesKnown, MapAtHand
<1>5. pc \in Handling /\ pc' \in Handling \ {"write"}
  BY <1>1 DEF Handling
<1> HIDE DEF Base
<1> QED  BY <1>1, <1>2, <1>3, <1>4, <1>5, LoopBase

\* The words readMapFile may leave of a map it could not read are a map.
LEMMA UnreadAreMaps ==
    ASSUME Base, NEW b \in BlockNumbers, NEW map \in UnrestoredMaps(b)
    PROVE  IsMap(map)
<1>1. CASE map = ClosedMap \/ map = blockPacketMap
  BY <1>1, ClosedIsMap DEF Base, TypeOK
<1>2. CASE map \in UnreadMaps(b)
  <2>1. PICK file \in Publications :
            /\ b < Len(file)
            /\ \E words \in [0 .. NbItems(NbThrotChunks(file[b + 1])) - 1 -> Word] :
                   map = [packetTotal |-> NbThrotChunks(file[b + 1]),
                          nbItems |-> NbItems(NbThrotChunks(file[b + 1])), items |-> words]
    BY <1>2 DEF UnreadMaps
  <2>2. file[b + 1] \in Seq(Nat)
    <3>1. file \in Seq(Seq(Nat)) /\ b \in Nat
      BY PublicationsAssumption, MaximaAssumption DEF BlockNumbers
    <3> QED  BY <2>1, <3>1, ElementOfSeq, LenProperties
  <2> DEFINE total == NbThrotChunks(file[b + 1])
  <2>3. total \in Nat \ {0}
    BY <2>2, ChunkTotal
  <2>4. PICK words \in [0 .. NbItems(total) - 1 -> Word] :
            map = [packetTotal |-> total, nbItems |-> NbItems(total), items |-> words]
    BY <2>1
  <2> HIDE DEF total
  <2> QED  BY <2>3, <2>4 DEF IsMap
<1> QED  BY <1>1, <1>2 DEF UnrestoredMaps

\* A map file is removed or could not be.
LEMMA MapMayStay ==
    ASSUME Base, NEW b \in BlockNumbers, RemoveMapFile(b)
    PROVE  /\ DOMAIN mapFile' = BlockNumbers
           /\ \A n \in BlockNumbers : mapFile'[n] \in {mapFile[n], Absent}
           /\ \A n \in BlockNumbers :
                 \/ mapFile'[n] \in {Absent, Torn}
                 \/ /\ mapFile'[n] = Whole(mapFile'[n].data)
                    /\ IsMap(mapFile'[n].data) /\ IsOpen(mapFile'[n].data)
<1>1. DOMAIN mapFile = BlockNumbers
  BY DEF Base, TypeOK
<1>2. DOMAIN mapFile' = BlockNumbers /\ \A n \in BlockNumbers : mapFile'[n] \in {mapFile[n], Absent}
  BY <1>1 DEF RemoveMapFile
<1>3. \A n \in BlockNumbers :
          \/ mapFile[n] \in {Absent, Torn}
          \/ /\ mapFile[n] = Whole(mapFile[n].data)
             /\ IsMap(mapFile[n].data) /\ IsOpen(mapFile[n].data)
  BY DEF Base, TypeOK
<1> QED  BY <1>2, <1>3

\* A block is taken up again from a block file and a map file.
LEMMA RestoredBlock ==
    ASSUME Base, NEW b \in BlockNumbers, Restorable(b)
    PROVE  /\ blockFile[b].data \in Block /\ blockFile[b].data.blockNumber = b
           /\ blockFile[b].data.checksum \in Checksums(b)
           /\ blockFile[b].data.payload # <<>>
           /\ IsMap(mapFile[b].data) /\ mapFile[b].data # ClosedMap
<1>1. IsMap(mapFile[b].data) /\ IsOpen(mapFile[b].data)
  BY DEF Restorable, Base, TypeOK, IsWhole, Absent, Torn
<1>2. mapFile[b].data # ClosedMap
  BY <1>1 DEF IsOpen, ClosedMap
<1> QED  BY <1>1, <1>2, BlockOnDisk DEF Restorable

LEMMA RestoreNextBase == ASSUME Base, RestoreNext PROVE Base'
<1> DEFINE b == packet.blockNumber
<1>1. /\ pc = "restore" /\ RemoveMapFile(b) /\ pc' \in {"accept", "undefined"}
      /\ \/ /\ Restorable(b) /\ pc' = "accept"
            /\ dataBlock' = blockFile[b].data /\ blockPacketMap' = mapFile[b].data
         \/ pc' = "undefined" /\ UNCHANGED <<dataBlock, blockPacketMap>>
         \/ UNCHANGED dataBlock /\ blockPacketMap' \in UnrestoredMaps(b)
      /\ UNCHANGED <<onAir, sessions, packet, indexTable, nbBlockRead, maxPacketSize,
                     cursor, stream, blockFile, indexFile, output>>
  BY DEF RestoreNext, RestoreBlock, environment
<1>2. b \in BlockNumbers /\ ~ Loaded
  BY <1>1, PacketInHand DEF Handling, Base, Phases, Holding
<1>3. /\ dataBlock' \in Block /\ IsMap(blockPacketMap')
      /\ Loaded' => /\ pc' = "accept" /\ blockPacketMap' # ClosedMap
                    /\ dataBlock'.checksum \in Checksums(dataBlock'.blockNumber)
  <2>1. CASE /\ Restorable(b) /\ pc' = "accept"
             /\ dataBlock' = blockFile[b].data /\ blockPacketMap' = mapFile[b].data
    BY <1>2, <2>1, RestoredBlock
  <2>2. CASE UNCHANGED dataBlock /\ IsMap(blockPacketMap')
    BY <1>2, <2>2 DEF Loaded, Base, TypeOK
  <2>3. IsMap(blockPacketMap)
    BY DEF Base, TypeOK
  <2> QED  BY <1>1, <1>2, <2>1, <2>2, <2>3, UnreadAreMaps
<1> USE DEF Base
<1>4. Completed' = Completed
  BY <1>1 DEF Completed
<1>5. TypeOK'
  <2> HIDE DEF b
  <2>1. /\ DOMAIN mapFile' = BlockNumbers
        /\ \A n \in BlockNumbers :
              \/ mapFile'[n] \in {Absent, Torn}
              \/ /\ mapFile'[n] = Whole(mapFile'[n].data)
                 /\ IsMap(mapFile'[n].data) /\ IsOpen(mapFile'[n].data)
    BY <1>1, <1>2, MapMayStay
  <2> QED  BY <1>1, <1>3, <2>1 DEF TypeOK
<1>6. Phases' /\ BlockKnown' /\ FilesKnown' /\ MapAtHand'
  BY <1>1, <1>2, <1>3 DEF Phases, Idle, Holding, Handling, BlockKnown, FilesKnown, MapAtHand
<1>7. pc \in Handling /\ pc' \in (Handling \ {"write"}) \cup {"undefined"}
  BY <1>1 DEF Handling
<1> HIDE DEF Base
<1> QED  BY <1>1, <1>4, <1>5, <1>6, <1>7, LoopBase

\* Steps of a packet that ends here, the block in memory staying as it is, but for
\* its size, or going.
LEMMA DoneBase ==
    ASSUME Base, pc \in Handling, FreePacket,
           \/ /\ UNCHANGED blockPacketMap /\ dataBlock' \in Block
              /\ dataBlock'.payload = dataBlock.payload
              /\ dataBlock'.blockNumber = dataBlock.blockNumber
              /\ dataBlock'.checksum = dataBlock.checksum
              /\ Loaded => blockPacketMap # ClosedMap
           \/ dataBlock' = NoBlock /\ blockPacketMap' = ClosedMap,
           UNCHANGED <<environment, indexTable, nbBlockRead, maxPacketSize, cursor,
                       stream, disk>>
    PROVE  Base'
<1> USE DEF Base, FreePacket, environment, disk
<1>1. Completed' = Completed
  BY DEF Completed
<1>2. TypeOK'
  BY NothingLoaded, ClosedIsMap DEF TypeOK
<1>3. Phases'
  BY NothingLoaded DEF Phases, Idle, Holding, Handling, Loaded
<1>4. BlockKnown' /\ FilesKnown' /\ MapAtHand'
  BY NothingLoaded DEF BlockKnown, FilesKnown, MapAtHand, Loaded
<1> HIDE DEF Base
<1> QED  BY <1>1, <1>2, <1>3, <1>4, LoopBase

LEMMA IgnorePacketBase == ASSUME Base, IgnorePacket PROVE Base'
<1>1. pc = "accept" /\ UNCHANGED <<dataBlock, blockPacketMap>>
  BY DEF IgnorePacket
<1>2. (Loaded => blockPacketMap # ClosedMap) /\ dataBlock' \in Block
  BY <1>1 DEF Base, MapAtHand, TypeOK
<1> QED  BY <1>1, <1>2, DoneBase DEF IgnorePacket, Handling

LEMMA DropCorruptBlockBase == ASSUME Base, DropCorruptBlock PROVE Base'
<1>1. closeMap(blockPacketMap) = ClosedMap
  BY CloseGivesClosed DEF Base, TypeOK
<1> QED  BY <1>1, DoneBase DEF DropCorruptBlock, ReleaseBlock, Handling

\* What a new block is: the whole calloc, and no packet yet.
LEMMA NewBlockFacts ==
    ASSUME Base, pc \in Handling, ~ IsLastPacket(packet)
    PROVE  LET map == initMap(packet.packetTotal)
               block == NewBlock(packet)
           IN  /\ IsMap(map) /\ map.packetTotal = packet.packetTotal /\ map # ClosedMap
               /\ block \in Block /\ block.payload # <<>>
               /\ block.blockNumber = packet.blockNumber
               /\ block.checksum = packet.checksum
               /\ block.payloadSize = packet.packetTotal * ThrotData
               /\ block.payloadSize \in 1 .. Len(block.payload)
<1> DEFINE T == packet.packetTotal
           size == T * Len(packet.payload)
           map == initMap(T)
<1>1. /\ packet.blockNumber \in BlockNumbers /\ T \in Nat \ {0}
      /\ Len(packet.payload) = ThrotData
      /\ packet.checksum \in [crc : Seq(Nat)]
  BY PacketInHand
<1>2. IsMap(map) /\ map.packetTotal = T /\ map # ClosedMap
  BY <1>1, InitMapEmpty DEF ClosedMap
<1>3. size \in Nat \ {0} /\ size = T * ThrotData
  BY <1>1, ThrotDataAssumption
<1> HIDE DEF size, T, map
<1> DEFINE zeros == [i \in 1 .. size |-> 0]
<1>4. zeros \in Seq(Nat) /\ Len(zeros) = size
  BY <1>3
<1>5. NewBlock(packet) = [blockNumber |-> packet.blockNumber, checksum |-> packet.checksum,
                          payloadSize |-> size, payload |-> zeros]
  BY DEF NewBlock, size, T
<1>6. zeros # <<>>
  BY <1>3, <1>4, EmptySeq
<1> HIDE DEF zeros
<1>7. NewBlock(packet) \in Block
  BY <1>1, <1>3, <1>4, <1>5 DEF Block
<1> QED  BY <1>1, <1>2, <1>3, <1>4, <1>5, <1>6, <1>7 DEF map, T

LEMMA BeginBlockBase == ASSUME Base, BeginBlock PROVE Base'
<1> DEFINE b == packet.blockNumber
<1>1. /\ pc = "accept" /\ RemoveMapFile(b) /\ ~ AlreadyCompleted /\ ~ Loaded
      /\ ~ IsLastPacket(packet)
      /\ pc' \in {"store", "receive", "undefined"}
      /\ maxPacketSize' = IF pc' = "store" THEN Len(packet.payload) ELSE maxPacketSize
      /\ packet' = IF pc' = "receive" THEN NoPacket ELSE packet
      /\ \/ /\ Restorable(b) /\ pc' = "store"
            /\ dataBlock' = blockFile[b].data /\ blockPacketMap' = mapFile[b].data
         \/ /\ dataBlock' = NewBlock(packet) /\ pc' = "store"
            /\ blockPacketMap' \in {initMap(packet.packetTotal), ClosedMap}
         \/ /\ pc' = "undefined" /\ UNCHANGED <<dataBlock, blockPacketMap>>
         \/ /\ pc' = "receive" /\ UNCHANGED dataBlock
            /\ blockPacketMap' \in UnrestoredMaps(b)
      /\ UNCHANGED <<onAir, sessions, indexTable, nbBlockRead, cursor, stream,
                     blockFile, indexFile, output>>
  BY DEF BeginBlock, RestoreBlock, StartBlock, NewMaps, environment
<1>2. /\ pc \in Handling /\ b \in BlockNumbers /\ Len(packet.payload) = ThrotData
      /\ packet.checksum \in Checksums(b)
  BY <1>1, PacketInHand DEF Handling
<1>3. /\ dataBlock' \in Block /\ IsMap(blockPacketMap')
      /\ Loaded' <=> pc' = "store"
      /\ Loaded' => /\ dataBlock'.blockNumber = b /\ dataBlock'.checksum \in Checksums(b)
                    /\ blockPacketMap' = ClosedMap =>
                           dataBlock'.payloadSize = packet.packetTotal * ThrotData
  <2>1. CASE /\ Restorable(b) /\ pc' = "store"
             /\ dataBlock' = blockFile[b].data /\ blockPacketMap' = mapFile[b].data
    BY <1>2, <2>1, RestoredBlock DEF Loaded
  <2>2. CASE /\ dataBlock' = NewBlock(packet) /\ pc' = "store"
             /\ blockPacketMap' \in {initMap(packet.packetTotal), ClosedMap}
    BY <1>1, <1>2, <2>2, NewBlockFacts, ClosedIsMap DEF Loaded
  <2>3. CASE UNCHANGED dataBlock /\ IsMap(blockPacketMap') /\ pc' # "store"
    BY <1>1, <2>3 DEF Loaded, Base, TypeOK
  <2>4. IsMap(blockPacketMap)
    BY DEF Base, TypeOK
  <2> QED  BY <1>1, <1>2, <2>1, <2>2, <2>3, <2>4, UnreadAreMaps
<1>4. /\ DOMAIN mapFile' = BlockNumbers
      /\ \A n \in BlockNumbers :
            \/ mapFile'[n] \in {Absent, Torn}
            \/ /\ mapFile'[n] = Whole(mapFile'[n].data)
               /\ IsMap(mapFile'[n].data) /\ IsOpen(mapFile'[n].data)
  BY <1>1, <1>2, MapMayStay
<1> HIDE DEF b
<1> USE DEF Base
<1>5. Completed' = Completed /\ b \notin Completed
  BY <1>1 DEF Completed, AlreadyCompleted, b
<1>6. TypeOK'
  <2>1. maxPacketSize' \in 0 .. ThrotData
    BY <1>1, <1>2, ThrotDataAssumption DEF TypeOK
  <2>2. packet' \in {packet, NoPacket}
    BY <1>1
  <2> QED  BY <1>1, <1>3, <1>4, <2>1, <2>2 DEF TypeOK
<1>7. Phases'
  BY <1>1, <1>3, <1>5 DEF Phases, Idle, Holding, Handling, b
<1>8. BlockKnown' /\ FilesKnown'
  BY <1>1, <1>3 DEF BlockKnown, FilesKnown
<1>9. MapAtHand'
  BY <1>1, <1>2, <1>3 DEF MapAtHand, IsLastPacket
<1>10. pc' \in (Handling \ {"write"}) \cup {"receive", "undefined"}
  BY <1>1 DEF Handling
<1> HIDE DEF Base
<1> QED  BY <1>1, <1>2, <1>5, <1>6, <1>7, <1>8, <1>9, <1>10, LoopBase

LEMMA ContinueBlockBase == ASSUME Base, ContinueBlock PROVE Base'
<1>1. /\ pc = "accept" /\ pc' = "store" /\ Loaded /\ Consistent /\ ~ AlreadyCompleted
      /\ UNCHANGED <<environment, memory, disk>>
  BY DEF ContinueBlock
<1> USE DEF Base, environment, memory, disk
<1>2. TypeOK' /\ Completed' = Completed
  BY <1>1 DEF TypeOK, Completed
<1>3. Phases'
  BY <1>1, <1>2 DEF Phases, Idle, Holding, Handling, Loaded, Consistent, AlreadyCompleted
<1>4. BlockKnown' /\ FilesKnown' /\ MapAtHand'
  BY <1>1 DEF BlockKnown, FilesKnown, MapAtHand, Loaded
<1>5. pc \in Handling /\ pc' \in Handling \ {"write"}
  BY <1>1 DEF Handling
<1> HIDE DEF Base
<1> QED  BY <1>1, <1>2, <1>3, <1>4, <1>5, LoopBase

LEMMA CheckPastPayloadBase == ASSUME Base, CheckPastPayload PROVE Base'
<1>1. pc = "check" /\ pc' = "undefined" /\ UNCHANGED <<environment, memory, disk>>
  BY DEF CheckPastPayload
<1> USE DEF Base, environment, memory, disk
<1>2. TypeOK' /\ Completed' = Completed
  BY <1>1 DEF TypeOK, Completed
<1>3. Phases' /\ BlockKnown' /\ FilesKnown' /\ MapAtHand'
  BY <1>1 DEF Phases, Idle, Holding, Handling, Loaded, BlockKnown, FilesKnown, MapAtHand
<1>4. pc \in Handling
  BY <1>1 DEF Handling
<1> HIDE DEF Base
<1> QED  BY <1>1, <1>2, <1>3, <1>4, LoopBase

\* The only step to the write of a completed block.
LEMMA KeepBlockBase == ASSUME Base, KeepBlock PROVE Base'
<1>1. /\ pc = "check" /\ pc' = "write" /\ ~ OutgrowsPayload /\ ChecksumMatches
      /\ UNCHANGED <<environment, memory, disk>>
  BY DEF KeepBlock
<1>2. TypeOK' /\ Completed' = Completed /\ Loaded' = Loaded
  BY <1>1 DEF Base, TypeOK, Completed, Loaded, environment, memory, disk
<1> USE DEF Base, environment, memory, disk
<1>3. Phases'
  BY <1>1, <1>2 DEF Phases, Idle, Holding, Handling
<1>4. BlockKnown' /\ FilesKnown' /\ MapAtHand'
  BY <1>1, <1>2 DEF BlockKnown, FilesKnown, MapAtHand
<1>5. Verified'
  BY <1>1 DEF Verified, ChecksumMatches, OutgrowsPayload
<1>6. IndexByNumber' /\ CountMatchesIndex'
  BY <1>1, <1>2 DEF IndexByNumber, CountMatchesIndex
<1>7. CountedBlocksVerified'
  <2>1. /\ dataBlock.blockNumber = packet.blockNumber
        /\ BlockImage(dataBlock).payload \in PublishedBlocks(packet.blockNumber)
    BY <1>1, WrittenBlock
  <2> QED  BY <1>1, <1>2, <2>1 DEF CountedBlocksVerified
<1> QED  BY <1>2, <1>3, <1>4, <1>5, <1>6, <1>7

\* A copy changes no length.
LEMMA CopyKeepsBuffer ==
    ASSUME NEW buffer \in Seq(Nat), NEW offset \in Nat, NEW bytes \in Seq(Nat)
    PROVE  /\ memcpy(buffer, offset, bytes) \in Seq(Nat)
           /\ Len(memcpy(buffer, offset, bytes)) = Len(buffer)
<1> DEFINE byte(i) == IF offset < i /\ i <= offset + Len(bytes)
                      THEN bytes[i - offset] ELSE buffer[i]
<1>1. Len(buffer) \in Nat /\ Len(bytes) \in Nat
  BY LenProperties
<1>2. \A i \in 1 .. Len(buffer) : byte(i) \in Nat
  BY <1>1, ElementOfSeq
<1>3. memcpy(buffer, offset, bytes) = [i \in 1 .. Len(buffer) |-> byte(i)]
  BY DEF memcpy
<1> HIDE DEF byte
<1>4. [i \in 1 .. Len(buffer) |-> byte(i)] \in Seq(Nat)
  BY <1>1, <1>2, IsASeq
<1>5. Len([i \in 1 .. Len(buffer) |-> byte(i)]) = Len(buffer)
  BY <1>1, <1>2
<1> QED  BY <1>3, <1>4, <1>5

\* The size the last packet leaves, whatever it was, is a size_t.
LEMMA AdjustedIsSize ==
    ASSUME Base, pc = "store",
           ~ (IsLastPacket(packet) /\ Len(packet.payload) > maxPacketSize)
    PROVE  AdjustedSize \in Nat
<1> DEFINE missing == IF IsLastPacket(packet) THEN maxPacketSize - Len(packet.payload) ELSE 0
<1>1. dataBlock.payloadSize \in Nat /\ maxPacketSize \in 0 .. ThrotData
  BY DEF Base, TypeOK, Block
<1>2. Len(packet.payload) \in 1 .. ThrotData
  BY PacketInHand DEF Handling
<1>3. missing \in 0 .. ThrotData
  BY <1>1, <1>2, ThrotDataAssumption
<1>4. AdjustedSize = IF missing <= dataBlock.payloadSize
                     THEN dataBlock.payloadSize - missing
                     ELSE dataBlock.payloadSize + SIZE_MAX + 1 - missing
  BY DEF AdjustedSize
<1> HIDE DEF missing
<1> QED  BY <1>1, <1>3, <1>4, SizesFit, ThrotDataAssumption

\* A block without a map has room for the packet that began it.
LEMMA PassingFits ==
    ASSUME Base, pc = "store", blockPacketMap = ClosedMap
    PROVE  /\ ~ IsLastPacket(packet)
           /\ maxPacketSize * packet.packetNumber + Len(packet.payload) <= AdjustedSize
<1> DEFINE T == packet.packetTotal
           j == packet.packetNumber
<1>1. /\ T \in Nat \ {0} /\ j \in 0 .. T - 1
      /\ ~ IsLastPacket(packet) => Len(packet.payload) = ThrotData
  BY PacketInHand DEF Handling
<1>2. /\ ~ IsLastPacket(packet) /\ dataBlock.payloadSize = T * ThrotData
      /\ maxPacketSize = ThrotData
  BY DEF Base, Phases, Holding, MapAtHand
<1>3. T * ThrotData \in Nat
  BY <1>1, ThrotDataAssumption
<1>4. AdjustedSize = T * ThrotData
  BY <1>2, <1>3 DEF AdjustedSize
<1> HIDE DEF T, j
<1>5. ThrotData * j + ThrotData = (j + 1) * ThrotData
  BY <1>1, ThrotDataAssumption
<1>6. (j + 1) * ThrotData <= T * ThrotData
  BY <1>1, ThrotDataAssumption
<1> QED  BY <1>1, <1>2, <1>4, <1>5, <1>6 DEF j

LEMMA StorePacketBase == ASSUME Base, StorePacket PROVE Base'
<1> DEFINE j == packet.packetNumber
           offset == maxPacketSize * j
           end == offset + Len(packet.payload)
           tooLong == IsLastPacket(packet) /\ Len(packet.payload) > maxPacketSize
           fits == end <= AdjustedSize
           map == setMap(blockPacketMap, j)
<1>1. /\ pc = "store"
      /\ UNCHANGED <<environment, indexTable, nbBlockRead, maxPacketSize, cursor,
                     stream, disk>>
  BY DEF StorePacket
<1>2. /\ j \in Nat /\ packet.payload \in Seq(Nat) /\ Len(packet.payload) \in 1 .. ThrotData
  BY <1>1, PacketInHand DEF Handling
<1>3. /\ Loaded /\ maxPacketSize \in 0 .. ThrotData
      /\ dataBlock \in Block /\ IsMap(blockPacketMap)
      /\ dataBlock.blockNumber = packet.blockNumber
      /\ packet.blockNumber \notin Completed
      /\ dataBlock.checksum \in Checksums(dataBlock.blockNumber)
  BY <1>1 DEF Base, Phases, Holding, BlockKnown, TypeOK
<1>4. /\ ~ tooLong => AdjustedSize \in Nat
      /\ blockPacketMap = ClosedMap => ~ tooLong /\ fits
  BY <1>1, AdjustedIsSize, PassingFits
<1>5. CASE tooLong /\ FreePacket /\ UNCHANGED <<dataBlock, blockPacketMap>>
  BY <1>1, <1>3, <1>4, <1>5, DoneBase DEF Handling
<1>6. CASE /\ ~ tooLong /\ ~ fits /\ FreePacket /\ UNCHANGED blockPacketMap
           /\ dataBlock' = [dataBlock EXCEPT !.payloadSize = AdjustedSize]
  <2>1. /\ dataBlock' \in Block /\ dataBlock'.payload = dataBlock.payload
        /\ dataBlock'.blockNumber = dataBlock.blockNumber
        /\ dataBlock'.checksum = dataBlock.checksum
    BY <1>3, <1>4, <1>6 DEF Block
  <2>2. blockPacketMap # ClosedMap
    BY <1>4, <1>6
  <2> QED  BY <1>1, <1>6, <2>1, <2>2, DoneBase DEF Handling
<1>7. CASE pc' = "undefined" /\ UNCHANGED <<packet, dataBlock, blockPacketMap>>
  <2> USE DEF Base, environment, disk
  <2>1. TypeOK' /\ Completed' = Completed
    BY <1>1, <1>7 DEF TypeOK, Completed
  <2>2. Phases' /\ BlockKnown' /\ FilesKnown' /\ MapAtHand'
    BY <1>1, <1>7 DEF Phases, Idle, Holding, Handling, Loaded, BlockKnown, FilesKnown, MapAtHand
  <2>3. pc \in Handling
    BY <1>1 DEF Handling
  <2> HIDE DEF Base
  <2> QED  BY <1>1, <1>7, <2>1, <2>2, <2>3, LoopBase
<1>8. CASE /\ ~ tooLong /\ blockPacketMap' = map
           /\ dataBlock' = [dataBlock EXCEPT
                 !.payloadSize = AdjustedSize,
                 !.payload = memcpy(@, offset, packet.payload)]
           /\ (FreePacket /\ IsOpen(map)) \/ (pc' = "check" /\ UNCHANGED packet)
  <2> DEFINE payload == memcpy(dataBlock.payload, offset, packet.payload)
  <2>1. offset \in Nat
    BY <1>2, <1>3, ThrotDataAssumption
  <2>2. payload \in Seq(Nat) /\ Len(payload) = Len(dataBlock.payload)
    BY <1>2, <1>3, <2>1, CopyKeepsBuffer DEF Block
  <2>3. payload # <<>>
    <3>1. dataBlock.payload # <<>> /\ dataBlock.payload \in Seq(Nat)
      BY <1>3 DEF Loaded, Block
    <3>2. Len(dataBlock.payload) # 0
      BY <3>1, EmptySeq
    <3> HIDE DEF payload
    <3> QED  BY <2>2, <3>2, EmptySeq
  <2>4. IsMap(map)
    BY <1>2, <1>3, SetMapAdds
  <2>5. /\ dataBlock'.blockNumber = dataBlock.blockNumber
        /\ dataBlock'.checksum = dataBlock.checksum
        /\ dataBlock'.payload = payload /\ dataBlock' \in Block
    <3> HIDE DEF payload
    <3>1. dataBlock' = [dataBlock EXCEPT !.payloadSize = AdjustedSize, !.payload = payload]
      BY <1>8 DEF payload
    <3>2. AdjustedSize \in Nat
      BY <1>4, <1>8
    <3> QED  BY <1>3, <2>2, <3>1, <3>2 DEF Block
  <2>6. Loaded'
    BY <2>3, <2>5 DEF Loaded
  <2>7. /\ pc' \in {"receive", "check"} /\ packet' \in {packet, NoPacket}
        /\ pc' = "check" => packet' = packet
        /\ blockPacketMap' = ClosedMap => pc' = "check"
    <3> HIDE DEF map
    <3> QED  BY <1>8 DEF FreePacket, IsOpen, ClosedMap
  <2> HIDE DEF payload, map, fits, offset, j, tooLong, end
  <2> USE DEF Base, environment, disk
  <2>8. IsMap(blockPacketMap') /\ Completed' = Completed
    BY <1>1, <1>8, <2>4 DEF Completed
  <2>9. TypeOK'
    BY <1>1, <2>5, <2>7, <2>8 DEF TypeOK
  <2>10. Phases'
    BY <1>1, <1>3, <2>5, <2>6, <2>7, <2>8 DEF Phases, Idle, Holding, Handling
  <2>11. BlockKnown' /\ FilesKnown' /\ MapAtHand'
    BY <1>1, <1>3, <2>5, <2>7 DEF BlockKnown, FilesKnown, MapAtHand
  <2>12. pc \in Handling /\ pc' \in (Handling \ {"write"}) \cup {"receive"}
    BY <1>1, <2>7 DEF Handling
  <2> HIDE DEF Base
  <2> QED  BY <1>1, <2>8, <2>9, <2>10, <2>11, <2>12, LoopBase
<1>9. \/ tooLong /\ FreePacket /\ UNCHANGED <<dataBlock, blockPacketMap>>
      \/ /\ ~ tooLong /\ ~ fits /\ FreePacket /\ UNCHANGED blockPacketMap
         /\ dataBlock' = [dataBlock EXCEPT !.payloadSize = AdjustedSize]
      \/ pc' = "undefined" /\ UNCHANGED <<packet, dataBlock, blockPacketMap>>
      \/ /\ ~ tooLong /\ blockPacketMap' = map
         /\ dataBlock' = [dataBlock EXCEPT
               !.payloadSize = AdjustedSize,
               !.payload = memcpy(@, offset, packet.payload)]
         /\ (FreePacket /\ IsOpen(map)) \/ (pc' = "check" /\ UNCHANGED packet)
  BY DEF StorePacket, isMapFull
<1> QED  BY <1>5, <1>6, <1>7, <1>8, <1>9

\* A completed block is a new one, marked under its own number and counted.
LEMMA BlockCounted ==
    ASSUME Base, WriteBlock
    PROVE  LET n == packet.blockNumber
           IN  /\ n \in BlockNumbers /\ n \notin Completed /\ Completed' = Completed \cup {n}
               /\ indexTable'.nbItems = indexTable.nbItems /\ IsIndexTable(indexTable')
               /\ indexTable'.items \in [DOMAIN indexTable'.items -> Sizes]
               /\ indexTable'.items[n] = [number |-> n, offset |-> dataBlock.payloadSize]
               /\ \A b \in Completed : indexTable'.items[b] = indexTable.items[b]
<1> USE DEF Base
<1> DEFINE n == packet.blockNumber
           item == [number |-> n, offset |-> dataBlock.payloadSize]
<1>1. pc = "write"
  BY DEF WriteBlock
<1>2. dataBlock.blockNumber = n /\ n \notin Completed /\ dataBlock \in Block
  BY <1>1 DEF Phases, TypeOK
<1>3. n \in BlockNumbers /\ n \in DOMAIN indexTable.items
  BY <1>1, PacketInHand DEF Handling
<1>4. indexTable' = [indexTable EXCEPT !.items[n] = item]
  BY <1>2 DEF WriteBlock
<1>5. item \in Sizes /\ item.number = n /\ n # INVALID_BLOCK_NUMBER
  BY <1>2, <1>3, MaximaAssumption DEF Sizes, Block, BlockNumbers, INVALID_BLOCK_NUMBER
<1>6. /\ indexTable.nbItems \in 0 .. MAX_BLOCK_NUMBER
      /\ DOMAIN indexTable.items = 0 .. indexTable.nbItems - 1
      /\ indexTable = [nbItems |-> indexTable.nbItems, items |-> indexTable.items]
      /\ indexTable.items \in [DOMAIN indexTable.items -> Sizes]
  BY DEF TypeOK, IsIndexTable
<1> HIDE DEF n, item
<1>7. /\ indexTable'.nbItems = indexTable.nbItems
      /\ indexTable'.items = [indexTable.items EXCEPT ![n] = item]
      /\ indexTable' = [nbItems |-> indexTable'.nbItems, items |-> indexTable'.items]
  BY <1>4, <1>6
<1>8. /\ DOMAIN indexTable'.items = DOMAIN indexTable.items
      /\ indexTable'.items \in [DOMAIN indexTable'.items -> Sizes]
      /\ indexTable'.items[n] = item
      /\ \A i \in DOMAIN indexTable.items : i # n => indexTable'.items[i] = indexTable.items[i]
  BY <1>3, <1>5, <1>6, <1>7
<1>9. IsIndexTable(indexTable')
  BY <1>6, <1>7, <1>8 DEF IsIndexTable, Sizes
<1>10. Completed' = Completed \cup {n}
  BY <1>3, <1>5, <1>8 DEF Completed
<1>11. \A b \in Completed : indexTable'.items[b] = indexTable.items[b]
  BY <1>2, <1>8 DEF Completed
<1> QED  BY <1>2, <1>3, <1>7, <1>8, <1>9, <1>10, <1>11 DEF n, item

LEMMA WriteBlockBase == ASSUME Base, WriteBlock PROVE Base'
<1> USE DEF Base
<1> DEFINE n == packet.blockNumber
<1>1. /\ pc = "write"
      /\ pc' = IF nbBlockRead + 1 = indexTable.nbItems THEN "index" ELSE "receive"
      /\ packet' = NoPacket /\ nbBlockRead' = nbBlockRead + 1 /\ ReleaseBlock
      /\ UNCHANGED <<onAir, sessions, maxPacketSize, cursor, stream, mapFile, indexFile, output>>
  BY DEF WriteBlock, environment
<1>2. dataBlock' = NoBlock /\ blockPacketMap' = ClosedMap
  BY <1>1, CloseGivesClosed DEF ReleaseBlock, TypeOK
<1>3. /\ n \notin Completed /\ Completed' = Completed \cup {n}
      /\ indexTable'.nbItems = indexTable.nbItems /\ IsIndexTable(indexTable')
      /\ indexTable'.items \in [DOMAIN indexTable'.items -> Sizes]
      /\ indexTable'.items[n] = [number |-> n, offset |-> dataBlock.payloadSize]
      /\ \A b \in Completed : indexTable'.items[b] = indexTable.items[b]
  BY BlockCounted
<1>4. nbBlockRead' = Cardinality(Completed')
  <2>1. IsFiniteSet(Completed)
    BY CompletedIsFinite
  <2>2. Cardinality(Completed \cup {n}) = Cardinality(Completed) + 1
    BY <1>3, <2>1, FS_AddElement
  <2>3. nbBlockRead = Cardinality(Completed)
    BY <1>1 DEF CountMatchesIndex
  <2> QED  BY <1>1, <1>3, <2>2, <2>3
<1>5. indexTable.nbItems \in Nat /\ indexTable.nbItems <= MAX_BLOCK_NUMBER
  BY MaximaAssumption DEF TypeOK, IsIndexTable
<1>6. /\ nbBlockRead' \in 0 .. indexTable.nbItems
      /\ nbBlockRead' = indexTable.nbItems => Completed' = 0 .. indexTable.nbItems - 1
  <2> DEFINE all == 0 .. indexTable.nbItems - 1
  <2>1. IsFiniteSet(all) /\ Cardinality(all) = indexTable.nbItems
    <3>1. IsFiniteSet(all) /\ Cardinality(all) = IF 0 > indexTable.nbItems - 1 THEN 0
                                                 ELSE indexTable.nbItems - 1 - 0 + 1
      BY <1>5, FS_Interval
    <3> QED  BY <1>5, <3>1
  <2>2. Completed' \subseteq all
    BY <1>3 DEF Completed, IsIndexTable
  <2>3. /\ Cardinality(Completed') <= Cardinality(all) /\ IsFiniteSet(Completed')
        /\ (Cardinality(all) = Cardinality(Completed') => all = Completed')
    BY <2>1, <2>2, FS_Subset
  <2>4. Cardinality(Completed') \in Nat
    BY <2>3, FS_CardinalityType
  <2> QED  BY <1>4, <1>5, <2>1, <2>3, <2>4
<1>7. TypeOK'
  <2>1. nbBlockRead' \in 0 .. MAX_BLOCK_NUMBER
    BY <1>5, <1>6, MaximaAssumption
  <2>2. \A b \in BlockNumbers : blockFile'[b] \in FileOf(Block)
    BY WrittenFileKnown
  <2>3. DOMAIN blockFile' = BlockNumbers
    BY WrittenFileKnown
  <2> QED
    BY <1>1, <1>2, <1>3, <2>1, <2>2, <2>3, NothingLoaded, ClosedIsMap DEF TypeOK
<1>8. Phases' /\ ~ Loaded'
  BY <1>1, <1>2, NothingLoaded DEF Phases, Idle, Holding, Handling, Loaded
<1>9. BlockKnown' /\ MapAtHand' /\ Verified'
  BY <1>1, <1>8 DEF BlockKnown, MapAtHand, Verified
<1>10. IndexByNumber'
  BY <1>1 DEF IndexByNumber, Phases, Idle
<1>11. CountMatchesIndex'
  BY <1>1, <1>3, <1>4, <1>6 DEF CountMatchesIndex
<1>12. CountedBlocksVerified'
  <2>1. \E block \in PublishedBlocks(n) : dataBlock.payloadSize = Len(block)
    BY <1>1, WrittenBlock DEF Verified
  <2>2. ASSUME NEW b \in Completed'
        PROVE  /\ indexTable'.items[b].number = b
               /\ \E block \in PublishedBlocks(b) : indexTable'.items[b].offset = Len(block)
    <3>1. CASE b = n
      <4> HIDE DEF n
      <4> QED  BY <1>3, <2>1, <3>1
    <3>2. CASE b \in Completed
      BY <1>3, <3>2 DEF CountedBlocksVerified
    <3> QED  BY <1>3, <3>1, <3>2
  <2> QED  BY <1>1, <2>2 DEF CountedBlocksVerified, PublishedBlocks
<1> HIDE DEF Base
<1>13. FilesKnown'
  BY WrittenFileKnown
<1> USE DEF Base
<1> QED  BY <1>7, <1>8, <1>9, <1>10, <1>11, <1>12, <1>13

LEMMA NextKeepsBase == ASSUME Base, [Next]_vars PROVE Base'
<1>1. CASE Start
  BY <1>1, StartBase
<1>2. CASE Republish
  BY <1>2, RepublishBase
<1>3. CASE Crash
  BY <1>3, CrashBase
<1>4. CASE Reset
  BY <1>4, ResetNothingBase, ResetRemoveBlockBase, ResetRemoveIndexBase DEF Reset
<1>5. ASSUME NEW p \in PacketsOf(onAir), ReceivePacket(p) PROVE Base'
  BY <1>5, ReceivePacketBase
<1>6. CASE Handle
  BY <1>6, SaveBlockBase, SaveMapBase, RestoreNextBase, IgnorePacketBase, BeginBlockBase,
     ContinueBlockBase, StorePacketBase, CheckPastPayloadBase, DropCorruptBlockBase,
     KeepBlockBase, WriteBlockBase
     DEF Handle
<1>7. CASE Finish
  BY <1>7, CreateIndexBase, GenerateDataFileBase, ExitBase DEF Finish
<1>8. CASE UNCHANGED vars
  BY <1>8, StutterBase
<1> QED  BY <1>1, <1>2, <1>3, <1>4, <1>5, <1>6, <1>7, <1>8 DEF Next

-----------------------------------------------------------------------------
\* The invariant always holds.
LEMMA BaseHolds == Spec => []Base
  BY InitBase, NextKeepsBase, PTL DEF Spec

(***************************************************************************)
(* Whatever writes and removals the disk refuses, every variable of the    *)
(* receiver and every file keeps its type: the counter of completed blocks *)
(* stays within its 16 bits, a map file holds the map of a block that was  *)
(* begun, and the payload size is always a size_t, though not one without  *)
(* a wrap, for which see CopyInBuffer.                                     *)
(***************************************************************************)
THEOREM ReceiverTypeCorrect == Spec => []TypeOK
<1>1. Base => TypeOK
  BY DEF Base
<1> QED  BY <1>1, BaseHolds, PTL

(***************************************************************************)
(* The counter that ends the reception counts every completed block once,  *)
(* and the index is only made of a complete table (receivefile.c:349-363), *)
(* on a disk that may refuse anything: a completed block that a map file   *)
(* it could not remove brings back is not counted again.                   *)
(***************************************************************************)
THEOREM CountIsExact == Spec => []CountMatchesIndex
<1>1. Base => CountMatchesIndex
  BY DEF Base
<1> QED  BY <1>1, BaseHolds, PTL

(***************************************************************************)
(* Nothing but a published block is ever written as a completed one and    *)
(* counted, under its own number and with its own size, whatever maps are  *)
(* stale and whatever the disk refuses (receivefile.c:326-341).            *)
(***************************************************************************)
THEOREM CountedAreVerified == Spec => []CountedBlocksVerified
<1>1. Base => CountedBlocksVerified
  BY DEF Base
<1> QED  BY <1>1, BaseHolds, PTL

-----------------------------------------------------------------------------
(***************************************************************************)
(* A disk that removes what it is asked to.  Then no map outlives what it  *)
(* says, and the packets of a block, its map and its size stay together.   *)
(* Without that the map of a block in memory or completed is still on disk *)
(* (receivefile.c:67-73), the block can be taken up again with a map that  *)
(* lacks its last packet, and each last packet after that shortens it.     *)
(***************************************************************************)
\* A block and its map, in memory or on disk: the payload size is within the
\* payload, and is that of the calloc until the last packet is there.
Coherent(block, map) ==
    /\ block.payloadSize \in 1 .. Len(block.payload)
    /\ map # ClosedMap /\ map.packetTotal - 1 \notin Held(map) =>
          block.payloadSize = map.packetTotal * ThrotData

BlockInMemory ==
    /\ Loaded => /\ Coherent(dataBlock, blockPacketMap)
                 /\ maxPacketSize = ThrotData
                 /\ dataBlock.blockNumber \notin Completed
    /\ pc = "restore" => maxPacketSize = ThrotData

BlocksOnDisk ==
    \A b \in BlockNumbers :
        IsWhole(mapFile[b]) => Coherent(blockFile[b].data, mapFile[b].data)

\* The two writes of a switch, and the last packet that is about to be stored.
HalfSaved ==
    pc = "savemap" => blockFile[dataBlock.blockNumber] = Whole(BlockImage(dataBlock))

LastPacketNew ==
    pc = "store" /\ IsLastPacket(packet) =>
        /\ blockPacketMap.packetTotal = packet.packetTotal
        /\ packet.packetNumber \notin Held(blockPacketMap)

\* No block of the index file waits on disk to be taken up again.
IndexWithoutMaps ==
    IsWhole(indexFile) =>
        \A i \in DOMAIN indexFile.data.items : ~ IsWhole(mapFile[i])

Inv ==
    /\ Base /\ ~ RemovesMayFail
    /\ BlockInMemory /\ BlocksOnDisk /\ HalfSaved /\ LastPacketNew
    /\ IndexWithoutMaps /\ MapHasStoredBlock

-----------------------------------------------------------------------------
\* A block is saved as coherent as it is.
LEMMA ImageCoherent ==
    ASSUME NEW block \in Block, NEW map, Coherent(block, map)
    PROVE  Coherent(BlockImage(block), map)
<1>1. block.payloadSize \in 1 .. Len(block.payload)
  BY DEF Coherent
<1>2. /\ BlockImage(block).payloadSize = block.payloadSize
      /\ Len(BlockImage(block).payload) = block.payloadSize
  BY <1>1, ImageOfBlock
<1> QED  BY <1>1, <1>2 DEF Coherent

\* A block that is to be used has a payload.
LEMMA CoherentLoaded ==
    ASSUME NEW block \in Block, NEW map, Coherent(block, map)
    PROVE  block.payload # <<>>
  BY EmptySeq DEF Coherent, Block

LEMMA InitInv == ASSUME ~ RemovesMayFail PROVE Init => Inv
<1> SUFFICES ASSUME Init PROVE Inv
  OBVIOUS
<1>1. Base
  BY InitBase
<1>2. ~ Loaded /\ pc = "off"
  BY DEF Init, InitMemory, Loaded, NoBlock
<1>3. ~ IsWhole(indexFile) /\ \A b \in BlockNumbers : ~ IsWhole(mapFile[b])
  BY DEF Init, IsWhole, Absent
<1> QED
  BY <1>1, <1>2, <1>3
     DEF Inv, BlockInMemory, BlocksOnDisk, HalfSaved, LastPacketNew, IndexWithoutMaps,
         MapHasStoredBlock

\* A step that changes neither memory nor disk, nor the phase.
LEMMA SamePhaseStep ==
    ASSUME Inv, Base', UNCHANGED <<pc, memory, disk>>
    PROVE  Inv'
<1> USE DEF Inv, memory, disk
<1>1. BlockInMemory' /\ BlocksOnDisk' /\ MapHasStoredBlock'
  BY DEF BlockInMemory, BlocksOnDisk, MapHasStoredBlock, Loaded, Completed
<1>2. HalfSaved' /\ LastPacketNew' /\ IndexWithoutMaps'
  BY DEF HalfSaved, LastPacketNew, IndexWithoutMaps
<1> QED  BY <1>1, <1>2

LEMMA RepublishStep == ASSUME Inv, Base', Republish PROVE Inv'
  BY SamePhaseStep DEF Republish

LEMMA StutterStep == ASSUME Inv, Base', UNCHANGED vars PROVE Inv'
  BY SamePhaseStep DEF vars

\* A kill may tear the file of the block in memory, for which there is no map.
LEMMA CrashStep == ASSUME Inv, Base', Crash PROVE Inv'
<1> USE DEF Inv
<1>1. ~ Loaded' /\ indexTable' = NoIndex /\ pc' = "off"
  BY DEF Loaded, NoBlock, Crash, ClearMemory
<1>2. Completed' = {}
  BY <1>1, NoIndexType DEF Completed
<1>3. ~ IsWhole(Torn)
  BY DEF IsWhole, Torn
<1>4. \A b \in BlockNumbers :
          IsWhole(mapFile'[b]) => mapFile'[b] = mapFile[b] /\ blockFile'[b] = blockFile[b]
  BY <1>3, CrashTears DEF MapHasStoredBlock
<1>5. BlocksOnDisk' /\ MapHasStoredBlock'
  BY <1>1, <1>2, <1>4 DEF BlocksOnDisk, MapHasStoredBlock
<1>6. IndexWithoutMaps'
  <2> SUFFICES ASSUME IsWhole(indexFile')
               PROVE  \A i \in DOMAIN indexFile'.data.items : ~ IsWhole(mapFile'[i])
    BY DEF IndexWithoutMaps
  <2>1. indexFile' = indexFile
    BY <1>3, CrashTears
  <2>2. pc # "savemap"
    BY <2>1 DEF Base, Phases, Idle
  <2>3. mapFile' = mapFile
    BY <2>2 DEF Crash
  <2> QED  BY <2>1, <2>3 DEF IndexWithoutMaps
<1> QED
  BY <1>1, <1>5, <1>6 DEF BlockInMemory, HalfSaved, LastPacketNew

\* What is left to prove of a step between idle phases.
LEMMA IdleStep ==
    ASSUME Inv, Base', pc \in Idle, pc' \in Idle \cup {"receive", "undefined"},
           UNCHANGED <<indexTable, dataBlock, mapFile>>,
           \A b \in BlockNumbers : IsWhole(mapFile[b]) => blockFile'[b] = blockFile[b],
           IsWhole(indexFile') => indexFile' = indexFile
    PROVE  Inv'
<1> USE DEF Inv
<1>1. ~ Loaded /\ ~ Loaded' /\ indexTable' = NoIndex
  BY DEF Base, Phases, Loaded, Idle, Holding
<1>2. Completed' = {}
  BY <1>1, NoIndexType DEF Completed
<1>3. BlocksOnDisk' /\ MapHasStoredBlock'
  BY <1>1, <1>2 DEF BlocksOnDisk, MapHasStoredBlock
<1>4. IndexWithoutMaps'
  BY DEF IndexWithoutMaps
<1>5. HalfSaved' /\ LastPacketNew' /\ BlockInMemory'
  BY <1>1 DEF HalfSaved, LastPacketNew, BlockInMemory, Idle
<1> QED  BY <1>3, <1>4, <1>5

LEMMA StartStep == ASSUME Inv, Base', Start PROVE Inv'
  BY IdleStep DEF Start, memory, disk, Idle

LEMMA ResetNothingStep == ASSUME Inv, Base', ResetNothing PROVE Inv'
  BY IdleStep DEF ResetNothing, AfterReset, Idle, memory, disk

LEMMA ResetRemoveBlockStep == ASSUME Inv, Base', ResetRemoveBlock PROVE Inv'
<1>1. IsWhole(indexFile) /\ Base /\ IndexWithoutMaps
  BY DEF Inv, ResetRemoveBlock
<1>2. ~ IsWhole(mapFile[cursor])
  BY <1>1, ResetRemoves DEF IndexWithoutMaps
<1>3. \A n \in BlockNumbers : IsWhole(mapFile[n]) => blockFile'[n] = blockFile[n]
  BY <1>1, <1>2, ResetRemoves
<1>4. /\ pc' \in {pc, "off", "exit"} /\ pc \in {"reset", "erase"}
      /\ UNCHANGED <<indexTable, dataBlock, mapFile, indexFile>>
  BY DEF ResetRemoveBlock, FailReset
<1> QED  BY <1>3, <1>4, IdleStep DEF Idle

LEMMA ResetRemoveIndexStep == ASSUME Inv, Base', ResetRemoveIndex PROVE Inv'
  BY IdleStep DEF ResetRemoveIndex, FailReset, AfterReset, Idle, IsWhole, Absent

\* All blocks are completed when the index is made.
LEMMA CreateIndexStep == ASSUME Inv, Base', CreateIndex PROVE Inv'
<1> USE DEF Inv
<1> DEFINE table == [indexTable EXCEPT !.items = Offsets(@)]
<1>1. /\ pc = "index" /\ pc' = "generate" /\ indexTable' = NoIndex
      /\ UNCHANGED <<dataBlock, blockPacketMap, maxPacketSize, blockFile, mapFile>>
  BY DEF CreateIndex
<1>2. ~ Loaded /\ ~ Loaded'
  BY <1>1 DEF Base, Phases, Holding, Loaded
<1>3. Completed' = {}
  BY <1>1, NoIndexType DEF Completed
<1>4. IndexWithoutMaps'
  <2> SUFFICES ASSUME IsWhole(indexFile'), NEW i \in DOMAIN indexFile'.data.items
               PROVE  ~ IsWhole(mapFile[i])
    BY <1>1 DEF IndexWithoutMaps
  <2>1. i \in Completed
    BY IndexTableWritten
  <2>2. i \in BlockNumbers
    <3>1. i \in 0 .. indexTable.nbItems - 1 /\ indexTable.nbItems \in 0 .. MAX_BLOCK_NUMBER
      BY <2>1 DEF Base, TypeOK, IsIndexTable, Completed
    <3> QED  BY <3>1, MaximaAssumption DEF BlockNumbers
  <2> QED  BY <2>1, <2>2 DEF MapHasStoredBlock
<1>5. BlocksOnDisk' /\ MapHasStoredBlock'
  BY <1>1, <1>2, <1>3 DEF BlocksOnDisk, MapHasStoredBlock
<1> QED
  BY <1>1, <1>2, <1>4, <1>5 DEF BlockInMemory, HalfSaved, LastPacketNew

LEMMA GenerateDataFileStep == ASSUME Inv, Base', GenerateDataFile PROVE Inv'
<1>1. pc = "generate" /\ pc' \in {"erase", "undefined"}
      /\ UNCHANGED <<indexTable, dataBlock, blockFile, mapFile, indexFile>>
  BY DEF GenerateDataFile
<1> QED  BY <1>1, IdleStep DEF Idle

LEMMA ExitStep == ASSUME Inv, Base', Exit PROVE Inv'
<1> USE DEF Inv
<1>1. /\ pc = "exit" /\ pc' = "off" /\ ClearMemory
      /\ UNCHANGED <<blockFile, mapFile, indexFile>>
  BY DEF Exit
<1>2. ~ Loaded' /\ indexTable' = NoIndex
  BY <1>1 DEF Loaded, NoBlock, ClearMemory
<1>3. Completed' = {}
  BY <1>2, NoIndexType DEF Completed
<1>4. BlocksOnDisk' /\ MapHasStoredBlock' /\ IndexWithoutMaps'
  BY <1>1, <1>2, <1>3 DEF BlocksOnDisk, MapHasStoredBlock, IndexWithoutMaps
<1> QED
  BY <1>1, <1>2, <1>4 DEF BlockInMemory, HalfSaved, LastPacketNew

-----------------------------------------------------------------------------
(***************************************************************************)
(* The packet loop, when maps can be removed.                              *)
(***************************************************************************)
\* What is left to prove of a step of the loop.
LEMMA LoopStep ==
    ASSUME Inv, Base', pc \in Handling \cup {"receive"}, UNCHANGED indexFile,
           BlockInMemory', BlocksOnDisk', HalfSaved', LastPacketNew', MapHasStoredBlock'
    PROVE  Inv'
<1>1. ~ IsWhole(indexFile')
  BY DEF Inv, Base, Phases, Handling, Idle
<1> QED  BY <1>1 DEF Inv, IndexWithoutMaps

LEMMA ReceivePacketStep ==
    ASSUME Inv, Base', NEW p \in PacketsOf(onAir), ReceivePacket(p)
    PROVE  Inv'
<1> USE DEF Inv
<1>1. /\ pc = "receive" /\ pc' \in {"accept", "save"}
      /\ pc' = "save" => Loaded
      /\ UNCHANGED <<dataBlock, blockPacketMap, maxPacketSize, blockFile, mapFile, indexFile>>
  BY DEF ReceivePacket, OfCurrentBlock, disk
<1>2. Completed' = Completed
  BY TableOfPacket
<1>3. BlockInMemory' /\ BlocksOnDisk' /\ MapHasStoredBlock'
  BY <1>1, <1>2 DEF BlockInMemory, BlocksOnDisk, MapHasStoredBlock, Loaded
<1>4. HalfSaved' /\ LastPacketNew'
  BY <1>1 DEF HalfSaved, LastPacketNew
<1> HIDE DEF Inv
<1> QED  BY <1>1, <1>3, <1>4, LoopStep

\* The block that is being switched from can be saved, and its map is not on disk.
LEMMA SaveWrites ==
    ASSUME Inv, SaveBlock
    PROVE  LET n == dataBlock.blockNumber
           IN  /\ n \in BlockNumbers /\ n \notin Completed /\ ~ IsWhole(mapFile[n])
               /\ ~ OutgrowsPayload /\ BlockWritten(dataBlock) = Whole(BlockImage(dataBlock))
               /\ \A b \in BlockNumbers : b # n => blockFile'[b] = blockFile[b]
               /\ \/ /\ pc' = "savemap" /\ UNCHANGED <<dataBlock, blockPacketMap>>
                     /\ blockFile'[n] = Whole(BlockImage(dataBlock))
                  \/ /\ pc' = "restore" /\ dataBlock' = NoBlock /\ blockPacketMap' = ClosedMap
<1> DEFINE n == dataBlock.blockNumber
<1>1. /\ pc = "save" /\ Loaded /\ n \in BlockNumbers /\ n \notin Completed
      /\ dataBlock \in Block /\ Coherent(dataBlock, blockPacketMap)
      /\ IsMap(blockPacketMap) /\ DOMAIN blockFile = BlockNumbers
  BY DEF SaveBlock, Inv, Base, Phases, Holding, BlockInMemory, TypeOK, Block
<1>2. ~ IsWhole(mapFile[n])
  BY <1>1 DEF Inv, MapHasStoredBlock
<1>3. ~ OutgrowsPayload /\ BlockWritten(dataBlock) = Whole(BlockImage(dataBlock))
  BY <1>1 DEF OutgrowsPayload, BlockWritten, Coherent, Block
<1>4. \A b \in BlockNumbers : b # n => blockFile'[b] = blockFile[b]
  BY BlockFileWritten DEF Inv
<1>5. closeMap(blockPacketMap) = ClosedMap
  BY <1>1, CloseGivesClosed
<1> HIDE DEF n
<1>6. \/ /\ pc' = "savemap" /\ UNCHANGED <<dataBlock, blockPacketMap>>
         /\ blockFile'[n] = Whole(BlockImage(dataBlock))
      \/ /\ pc' = "restore" /\ dataBlock' = NoBlock /\ blockPacketMap' = ClosedMap
  BY <1>1, <1>3, <1>5 DEF SaveBlock, ReleaseBlock, n
<1> QED  BY <1>1, <1>2, <1>3, <1>4, <1>6 DEF n

LEMMA SaveBlockStep == ASSUME Inv, Base', SaveBlock PROVE Inv'
<1> USE DEF Inv
<1> DEFINE n == dataBlock.blockNumber
<1>1. /\ pc = "save"
      /\ UNCHANGED <<indexTable, maxPacketSize, mapFile, indexFile>>
  BY DEF SaveBlock
<1>2. /\ n \in BlockNumbers /\ n \notin Completed /\ ~ IsWhole(mapFile[n])
      /\ \A b \in BlockNumbers : b # n => blockFile'[b] = blockFile[b]
      /\ \/ /\ pc' = "savemap" /\ UNCHANGED <<dataBlock, blockPacketMap>>
            /\ blockFile'[n] = Whole(BlockImage(dataBlock))
         \/ /\ pc' = "restore" /\ dataBlock' = NoBlock /\ blockPacketMap' = ClosedMap
  BY SaveWrites
<1>3. Loaded /\ maxPacketSize = ThrotData
  BY <1>1 DEF Base, Phases, Holding, BlockInMemory
<1>4. Completed' = Completed
  BY <1>1 DEF Completed
<1>5. BlockInMemory'
  BY <1>1, <1>2, <1>3, <1>4, NothingLoaded DEF BlockInMemory, Loaded
<1>6. BlocksOnDisk' /\ MapHasStoredBlock'
  BY <1>1, <1>2, <1>3, <1>4, NothingLoaded DEF BlocksOnDisk, MapHasStoredBlock, Loaded
<1>7. HalfSaved' /\ LastPacketNew' /\ pc \in Handling
  BY <1>1, <1>2 DEF HalfSaved, LastPacketNew, Handling
<1> HIDE DEF Inv
<1> QED  BY <1>1, <1>5, <1>6, <1>7, LoopStep

LEMMA SaveMapStep == ASSUME Inv, Base', SaveMap PROVE Inv'
<1> USE DEF Inv
<1> DEFINE n == dataBlock.blockNumber
<1>1. /\ pc = "savemap" /\ pc' = "restore" /\ ReleaseBlock
      /\ UNCHANGED <<indexTable, maxPacketSize, blockFile, indexFile>>
  BY DEF SaveMap
<1>2. /\ Loaded /\ n \notin Completed /\ ~ IsWhole(mapFile[n])
      /\ dataBlock \in Block /\ IsMap(blockPacketMap)
      /\ Coherent(dataBlock, blockPacketMap) /\ maxPacketSize = ThrotData
      /\ n \in BlockNumbers /\ blockFile[n] = Whole(BlockImage(dataBlock))
  BY <1>1 DEF Base, Phases, Holding, BlockInMemory, MapHasStoredBlock, TypeOK, Block, HalfSaved
<1>3. /\ IsWhole(blockFile[n]) /\ blockFile[n].data = BlockImage(dataBlock)
      /\ blockFile[n].data.blockNumber = n
      /\ Coherent(blockFile[n].data, blockPacketMap)
  BY <1>2, ImageOfBlock, ImageCoherent DEF Coherent, IsWhole, Whole
<1>4. /\ \A b \in BlockNumbers : b # n => mapFile'[b] = mapFile[b]
      /\ mapFile'[n] \in {Whole(blockPacketMap), mapFile[n], Torn}
  BY MapFileWritten
<1> HIDE DEF n
<1>5. dataBlock' = NoBlock /\ blockPacketMap' = ClosedMap /\ Completed' = Completed
  BY <1>1, <1>2, CloseGivesClosed DEF ReleaseBlock, Completed
<1>6. BlockInMemory' /\ HalfSaved' /\ LastPacketNew' /\ pc \in Handling
  BY <1>1, <1>2, <1>5, NothingLoaded DEF BlockInMemory, Loaded, HalfSaved, LastPacketNew, Handling
<1>7. IsWhole(mapFile'[n]) => mapFile'[n].data = blockPacketMap
  BY <1>2, <1>4 DEF IsWhole, Whole, Torn
<1>8. BlocksOnDisk' /\ MapHasStoredBlock'
  BY <1>1, <1>2, <1>3, <1>4, <1>5, <1>7, NothingLoaded
     DEF BlocksOnDisk, MapHasStoredBlock, Loaded
<1> HIDE DEF Inv
<1> QED  BY <1>1, <1>6, <1>8, LoopStep

\* Where there is a map, there is a block that can be taken up again.
LEMMA StoredBlock ==
    ASSUME Inv, NEW b \in BlockNumbers, IsWhole(mapFile[b])
    PROVE  /\ Restorable(b) /\ blockFile[b] # Torn
           /\ blockFile[b].data \in Block /\ blockFile[b].data.blockNumber = b
           /\ blockFile[b].data.checksum \in Checksums(b)
           /\ IsMap(mapFile[b].data) /\ Coherent(blockFile[b].data, mapFile[b].data)
           /\ mapFile[b].data # ClosedMap /\ b \notin Completed
<1>1. /\ IsWhole(blockFile[b]) /\ b \notin Completed
      /\ Coherent(blockFile[b].data, mapFile[b].data)
  BY DEF Inv, MapHasStoredBlock, BlocksOnDisk
<1>2. Restorable(b) /\ blockFile[b] # Torn
  BY <1>1 DEF Restorable, IsWhole, Torn
<1> QED  BY <1>1, <1>2, RestoredBlock DEF Inv

\* A map file that is read is removed.
LEMMA MapRemoved ==
    ASSUME Inv, NEW b \in BlockNumbers, RemoveMapFile(b)
    PROVE  /\ DOMAIN mapFile' = BlockNumbers /\ ~ IsWhole(mapFile'[b])
           /\ \A n \in BlockNumbers : mapFile'[n] = mapFile[n] \/ mapFile'[n] = Absent
           /\ \A n \in BlockNumbers :
                  IsWhole(mapFile'[n]) => n # b /\ mapFile'[n] = mapFile[n]
<1>1. DOMAIN mapFile = BlockNumbers /\ ~ RemovesMayFail
  BY DEF Inv, Base, TypeOK
<1> QED  BY <1>1 DEF RemoveMapFile, IsWhole, Absent

\* The switch of blocks: the next one is taken up from disk or not at all.
LEMMA RestoreNextStep == ASSUME Inv, Base', RestoreNext PROVE Inv'
<1> DEFINE b == packet.blockNumber
<1>1. /\ pc = "restore" /\ RemoveMapFile(b)
      /\ UNCHANGED <<packet, indexTable, maxPacketSize, blockFile, indexFile>>
  BY DEF RestoreNext, RestoreBlock
<1>2. b \in BlockNumbers /\ ~ Loaded
  BY <1>1, PacketInHand DEF Handling, Inv, Base, Phases, Holding
<1>3. /\ ~ IsWhole(mapFile'[b])
      /\ \A n \in BlockNumbers :
             IsWhole(mapFile'[n]) => n # b /\ mapFile'[n] = mapFile[n]
  BY <1>1, <1>2, MapRemoved
<1>4. /\ pc' = "accept"
      /\ \/ /\ IsWhole(mapFile[b])
            /\ dataBlock' = blockFile[b].data /\ blockPacketMap' = mapFile[b].data
         \/ UNCHANGED dataBlock
  BY <1>2, StoredBlock DEF RestoreNext, RestoreBlock, Restorable
<1> HIDE DEF b
<1>5. Loaded' => /\ dataBlock'.blockNumber = b /\ b \notin Completed
                 /\ Coherent(dataBlock', blockPacketMap')
  BY <1>2, <1>4, StoredBlock DEF Loaded
<1> USE DEF Inv
<1>6. Completed' = Completed
  BY <1>1 DEF Completed
<1>7. BlockInMemory'
  BY <1>1, <1>4, <1>5, <1>6 DEF BlockInMemory
<1>8. BlocksOnDisk' /\ MapHasStoredBlock'
  BY <1>1, <1>3, <1>5, <1>6 DEF BlocksOnDisk, MapHasStoredBlock
<1>9. HalfSaved' /\ LastPacketNew' /\ pc \in Handling
  BY <1>1, <1>4 DEF HalfSaved, LastPacketNew, Handling
<1> HIDE DEF Inv
<1> QED  BY <1>1, <1>7, <1>8, <1>9, LoopStep

\* Steps of a packet that ends here, the block in memory staying as it is or going.
LEMMA DoneWithPacket ==
    ASSUME Inv, Base', pc \in Handling, FreePacket,
           \/ UNCHANGED <<dataBlock, blockPacketMap>>
           \/ dataBlock' = NoBlock,
           UNCHANGED <<indexTable, maxPacketSize, disk>>
    PROVE  Inv'
<1> USE DEF Inv, FreePacket, disk
<1>1. Completed' = Completed
  BY DEF Completed
<1>2. BlockInMemory' /\ BlocksOnDisk' /\ MapHasStoredBlock'
  BY <1>1, NothingLoaded DEF BlockInMemory, BlocksOnDisk, MapHasStoredBlock, Loaded
<1>3. HalfSaved' /\ LastPacketNew'
  BY DEF HalfSaved, LastPacketNew
<1> HIDE DEF Inv
<1> QED  BY <1>2, <1>3, LoopStep

LEMMA IgnorePacketStep == ASSUME Inv, Base', IgnorePacket PROVE Inv'
  BY DoneWithPacket DEF IgnorePacket, Handling

LEMMA DropCorruptBlockStep == ASSUME Inv, Base', DropCorruptBlock PROVE Inv'
  BY DoneWithPacket DEF DropCorruptBlock, ReleaseBlock, Handling

\* The size is never beyond the payload.
LEMMA NeverPastPayload == ASSUME Inv, Loaded PROVE ~ OutgrowsPayload
<1>1. dataBlock \in Block /\ dataBlock.payloadSize \in 1 .. Len(dataBlock.payload)
  BY DEF Inv, Base, TypeOK, BlockInMemory, Coherent
<1> QED  BY <1>1 DEF OutgrowsPayload, Block

LEMMA CheckPastPayloadStep == ASSUME Inv, CheckPastPayload PROVE FALSE
  BY NeverPastPayload DEF CheckPastPayload, Inv, Base, Phases, Holding

\* The block begins, or is taken up again; there may be no memory for its map.
LEMMA BlockBegins ==
    ASSUME Inv, BeginBlock, pc' = "store"
    PROVE  /\ dataBlock' \in Block /\ IsMap(blockPacketMap')
           /\ dataBlock'.blockNumber = packet.blockNumber
           /\ Coherent(dataBlock', blockPacketMap')
<1> DEFINE b == packet.blockNumber
<1>1. pc \in Handling /\ ~ IsLastPacket(packet)
  BY DEF BeginBlock, Handling
<1>2. b \in BlockNumbers
  BY <1>1, PacketInHand DEF Inv
<1>3. CASE /\ IsWhole(mapFile[b])
           /\ dataBlock' = blockFile[b].data /\ blockPacketMap' = mapFile[b].data
  BY <1>2, <1>3, StoredBlock
<1>4. CASE /\ dataBlock' = NewBlock(packet)
           /\ blockPacketMap' \in {initMap(packet.packetTotal), ClosedMap}
  <2>1. /\ IsMap(initMap(packet.packetTotal))
        /\ initMap(packet.packetTotal).packetTotal = packet.packetTotal
        /\ NewBlock(packet) \in Block /\ NewBlock(packet).blockNumber = b
        /\ NewBlock(packet).payloadSize = packet.packetTotal * ThrotData
        /\ NewBlock(packet).payloadSize \in 1 .. Len(NewBlock(packet).payload)
    BY <1>1, NewBlockFacts DEF Inv
  <2> HIDE DEF b
  <2> QED  BY <1>4, <2>1, ClosedIsMap DEF Coherent, b
<1>5. \/ /\ IsWhole(mapFile[b])
         /\ dataBlock' = blockFile[b].data /\ blockPacketMap' = mapFile[b].data
      \/ /\ dataBlock' = NewBlock(packet)
         /\ blockPacketMap' \in {initMap(packet.packetTotal), ClosedMap}
  BY <1>2, StoredBlock DEF BeginBlock, RestoreBlock, Restorable, StartBlock, NewMaps
<1> QED  BY <1>3, <1>4, <1>5

LEMMA BeginBlockStep == ASSUME Inv, Base', BeginBlock PROVE Inv'
<1> DEFINE b == packet.blockNumber
<1>1. /\ pc = "accept" /\ RemoveMapFile(b) /\ ~ AlreadyCompleted /\ ~ Loaded
      /\ ~ IsLastPacket(packet)
      /\ UNCHANGED <<indexTable, blockFile, indexFile>>
  BY DEF BeginBlock, RestoreBlock
<1>2. pc \in Handling /\ b \in BlockNumbers /\ Len(packet.payload) = ThrotData
  BY <1>1, PacketInHand DEF Handling, Inv
<1>3. /\ ~ IsWhole(mapFile'[b])
      /\ \A n \in BlockNumbers :
             IsWhole(mapFile'[n]) => n # b /\ mapFile'[n] = mapFile[n]
  BY <1>1, <1>2, MapRemoved
<1>4. \/ pc' = "store" /\ maxPacketSize' = Len(packet.payload) /\ packet' = packet
      \/ pc' = "receive" /\ dataBlock' = dataBlock
  BY <1>2, StoredBlock DEF BeginBlock, RestoreBlock, StartBlock, Restorable
<1>5. pc' = "store" => /\ dataBlock' \in Block /\ dataBlock'.blockNumber = b
                       /\ Coherent(dataBlock', blockPacketMap')
  BY BlockBegins
<1>6. Loaded' <=> pc' = "store"
  BY <1>1, <1>4, <1>5, CoherentLoaded DEF Loaded
<1> HIDE DEF b
<1> USE DEF Inv
<1>7. Completed' = Completed /\ b \notin Completed
  BY <1>1 DEF Completed, AlreadyCompleted, b
<1>8. BlockInMemory'
  BY <1>2, <1>4, <1>5, <1>6, <1>7 DEF BlockInMemory
<1>9. BlocksOnDisk' /\ MapHasStoredBlock'
  BY <1>1, <1>3, <1>5, <1>6, <1>7 DEF BlocksOnDisk, MapHasStoredBlock
<1>10. HalfSaved' /\ LastPacketNew'
  BY <1>1, <1>4 DEF HalfSaved, LastPacketNew, IsLastPacket
<1> HIDE DEF Inv
<1> QED  BY <1>1, <1>2, <1>8, <1>9, <1>10, LoopStep

LEMMA ContinueBlockStep == ASSUME Inv, Base', ContinueBlock PROVE Inv'
<1> USE DEF Inv
<1>1. /\ pc = "accept" /\ pc' = "store" /\ Loaded /\ Consistent /\ ~ AlreadyReceived
      /\ UNCHANGED <<environment, memory, disk>>
  BY DEF ContinueBlock
<1> USE DEF environment, memory, disk
<1>2. BlockInMemory' /\ BlocksOnDisk' /\ MapHasStoredBlock'
  BY <1>1 DEF BlockInMemory, BlocksOnDisk, MapHasStoredBlock, Loaded, Completed
<1>3. LastPacketNew'
  BY <1>1 DEF LastPacketNew, Consistent, AlreadyReceived, Held
<1>4. HalfSaved' /\ pc \in Handling
  BY <1>1 DEF HalfSaved, Handling
<1> HIDE DEF Inv
<1> QED  BY <1>1, <1>2, <1>3, <1>4, LoopStep

LEMMA KeepBlockStep == ASSUME Inv, Base', KeepBlock PROVE Inv'
<1> USE DEF Inv
<1>1. /\ pc = "check" /\ pc' = "write" /\ UNCHANGED <<environment, memory, disk>>
  BY DEF KeepBlock
<1> USE DEF environment, memory, disk
<1>2. BlockInMemory' /\ BlocksOnDisk' /\ MapHasStoredBlock'
  BY <1>1 DEF BlockInMemory, BlocksOnDisk, MapHasStoredBlock, Loaded, Completed
<1>3. HalfSaved' /\ LastPacketNew' /\ pc \in Handling
  BY <1>1 DEF HalfSaved, LastPacketNew, Handling
<1> HIDE DEF Inv
<1> QED  BY <1>1, <1>2, <1>3, LoopStep

(***************************************************************************)
(* The payload size the last packet leaves: at least one byte, no more     *)
(* than before, and the last packet ends exactly there.  Other packets do  *)
(* not change it.                                                          *)
(***************************************************************************)
LEMMA SizeAdjusted ==
    ASSUME Inv, pc = "store"
    PROVE  /\ AdjustedSize \in 1 .. dataBlock.payloadSize
           /\ ~ IsLastPacket(packet) => AdjustedSize = dataBlock.payloadSize
           /\ IsLastPacket(packet) =>
                 maxPacketSize * packet.packetNumber + Len(packet.payload) = AdjustedSize
<1> DEFINE T == packet.packetTotal
           length == Len(packet.payload)
<1>1. /\ T \in Nat \ {0} /\ packet.packetNumber \in 0 .. T - 1 /\ length \in 1 .. ThrotData
  BY PacketInHand DEF Handling, Inv
<1>2. Loaded /\ Coherent(dataBlock, blockPacketMap) /\ maxPacketSize = ThrotData
  BY DEF Inv, Base, Phases, Holding, BlockInMemory
<1>3. dataBlock.payloadSize \in Nat \ {0}
  BY <1>2 DEF Inv, Base, TypeOK, Block, Coherent
<1>4. CASE ~ IsLastPacket(packet)
  BY <1>3, <1>4 DEF AdjustedSize
<1>5. CASE IsLastPacket(packet)
  <2>1. /\ packet.packetNumber = T - 1 /\ blockPacketMap.packetTotal = T
        /\ dataBlock.payloadSize = T * ThrotData
    <3>1. /\ packet.packetNumber = T - 1 /\ blockPacketMap.packetTotal = T
          /\ T - 1 \notin Held(blockPacketMap)
      BY <1>5 DEF Inv, LastPacketNew, IsLastPacket
    <3>2. blockPacketMap # ClosedMap
      BY <1>1, <3>1 DEF ClosedMap
    <3> QED  BY <1>2, <3>1, <3>2 DEF Coherent
  <2> HIDE DEF T, length
  <2>2. ThrotData * (T - 1) = T * ThrotData - ThrotData /\ T * ThrotData >= ThrotData
    BY <1>1, ThrotDataAssumption
  <2>3. T * ThrotData \in Nat /\ ThrotData - length <= T * ThrotData
    BY <1>1, <2>2, ThrotDataAssumption
  <2>4. AdjustedSize = T * ThrotData - (ThrotData - length)
    BY <1>2, <1>5, <2>1, <2>3 DEF AdjustedSize, length
  <2>5. /\ AdjustedSize \in 1 .. T * ThrotData
        /\ ThrotData * (T - 1) + length = AdjustedSize
    BY <1>1, <2>2, <2>3, <2>4, ThrotDataAssumption
  <2> QED  BY <1>2, <1>5, <2>1, <2>5 DEF T, length
<1> QED  BY <1>4, <1>5

\* What fits the size fits the payload.
LEMMA FitsPayload ==
    ASSUME Inv, pc = "store"
    PROVE  LET end == maxPacketSize * packet.packetNumber + Len(packet.payload)
           IN  end \in Nat /\ (end <= AdjustedSize => end <= Len(dataBlock.payload))
<1> DEFINE end == maxPacketSize * packet.packetNumber + Len(packet.payload)
<1>1. Loaded
  BY DEF Inv, Base, Phases, Holding
<1>2. AdjustedSize \in 1 .. dataBlock.payloadSize
  BY SizeAdjusted
<1>3. dataBlock.payloadSize \in 1 .. Len(dataBlock.payload) /\ Len(dataBlock.payload) \in Nat
  BY <1>1, LenProperties DEF Inv, Base, TypeOK, Block, BlockInMemory, Coherent
<1>4. maxPacketSize \in Nat /\ packet.packetNumber \in Nat /\ Len(packet.payload) \in Nat
  BY PacketInHand, ThrotDataAssumption DEF Inv, Base, TypeOK, Handling
<1>5. end \in Nat
  BY <1>4
<1> HIDE DEF end
<1> QED  BY <1>2, <1>3, <1>5 DEF end

LEMMA StorePacketStep == ASSUME Inv, Base', StorePacket PROVE Inv'
<1> DEFINE j == packet.packetNumber
           offset == maxPacketSize * j
           end == offset + Len(packet.payload)
           fits == end <= AdjustedSize
           map == setMap(blockPacketMap, j)
<1>1. /\ pc = "store" /\ UNCHANGED <<indexTable, maxPacketSize, disk>>
  BY DEF StorePacket
<1>2. /\ j \in Nat /\ packet.payload \in Seq(Nat) /\ Len(packet.payload) \in 1 .. ThrotData
  BY <1>1, PacketInHand DEF Handling, Inv
<1>3. /\ Loaded /\ Coherent(dataBlock, blockPacketMap) /\ maxPacketSize = ThrotData
      /\ dataBlock \in Block /\ IsMap(blockPacketMap) /\ dataBlock.blockNumber \notin Completed
      /\ dataBlock.blockNumber = packet.blockNumber
  BY <1>1 DEF Inv, Base, Phases, Holding, BlockInMemory, TypeOK
<1>4. /\ AdjustedSize \in 1 .. dataBlock.payloadSize
      /\ ~ IsLastPacket(packet) => AdjustedSize = dataBlock.payloadSize
      /\ IsLastPacket(packet) => fits
  BY <1>1, <1>3, SizeAdjusted DEF Block
<1>5. offset \in Nat /\ (fits => end <= Len(dataBlock.payload))
  <2>1. offset \in Nat
    BY <1>2, <1>3, ThrotDataAssumption
  <2> HIDE DEF offset
  <2> QED  BY <1>2, <1>3, <1>4, <2>1 DEF Coherent, Block
<1>6. CASE FreePacket /\ UNCHANGED <<dataBlock, blockPacketMap>>
  BY <1>1, <1>6, DoneWithPacket DEF Handling
<1>7. CASE ~ fits /\ dataBlock' = [dataBlock EXCEPT !.payloadSize = AdjustedSize]
           /\ FreePacket /\ UNCHANGED blockPacketMap
  <2>1. dataBlock' = dataBlock
    BY <1>3, <1>4, <1>7 DEF Block
  <2> QED  BY <1>1, <1>7, <2>1, DoneWithPacket DEF Handling
<1>8. CASE /\ fits
           /\ dataBlock' = [dataBlock EXCEPT
                 !.payloadSize = AdjustedSize,
                 !.payload = memcpy(@, offset, packet.payload)]
           /\ blockPacketMap' = map
           /\ pc' \in {"receive", "check"}
  <2> DEFINE T == blockPacketMap.packetTotal
             payload == memcpy(dataBlock.payload, offset, packet.payload)
  <2>1. payload \in Seq(Nat) /\ Len(payload) = Len(dataBlock.payload)
    BY <1>2, <1>3, <1>5, CopyKeepsBuffer DEF Block
  <2>2. /\ IsMap(map) /\ map.packetTotal = T
        /\ Held(map) = IF j < T THEN Held(blockPacketMap) \cup {j} ELSE Held(blockPacketMap)
    BY <1>2, <1>3, SetMapAdds
  <2>3. T \in Nat /\ (map # ClosedMap <=> T # 0) /\ (blockPacketMap # ClosedMap <=> T # 0)
    <3>1. ClosedMap.packetTotal = 0
      BY DEF ClosedMap
    <3>2. map # ClosedMap <=> T # 0
      BY <2>2, <3>1, OpenMap
    <3>3. T \in Nat /\ (blockPacketMap # ClosedMap <=> T # 0)
      BY <1>3, <3>1, OpenMap
    <3> QED  BY <3>2, <3>3
  <2>4. /\ dataBlock'.blockNumber = dataBlock.blockNumber
        /\ dataBlock'.payloadSize = AdjustedSize /\ dataBlock'.payload = payload
    <3> HIDE DEF payload
    <3>1. dataBlock' = [dataBlock EXCEPT !.payloadSize = AdjustedSize, !.payload = payload]
      BY <1>8 DEF payload
    <3> QED  BY <1>3, <3>1 DEF Block
  <2> HIDE DEF payload
  <2>5. Coherent(dataBlock', blockPacketMap')
    <3>1. dataBlock'.payloadSize \in 1 .. Len(dataBlock'.payload)
      BY <1>3, <1>4, <2>1, <2>4 DEF Coherent, Block
    <3>2. map # ClosedMap /\ map.packetTotal - 1 \notin Held(map) =>
              dataBlock'.payloadSize = T * ThrotData
      <4> SUFFICES ASSUME T # 0, T - 1 \notin Held(map)
                   PROVE  AdjustedSize = T * ThrotData
        BY <2>2, <2>3, <2>4
      <4>1. ~ IsLastPacket(packet)
        BY <1>1, <2>2, <2>3 DEF Inv, LastPacketNew, IsLastPacket
      <4>2. T - 1 \notin Held(blockPacketMap)
        BY <2>2
      <4> QED  BY <1>3, <1>4, <2>3, <4>1, <4>2 DEF Coherent
    <3> QED  BY <1>8, <2>2, <2>3, <3>1, <3>2 DEF Coherent
  <2> HIDE DEF T, map, fits, offset, end, j
  <2> USE DEF Inv, disk
  <2>6. Completed' = Completed
    BY <1>1 DEF Completed
  <2>7. BlockInMemory'
    BY <1>1, <1>3, <1>8, <2>4, <2>5, <2>6 DEF BlockInMemory
  <2>8. BlocksOnDisk' /\ MapHasStoredBlock'
    BY <1>1, <1>3, <2>4, <2>6 DEF BlocksOnDisk, MapHasStoredBlock
  <2>9. HalfSaved' /\ LastPacketNew' /\ pc \in Handling
    BY <1>1, <1>8 DEF HalfSaved, LastPacketNew, Handling
  <2> HIDE DEF Inv
  <2> QED  BY <1>1, <2>7, <2>8, <2>9, LoopStep
<1>9. \/ FreePacket /\ UNCHANGED <<dataBlock, blockPacketMap>>
      \/ /\ ~ fits /\ dataBlock' = [dataBlock EXCEPT !.payloadSize = AdjustedSize]
         /\ FreePacket /\ UNCHANGED blockPacketMap
      \/ /\ fits
         /\ dataBlock' = [dataBlock EXCEPT
               !.payloadSize = AdjustedSize,
               !.payload = memcpy(@, offset, packet.payload)]
         /\ blockPacketMap' = map
         /\ pc' \in {"receive", "check"}
  <2>1. ~ (fits /\ end > Len(dataBlock.payload))
    <3>1. Len(dataBlock.payload) \in Nat /\ end \in Nat
      BY <1>2, <1>3, <1>5, LenProperties DEF Block
    <3> QED  BY <1>5, <3>1
  <2> QED  BY <2>1 DEF StorePacket, FreePacket
<1> QED  BY <1>6, <1>7, <1>8, <1>9

LEMMA WriteBlockStep == ASSUME Inv, Base', WriteBlock PROVE Inv'
<1> DEFINE n == packet.blockNumber
<1>1. /\ pc = "write" /\ pc' \in {"index", "receive"} /\ ReleaseBlock
      /\ UNCHANGED <<mapFile, indexFile>>
  BY DEF WriteBlock
<1>2. dataBlock' = NoBlock /\ Loaded /\ dataBlock.blockNumber = n
  BY <1>1 DEF ReleaseBlock, Inv, Base, Phases, Holding
<1>3. n \in BlockNumbers /\ ~ IsWhole(mapFile[n]) /\ Completed' = Completed \cup {n}
  BY <1>2, BlockCounted DEF Inv, MapHasStoredBlock
<1>4. \A b \in BlockNumbers : b # n => blockFile'[b] = blockFile[b]
  BY <1>2, BlockFileWritten DEF Inv
<1>5. ~ Loaded'
  BY <1>2, NothingLoaded DEF Loaded
<1> HIDE DEF n
<1>6. BlocksOnDisk' /\ MapHasStoredBlock'
  BY <1>1, <1>3, <1>4, <1>5 DEF Inv, BlocksOnDisk, MapHasStoredBlock
<1>7. BlockInMemory' /\ HalfSaved' /\ LastPacketNew' /\ pc \in Handling
  BY <1>1, <1>5 DEF BlockInMemory, HalfSaved, LastPacketNew, Handling
<1> QED  BY <1>1, <1>6, <1>7, LoopStep

\* Every step keeps the invariant.
LEMMA NextKeepsInv == ASSUME Inv, [Next]_vars PROVE Inv'
<1>0. Base'
  BY NextKeepsBase DEF Inv
<1>1. CASE Start
  BY <1>0, <1>1, StartStep
<1>2. CASE Republish
  BY <1>0, <1>2, RepublishStep
<1>3. CASE Crash
  BY <1>0, <1>3, CrashStep
<1>4. CASE Reset
  BY <1>0, <1>4, ResetNothingStep, ResetRemoveBlockStep, ResetRemoveIndexStep DEF Reset
<1>5. ASSUME NEW p \in PacketsOf(onAir), ReceivePacket(p) PROVE Inv'
  BY <1>0, <1>5, ReceivePacketStep
<1>6. CASE Handle
  BY <1>0, <1>6, SaveBlockStep, SaveMapStep, RestoreNextStep, IgnorePacketStep, BeginBlockStep,
     ContinueBlockStep, StorePacketStep, CheckPastPayloadStep, DropCorruptBlockStep,
     KeepBlockStep, WriteBlockStep
     DEF Handle
<1>7. CASE Finish
  BY <1>0, <1>7, CreateIndexStep, GenerateDataFileStep, ExitStep DEF Finish
<1>8. CASE UNCHANGED vars
  BY <1>0, <1>8, StutterStep
<1> QED  BY <1>1, <1>2, <1>3, <1>4, <1>5, <1>6, <1>7, <1>8 DEF Next

-----------------------------------------------------------------------------
\* The invariant always holds.
LEMMA InvHolds == ASSUME ~ RemovesMayFail PROVE Spec => []Inv
  BY InitInv, NextKeepsInv, PTL DEF Spec

(***************************************************************************)
(* No packet, no order of packets, no kill and no refused write makes the  *)
(* copy of a packet leave the payload (receivefile.c:303-323), as long as  *)
(* a map file can be removed.                                              *)
(***************************************************************************)
THEOREM CopyInBuffer == ASSUME ~ RemovesMayFail PROVE Spec => []CopyStaysInBuffer
<1>1. Inv => CopyStaysInBuffer
  <2> SUFFICES ASSUME Inv, Loaded PROVE CopyStaysInBuffer
    BY DEF CopyStaysInBuffer
  <2>1. dataBlock.payloadSize \in 1 .. Len(dataBlock.payload)
    BY DEF Inv, BlockInMemory, Coherent
  <2>2. Len(dataBlock.payload) \in Nat
    BY LenProperties DEF Inv, Base, TypeOK, Block
  <2>3. pc = "store" => AdjustedSize \in 1 .. dataBlock.payloadSize
    BY SizeAdjusted
  <2> QED  BY <2>1, <2>2, <2>3 DEF CopyStaysInBuffer
<1> QED  BY <1>1, InvHolds, PTL

(***************************************************************************)
(* restoreBlockFromMapFile finds a map and a readable block of that number *)
(* or neither, and never a block that is in memory or completed, also      *)
(* after kills and refused writes, as long as a map file can be removed.   *)
(***************************************************************************)
THEOREM MapsHaveBlocks == ASSUME ~ RemovesMayFail PROVE Spec => []MapHasStoredBlock
<1>1. Inv => MapHasStoredBlock
  BY DEF Inv
<1> QED  BY <1>1, InvHolds, PTL


\* The only steps that touch the file of a completed block are those that write,
\* or are killed when about to write, a block that was taken up again.
LEMMA CompletedFileKept ==
    ASSUME Base, Next, NEW b \in Completed
    PROVE  \/ blockFile'[b] = blockFile[b]
           \/ Loaded /\ dataBlock.blockNumber = b /\ (Crash \/ SaveBlock)
<1> USE DEF Base
<1>1. pc \notin Idle
  BY NoneCompleted DEF Phases
<1>2. b \in BlockNumbers /\ DOMAIN blockFile = BlockNumbers
  BY MaximaAssumption DEF TypeOK, IsIndexTable, Completed, BlockNumbers
<1>3. CASE Crash
  <2>1. CASE pc \in {"save", "write"}
    <3>1. PICK f \in Tear(blockFile[dataBlock.blockNumber]) :
              blockFile' = [blockFile EXCEPT ![dataBlock.blockNumber] = f]
      BY <1>3, <2>1 DEF Crash
    <3>2. Loaded
      BY <2>1 DEF Phases, Holding
    <3> HIDE DEF Base
    <3> QED  BY <1>2, <1>3, <3>1, <3>2
  <2>2. CASE pc \notin {"save", "write"}
    BY <1>3, <2>2 DEF Crash
  <2> QED  BY <2>1, <2>2
<1>4. CASE SaveBlock
  <2>1. Loaded
    BY <1>4 DEF SaveBlock, Phases, Holding
  <2> HIDE DEF Base
  <2> QED  BY <1>2, <1>4, <2>1, BlockFileWritten
<1>5. CASE WriteBlock
  <2>1. dataBlock.blockNumber # b
    BY <1>5 DEF WriteBlock, Phases
  <2> HIDE DEF Base
  <2> QED  BY <1>2, <1>5, <2>1, BlockFileWritten
<1>6. CASE Start \/ Republish \/ Reset \/ Finish
  BY <1>1, <1>6
     DEF Start, Republish, Reset, ResetNothing, ResetRemoveBlock, ResetRemoveIndex, Finish,
         CreateIndex, GenerateDataFile, Exit, Idle, disk
<1>7. ASSUME NEW p \in PacketsOf(onAir), ReceivePacket(p) PROVE blockFile'[b] = blockFile[b]
  BY <1>7 DEF ReceivePacket, disk
<1>8. CASE \/ SaveMap \/ RestoreNext \/ IgnorePacket \/ BeginBlock \/ ContinueBlock
           \/ StorePacket \/ CheckPastPayload \/ DropCorruptBlock \/ KeepBlock
  BY <1>8 DEF SaveMap, RestoreNext, IgnorePacket, BeginBlock, ContinueBlock, StorePacket,
              CheckPastPayload, DropCorruptBlock, KeepBlock, disk
<1> QED  BY <1>3, <1>4, <1>5, <1>6, <1>7, <1>8 DEF Next, Handle

(***************************************************************************)
(* No step writes, tears or removes the file of a completed block while    *)
(* the session still relies on it, whatever writes the disk refuses, as    *)
(* long as a map file can be removed.                                      *)
(***************************************************************************)
THEOREM CompletedStaysFrozen == ASSUME ~ RemovesMayFail PROVE Spec => CompletedFrozen
<1>1. Inv /\ [Next]_vars => [\A b \in Completed : blockFile'[b] = blockFile[b]]_vars
  BY CompletedFileKept DEF Inv, BlockInMemory
<1> QED  BY <1>1, InvHolds, PTL DEF Spec, CompletedFrozen

-----------------------------------------------------------------------------
(***************************************************************************)
(* A disk that refuses no write.  createBlockFile may fail and the         *)
(* receiver does not look at its result for a completed block              *)
(* (receivefile.c:332).  Where it does not fail, a map that could not be   *)
(* removed does no harm to a completed block: the block that is taken up   *)
(* again is the one on disk, no packet changes it, and the next switch     *)
(* writes the same file.                                                   *)
(***************************************************************************)
RestoredAsStored ==
    Loaded /\ dataBlock.blockNumber \in Completed =>
        blockFile[dataBlock.blockNumber] = Whole(dataBlock)

\* generateDataFile finds every block it needs.
IndexReadable ==
    pc = "generate" /\ IsWhole(indexFile) =>
        \A i \in DOMAIN indexFile.data.items : ReadsVerified(blockFile[i])

WritesInv == RestoredAsStored /\ CompletedBlockIntact /\ IndexReadable

-----------------------------------------------------------------------------
\* On a disk that refuses no write there is one outcome.
LEMMA SureWrite ==
    ASSUME ~ WritesMayFail, NEW file, NEW x
    PROVE  WriteOutcomes(file, x) = {Whole(x)}
BY DEF WriteOutcomes, RefusedWrite

\* A completed block is one that was completed before, as it was, except for the
\* one that is being written.
LEMMA CompletedItemKept ==
    ASSUME Next, ~ WriteBlock, NEW b \in Completed'
    PROVE  /\ b \in Completed /\ indexTable'.items[b] = indexTable.items[b]
           /\ ~ (Crash \/ Exit \/ CreateIndex)
<1>1. ASSUME indexTable' = indexTable
      PROVE  b \in Completed /\ indexTable'.items[b] = indexTable.items[b]
  BY <1>1 DEF Completed
<1>2. indexTable' # NoIndex
  BY NoIndexType DEF Completed
<1>3. ASSUME NEW p \in PacketsOf(onAir), ReceivePacket(p)
      PROVE  b \in Completed /\ indexTable'.items[b] = indexTable.items[b]
  <2>1. CASE indexTable.nbItems # 0
    BY <1>1, <1>3, <2>1 DEF ReceivePacket
  <2>2. CASE indexTable.nbItems = 0
    <3>1. indexTable' = allocateIndexTable(p.blockTotal)
      BY <1>3, <2>2 DEF ReceivePacket
    <3>2. b \in 0 .. p.blockTotal - 1 /\ indexTable'.items[b] = InvalidItem
          /\ indexTable'.items[b].number # INVALID_BLOCK_NUMBER
      BY <3>1 DEF allocateIndexTable, Completed
    <3> QED  BY <3>2 DEF InvalidItem
  <2> QED  BY <2>1, <2>2
<1>4. ASSUME \/ Start \/ Republish \/ Reset \/ GenerateDataFile
             \/ SaveBlock \/ SaveMap \/ RestoreNext \/ IgnorePacket \/ BeginBlock \/ ContinueBlock
             \/ StorePacket \/ CheckPastPayload \/ DropCorruptBlock \/ KeepBlock
      PROVE  b \in Completed /\ indexTable'.items[b] = indexTable.items[b]
  <2>1. indexTable' = indexTable
    BY <1>4
       DEF Start, Republish, Reset, ResetNothing, ResetRemoveBlock, ResetRemoveIndex,
           GenerateDataFile, SaveBlock, SaveMap, RestoreNext, IgnorePacket, BeginBlock,
           ContinueBlock, StorePacket, CheckPastPayload, DropCorruptBlock, KeepBlock, memory
  <2> QED  BY <1>1, <2>1
<1>5. ~ (Crash \/ Exit \/ CreateIndex)
  BY <1>2 DEF Crash, Exit, CreateIndex, ClearMemory
<1> QED  BY <1>3, <1>4, <1>5 DEF Next, Handle, Finish

\* The one being written is what runServer made the checksum of.
LEMMA WrittenBlockIntact ==
    ASSUME Base, WriteBlock, ~ WritesMayFail
    PROVE  LET n == packet.blockNumber
           IN  /\ Completed' = Completed \cup {n} /\ n \notin Completed
               /\ indexTable'.items[n].number = n
               /\ ReadsVerified(blockFile'[n])
               /\ blockFile'[n].data.blockNumber = n
               /\ blockFile'[n].data.payload \in PublishedBlocks(n)
               /\ indexTable'.items[n].offset = Len(blockFile'[n].data.payload)
               /\ \A b \in Completed : indexTable'.items[b] = indexTable.items[b]
<1> DEFINE n == packet.blockNumber
           image == BlockImage(dataBlock)
<1>1. /\ n \notin Completed /\ Completed' = Completed \cup {n} /\ n \in BlockNumbers
      /\ indexTable'.items[n] = [number |-> n, offset |-> dataBlock.payloadSize]
      /\ \A b \in Completed : indexTable'.items[b] = indexTable.items[b]
  BY BlockCounted
<1>2. /\ dataBlock.blockNumber = n /\ dataBlock \in Block
      /\ dataBlock.payloadSize \in 1 .. Len(dataBlock.payload)
      /\ image.payload \in PublishedBlocks(n)
      /\ Len(image.payload) = dataBlock.payloadSize
      /\ ReadsVerified(Whole(image))
  BY WrittenBlock DEF WriteBlock, Base, Verified
<1>3. image.blockNumber = n
  BY <1>2, ImageOfBlock
<1> HIDE DEF image
<1>4. PICK file \in WriteOutcomes(blockFile[dataBlock.blockNumber], image) :
          blockFile' = [blockFile EXCEPT ![dataBlock.blockNumber] = file]
  BY DEF WriteBlock, image
<1>5. file = Whole(image)
  BY SureWrite
<1>6. DOMAIN blockFile = BlockNumbers
  BY DEF Base, TypeOK
<1> HIDE DEF n
<1>7. blockFile'[n] = Whole(image)
  BY <1>1, <1>2, <1>4, <1>5, <1>6
<1> QED  BY <1>1, <1>2, <1>3, <1>7 DEF Whole, n

\* generateDataFile begins after the index file, and at no other point.
LEMMA GenerateFromIndex ==
    ASSUME Next, pc' = "generate"
    PROVE  CreateIndex \/ Republish
<1>1. ~ (\E p \in PacketsOf(onAir) : ReceivePacket(p))
  BY DEF ReceivePacket
<1>2. ~ (Start \/ Crash \/ Reset \/ GenerateDataFile \/ Exit)
  BY DEF Start, Crash, Reset, ResetNothing, ResetRemoveBlock, ResetRemoveIndex,
         AfterReset, FailReset, GenerateDataFile, Exit
<1>3. ~ Handle
  BY DEF Handle, SaveBlock, SaveMap, RestoreNext, RestoreBlock, IgnorePacket, BeginBlock,
         StartBlock, ContinueBlock, StorePacket, CheckPastPayload, DropCorruptBlock,
         KeepBlock, WriteBlock, FreePacket
<1> QED  BY <1>1, <1>2, <1>3 DEF Next, Finish

\* A completed block that is saved again is saved as it was.
LEMMA FinalFileKept ==
    ASSUME Base, RestoredAsStored, ~ WritesMayFail, Next, ~ Crash, NEW b \in Completed
    PROVE  blockFile'[b] = blockFile[b]
<1> SUFFICES ASSUME Loaded, dataBlock.blockNumber = b, SaveBlock
             PROVE  blockFile'[b] = blockFile[b]
  BY CompletedFileKept
<1>1. blockFile[b] = Whole(dataBlock)
  BY DEF RestoredAsStored
<1>2. b \in BlockNumbers /\ DOMAIN blockFile = BlockNumbers /\ dataBlock \in Block
  BY DEF Base, TypeOK, Block
<1>3. dataBlock.payloadSize = Len(dataBlock.payload) /\ dataBlock.payload # <<>>
  BY <1>1, <1>2 DEF Base, FilesKnown, IsWhole, Whole
<1>4. dataBlock.payload \in Seq(Nat) /\ Len(dataBlock.payload) \in Nat \ {0}
  BY <1>2, <1>3, EmptySeq, LenProperties DEF Block
<1>5. SubSeq(dataBlock.payload, 1, dataBlock.payloadSize) = dataBlock.payload
  BY <1>3, <1>4
<1>6. BlockImage(dataBlock) = dataBlock
  BY <1>2, <1>5 DEF BlockImage, Block
<1>7. BlockWritten(dataBlock) = blockFile[b]
  BY <1>1, <1>3, <1>4, <1>6 DEF BlockWritten
<1>8. \/ blockFile' = [blockFile EXCEPT ![b] = BlockWritten(dataBlock)]
      \/ blockFile' = blockFile
  BY DEF SaveBlock, RefusedWrite
<1> QED  BY <1>2, <1>7, <1>8

\* A completed block in memory stays what its file says.
LEMMA NextKeepsRestored ==
    ASSUME Base, RestoredAsStored, Next, ~ WritesMayFail
    PROVE  RestoredAsStored'
<1> SUFFICES ASSUME Loaded', dataBlock'.blockNumber \in Completed'
             PROVE  blockFile'[dataBlock'.blockNumber] = Whole(dataBlock')
  BY DEF RestoredAsStored
<1>1. ~ (Crash \/ Exit \/ WriteBlock \/ SaveMap \/ DropCorruptBlock)
  BY DEF Crash, Exit, ClearMemory, WriteBlock, SaveMap, DropCorruptBlock, ReleaseBlock,
         Loaded, NoBlock
<1>2. dataBlock'.blockNumber \in Completed
  BY <1>1, CompletedItemKept
<1>3. ASSUME dataBlock' = dataBlock
      PROVE  blockFile'[dataBlock'.blockNumber] = Whole(dataBlock')
  BY <1>1, <1>2, <1>3, FinalFileKept DEF RestoredAsStored, Loaded
<1>4. CASE Start \/ Republish \/ Reset \/ CreateIndex \/ GenerateDataFile
  BY <1>3, <1>4
     DEF Start, Republish, Reset, ResetNothing, ResetRemoveBlock, ResetRemoveIndex,
         CreateIndex, GenerateDataFile, memory
<1>5. ASSUME NEW p \in PacketsOf(onAir), ReceivePacket(p) PROVE dataBlock' = dataBlock
  BY <1>5 DEF ReceivePacket
<1>6. CASE IgnorePacket \/ ContinueBlock \/ CheckPastPayload \/ KeepBlock
  BY <1>3, <1>6 DEF IgnorePacket, ContinueBlock, CheckPastPayload, KeepBlock, memory
<1>7. CASE SaveBlock
  BY <1>3, <1>7 DEF SaveBlock, RefusedWrite
<1>8. CASE RestoreNext
  <2>1. CASE dataBlock' = dataBlock
    BY <1>3, <2>1
  <2>2. CASE /\ Restorable(packet.blockNumber)
             /\ dataBlock' = blockFile[packet.blockNumber].data
    <3>1. packet.blockNumber \in BlockNumbers /\ blockFile' = blockFile
      BY <1>8, PacketInHand DEF RestoreNext, Handling
    <3>2. /\ blockFile[packet.blockNumber] \in FileOf(Block)
          /\ dataBlock'.blockNumber = packet.blockNumber
      BY <2>2, <3>1, RestoredBlock DEF Base, TypeOK
    <3>3. blockFile[packet.blockNumber] = Whole(blockFile[packet.blockNumber].data)
      BY <2>2, <3>2 DEF Restorable, IsWhole, Whole, FileOf
    <3> QED  BY <2>2, <3>1, <3>2, <3>3
  <2> QED  BY <1>8, <2>1, <2>2 DEF RestoreNext, RestoreBlock
<1>9. CASE BeginBlock
  <2>1. CASE dataBlock' = dataBlock
    BY <1>3, <2>1
  <2>2. packet.blockNumber \notin Completed /\ packet.blockNumber \in BlockNumbers
    BY <1>9, PacketInHand DEF BeginBlock, AlreadyCompleted, Handling
  <2>3. CASE Restorable(packet.blockNumber) /\ dataBlock' = blockFile[packet.blockNumber].data
    BY <1>2, <2>2, <2>3, RestoredBlock
  <2>4. CASE dataBlock' = NewBlock(packet)
    BY <1>2, <2>2, <2>4 DEF NewBlock
  <2> QED  BY <1>9, <2>1, <2>3, <2>4 DEF BeginBlock, RestoreBlock, StartBlock
<1>10. CASE StorePacket
  <2>1. /\ dataBlock.blockNumber = packet.blockNumber /\ packet.blockNumber \notin Completed
        /\ dataBlock \in Block
    BY <1>10 DEF StorePacket, Base, Phases, TypeOK
  <2>2. dataBlock'.blockNumber = dataBlock.blockNumber
    BY <1>10, <2>1 DEF StorePacket, Block
  <2> QED  BY <1>2, <2>1, <2>2
<1> QED  BY <1>1, <1>3, <1>4, <1>5, <1>6, <1>7, <1>8, <1>9, <1>10 DEF Next, Handle, Finish

-----------------------------------------------------------------------------
\* The invariant of the files holds at first.
LEMMA InitWrites == Init => WritesInv
<1> SUFFICES ASSUME Init PROVE WritesInv
  OBVIOUS
<1>1. pc = "off" /\ indexTable = NoIndex /\ ~ Loaded
  BY DEF Init, InitMemory, Loaded, NoBlock
<1>2. Completed = {}
  BY <1>1, NoneCompleted
<1> QED
  BY <1>1, <1>2 DEF WritesInv, RestoredAsStored, CompletedBlockIntact, IndexReadable

\* Every step keeps it.
LEMMA NextKeepsWrites ==
    ASSUME Base, WritesInv, [Next]_vars, ~ WritesMayFail
    PROVE  WritesInv'
<1> USE DEF WritesInv
<1>1. CASE UNCHANGED vars
  BY <1>1
     DEF vars, environment, memory, disk, RestoredAsStored, Loaded, CompletedBlockIntact,
         Completed, IndexReadable
<1>2. CASE Next
  <2>1. CompletedBlockIntact'
    <3> DEFINE Intact(b) == /\ indexTable.items[b].number = b
                            /\ ReadsVerified(blockFile[b])
                            /\ blockFile[b].data.blockNumber = b
                            /\ blockFile[b].data.payload \in PublishedBlocks(b)
                            /\ indexTable.items[b].offset = Len(blockFile[b].data.payload)
    <3>1. \A b \in Completed : Intact(b) /\ (~ Crash => blockFile'[b] = blockFile[b])
      BY <1>2, FinalFileKept DEF CompletedBlockIntact
    <3>2. ASSUME NEW b \in Completed, indexTable'.items[b] = indexTable.items[b], ~ Crash
          PROVE  Intact(b)'
      BY <3>1, <3>2
    <3>3. CASE WriteBlock
      <4>1. \A b \in Completed' : b # packet.blockNumber =>
                b \in Completed /\ indexTable'.items[b] = indexTable.items[b]
        BY <3>3, WrittenBlockIntact
      <4>2. ASSUME NEW b \in Completed', b = packet.blockNumber PROVE Intact(b)'
        BY <3>3, <4>2, WrittenBlockIntact
      <4>3. ASSUME NEW b \in Completed' PROVE Intact(b)'
        <5>1. ~ Crash
          <6>1. pc = "write" /\ pc' # "off"
            BY <3>3 DEF WriteBlock
          <6> QED  BY <6>1 DEF Crash
        <5> QED  BY <3>2, <4>1, <4>2, <5>1
      <4> QED  BY <4>3 DEF CompletedBlockIntact
    <3>4. CASE ~ WriteBlock
      <4>1. \A b \in Completed' : Intact(b)'
        BY <1>2, <3>2, <3>4, CompletedItemKept
      <4> QED  BY <4>1 DEF CompletedBlockIntact
    <3> QED  BY <3>3, <3>4
  <2>2. RestoredAsStored'
    BY <1>2, NextKeepsRestored
  <2>3. IndexReadable'
    <3> SUFFICES ASSUME pc' = "generate", IsWhole(indexFile')
                 PROVE  \A i \in DOMAIN indexFile'.data.items : ReadsVerified(blockFile'[i])
      BY DEF IndexReadable
    <3>1. CASE CreateIndex
      <4> DEFINE table == [indexTable EXCEPT !.items = Offsets(@)]
      <4>1. indexFile'.data = table /\ pc = "index" /\ blockFile' = blockFile
        BY <3>1, SureWrite DEF CreateIndex, Whole
      <4>2. indexTable = [nbItems |-> indexTable.nbItems, items |-> indexTable.items]
            /\ DOMAIN indexTable.items = 0 .. indexTable.nbItems - 1
        BY DEF Base, TypeOK, IsIndexTable
      <4>3. table.items = Offsets(indexTable.items)
        BY <4>2
      <4>4. DOMAIN table.items = 0 .. indexTable.nbItems - 1
        BY <4>2, <4>3 DEF Offsets
      <4> HIDE DEF table
      <4> QED
        BY <4>1, <4>4 DEF Base, CountMatchesIndex, CompletedBlockIntact
    <3>2. CASE Republish
      BY <3>2 DEF Republish, IndexReadable, disk
    <3> QED  BY <1>2, <3>1, <3>2, GenerateFromIndex
  <2> QED  BY <2>1, <2>2, <2>3
<1> QED  BY <1>1, <1>2

\* It always holds.
LEMMA WritesInvHolds == ASSUME ~ WritesMayFail PROVE Spec => []WritesInv
<1>1. Base /\ WritesInv /\ [Next]_vars => WritesInv'
  BY NextKeepsWrites
<1> QED  BY <1>1, InitWrites, BaseHolds, PTL DEF Spec

-----------------------------------------------------------------------------
(***************************************************************************)
(* If the disk refuses no write, every block marked as completed           *)
(* (receivefile.c:333) is whole on disk and is that block of a published   *)
(* file, also when the publication changes in the middle of it and when    *)
(* a map file cannot be removed.                                           *)
(***************************************************************************)
THEOREM CompletedIsIntact == ASSUME ~ WritesMayFail PROVE Spec => []CompletedBlockIntact
<1>1. WritesInv => CompletedBlockIntact
  BY DEF WritesInv
<1> QED  BY <1>1, WritesInvHolds, PTL

\* No step of a receiver whose disk refuses nothing leads astray.
LEMMA NextKeepsDefined ==
    ASSUME Inv, WritesInv, [Next]_vars, DefinedBehaviour
    PROVE  DefinedBehaviour'
<1>1. ASSUME RestoreNext \/ BeginBlock PROVE pc' # "undefined"
  <2>1. packet.blockNumber \in BlockNumbers
    BY <1>1, PacketInHand DEF RestoreNext, BeginBlock, Handling, Inv
  <2>2. IsWhole(mapFile[packet.blockNumber]) => blockFile[packet.blockNumber] # Torn
    BY <2>1, StoredBlock
  <2> QED  BY <1>1, <2>2 DEF RestoreNext, BeginBlock, StartBlock, RestoreBlock
<1>2. ASSUME GenerateDataFile PROVE pc' # "undefined"
  <2> DEFINE table == indexFile.data
  <2>1. \A i \in DOMAIN table.items : IsWhole(indexFile) => table.items[i].number = i
    BY DEF Inv, Base, IndexByNumber
  <2>2. IsWhole(indexFile) =>
            \A i \in DOMAIN table.items : ReadsVerified(blockFile[table.items[i].number])
    BY <1>2, <2>1 DEF WritesInv, IndexReadable, GenerateDataFile
  <2> QED  BY <1>2, <2>2 DEF GenerateDataFile
<1>3. ASSUME NEW p \in PacketsOf(onAir), ReceivePacket(p) PROVE pc' # "undefined"
  BY <1>3 DEF ReceivePacket
<1>4. CASE Start \/ Republish \/ Crash \/ Reset
  BY <1>4
     DEF Start, Republish, Crash, Reset, ResetNothing, ResetRemoveBlock,
         ResetRemoveIndex, AfterReset, FailReset, DefinedBehaviour
<1>5. CASE SaveBlock
  BY <1>5, SaveWrites DEF DefinedBehaviour
<1>6. CASE SaveMap \/ IgnorePacket \/ ContinueBlock \/ DropCorruptBlock \/ KeepBlock
  BY <1>6
     DEF SaveMap, IgnorePacket, ContinueBlock, DropCorruptBlock, KeepBlock, FreePacket,
         DefinedBehaviour
<1>7. CASE StorePacket
  <2> DEFINE end == maxPacketSize * packet.packetNumber + Len(packet.payload)
  <2>1. ~ (end <= AdjustedSize /\ end > Len(dataBlock.payload))
    <3>1. /\ end \in Nat /\ (end <= AdjustedSize => end <= Len(dataBlock.payload))
          /\ Len(dataBlock.payload) \in Nat
      BY <1>7, FitsPayload, LenProperties DEF StorePacket, Inv, Base, TypeOK, Block
    <3> HIDE DEF end
    <3> QED  BY <3>1
  <2> QED  BY <1>7, <2>1 DEF StorePacket, FreePacket, DefinedBehaviour
<1>8. CASE WriteBlock \/ CreateIndex \/ Exit
  BY <1>8 DEF WriteBlock, CreateIndex, Exit, DefinedBehaviour
<1>9. CASE UNCHANGED vars
  BY <1>9 DEF vars, DefinedBehaviour
<1> QED
  BY <1>1, <1>2, <1>3, <1>4, <1>5, <1>6, <1>7, <1>8, <1>9, CheckPastPayloadStep
     DEF Next, Handle, Finish, DefinedBehaviour

(***************************************************************************)
(* If the disk refuses neither a write nor a removal, no path leads to     *)
(* freed memory or past the payload: restoreBlockFromMapFile and           *)
(* generateDataFile never go on with the block of a readBlockFile that     *)
(* failed, and what reads or writes payloadSize bytes has them.            *)
(***************************************************************************)
THEOREM BehaviourDefined ==
    ASSUME ~ WritesMayFail, ~ RemovesMayFail
    PROVE  Spec => []DefinedBehaviour
<1>1. Init => DefinedBehaviour
  BY DEF Init, DefinedBehaviour
<1> QED  BY <1>1, NextKeepsDefined, InvHolds, WritesInvHolds, PTL DEF Spec

-----------------------------------------------------------------------------
(***************************************************************************)
(* The file that is produced, when one file is transmitted: the index made *)
(* of a complete table has all of its blocks, and so has the stream.       *)
(***************************************************************************)
CompletedOf(file) == \A b \in Completed : blockFile[b].data.payload = file[b + 1]

FaithfulInv(file) ==
    /\ indexTable.nbItems \in {0, Len(file)}
    /\ pc = "index" => indexTable.nbItems # 0
    /\ pc = "generate" /\ IsWhole(indexFile) =>
          /\ indexFile.data.nbItems = Len(file)
          /\ \A i \in 0 .. Len(file) - 1 : blockFile[i].data.payload = file[i + 1]
    /\ stream \in {<<>>, file}
    /\ IsWhole(output) => output.data = file

\* The stream is the file when generateDataFile has read every block.
LEMMA StreamIsFile ==
    ASSUME NEW file \in Publications, Base, FaithfulInv(file), GenerateDataFile
    PROVE  stream' \in {<<>>, file}
<1> DEFINE table == indexFile.data
           block(i) == blockFile[table.items[i].number]
<1>1. CASE stream' = stream
  BY <1>1 DEF FaithfulInv
<1>2. CASE stream' # stream
  <2>1. /\ pc = "generate" /\ IsWhole(indexFile)
        /\ stream' = [i \in 1 .. table.nbItems |-> block(i - 1).data.payload]
    BY <1>2 DEF GenerateDataFile, DataFile
  <2>2. IsIndexTable(table)
    BY <2>1 DEF Base, TypeOK, IsWhole, Absent, Torn
  <2>3. file \in Seq(Seq(Nat)) /\ Len(file) \in Nat
    BY PublicationsAssumption, LenProperties
  <2>4. \A i \in 0 .. Len(file) - 1 : block(i) = blockFile[i]
    BY <2>1, <2>2 DEF Base, IndexByNumber, FaithfulInv, IsIndexTable
  <2>5. \A i \in 1 .. Len(file) : block(i - 1).data.payload = file[i]
    <3> SUFFICES ASSUME NEW i \in 1 .. Len(file)
                 PROVE  block(i - 1).data.payload = file[i]
      OBVIOUS
    <3>1. i - 1 \in 0 .. Len(file) - 1 /\ (i - 1) + 1 = i
      BY <2>3
    <3>2. blockFile[i - 1].data.payload = file[(i - 1) + 1]
      BY <2>1, <3>1 DEF FaithfulInv
    <3>3. block(i - 1) = blockFile[i - 1]
      BY <2>4, <3>1
    <3> QED  BY <3>1, <3>2, <3>3
  <2>6. table.nbItems = Len(file)
    BY <2>1 DEF FaithfulInv
  <2> HIDE DEF block, table
  <2>7. stream' = [i \in 1 .. Len(file) |-> file[i]]
    BY <2>1, <2>5, <2>6
  <2>8. file = [i \in 1 .. Len(file) |-> file[i]]
    BY <2>3
  <2> QED  BY <2>7, <2>8
<1> QED  BY <1>1, <1>2

\* Only generateDataFile writes into the stream, and only opening the output
\* file, exiting and a kill change that file.
LEMMA StreamKept ==
    ASSUME Next, ~ GenerateDataFile
    PROVE  stream' \in {stream, <<>>}
<1>1. CASE Crash \/ Exit
  BY <1>1 DEF Crash, Exit, ClearMemory
<1>2. CASE Start \/ Republish \/ Reset \/ CreateIndex
  BY <1>2
     DEF Start, Republish, Reset, ResetNothing, ResetRemoveBlock, ResetRemoveIndex,
         CreateIndex, memory
<1>3. CASE \E p \in PacketsOf(onAir) : ReceivePacket(p)
  BY <1>3 DEF ReceivePacket
<1>4. CASE Handle
  BY <1>4
     DEF Handle, SaveBlock, SaveMap, RestoreNext, IgnorePacket, BeginBlock, ContinueBlock,
         StorePacket, CheckPastPayload, DropCorruptBlock, KeepBlock, WriteBlock, memory
<1> QED  BY <1>1, <1>2, <1>3, <1>4 DEF Next, Finish

\* The output is torn, or written from the stream.
LEMMA OutputWritten ==
    ASSUME Next
    PROVE  output' \in {output, Torn} \/ (output' = Whole(stream) /\ stream # <<>>)
<1>1. CASE Crash \/ Exit
  BY <1>1, WriteLeaves DEF Crash, Exit, Tear
<1>2. CASE Start \/ Republish \/ Reset \/ CreateIndex \/ GenerateDataFile
  BY <1>2
     DEF Start, Republish, Reset, ResetNothing, ResetRemoveBlock, ResetRemoveIndex,
         CreateIndex, GenerateDataFile, disk
<1>3. CASE \E p \in PacketsOf(onAir) : ReceivePacket(p)
  BY <1>3 DEF ReceivePacket, disk
<1>4. CASE Handle
  BY <1>4
     DEF Handle, SaveBlock, SaveMap, RestoreNext, IgnorePacket, BeginBlock, ContinueBlock,
         StorePacket, CheckPastPayload, DropCorruptBlock, KeepBlock, WriteBlock, disk
<1> QED  BY <1>1, <1>2, <1>3, <1>4 DEF Next, Finish

\* At first there is no output.
LEMMA InitFaithful == ASSUME NEW file, Init PROVE FaithfulInv(file)
BY NoIndexType DEF Init, InitMemory, FaithfulInv, IsWhole, Absent

\* With one publication the blocks of that publication are all there are.
LEMMA OneFile ==
    ASSUME NEW file, Publications = {file}, Base, WritesInv
    PROVE  onAir = file /\ CompletedOf(file)
BY DEF Base, TypeOK, WritesInv, CompletedBlockIntact, PublishedBlocks, CompletedOf

\* Every step keeps the output, or what it will be, the file.
LEMMA NextKeepsFaithful ==
    ASSUME NEW file \in Publications, onAir = file, ~ WritesMayFail,
           Base, CompletedOf(file), FaithfulInv(file), [Next]_vars
    PROVE  FaithfulInv(file)'
<1>1. CASE UNCHANGED vars
  BY <1>1 DEF vars, environment, memory, disk, FaithfulInv
<1>2. CASE Next
  <2>1. /\ indexTable'.nbItems \in {0, Len(file)}
        /\ pc' = "index" => indexTable'.nbItems # 0
    <3>1. ASSUME NEW p \in PacketsOf(onAir), ReceivePacket(p)
          PROVE  indexTable'.nbItems \in {0, Len(file)} /\ pc' # "index"
      <4>2. p.blockTotal = Len(file)
        BY DEF PacketsOf, Packet
      <4> QED  BY <3>1, <4>2 DEF ReceivePacket, allocateIndexTable, FaithfulInv
    <3>2. CASE WriteBlock
      <4>1. indexTable'.nbItems = indexTable.nbItems
        BY <3>2 DEF WriteBlock, Base, TypeOK, IsIndexTable
      <4>2. pc' = "index" => indexTable.nbItems = nbBlockRead + 1 /\ nbBlockRead \in Nat
        BY <3>2, MaximaAssumption DEF WriteBlock, Base, TypeOK
      <4> QED  BY <4>1, <4>2 DEF FaithfulInv
    <3>3. CASE Crash \/ Exit \/ CreateIndex
      <4>1. indexTable' = NoIndex /\ pc' # "index"
        BY <3>3 DEF Crash, Exit, CreateIndex, ClearMemory
      <4> QED  BY <4>1, NoIndexType
    <3>4. CASE Start \/ Republish \/ Reset \/ GenerateDataFile
      BY <3>4
         DEF Start, Republish, Reset, ResetNothing, ResetRemoveBlock, ResetRemoveIndex,
             AfterReset, FailReset, GenerateDataFile, memory, FaithfulInv
    <3>5. CASE SaveBlock \/ SaveMap \/ RestoreNext \/ IgnorePacket \/ BeginBlock
      BY <3>5
         DEF SaveBlock, SaveMap, RestoreNext, RestoreBlock, IgnorePacket, BeginBlock,
             StartBlock, FreePacket, FaithfulInv
    <3>6. CASE ContinueBlock \/ StorePacket \/ CheckPastPayload \/ DropCorruptBlock \/ KeepBlock
      <4>1. indexTable' = indexTable
        BY <3>6
           DEF ContinueBlock, StorePacket, CheckPastPayload, DropCorruptBlock, KeepBlock, memory
      <4>2. pc' # "index"
        BY <3>6
           DEF ContinueBlock, StorePacket, CheckPastPayload, DropCorruptBlock, KeepBlock,
               FreePacket
      <4> QED  BY <4>1, <4>2 DEF FaithfulInv
    <3> QED
      BY <1>2, <3>1, <3>2, <3>3, <3>4, <3>5, <3>6 DEF Next, Handle, Finish
  <2>2. pc' = "generate" /\ IsWhole(indexFile') =>
            /\ indexFile'.data.nbItems = Len(file)
            /\ \A i \in 0 .. Len(file) - 1 : blockFile'[i].data.payload = file[i + 1]
    <3> SUFFICES ASSUME pc' = "generate", IsWhole(indexFile')
                 PROVE  /\ indexFile'.data.nbItems = Len(file)
                        /\ \A i \in 0 .. Len(file) - 1 :
                              blockFile'[i].data.payload = file[i + 1]
      OBVIOUS
    <3>1. CASE CreateIndex
      <4>1. /\ pc = "index" /\ blockFile' = blockFile
            /\ indexFile'.data = [indexTable EXCEPT !.items = Offsets(@)]
        BY <3>1, SureWrite DEF CreateIndex, Whole
      <4>2. indexTable.nbItems = Len(file) /\ Completed = 0 .. Len(file) - 1
        BY <4>1 DEF FaithfulInv, Base, CountMatchesIndex
      <4>3. indexTable = [nbItems |-> indexTable.nbItems, items |-> indexTable.items]
        BY DEF Base, TypeOK, IsIndexTable
      <4>4. indexFile'.data.nbItems = Len(file)
        BY <4>1, <4>2, <4>3
      <4>5. \A i \in Completed : blockFile[i].data.payload = file[i + 1]
        BY DEF CompletedOf
      <4> QED  BY <4>1, <4>2, <4>4, <4>5
    <3>2. CASE Republish
      BY <3>2 DEF Republish, disk, FaithfulInv
    <3> QED  BY <1>2, <3>1, <3>2, GenerateFromIndex
  <2>3. stream' \in {<<>>, file}
    <3>1. CASE GenerateDataFile
      BY <3>1, StreamIsFile
    <3>2. CASE ~ GenerateDataFile
      <4>1. stream' \in {stream, <<>>}
        BY <1>2, <3>2, StreamKept
      <4> QED  BY <4>1 DEF FaithfulInv
    <3> QED  BY <3>1, <3>2
  <2>4. IsWhole(output') => output'.data = file
    <3>1. output' \in {output, Torn} \/ (output' = Whole(stream) /\ stream # <<>>)
      BY <1>2, OutputWritten
    <3>2. CASE output' \in {output, Torn}
      BY <3>2 DEF FaithfulInv, IsWhole, Torn
    <3>3. CASE output' = Whole(stream) /\ stream # <<>>
      BY <3>3 DEF FaithfulInv, Whole
    <3> QED  BY <3>1, <3>2, <3>3
  <2> QED  BY <2>1, <2>2, <2>3, <2>4 DEF FaithfulInv
<1> QED  BY <1>1, <1>2

(***************************************************************************)
(* README.txt:18, "Check result file is the same as the input file": with  *)
(* one file on the air and a disk that refuses no write, whatever packets  *)
(* are lost, repeated or reordered and whenever the program is killed and  *)
(* started again, an output file it has finished is the input file, also   *)
(* when map files cannot be removed and bring old blocks back.             *)
(***************************************************************************)
THEOREM OutputIsFaithful ==
    ASSUME NEW file, Publications = {file}, ~ WritesMayFail
    PROVE  Spec => []OutputFaithful
<1>1. Init => FaithfulInv(file)
  BY InitFaithful
<1>2. Base /\ WritesInv /\ FaithfulInv(file) /\ [Next]_vars => FaithfulInv(file)'
  BY OneFile, NextKeepsFaithful
<1>3. FaithfulInv(file) => OutputFaithful
  BY DEF FaithfulInv, OutputFaithful
<1> QED  BY <1>1, <1>2, <1>3, BaseHolds, WritesInvHolds, PTL DEF Spec

-----------------------------------------------------------------------------
(***************************************************************************)
(* The offsets of the index file.  The loop that adds up the sizes is a    *)
(* recursive function, and what it computes is shown by taking the least   *)
(* index for which no such sums exist.                                     *)
(***************************************************************************)
LEMMA LeastNumber ==
    ASSUME NEW T, T \subseteq Nat, T # {}
    PROVE  \E x \in T : \A y \in T : x <= y
<1> DEFINE less == {ss \in Nat \X Nat : ss[1] < ss[2]}
<1>1. IsWellFoundedOn(less, Nat)
  BY NatLessThanWellFounded DEF OpToRel
<1>2. \A y \in Nat, z \in Nat : y < z => <<y, z>> \in less
  OBVIOUS
<1> HIDE DEF less
<1>3. PICK x \in T : \A y \in T : ~ (<<y, x>> \in less)
  BY <1>1, WFMin
<1>4. ASSUME NEW y \in T PROVE x <= y
  <2>1. x \in Nat /\ y \in Nat /\ ~ (<<y, x>> \in less)
    BY <1>3
  <2>2. ~ (y < x)
    BY <1>2, <2>1
  <2> QED  BY <2>1, <2>2
<1> QED  BY <1>4

\* The recursive offsets, one block at a time.
LEMMA OffsetsAddUp ==
    ASSUME NEW n \in Nat, NEW items \in [0 .. n - 1 -> Sizes], NEW b \in 0 .. n - 1
    PROVE  Offsets(items)[b].offset = IF b = 0 THEN 0
                                      ELSE Offsets(items)[b - 1].offset + items[b - 1].offset
<1> DEFINE Sums(f, m) == /\ f \in [0 .. m -> Nat]
                         /\ \A i \in 0 .. m : f[i] = IF i = 0 THEN 0
                                                     ELSE f[i - 1] + items[i - 1].offset
           turn(f) == [i \in DOMAIN items |-> IF i = 0 THEN 0
                                              ELSE f[i - 1] + items[i - 1].offset]
           offsetOf == CHOOSE f : f = turn(f)
           Summed(m) == \E f : Sums(f, m)
           none == {m \in 0 .. n - 1 : ~ Summed(m)}
<1>0. \A i \in 0 .. n - 1 : items[i].offset \in Nat
  BY DEF Sizes
<1>1. none = {}
  <2> SUFFICES ASSUME none # {} PROVE FALSE
    OBVIOUS
  <2>1. PICK m \in none : \A y \in none : m <= y
    <3>1. none \subseteq Nat
      OBVIOUS
    <3> HIDE DEF none
    <3> QED  BY <3>1, LeastNumber
  <2>2. CASE m = 0
    <3>1. Sums([i \in 0 .. 0 |-> 0], 0)
      OBVIOUS
    <3> QED  BY <2>2, <3>1
  <2>3. CASE m # 0
    <3>1. m - 1 \in 0 .. n - 1 /\ m - 1 \notin none
      <4>1. m \in 0 .. n - 1 /\ m - 1 \in 0 .. n - 1
        BY <2>3
      <4> HIDE DEF none
      <4> QED  BY <2>1, <4>1
    <3>2. PICK f : Sums(f, m - 1)
      BY <3>1
    <3> DEFINE last == f[m - 1] + items[m - 1].offset
               g == [i \in 0 .. m |-> IF i = m THEN last ELSE f[i]]
    <3>3. f[m - 1] \in Nat /\ items[m - 1].offset \in Nat /\ m \in Nat
      BY <1>0, <3>1, <3>2
    <3>4. last \in Nat
      BY <3>3
    <3>5. g \in [0 .. m -> Nat]
      <4> HIDE DEF last
      <4> QED  BY <3>2, <3>3, <3>4
    <3>6. ASSUME NEW i \in 0 .. m
          PROVE  g[i] = IF i = 0 THEN 0 ELSE g[i - 1] + items[i - 1].offset
      <4>1. CASE i = m
        <5>1. g[m - 1] = f[m - 1]
          BY <2>3, <3>3
        <5> QED  BY <2>3, <4>1, <5>1
      <4>2. CASE i # m
        <5>1. i \in 0 .. m - 1 /\ g[i] = f[i] /\ (i # 0 => g[i - 1] = f[i - 1])
          BY <4>2, <3>3
        <5> QED  BY <3>2, <5>1
      <4> QED  BY <4>1, <4>2
    <3> HIDE DEF g
    <3>7. Sums(g, m)
      BY <3>5, <3>6
    <3> QED  BY <3>7
  <2> QED  BY <2>2, <2>3
<1>2. PICK f : Sums(f, n - 1)
  <2>1. Summed(n - 1)
    <3> HIDE DEF Summed
    <3> QED  BY <1>1
  <2> QED  BY <2>1
<1>3. f = turn(f)
  BY <1>2
<1>4. offsetOf = turn(offsetOf)
  <2> HIDE DEF turn
  <2> QED  BY <1>3
<1>5. Offsets(items) = [i \in DOMAIN items |-> [items[i] EXCEPT !.offset = offsetOf[i]]]
  BY DEF Offsets
<1> HIDE DEF offsetOf
<1>6. \A i \in 0 .. n - 1 : Offsets(items)[i].offset = offsetOf[i]
  BY <1>5 DEF Sizes
<1>7. b = 0 \/ b - 1 \in 0 .. n - 1
  OBVIOUS
<1>8. offsetOf[b] = IF b = 0 THEN 0 ELSE offsetOf[b - 1] + items[b - 1].offset
  BY <1>4
<1> QED BY <1>6, <1>7, <1>8

\* The table that is written when every block is completed.
LEMMA IndexIsMade ==
    ASSUME Base, CompletedBlockIntact, CreateIndex, IsWhole(indexFile')
    PROVE  IndexDescribesBlocks'
<1> DEFINE n == indexTable.nbItems
           sizes == indexTable.items
<1>1. /\ n \in Nat /\ sizes \in [0 .. n - 1 -> Sizes] /\ DOMAIN sizes = 0 .. n - 1
      /\ indexTable = [nbItems |-> n, items |-> sizes]
  BY MaximaAssumption DEF Base, TypeOK, IsIndexTable
<1>2. /\ indexFile' \in {Whole([indexTable EXCEPT !.items = Offsets(@)]), indexFile, Torn}
      /\ blockFile' = blockFile /\ pc = "index"
  BY WriteLeaves DEF CreateIndex
<1>3. ~ IsWhole(indexFile) /\ Completed = 0 .. n - 1
  BY <1>2 DEF Base, Phases, Idle, CountMatchesIndex
<1>4. indexFile'.data.items = Offsets(sizes)
  <2>1. [indexTable EXCEPT !.items = Offsets(@)] = [nbItems |-> n, items |-> Offsets(sizes)]
    BY <1>1
  <2> QED  BY <1>2, <1>3, <2>1 DEF Whole, Torn, IsWhole
<1>5. /\ DOMAIN Offsets(sizes) = 0 .. n - 1
      /\ \A b \in 0 .. n - 1 : Offsets(sizes)[b].number = sizes[b].number
  BY <1>1 DEF Offsets, Sizes
<1>6. ASSUME NEW b \in 0 .. n - 1
      PROVE  /\ sizes[b].number = b /\ IsWhole(blockFile[b])
             /\ sizes[b].offset = Len(blockFile[b].data.payload)
  BY <1>3 DEF CompletedBlockIntact, ReadsVerified
<1>7. ASSUME NEW b \in 0 .. n - 1
      PROVE  Offsets(sizes)[b].offset = IF b = 0 THEN 0
                                        ELSE Offsets(sizes)[b - 1].offset + sizes[b - 1].offset
  <2> HIDE DEF n, sizes
  <2> QED  BY <1>1, OffsetsAddUp
<1> HIDE DEF n, sizes
<1>8. ASSUME NEW b \in 0 .. n - 1
      PROVE  /\ Offsets(sizes)[b].number = b /\ IsWhole(blockFile[b])
             /\ Offsets(sizes)[b].offset =
                    IF b = 0 THEN 0
                    ELSE Offsets(sizes)[b - 1].offset + Len(blockFile[b - 1].data.payload)
  <2>1. b # 0 => b - 1 \in 0 .. n - 1
    BY <1>1
  <2>2. b # 0 => sizes[b - 1].offset = Len(blockFile[b - 1].data.payload)
    BY <1>6, <2>1
  <2> QED  BY <1>5, <1>6, <1>7, <2>2
<1> QED  BY <1>2, <1>4, <1>5, <1>8 DEF IndexDescribesBlocks

(***************************************************************************)
(* Whatever order the blocks were completed in, the index file gives each  *)
(* its place in the output (createIndexFile), and all of them are there,   *)
(* if the disk refuses no write.                                           *)
(***************************************************************************)
THEOREM IndexDescribes ==
    ASSUME ~ WritesMayFail
    PROVE  Spec => []IndexDescribesBlocks
<1>1. Init => IndexDescribesBlocks
  BY DEF Init, IndexDescribesBlocks
<1>2. (Base /\ WritesInv) /\ IndexDescribesBlocks /\ [Next]_vars => IndexDescribesBlocks'
  <2> SUFFICES ASSUME Base, WritesInv, IndexDescribesBlocks, [Next]_vars,
                      pc' = "generate", IsWhole(indexFile')
               PROVE  IndexDescribesBlocks'
    BY DEF IndexDescribesBlocks
  <2>1. CASE CreateIndex
    BY <2>1, IndexIsMade DEF WritesInv
  <2>2. CASE Republish \/ UNCHANGED vars
    <3>1. UNCHANGED <<pc, indexFile, blockFile>>
      BY <2>2 DEF Republish, vars, disk
    <3> QED  BY <3>1 DEF IndexDescribesBlocks
  <2> QED  BY <2>1, <2>2, GenerateFromIndex
<1> QED  BY <1>1, <1>2, BaseHolds, WritesInvHolds, PTL DEF Spec
=============================================================================

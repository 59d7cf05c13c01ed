--------------------------- MODULE ReceptionProofs ---------------------------
(***************************************************************************)
(* What the receiver has of each block while one publication is on the     *)
(* air: the packets a map holds are in their place in the payload, in      *)
(* memory and on disk, and the receiver implements Reception.              *)
(***************************************************************************)
EXTENDS ReceiverProofs

\* A block in memory whose map could not be allocated: all it ever has is its
\* first packet, and the check of the checksum, which comes right after it,
\* finds the payload size of a block without its last packet.
Unmapped(block) ==
    LET whole == onAir[block.blockNumber + 1]
    IN  /\ block.checksum = crc32c(whole)
        /\ block.payloadSize = NbThrotChunks(whole) * ThrotData

(***************************************************************************)
(* The inductive invariant.  It speaks of the map as well where nothing is *)
(* loaded: what readMapFile leaves of a torn file.                         *)
(***************************************************************************)
FromTheAir == pc \in Handling => packet \in PacketsOf(onAir)

InMemory ==
    /\ Loaded => /\ dataBlock.blockNumber < Len(onAir)
                 /\ IF blockPacketMap = ClosedMap
                    THEN pc \in {"store", "check"} /\ Unmapped(dataBlock)
                    ELSE Resumable(dataBlock, blockPacketMap)
    /\ pc = "accept" /\ Loaded => dataBlock.blockNumber = packet.blockNumber
    /\ ~ Loaded => \/ blockPacketMap = ClosedMap
                   \/ MapOutgrowsBuffer /\ \E b \in BlockNumbers : mapFile[b] = Torn

OnDisk ==
    \A b \in BlockNumbers :
        IsWhole(mapFile[b]) => b < Len(onAir) /\ Resumable(blockFile[b].data, mapFile[b].data)

ResumeInv == FromTheAir /\ InMemory /\ OnDisk

\* What a full map means where 1 << NB_BITS_ITEM never matters.
Complete ==
    pc \in {"check", "write"} /\ blockPacketMap # ClosedMap =>
        Held(blockPacketMap) = 0 .. blockPacketMap.packetTotal - 1

\* The stream holds the file only between its generation and the exit.
StreamInFinale == stream # <<>> => InFinale

-----------------------------------------------------------------------------
(***************************************************************************)
(* Bytes in their place: copying a packet, cutting a payload at its size   *)
(* and putting a block together.                                           *)
(***************************************************************************)
InPlace(payload, whole, n) ==
    SubSeq(payload, n * ThrotData + 1, n * ThrotData + Len(Chunk(whole, n))) = Chunk(whole, n)

\* The copied packet is in its place, and the others stay in theirs.
LEMMA CopyPlaces ==
    ASSUME NEW whole \in Seq(Nat), NEW buffer \in Seq(Nat), Len(whole) <= Len(buffer),
           NEW j \in 0 .. NbThrotChunks(whole) - 1
    PROVE  LET copied == memcpy(buffer, j * ThrotData, Chunk(whole, j))
           IN  /\ InPlace(copied, whole, j)
               /\ \A n \in 0 .. NbThrotChunks(whole) - 1 :
                     InPlace(buffer, whole, n) => InPlace(copied, whole, n)
<1> DEFINE place(n) == n * ThrotData + 1 .. n * ThrotData + Len(Chunk(whole, n))
           copied == memcpy(buffer, j * ThrotData, Chunk(whole, j))
<1>1. \A n \in 0 .. NbThrotChunks(whole) - 1 :
         /\ n * ThrotData \in Nat /\ Len(Chunk(whole, n)) \in 0 .. ThrotData
         /\ n * ThrotData + Len(Chunk(whole, n)) <= Len(buffer)
  BY ChunkPlace, LenProperties
<1>2. copied \in Seq(Nat) /\ Len(copied) = Len(buffer)
  BY <1>1, CopyKeepsBuffer, ChunkPlace
<1>3. \A n \in 0 .. NbThrotChunks(whole) - 1 :
         /\ InPlace(buffer, whole, n) <=> \A i \in place(n) : buffer[i] = whole[i]
         /\ InPlace(copied, whole, n) <=> \A i \in place(n) : copied[i] = whole[i]
  BY <1>1, <1>2, ChunkInPlace DEF InPlace
<1>4. \A n \in 0 .. NbThrotChunks(whole) - 1 : \A i \in place(n) : i \in 1 .. Len(buffer)
  <2> SUFFICES ASSUME NEW n \in 0 .. NbThrotChunks(whole) - 1, NEW i \in place(n)
               PROVE  i \in 1 .. Len(buffer)
    OBVIOUS
  <2>1. /\ n * ThrotData \in Nat /\ Len(Chunk(whole, n)) \in Nat
        /\ n * ThrotData + Len(Chunk(whole, n)) <= Len(buffer)
    BY <1>1, ThrotDataAssumption
  <2> QED  BY <2>1
<1>5. \A i \in 1 .. Len(buffer) :
         copied[i] = IF i \in place(j) THEN Chunk(whole, j)[i - j * ThrotData] ELSE buffer[i]
  <2>1. j * ThrotData \in Nat /\ Len(Chunk(whole, j)) \in Nat
    BY <1>1, ThrotDataAssumption
  <2> SUFFICES ASSUME NEW i \in 1 .. Len(buffer)
               PROVE  copied[i] = IF i \in place(j) THEN Chunk(whole, j)[i - j * ThrotData]
                                  ELSE buffer[i]
    OBVIOUS
  <2>2. i \in place(j) <=> j * ThrotData < i /\ i <= j * ThrotData + Len(Chunk(whole, j))
    BY <2>1
  <2> QED  BY <2>2 DEF memcpy
<1>6. \A i \in place(j) : Chunk(whole, j)[i - j * ThrotData] = whole[i]
  BY ChunkPlace
<1> HIDE DEF copied, place
<1>7. \A i \in place(j) : copied[i] = whole[i]
  BY <1>4, <1>5, <1>6
<1>8. ASSUME NEW n \in 0 .. NbThrotChunks(whole) - 1, \A i \in place(n) : buffer[i] = whole[i],
             NEW i \in place(n)
      PROVE  copied[i] = whole[i]
  BY <1>4, <1>5, <1>7, <1>8
<1>9. InPlace(copied, whole, j)
  BY <1>3, <1>7
<1>10. \A n \in 0 .. NbThrotChunks(whole) - 1 :
          InPlace(buffer, whole, n) => InPlace(copied, whole, n)
  BY <1>3, <1>8
<1> QED  BY <1>9, <1>10 DEF copied

\* The file of a block is cut behind every packet of the block.
LEMMA CutPlaces ==
    ASSUME NEW whole \in Seq(Nat), NEW payload \in Seq(Nat), NEW size \in 1 .. Len(payload),
           Len(whole) <= size, NEW n \in 0 .. NbThrotChunks(whole) - 1,
           InPlace(payload, whole, n)
    PROVE  InPlace(SubSeq(payload, 1, size), whole, n)
<1> DEFINE cut == SubSeq(payload, 1, size)
           place == n * ThrotData + 1 .. n * ThrotData + Len(Chunk(whole, n))
<1>1. \A i \in 1 .. size : payload[i] \in Nat
  BY ElementOfSeq, LenProperties
<1>2. cut \in Seq(Nat) /\ Len(cut) = size /\ \A i \in 1 .. size : cut[i] = payload[i]
  <2>1. size \in Nat /\ Len(payload) \in Nat
    BY LenProperties
  <2>2. /\ cut \in Seq(Nat) /\ Len(cut) = IF 1 <= size THEN size - 1 + 1 ELSE 0
        /\ \A i \in 1 .. size - 1 + 1 : cut[i] = payload[1 + i - 1]
    BY <1>1, <2>1, SubSeqProperties
  <2> HIDE DEF cut
  <2> QED  BY <2>1, <2>2
<1> HIDE DEF cut
<1>3. /\ n * ThrotData \in Nat /\ Len(Chunk(whole, n)) \in Nat
      /\ n * ThrotData + Len(Chunk(whole, n)) <= size /\ Len(payload) \in Nat
  BY ChunkPlace, ThrotDataAssumption, LenProperties
<1>4. \A i \in place : i \in 1 .. size
  BY <1>3
<1>5. \A i \in place : payload[i] = whole[i]
  <2>1. n * ThrotData + Len(Chunk(whole, n)) <= Len(payload)
    BY <1>3
  <2> QED  BY <2>1, ChunkInPlace DEF InPlace
<1>6. \A i \in place : cut[i] = whole[i]
  BY <1>2, <1>4, <1>5
<1>7. InPlace(cut, whole, n)
  BY <1>2, <1>3, <1>6, ChunkInPlace DEF InPlace
<1> QED  BY <1>7 DEF cut

\* With all of its packets in place the block is there.
LEMMA AllInPlace ==
    ASSUME NEW whole \in Seq(Nat), NEW payload \in Seq(Nat), Len(whole) <= Len(payload),
           \A n \in 0 .. NbThrotChunks(whole) - 1 : InPlace(payload, whole, n)
    PROVE  SubSeq(payload, 1, Len(whole)) = whole
<1> DEFINE cut == SubSeq(payload, 1, Len(whole))
<1>1. Len(whole) \in Nat /\ Len(payload) \in Nat
  BY LenProperties
<1>2. \A i \in 1 .. Len(whole) : payload[i] \in Nat
  BY <1>1, ElementOfSeq
<1>3. /\ cut \in Seq(Nat) /\ Len(cut) = Len(whole)
      /\ \A i \in 1 .. Len(whole) : cut[i] = payload[i]
  <2>1. /\ cut \in Seq(Nat) /\ Len(cut) = IF 1 <= Len(whole) THEN Len(whole) - 1 + 1 ELSE 0
        /\ \A i \in 1 .. Len(whole) - 1 + 1 : cut[i] = payload[1 + i - 1]
    BY <1>1, <1>2, SubSeqProperties
  <2> HIDE DEF cut
  <2> QED  BY <1>1, <2>1
<1> HIDE DEF cut
<1>4. ASSUME NEW i \in 1 .. Len(whole)
      PROVE  payload[i] = whole[i]
  <2>1. PICK n \in 0 .. NbThrotChunks(whole) - 1 :
           i \in n * ThrotData + 1 .. n * ThrotData + Len(Chunk(whole, n))
    BY ChunkOfByte
  <2>2. n * ThrotData + Len(Chunk(whole, n)) <= Len(payload)
    BY <1>1, ChunkPlace, ThrotDataAssumption
  <2>3. InPlace(payload, whole, n)
    OBVIOUS
  <2> QED  BY <2>1, <2>2, <2>3, ChunkInPlace DEF InPlace
<1>5. cut = whole
  BY <1>3, <1>4, SeqEqual
<1> QED  BY <1>5 DEF cut

-----------------------------------------------------------------------------
(***************************************************************************)
(* Blocks that belong to the publication, and what Resumable says of them. *)
(***************************************************************************)
\* A block of the file on the air is a nonempty string of bytes.
LEMMA BlockOnAir ==
    ASSUME Inv, NEW b \in Nat, b < Len(onAir)
    PROVE  /\ onAir[b + 1] \in Seq(Nat) /\ Len(onAir[b + 1]) \in Nat \ {0}
           /\ NbThrotChunks(onAir[b + 1]) \in Nat \ {0}
           /\ NbThrotChunks(onAir[b + 1]) * ThrotData \in Nat
           /\ Len(onAir[b + 1]) < NbThrotChunks(onAir[b + 1]) * ThrotData
<1>1. /\ onAir \in Seq(Seq(Nat)) /\ \A n \in 1 .. Len(onAir) : onAir[n] # <<>>
      /\ Len(onAir) \in Nat
  BY PublicationsAssumption, LenProperties DEF Inv, Base, TypeOK
<1>2. b + 1 \in 1 .. Len(onAir)
  BY <1>1
<1>3. onAir[b + 1] \in Seq(Nat) /\ onAir[b + 1] # <<>>
  BY <1>1, <1>2, ElementOfSeq
<1> DEFINE n == Len(onAir[b + 1])
           q == n \div ThrotData
<1>4. n \in Nat \ {0}
  BY <1>3, EmptySeq, LenProperties
<1>5. q \in Nat /\ n < ThrotData * q + ThrotData
  BY <1>4, ChunkCount
<1>6. NbThrotChunks(onAir[b + 1]) = q + 1
  BY DEF NbThrotChunks
<1> HIDE DEF q, n
<1>7. (q + 1) * ThrotData = ThrotData * q + ThrotData /\ (q + 1) * ThrotData \in Nat
  BY <1>5, ThrotDataAssumption
<1> QED  BY <1>3, <1>4, <1>5, <1>6, <1>7 DEF n

\* The payload size never falls below the block.
LEMMA SizeCovers ==
    ASSUME Inv, NEW block \in Block, NEW map, block.blockNumber < Len(onAir),
           Resumable(block, map) \/ Unmapped(block)
    PROVE  Len(onAir[block.blockNumber + 1]) <= block.payloadSize
<1>1. block.blockNumber \in Nat
  BY MaximaAssumption DEF Block, BlockNumbers
<1> DEFINE whole == onAir[block.blockNumber + 1]
<1>2. /\ Len(whole) \in Nat /\ NbThrotChunks(whole) * ThrotData \in Nat
      /\ Len(whole) < NbThrotChunks(whole) * ThrotData
  BY <1>1, BlockOnAir
<1>3. \/ block.payloadSize = Len(whole)
      \/ block.payloadSize = NbThrotChunks(whole) * ThrotData
  BY DEF Resumable, Unmapped
<1> QED  BY <1>2, <1>3

\* A map holds packets of its block only.
LEMMA HeldAreNumbers ==
    ASSUME NEW map, NEW n \in Held(map)
    PROVE  n \in 0 .. map.packetTotal - 1
BY DEF Held

\* A block is written to disk as it can be taken up again.
LEMMA ImageResumable ==
    ASSUME Inv, NEW block \in Block, block.payloadSize \in 1 .. Len(block.payload),
           NEW map, block.blockNumber < Len(onAir), Resumable(block, map)
    PROVE  Resumable(BlockImage(block), map)
<1> DEFINE whole == onAir[block.blockNumber + 1]
           image == BlockImage(block)
<1>1. block.blockNumber \in Nat /\ block.payload \in Seq(Nat)
  BY MaximaAssumption DEF Block, BlockNumbers
<1>2. whole \in Seq(Nat) /\ Len(whole) <= block.payloadSize
  BY <1>1, BlockOnAir, SizeCovers
<1>3. /\ image.blockNumber = block.blockNumber /\ image.checksum = block.checksum
      /\ image.payloadSize = block.payloadSize
      /\ image.payload = SubSeq(block.payload, 1, block.payloadSize)
  BY DEF BlockImage, Block
<1>4. /\ block.checksum = crc32c(whole) /\ map.packetTotal = NbThrotChunks(whole)
      /\ block.payloadSize = IF map.packetTotal - 1 \in Held(map)
                             THEN Len(whole) ELSE map.packetTotal * ThrotData
      /\ \A n \in Held(map) : InPlace(block.payload, whole, n)
  BY DEF Resumable, InPlace
<1> HIDE DEF whole, image
<1>5. \A n \in Held(map) : InPlace(image.payload, whole, n)
  BY <1>1, <1>2, <1>3, <1>4, CutPlaces, HeldAreNumbers
<1> QED  BY <1>3, <1>4, <1>5 DEF Resumable, InPlace, whole, image

\* A packet of the publication, as it is in its block.
LEMMA PacketOnAir ==
    ASSUME Inv, FromTheAir, pc \in Handling
    PROVE  LET whole == onAir[packet.blockNumber + 1]
           IN  /\ packet.blockNumber \in Nat /\ packet.blockNumber < Len(onAir)
               /\ packet.checksum = crc32c(whole)
               /\ packet.packetTotal = NbThrotChunks(whole)
               /\ packet.packetNumber \in 0 .. NbThrotChunks(whole) - 1
               /\ packet.payload = Chunk(whole, packet.packetNumber)
<1>1. packet \in PacketsOf(onAir)
  BY DEF FromTheAir
<1>2. PICK b \in {n \in 0 .. Len(onAir) - 1 : BlockIsSent(onAir[n + 1])} :
         packet \in {Packet(onAir, b, m) : m \in 0 .. NbThrotChunks(onAir[b + 1]) - 1}
  BY <1>1, Zenon DEF PacketsOf
<1>3. PICK m \in 0 .. NbThrotChunks(onAir[b + 1]) - 1 : packet = Packet(onAir, b, m)
  BY <1>2
<1>4. b \in 0 .. Len(onAir) - 1 /\ Len(onAir) \in Nat
  <2>1. onAir \in Seq(Seq(Nat))
    BY PublicationsAssumption DEF Inv, Base, TypeOK
  <2> QED  BY <1>2, <2>1, LenProperties
<1>5. /\ packet.blockNumber = b /\ packet.checksum = crc32c(onAir[b + 1])
      /\ packet.packetTotal = NbThrotChunks(onAir[b + 1]) /\ packet.packetNumber = m
      /\ packet.payload = Chunk(onAir[b + 1], m)
  BY <1>3 DEF Packet
<1> QED  BY <1>4, <1>5

\* A new block has nothing yet.
LEMMA NewBlockResumable ==
    ASSUME Inv, FromTheAir, pc \in Handling, ~ IsLastPacket(packet)
    PROVE  /\ Resumable(NewBlock(packet), initMap(packet.packetTotal))
           /\ Unmapped(NewBlock(packet))
<1> DEFINE block == NewBlock(packet)
           map == initMap(packet.packetTotal)
<1>1. /\ packet.checksum = crc32c(onAir[packet.blockNumber + 1])
      /\ packet.packetTotal = NbThrotChunks(onAir[packet.blockNumber + 1])
  BY PacketOnAir
<1>2. packet.packetTotal \in Nat \ {0}
  BY PacketInHand DEF Inv
<1>3. /\ block.blockNumber = packet.blockNumber /\ block.checksum = packet.checksum
      /\ block.payloadSize = packet.packetTotal * ThrotData
  BY NewBlockFacts DEF NewBlock, Inv
<1>4. map.packetTotal = packet.packetTotal /\ Held(map) = {}
  BY <1>2, InitMapEmpty
<1> HIDE DEF block, map
<1>5. Resumable(block, map) /\ Unmapped(block)
  BY <1>1, <1>3, <1>4 DEF Resumable, Unmapped
<1> QED  BY <1>5 DEF block, map

(***************************************************************************)
(* Storing a packet: it always fits, and the block remains resumable.      *)
(***************************************************************************)
LEMMA PacketFits ==
    ASSUME Inv, ResumeInv, pc = "store"
    PROVE  /\ Len(packet.payload) <= maxPacketSize
           /\ maxPacketSize * packet.packetNumber + Len(packet.payload) <= AdjustedSize
           /\ maxPacketSize * packet.packetNumber + Len(packet.payload)
                 <= Len(dataBlock.payload)
           /\ maxPacketSize * packet.packetNumber = packet.packetNumber * ThrotData
<1> DEFINE whole == onAir[packet.blockNumber + 1]
           j == packet.packetNumber
<1>1. /\ packet.blockNumber \in Nat /\ packet.blockNumber < Len(onAir)
      /\ packet.packetTotal = NbThrotChunks(whole)
      /\ j \in 0 .. NbThrotChunks(whole) - 1 /\ packet.payload = Chunk(whole, j)
  BY PacketOnAir DEF ResumeInv, Handling
<1>2. whole \in Seq(Nat) /\ Len(whole) \in Nat
  BY <1>1, BlockOnAir
<1>3. /\ Loaded /\ maxPacketSize = ThrotData /\ dataBlock.blockNumber = packet.blockNumber
      /\ dataBlock \in Block
  BY DEF Inv, Base, Phases, Holding, BlockInMemory, TypeOK
<1>4. Len(whole) <= dataBlock.payloadSize
  BY <1>3, SizeCovers DEF ResumeInv, InMemory
<1>5. /\ j * ThrotData \in Nat /\ Len(Chunk(whole, j)) \in 0 .. ThrotData
      /\ j * ThrotData + Len(Chunk(whole, j)) <= Len(whole)
  BY <1>1, <1>2, ChunkPlace
<1>6. maxPacketSize * j = j * ThrotData
  BY <1>1, <1>3, ThrotDataAssumption
<1>7. /\ AdjustedSize \in 1 .. dataBlock.payloadSize
      /\ ~ IsLastPacket(packet) => AdjustedSize = dataBlock.payloadSize
      /\ IsLastPacket(packet) => maxPacketSize * j + Len(packet.payload) = AdjustedSize
  BY SizeAdjusted
<1>8. dataBlock.payloadSize \in Nat
  BY <1>3 DEF Block
<1> HIDE DEF whole, j
<1>9. /\ Len(packet.payload) <= maxPacketSize
      /\ maxPacketSize * j + Len(packet.payload) <= AdjustedSize
  BY <1>1, <1>2, <1>3, <1>4, <1>5, <1>6, <1>7, <1>8, ThrotDataAssumption
<1>10. maxPacketSize * j + Len(packet.payload) <= Len(dataBlock.payload)
  BY <1>9, FitsPayload DEF j
<1> QED  BY <1>6, <1>9, <1>10 DEF j

\* The block with the stored packet, and its map, are resumable as before.
LEMMA StoredResumable ==
    ASSUME Inv, ResumeInv, pc = "store", blockPacketMap # ClosedMap,
           NEW block,
           block = [dataBlock EXCEPT
                      !.payloadSize = AdjustedSize,
                      !.payload = memcpy(@, maxPacketSize * packet.packetNumber, packet.payload)]
    PROVE  Resumable(block, setMap(blockPacketMap, packet.packetNumber))
<1> DEFINE whole == onAir[packet.blockNumber + 1]
           j == packet.packetNumber
           map == setMap(blockPacketMap, j)
<1>1. /\ packet.blockNumber \in Nat /\ packet.blockNumber < Len(onAir)
      /\ packet.packetTotal = NbThrotChunks(whole)
      /\ j \in 0 .. NbThrotChunks(whole) - 1 /\ packet.payload = Chunk(whole, j)
  BY PacketOnAir DEF ResumeInv, Handling
<1>2. whole \in Seq(Nat) /\ Len(whole) \in Nat /\ NbThrotChunks(whole) \in Nat \ {0}
  BY <1>1, BlockOnAir
<1>3. /\ Loaded /\ maxPacketSize = ThrotData /\ dataBlock.blockNumber = packet.blockNumber
      /\ dataBlock \in Block /\ dataBlock.payloadSize \in 1 .. Len(dataBlock.payload)
      /\ IsMap(blockPacketMap)
  BY DEF Inv, Base, Phases, Holding, BlockInMemory, TypeOK, Coherent
<1>4. Resumable(dataBlock, blockPacketMap)
  BY <1>3 DEF ResumeInv, InMemory
<1>5. /\ dataBlock.checksum = crc32c(whole) /\ blockPacketMap.packetTotal = NbThrotChunks(whole)
      /\ dataBlock.payloadSize = IF blockPacketMap.packetTotal - 1 \in Held(blockPacketMap)
                                 THEN Len(whole) ELSE blockPacketMap.packetTotal * ThrotData
      /\ \A n \in Held(blockPacketMap) : InPlace(dataBlock.payload, whole, n)
  BY <1>3, <1>4 DEF Resumable, InPlace
<1>6. dataBlock.payload \in Seq(Nat) /\ Len(whole) <= Len(dataBlock.payload)
  <2>1. Len(whole) <= dataBlock.payloadSize
    BY <1>3, <1>4, SizeCovers DEF ResumeInv, InMemory
  <2>2. dataBlock.payload \in Seq(Nat) /\ dataBlock.payloadSize \in Nat
    BY <1>3 DEF Block
  <2> QED  BY <1>2, <1>3, <2>1, <2>2, LenProperties
<1>7. map.packetTotal = NbThrotChunks(whole) /\ Held(map) = Held(blockPacketMap) \cup {j}
  BY <1>1, <1>2, <1>3, <1>5, SetMapAdds
<1>8. /\ block.blockNumber = packet.blockNumber /\ block.checksum = crc32c(whole)
      /\ block.payloadSize = AdjustedSize
      /\ block.payload = memcpy(dataBlock.payload, j * ThrotData, Chunk(whole, j))
  <2>1. maxPacketSize * j = j * ThrotData
    BY PacketFits
  <2> QED  BY <1>1, <1>3, <1>5, <2>1 DEF Block
<1>9. \A n \in Held(map) : InPlace(block.payload, whole, n)
  <2>1. \A n \in Held(blockPacketMap) : n \in 0 .. NbThrotChunks(whole) - 1
    BY <1>5, HeldAreNumbers
  <2> HIDE DEF whole, j, map
  <2> QED  BY <1>1, <1>2, <1>5, <1>6, <1>7, <1>8, <2>1, CopyPlaces
<1>10. block.payloadSize = IF map.packetTotal - 1 \in Held(map)
                           THEN Len(whole) ELSE map.packetTotal * ThrotData
  <2>1. IsLastPacket(packet) <=> j = map.packetTotal - 1
    BY <1>1, <1>7 DEF IsLastPacket
  <2>2. CASE IsLastPacket(packet)
    <3>1. AdjustedSize = maxPacketSize * j + Len(packet.payload)
      BY <2>2, SizeAdjusted
    <3>2. maxPacketSize * j = j * ThrotData
      BY PacketFits
    <3>3. j * ThrotData + Len(Chunk(whole, j)) = Len(whole)
      BY <1>1, <1>2, <1>7, <2>1, <2>2, ChunkPlace
    <3> HIDE DEF map, j, whole
    <3> QED  BY <1>1, <1>7, <1>8, <2>1, <2>2, <3>1, <3>2, <3>3 DEF j
  <2>3. CASE ~ IsLastPacket(packet)
    <3>1. AdjustedSize = dataBlock.payloadSize
      BY <2>3, SizeAdjusted
    <3> HIDE DEF map, j, whole
    <3> QED  BY <1>5, <1>7, <1>8, <2>1, <2>3, <3>1
  <2> QED  BY <2>2, <2>3
<1> HIDE DEF map
<1>11. Resumable(block, map)
  BY <1>7, <1>8, <1>9, <1>10 DEF Resumable, InPlace
<1> QED  BY <1>11 DEF map

-----------------------------------------------------------------------------
(***************************************************************************)
(* The steps.                                                              *)
(***************************************************************************)
\* A map file, but for the one SaveMap writes, is the one that was there, and
\* so is the block file it goes with.
LEMMA WaitingKept ==
    ASSUME Inv, Next, ~ SaveMap, NEW b \in BlockNumbers, IsWhole(mapFile'[b])
    PROVE  mapFile'[b] = mapFile[b] /\ blockFile'[b] = blockFile[b]
<1>1. ~ IsWhole(Torn) /\ ~ IsWhole(Absent)
  BY DEF IsWhole, Torn, Absent
<1>2. DOMAIN blockFile = BlockNumbers /\ DOMAIN mapFile = BlockNumbers
  BY DEF Inv, Base, TypeOK
<1>3. Loaded /\ dataBlock.blockNumber = b => ~ IsWhole(mapFile[b])
  BY DEF Inv, MapHasStoredBlock
<1>4. CASE \/ Start \/ Republish \/ ResetNothing \/ ResetRemoveIndex \/ IgnorePacket
           \/ ContinueBlock \/ StorePacket \/ CheckPastPayload \/ DropCorruptBlock \/ KeepBlock
           \/ CreateIndex \/ GenerateDataFile \/ Exit
           \/ \E p \in PacketsOf(onAir) : ReceivePacket(p)
  <2>1. mapFile' = mapFile /\ blockFile' = blockFile
    BY <1>4
       DEF Start, Republish, ResetNothing, ResetRemoveIndex, IgnorePacket, ContinueBlock,
           StorePacket, CheckPastPayload, DropCorruptBlock, KeepBlock, CreateIndex,
           GenerateDataFile, Exit, ReceivePacket, disk
  <2> QED  BY <2>1
<1>5. CASE ResetRemoveBlock
  <2> DEFINE n == indexFile.data.items[cursor].number
  <2>1. /\ IsWhole(indexFile) /\ cursor < indexFile.data.nbItems /\ mapFile' = mapFile
        /\ blockFile' = blockFile \/ blockFile' = [blockFile EXCEPT ![n] = Absent]
    BY <1>5 DEF ResetRemoveBlock
  <2>2. cursor \in DOMAIN indexFile.data.items
    <3>1. IsIndexTable(indexFile.data) /\ cursor \in Nat
      BY <2>1, <1>1, MaximaAssumption DEF Inv, Base, TypeOK
    <3> QED  BY <2>1, <3>1, MaximaAssumption DEF IsIndexTable
  <2>3. n = cursor /\ ~ IsWhole(mapFile[n])
    BY <2>1, <2>2 DEF Inv, Base, IndexByNumber, IndexWithoutMaps
  <2> HIDE DEF n
  <2> QED  BY <1>2, <2>1, <2>3
<1>6. CASE SaveBlock \/ WriteBlock
  <2>1. Loaded /\ mapFile' = mapFile
    BY <1>6 DEF SaveBlock, WriteBlock, Inv, Base, Phases, Holding
  <2>2. b # dataBlock.blockNumber => blockFile'[b] = blockFile[b]
    BY <1>6, BlockFileWritten DEF Inv
  <2> QED  BY <1>3, <2>1, <2>2
<1>7. CASE Crash
  <2>1. CASE pc \in {"save", "write"}
    <3>1. \E f : blockFile' = [blockFile EXCEPT ![dataBlock.blockNumber] = f]
      BY <1>7, <2>1 DEF Crash
    <3>2. mapFile' = mapFile /\ Loaded
      BY <1>7, <2>1 DEF Crash, Inv, Base, Phases, Holding
    <3> QED  BY <1>2, <1>3, <3>1, <3>2
  <2>2. CASE pc = "savemap"
    <3>1. blockFile' = blockFile
      BY <1>7, <2>2 DEF Crash
    <3>2. PICK f \in Tear(mapFile[dataBlock.blockNumber]) :
             mapFile' = [mapFile EXCEPT ![dataBlock.blockNumber] = f]
      BY <1>7, <2>2 DEF Crash
    <3>3. mapFile'[b] \in {mapFile[b], Torn}
      BY <1>2, <3>2 DEF Tear
    <3> QED  BY <1>1, <3>1, <3>3
  <2>3. CASE pc \notin {"save", "write", "savemap"}
    <3>1. blockFile' = blockFile /\ mapFile' = mapFile
      BY <1>7, <2>3 DEF Crash
    <3> QED  BY <3>1
  <2> QED  BY <2>1, <2>2, <2>3
<1>8. CASE RestoreNext \/ BeginBlock
  <2>1. blockFile' = blockFile /\ RemoveMapFile(packet.blockNumber) /\ pc \in Handling
    BY <1>8 DEF RestoreNext, BeginBlock, RestoreBlock, Handling
  <2>2. packet.blockNumber \in BlockNumbers
    BY <2>1, PacketInHand DEF Inv
  <2> QED  BY <2>1, <2>2, MapRemoved
<1> QED
  BY <1>4, <1>5, <1>6, <1>7, <1>8 DEF Next, Reset, Handle, Finish

\* Every step keeps the blocks on disk resumable.
LEMMA OnDiskStep ==
    ASSUME Inv, ResumeInv, Next, onAir' = onAir
    PROVE  OnDisk'
<1> SUFFICES ASSUME NEW b \in BlockNumbers, IsWhole(mapFile'[b])
             PROVE  b < Len(onAir) /\ Resumable(blockFile[b].data, mapFile[b].data)'
  BY DEF OnDisk
<1>1. ASSUME mapFile'[b] = mapFile[b], blockFile'[b] = blockFile[b]
      PROVE  b < Len(onAir) /\ Resumable(blockFile[b].data, mapFile[b].data)'
  <2>1. b < Len(onAir) /\ Resumable(blockFile[b].data, mapFile[b].data)
    BY <1>1 DEF ResumeInv, OnDisk
  <2> QED  BY <1>1, <2>1 DEF Resumable
<1>2. CASE SaveMap
  <2> DEFINE n == dataBlock.blockNumber
  <2>1. PICK f \in WriteOutcomes(mapFile[n], blockPacketMap) :
           mapFile' = [mapFile EXCEPT ![n] = f]
    BY <1>2 DEF SaveMap
  <2>2. pc = "savemap" /\ blockFile' = blockFile
    BY <1>2 DEF SaveMap
  <2>3. /\ Loaded /\ dataBlock \in Block /\ dataBlock.payloadSize \in 1 .. Len(dataBlock.payload)
        /\ blockFile[n] = Whole(BlockImage(dataBlock)) /\ DOMAIN mapFile = BlockNumbers
    BY <2>2 DEF Inv, Base, Phases, Holding, BlockInMemory, TypeOK, Coherent, HalfSaved
  <2>4. CASE b = n
    <3>1. n < Len(onAir) /\ Resumable(dataBlock, blockPacketMap)
      BY <2>2, <2>3 DEF ResumeInv, InMemory
    <3>2. mapFile'[b] \in {Whole(blockPacketMap), mapFile[b], Torn}
      BY <2>1, <2>3, <2>4, WriteLeaves
    <3>3. CASE mapFile'[b] = Whole(blockPacketMap)
      <4>1. mapFile'[b].data = blockPacketMap /\ blockFile'[b].data = BlockImage(dataBlock)
        BY <2>2, <2>3, <2>4, <3>3 DEF Whole
      <4>2. Resumable(BlockImage(dataBlock), blockPacketMap)
        BY <2>3, <3>1, ImageResumable
      <4> QED  BY <2>4, <3>1, <4>1, <4>2 DEF Resumable
    <3>4. CASE mapFile'[b] = mapFile[b]
      BY <1>1, <2>2, <3>4
    <3> QED  BY <3>2, <3>3, <3>4 DEF IsWhole, Torn
  <2>5. CASE b # n
    BY <1>1, <2>1, <2>2, <2>3, <2>5
  <2> QED  BY <2>4, <2>5
<1>3. CASE ~ SaveMap
  BY <1>1, <1>3, WaitingKept
<1> QED  BY <1>2, <1>3

\* The packet in hand stays one of the publication.
LEMMA FromTheAirStep ==
    ASSUME Inv, ResumeInv, Next, onAir' = onAir
    PROVE  FromTheAir'
<1> USE DEF Handling
<1>1. ASSUME NEW p \in PacketsOf(onAir), ReceivePacket(p)
      PROVE  FromTheAir'
  BY <1>1 DEF ReceivePacket, FromTheAir
<1>2. CASE Start \/ Crash \/ Reset \/ Finish
  <2>1. pc' \notin Handling
    BY <1>2
       DEF Start, Crash, Reset, ResetNothing, ResetRemoveBlock, ResetRemoveIndex, AfterReset,
           FailReset, Finish, CreateIndex, GenerateDataFile, Exit
  <2> QED  BY <2>1 DEF FromTheAir
<1>3. CASE Republish
  BY <1>3 DEF Republish, memory, ResumeInv, FromTheAir
<1>4. CASE SaveBlock \/ SaveMap \/ RestoreNext
  <2>1. pc \in Handling /\ packet' = packet
    BY <1>4 DEF SaveBlock, SaveMap, RestoreNext
  <2> QED  BY <2>1 DEF ResumeInv, FromTheAir
<1>5. CASE \/ IgnorePacket \/ BeginBlock \/ ContinueBlock \/ StorePacket
           \/ CheckPastPayload \/ DropCorruptBlock \/ KeepBlock \/ WriteBlock
  <2>1. pc \in Handling /\ (packet' = packet \/ pc' \notin Handling)
    BY <1>5
       DEF IgnorePacket, BeginBlock, RestoreBlock, StartBlock, ContinueBlock, StorePacket,
           CheckPastPayload, DropCorruptBlock, KeepBlock, WriteBlock, FreePacket, memory,
           Handling
  <2> QED  BY <2>1 DEF ResumeInv, FromTheAir
<1> QED  BY <1>1, <1>2, <1>3, <1>4, <1>5 DEF Next, Handle

\* Where a step leaves the block and its map alone.
LEMMA MemoryKept ==
    ASSUME Inv, ResumeInv, onAir' = onAir, UNCHANGED <<dataBlock, blockPacketMap>>,
           \A b \in BlockNumbers : mapFile[b] = Torn => mapFile'[b] = Torn,
           Loaded /\ blockPacketMap = ClosedMap => pc' \in {"store", "check"},
           Loaded /\ pc' = "accept" => dataBlock.blockNumber = packet'.blockNumber
    PROVE  InMemory'
<1>1. Loaded' = Loaded
  BY DEF Loaded
<1>2. Resumable(dataBlock, blockPacketMap)' = Resumable(dataBlock, blockPacketMap)
      /\ Unmapped(dataBlock)' = Unmapped(dataBlock)
  BY DEF Resumable, Unmapped
<1> QED  BY <1>1, <1>2 DEF ResumeInv, InMemory

\* A released block leaves nothing to say.
LEMMA MemoryReleased ==
    ASSUME dataBlock' = NoBlock, blockPacketMap' = ClosedMap
    PROVE  InMemory'
BY NothingLoaded DEF InMemory, Loaded

\* The payload of a block without its last packet is longer than the block, so
\* that a block without a map never gets past the check of the checksum.
LEMMA UnmappedFails ==
    ASSUME Inv, ResumeInv, Loaded, blockPacketMap = ClosedMap
    PROVE  ~ ChecksumMatches
<1> DEFINE whole == onAir[dataBlock.blockNumber + 1]
           cut == SubSeq(dataBlock.payload, 1, dataBlock.payloadSize)
<1>1. /\ dataBlock \in Block /\ dataBlock.payloadSize \in 1 .. Len(dataBlock.payload)
      /\ dataBlock.blockNumber < Len(onAir) /\ Unmapped(dataBlock)
  BY DEF Inv, Base, TypeOK, BlockInMemory, Coherent, ResumeInv, InMemory
<1>2. dataBlock.blockNumber \in Nat
  BY <1>1, MaximaAssumption DEF Block, BlockNumbers
<1>3. Len(whole) < dataBlock.payloadSize /\ dataBlock.checksum = crc32c(whole)
  BY <1>1, <1>2, BlockOnAir DEF Unmapped
<1>4. Len(cut) = dataBlock.payloadSize
  BY <1>1, ImageOfBlock
<1>5. Len(whole) \in Nat /\ dataBlock.payloadSize \in Nat
  BY <1>1, <1>2, BlockOnAir DEF Block
<1>6. cut # whole
  BY <1>3, <1>4, <1>5
<1> QED  BY <1>3, <1>6 DEF ChecksumMatches, crc32c

\* A block with all of its packets does.
LEMMA CompleteMatches ==
    ASSUME Inv, ResumeInv, Loaded, blockPacketMap # ClosedMap,
           Held(blockPacketMap) = 0 .. blockPacketMap.packetTotal - 1
    PROVE  ChecksumMatches
<1> DEFINE whole == onAir[dataBlock.blockNumber + 1]
<1>1. /\ dataBlock \in Block /\ dataBlock.payloadSize \in 1 .. Len(dataBlock.payload)
      /\ dataBlock.blockNumber < Len(onAir) /\ Resumable(dataBlock, blockPacketMap)
  BY DEF Inv, Base, TypeOK, BlockInMemory, Coherent, ResumeInv, InMemory
<1>2. dataBlock.blockNumber \in Nat /\ dataBlock.payload \in Seq(Nat)
  BY <1>1, MaximaAssumption DEF Block, BlockNumbers
<1>3. whole \in Seq(Nat) /\ NbThrotChunks(whole) \in Nat \ {0} /\ Len(whole) \in Nat
  BY <1>1, <1>2, BlockOnAir
<1>4. /\ dataBlock.checksum = crc32c(whole) /\ blockPacketMap.packetTotal = NbThrotChunks(whole)
      /\ dataBlock.payloadSize = IF blockPacketMap.packetTotal - 1 \in Held(blockPacketMap)
                                 THEN Len(whole) ELSE blockPacketMap.packetTotal * ThrotData
      /\ \A n \in Held(blockPacketMap) : InPlace(dataBlock.payload, whole, n)
  BY <1>1 DEF Resumable, InPlace
<1> HIDE DEF whole
<1>5. blockPacketMap.packetTotal - 1 \in Held(blockPacketMap)
  BY <1>3, <1>4
<1>6. dataBlock.payloadSize = Len(whole) /\ Len(whole) <= Len(dataBlock.payload)
  BY <1>1, <1>3, <1>4, <1>5
<1>7. SubSeq(dataBlock.payload, 1, dataBlock.payloadSize) = whole
  BY <1>2, <1>3, <1>4, <1>6, AllInPlace
<1> QED  BY <1>4, <1>7 DEF ChecksumMatches

\* What is taken up again from disk.
LEMMA RestoredInMemory ==
    ASSUME Inv, ResumeInv, onAir' = onAir, NEW b \in BlockNumbers, Restorable(b),
           dataBlock' = blockFile[b].data, blockPacketMap' = mapFile[b].data,
           pc' = "accept" => packet'.blockNumber = b
    PROVE  InMemory'
<1>1. /\ IsWhole(mapFile[b]) /\ dataBlock'.blockNumber = b /\ blockPacketMap' # ClosedMap
      /\ dataBlock' \in Block /\ Coherent(dataBlock', blockPacketMap')
  BY StoredBlock DEF Restorable
<1>2. Loaded'
  BY <1>1, CoherentLoaded DEF Loaded
<1>3. b < Len(onAir) /\ Resumable(blockFile[b].data, mapFile[b].data)
  BY <1>1 DEF ResumeInv, OnDisk
<1>4. Resumable(dataBlock, blockPacketMap)'
  BY <1>3 DEF Resumable
<1> QED  BY <1>1, <1>2, <1>3, <1>4 DEF InMemory

\* What is left when there was nothing to take up.
LEMMA UnrestoredInMemory ==
    ASSUME Inv, ResumeInv, ~ Loaded, NEW b \in BlockNumbers, ~ Restorable(b),
           RemoveMapFile(b), dataBlock' = dataBlock, blockPacketMap' \in UnrestoredMaps(b)
    PROVE  InMemory'
<1>1. ~ Loaded'
  BY DEF Loaded
<1>2. ~ IsWhole(mapFile[b])
  BY StoredBlock
<1>3. mapFile' = mapFile
  BY <1>2 DEF RemoveMapFile
<1>4. \/ blockPacketMap' = blockPacketMap
      \/ MapOutgrowsBuffer /\ mapFile[b] = Torn
  BY <1>2 DEF UnrestoredMaps
<1> QED  BY <1>1, <1>3, <1>4 DEF ResumeInv, InMemory

\* A block that is begun or restored is resumable.
LEMMA BeginBlockInMemory ==
    ASSUME Inv, ResumeInv, onAir' = onAir, BeginBlock
    PROVE  InMemory'
<1> DEFINE b == packet.blockNumber
<1>1. /\ pc = "accept" /\ ~ Loaded /\ ~ IsLastPacket(packet)
      /\ RestoreBlock(b, "store", StartBlock(packet))
  BY DEF BeginBlock
<1>2. /\ b \in BlockNumbers /\ b < Len(onAir) /\ packet.packetTotal \in Nat \ {0}
  BY <1>1, PacketInHand, PacketOnAir DEF Handling, ResumeInv, Inv
<1>3. RemoveMapFile(b)
  BY <1>1 DEF RestoreBlock
<1>4. CASE Restorable(b) /\ dataBlock' = blockFile[b].data /\ blockPacketMap' = mapFile[b].data
           /\ pc' = "store"
  BY <1>2, <1>4, RestoredInMemory
<1>5. CASE ~ Restorable(b) /\ StartBlock(packet)
  <2>1. CASE /\ dataBlock' = NewBlock(packet) /\ blockPacketMap' \in NewMaps(packet.packetTotal)
             /\ pc' = "store"
    <3>1. dataBlock'.blockNumber = b /\ initMap(packet.packetTotal) # ClosedMap
      BY <1>1, <2>1, NewBlockFacts DEF Handling, Inv
    <3>2. Loaded'
      BY <1>1, <2>1, NewBlockFacts DEF Handling, Inv, Loaded
    <3>3. /\ Resumable(NewBlock(packet), initMap(packet.packetTotal))
          /\ Unmapped(NewBlock(packet))
      BY <1>1, NewBlockResumable DEF Handling, ResumeInv
    <3>4. blockPacketMap' \in {initMap(packet.packetTotal), ClosedMap}
      BY <2>1 DEF NewMaps
    <3>5. blockPacketMap' = initMap(packet.packetTotal) => Resumable(dataBlock, blockPacketMap)'
      BY <2>1, <3>3 DEF Resumable
    <3>6. Unmapped(dataBlock)'
      BY <2>1, <3>3 DEF Unmapped
    <3> QED  BY <1>2, <2>1, <3>1, <3>2, <3>4, <3>5, <3>6 DEF InMemory
  <2>2. CASE dataBlock' = dataBlock /\ blockPacketMap' \in UnrestoredMaps(b)
    BY <1>1, <1>2, <1>3, <1>5, <2>2, UnrestoredInMemory
  <2> QED  BY <1>5, <2>1, <2>2 DEF StartBlock
<1>6. CASE IsWhole(mapFile[b]) /\ blockFile[b] = Torn
  BY <1>2, <1>6, StoredBlock
<1> QED  BY <1>1, <1>4, <1>5, <1>6 DEF RestoreBlock

\* A block restored at a switch is resumable.
LEMMA RestoreNextInMemory ==
    ASSUME Inv, ResumeInv, onAir' = onAir, RestoreNext
    PROVE  InMemory'
<1> DEFINE b == packet.blockNumber
           missing == /\ blockPacketMap' \in UnrestoredMaps(b)
                      /\ pc' = "accept"
                      /\ UNCHANGED dataBlock
<1>1. pc = "restore" /\ ~ Loaded /\ packet' = packet /\ RestoreBlock(b, "accept", missing)
  BY DEF RestoreNext, Inv, Base, Phases, Holding
<1>2. b \in BlockNumbers
  BY <1>1, PacketInHand DEF Handling, Inv
<1>3. CASE Restorable(b) /\ dataBlock' = blockFile[b].data /\ blockPacketMap' = mapFile[b].data
  BY <1>1, <1>2, <1>3, RestoredInMemory
<1>4. CASE ~ Restorable(b) /\ missing /\ RemoveMapFile(b)
  BY <1>1, <1>2, <1>4, UnrestoredInMemory
<1>5. CASE IsWhole(mapFile[b]) /\ blockFile[b] = Torn
  BY <1>2, <1>5, StoredBlock
<1> QED  BY <1>1, <1>3, <1>4, <1>5 DEF RestoreBlock

\* A block stays resumable when a packet is stored.
LEMMA StorePacketInMemory ==
    ASSUME Inv, ResumeInv, onAir' = onAir, StorePacket
    PROVE  InMemory'
<1> DEFINE offset == maxPacketSize * packet.packetNumber
           block == [dataBlock EXCEPT !.payloadSize = AdjustedSize,
                                      !.payload = memcpy(@, offset, packet.payload)]
           map == setMap(blockPacketMap, packet.packetNumber)
<1>1. pc = "store" /\ Loaded /\ dataBlock \in Block /\ IsMap(blockPacketMap)
  BY DEF StorePacket, Inv, Base, Phases, Holding, TypeOK
<1>2. /\ ~ (IsLastPacket(packet) /\ Len(packet.payload) > maxPacketSize)
      /\ offset + Len(packet.payload) <= AdjustedSize
      /\ ~ offset + Len(packet.payload) > Len(dataBlock.payload)
  <2>1. Len(packet.payload) \in Nat /\ maxPacketSize \in Nat
    BY <1>1, PacketInHand, ThrotDataAssumption DEF Handling, Inv, Base, TypeOK
  <2>2. Len(dataBlock.payload) \in Nat /\ packet.packetNumber \in Nat
    BY <1>1, PacketInHand, LenProperties DEF Handling, Inv, Block
  <2> QED  BY <1>1, <2>1, <2>2, PacketFits
<1>3. /\ dataBlock' = block /\ blockPacketMap' = map
      /\ pc' \in {"check", "receive"}
      /\ \E wide \in WideShift : IF isMapFull(map, wide) THEN pc' = "check" ELSE FreePacket
  BY <1>2 DEF StorePacket, FreePacket
<1>4. /\ block.blockNumber = dataBlock.blockNumber /\ block.checksum = dataBlock.checksum
      /\ block.payloadSize = AdjustedSize
  BY <1>1 DEF Block
<1>5. dataBlock.blockNumber < Len(onAir)
  BY <1>1 DEF ResumeInv, InMemory
<1>6. packet.packetNumber \in Nat
  BY <1>1, PacketInHand DEF Handling, Inv
<1>9. Loaded'
  <2>1. dataBlock.payload \in Seq(Nat) /\ dataBlock.payload # <<>>
    BY <1>1 DEF Block, Loaded
  <2>2. offset \in Nat /\ packet.payload \in Seq(Nat)
    <3>1. maxPacketSize \in Nat
      BY <1>1, ThrotDataAssumption DEF Inv, Base, TypeOK
    <3> QED  BY <1>1, <1>6, <3>1, PacketInHand DEF Handling, Inv
  <2>3. block.payload = memcpy(dataBlock.payload, offset, packet.payload)
    BY <1>1 DEF Block
  <2> HIDE DEF block, offset
  <2>4. Len(block.payload) = Len(dataBlock.payload) /\ block.payload \in Seq(Nat)
    BY <2>1, <2>2, <2>3, CopyKeepsBuffer
  <2>5. block.payload # <<>>
    BY <2>1, <2>4, EmptySeq
  <2> QED  BY <1>3, <2>5 DEF Loaded
<1>7. CASE blockPacketMap = ClosedMap
  <2>1. map = ClosedMap
    BY <1>6, <1>7, ClosedIsMap DEF setMap, UpdateItem, InMap
  <2>2. pc' = "check"
    <3>1. \A wide : isMapFull(map, wide)
      BY <2>1 DEF isMapFull, IsOpen, ClosedMap
    <3> QED  BY <1>3, <3>1
  <2>3. block.payloadSize = dataBlock.payloadSize
    BY <1>1, <1>4, <1>7, PassingFits, SizeAdjusted DEF Inv
  <2>4. Unmapped(dataBlock)
    BY <1>1, <1>7 DEF ResumeInv, InMemory
  <2> HIDE DEF block, map
  <2>5. Unmapped(dataBlock)'
    BY <1>3, <1>4, <2>3, <2>4 DEF Unmapped
  <2> QED  BY <1>3, <1>4, <1>5, <1>9, <2>1, <2>2, <2>5 DEF InMemory
<1>8. CASE blockPacketMap # ClosedMap
  <2>1. Resumable(block, map)
    BY <1>1, <1>8, StoredResumable
  <2>2. map # ClosedMap
    BY <1>1, <1>6, <1>8, SetMapAdds, OpenMap, ClosedIsMap
  <2> HIDE DEF block, map
  <2>3. Resumable(dataBlock, blockPacketMap)'
    BY <1>3, <2>1 DEF Resumable
  <2> QED  BY <1>3, <1>4, <1>5, <1>9, <2>2, <2>3 DEF InMemory
<1> QED  BY <1>7, <1>8

\* Every step keeps the block in memory resumable.
LEMMA InMemoryStep ==
    ASSUME Inv, ResumeInv, Next, onAir' = onAir
    PROVE  InMemory'
<1>1. Loaded /\ blockPacketMap = ClosedMap => pc \in {"store", "check"}
  BY DEF ResumeInv, InMemory
<1>2. closeMap(blockPacketMap) = ClosedMap
  BY CloseGivesClosed DEF Inv, Base, TypeOK
<1>3. CASE Start \/ Reset \/ IgnorePacket \/ ContinueBlock \/ CreateIndex \/ GenerateDataFile
           \/ Republish
  <2>1. UNCHANGED <<dataBlock, blockPacketMap, mapFile>>
    BY <1>3
       DEF Start, Reset, ResetNothing, ResetRemoveBlock, ResetRemoveIndex, IgnorePacket,
           ContinueBlock, CreateIndex, GenerateDataFile, Republish, memory, disk
  <2>2. /\ pc \in {"store", "check"} => pc' = pc
        /\ pc' = "accept" => pc = "accept" /\ packet' = packet
    BY <1>3
       DEF Start, Reset, ResetNothing, ResetRemoveBlock, ResetRemoveIndex, IgnorePacket,
           ContinueBlock, CreateIndex, GenerateDataFile, Republish, memory, AfterReset,
           FailReset, FreePacket
  <2>3. pc = "accept" /\ Loaded => dataBlock.blockNumber = packet.blockNumber
    BY DEF ResumeInv, InMemory
  <2> QED  BY <1>1, <2>1, <2>2, <2>3, MemoryKept
<1>4. ASSUME NEW p \in PacketsOf(onAir), ReceivePacket(p)
      PROVE  InMemory'
  BY <1>1, <1>4, MemoryKept DEF ReceivePacket, disk, OfCurrentBlock
<1>5. CASE KeepBlock
  <2>1. ~ (Loaded /\ blockPacketMap = ClosedMap)
    BY <1>5, UnmappedFails DEF KeepBlock
  <2> QED  BY <1>5, <2>1, MemoryKept DEF KeepBlock, memory, disk
<1>6. CASE SaveBlock
  <2>1. CASE dataBlock' = NoBlock /\ blockPacketMap' = ClosedMap
    BY <2>1, MemoryReleased
  <2>2. CASE pc' = "savemap" /\ UNCHANGED <<dataBlock, blockPacketMap>>
    BY <1>1, <1>6, <2>2, MemoryKept DEF SaveBlock
  <2> QED  BY <1>6, <2>1, <2>2, SaveWrites
<1>7. CASE Crash \/ Exit \/ SaveMap \/ DropCorruptBlock \/ WriteBlock
  BY <1>2, <1>7, MemoryReleased
     DEF Crash, Exit, ClearMemory, SaveMap, DropCorruptBlock, WriteBlock, ReleaseBlock
<1>8. CASE RestoreNext \/ BeginBlock \/ StorePacket
  BY <1>8, RestoreNextInMemory, BeginBlockInMemory, StorePacketInMemory
<1> QED
  BY <1>3, <1>4, <1>5, <1>6, <1>7, <1>8, CheckPastPayloadStep DEF Next, Handle, Finish

\* The invariant is kept as long as the publication stays.
LEMMA NextKeepsResume ==
    ASSUME Inv, ResumeInv, [Next]_vars, onAir' = onAir
    PROVE  ResumeInv'
<1>1. CASE Next
  BY <1>1, OnDiskStep, FromTheAirStep, InMemoryStep DEF ResumeInv
<1>2. CASE UNCHANGED vars
  <2>1. UNCHANGED <<pc, packet, dataBlock, blockPacketMap, blockFile, mapFile>>
    BY <1>2 DEF vars, memory, disk
  <2>2. FromTheAir'
    BY <2>1 DEF ResumeInv, FromTheAir
  <2>3. OnDisk'
    BY <2>1 DEF ResumeInv, OnDisk, Resumable
  <2>4. InMemory'
    <3>1. Loaded /\ blockPacketMap = ClosedMap => pc \in {"store", "check"}
      BY DEF ResumeInv, InMemory
    <3>2. Loaded /\ pc = "accept" => dataBlock.blockNumber = packet.blockNumber
      BY DEF ResumeInv, InMemory
    <3> QED  BY <2>1, <3>1, <3>2, MemoryKept
  <2> QED  BY <2>2, <2>3, <2>4 DEF ResumeInv
<1> QED  BY <1>1, <1>2

\* A directory that was never used satisfies the invariant.
LEMMA InitResume == Init => ResumeInv
<1> SUFFICES ASSUME Init PROVE ResumeInv
  OBVIOUS
<1>1. ~ Loaded /\ blockPacketMap = ClosedMap /\ pc = "off"
  BY DEF Init, InitMemory, Loaded, NoBlock
<1>2. \A b \in BlockNumbers : ~ IsWhole(mapFile[b])
  BY DEF Init, IsWhole, Absent
<1> QED  BY <1>1, <1>2 DEF ResumeInv, FromTheAir, Handling, InMemory, OnDisk

\* One publication, which never changes.
LEMMA ResumeHolds ==
    ASSUME NEW file, Publications = {file}, ~ RemovesMayFail
    PROVE  Spec => [](Inv /\ ResumeInv)
<1>1. Inv => onAir = file
  BY DEF Inv, Base, TypeOK
<1>2. Inv /\ [Next]_vars => onAir' = onAir
  <2> SUFFICES ASSUME Inv, [Next]_vars PROVE onAir' = onAir
    OBVIOUS
  <2>1. Inv'
    BY NextKeepsInv
  <2>2. onAir' = file
    BY <2>1 DEF Inv, Base, TypeOK
  <2> QED  BY <1>1, <2>2
<1>3. Init => Inv /\ ResumeInv
  BY InitInv, InitResume
<1>4. Inv /\ ResumeInv /\ [Next]_vars => (Inv /\ ResumeInv)'
  BY <1>2, NextKeepsInv, NextKeepsResume
<1> QED  BY <1>3, <1>4, PTL DEF Spec

-----------------------------------------------------------------------------
(***************************************************************************)
(* With one file on the air a block in memory and its map, and a block     *)
(* file and its map file, are always a state the reception can be resumed  *)
(* from: whatever is lost, repeated or reordered, wherever the program is  *)
(* killed, also with a disk that refuses writes and memory that cannot be  *)
(* allocated, as long as no map file outlives its block because remove     *)
(* failed (receivefile.c:67-73).                                           *)
(***************************************************************************)
THEOREM BlocksResumable ==
    ASSUME NEW file, Publications = {file}, ~ RemovesMayFail
    PROVE  Spec => []EveryBlockResumable
<1>1. Inv /\ ResumeInv => EveryBlockResumable
  BY DEF ResumeInv, InMemory, OnDisk, EveryBlockResumable
<1> QED  BY <1>1, ResumeHolds, PTL

(***************************************************************************)
(* receivefile.c:194: what is dropped for a duplicate is in memory byte by *)
(* byte, or was claimed by what readMapFile left of a torn map file, as    *)
(* long as no removal fails: a map file that stays may claim packets that  *)
(* a later file of its block does not hold.                                *)
(***************************************************************************)
THEOREM DuplicatesHeld ==
    ASSUME NEW file, Publications = {file}, ~ RemovesMayFail
    PROVE  Spec => []DuplicatesAreHeld
<1>1. ASSUME Inv, ResumeInv, pc = "accept", AlreadyReceived, Loaded
      PROVE  /\ dataBlock.blockNumber = packet.blockNumber
             /\ LET first == maxPacketSize * packet.packetNumber + 1
                IN  SubSeq(dataBlock.payload, first, first + Len(packet.payload) - 1)
                        = packet.payload
  <2> DEFINE whole == onAir[packet.blockNumber + 1]
             n == packet.packetNumber
  <2>1. /\ dataBlock.blockNumber = packet.blockNumber /\ blockPacketMap # ClosedMap
        /\ Resumable(dataBlock, blockPacketMap)
    BY <1>1 DEF ResumeInv, InMemory
  <2>2. /\ packet.blockNumber \in Nat /\ packet.blockNumber < Len(onAir)
        /\ n \in 0 .. NbThrotChunks(whole) - 1 /\ packet.payload = Chunk(whole, n)
    BY <1>1, PacketOnAir DEF ResumeInv, Handling
  <2>3. n \in Held(blockPacketMap)
    <3>1. getMap(blockPacketMap, n)
      BY <1>1 DEF AlreadyReceived
    <3>2. blockPacketMap.packetTotal = NbThrotChunks(whole)
      BY <2>1 DEF Resumable
    <3> QED  BY <2>2, <3>1, <3>2 DEF Held
  <2>4. InPlace(dataBlock.payload, whole, n)
    BY <2>1, <2>3 DEF Resumable, InPlace
  <2>5. /\ whole \in Seq(Nat) /\ n * ThrotData \in Nat /\ Len(Chunk(whole, n)) \in Nat
    <3>1. whole \in Seq(Nat)
      BY <1>1, <2>2, BlockOnAir
    <3> HIDE DEF whole, n
    <3> QED  BY <2>2, <3>1, ChunkPlace, ThrotDataAssumption
  <2>6. maxPacketSize = ThrotData
    BY <1>1 DEF Inv, BlockInMemory
  <2> DEFINE first == maxPacketSize * n + 1
  <2>7. /\ first = n * ThrotData + 1
        /\ first + Len(packet.payload) - 1 = n * ThrotData + Len(Chunk(whole, n))
    BY <2>2, <2>5, <2>6, ThrotDataAssumption
  <2> HIDE DEF whole, n, first
  <2>8. SubSeq(dataBlock.payload, first, first + Len(packet.payload) - 1) = packet.payload
    BY <2>2, <2>4, <2>7 DEF InPlace
  <2> QED  BY <2>1, <2>8 DEF first, n
<1>2. ASSUME Inv, ResumeInv, pc = "accept", AlreadyReceived, ~ Loaded
      PROVE  MapOutgrowsBuffer /\ \E b \in BlockNumbers : mapFile[b] = Torn
  <2>1. blockPacketMap # ClosedMap
    <3>1. packet.packetNumber \in Nat
      BY <1>2, PacketInHand DEF Handling, Inv
    <3> QED  BY <1>2, <3>1 DEF AlreadyReceived, getMap, InMap, ClosedMap
  <2> QED  BY <1>2, <2>1 DEF ResumeInv, InMemory
<1>3. Inv /\ ResumeInv => DuplicatesAreHeld
  BY <1>1, <1>2 DEF DuplicatesAreHeld
<1> QED  BY <1>3, ResumeHolds, PTL

-----------------------------------------------------------------------------
(***************************************************************************)
(* The rest of what the refinement needs: every write of a completed block *)
(* happens with all of its packets there, and the stream is only filled    *)
(* once every block has been verified.                                     *)
(***************************************************************************)
ShiftsDefined(file) ==
    \A n \in 1 .. Len(file), wide \in WideShift : ShiftDefined(NbThrotChunks(file[n]), wide)

\* A packet in the store phase is copied and marked.
LEMMA StoreEffect ==
    ASSUME Inv, ResumeInv, StorePacket
    PROVE  /\ pc = "store" /\ Loaded /\ Loaded' /\ packet.packetNumber \in Nat
           /\ blockPacketMap' = setMap(blockPacketMap, packet.packetNumber)
           /\ dataBlock'.blockNumber = dataBlock.blockNumber
           /\ pc' \in {"check", "receive"}
           /\ pc' = "check" =>
                 \E wide \in WideShift : isMapFull(blockPacketMap', wide)
<1> DEFINE offset == maxPacketSize * packet.packetNumber
           block == [dataBlock EXCEPT !.payloadSize = AdjustedSize,
                                      !.payload = memcpy(@, offset, packet.payload)]
           map == setMap(blockPacketMap, packet.packetNumber)
<1>1. pc = "store" /\ Loaded /\ dataBlock \in Block
  BY DEF StorePacket, Inv, Base, Phases, Holding, TypeOK
<1>2. packet.packetNumber \in Nat /\ packet.payload \in Seq(Nat) /\ maxPacketSize \in Nat
  BY <1>1, PacketInHand, ThrotDataAssumption DEF Handling, Inv, Base, TypeOK
<1>3. /\ ~ (IsLastPacket(packet) /\ Len(packet.payload) > maxPacketSize)
      /\ offset + Len(packet.payload) <= AdjustedSize
      /\ ~ offset + Len(packet.payload) > Len(dataBlock.payload)
  <2>1. Len(packet.payload) \in Nat /\ Len(dataBlock.payload) \in Nat
    BY <1>1, <1>2, LenProperties DEF Block
  <2> QED  BY <1>1, <1>2, <2>1, PacketFits
<1>4. /\ dataBlock' = block /\ blockPacketMap' = map
      /\ \E wide \in WideShift :
            IF isMapFull(map, wide) THEN pc' = "check" ELSE FreePacket
  BY <1>3 DEF StorePacket
<1>5. pc' \in {"check", "receive"}
      /\ (pc' = "check" => \E wide \in WideShift : isMapFull(map, wide))
  BY <1>4 DEF FreePacket
<1>6. offset \in Nat
  BY <1>2
<1>7. /\ block.blockNumber = dataBlock.blockNumber
      /\ block.payload = memcpy(dataBlock.payload, offset, packet.payload)
      /\ dataBlock.payload \in Seq(Nat) /\ dataBlock.payload # <<>>
  BY <1>1 DEF Block, Loaded
<1> HIDE DEF block, offset, map
<1>8. block.payload \in Seq(Nat) /\ Len(block.payload) = Len(dataBlock.payload)
  BY <1>2, <1>6, <1>7, CopyKeepsBuffer
<1>9. block.payload # <<>>
  BY <1>7, <1>8, EmptySeq
<1> QED  BY <1>1, <1>2, <1>4, <1>5, <1>7, <1>9 DEF Loaded, map

\* Only StorePacket and KeepBlock lead to a check or a write.
LEMMA CheckedAfter ==
    ASSUME Next, pc' \in {"check", "write"}
    PROVE  StorePacket \/ KeepBlock \/ Republish
<1>1. ~ (\E p \in PacketsOf(onAir) : ReceivePacket(p))
  BY DEF ReceivePacket
<1>2. ~ (Start \/ Crash \/ Reset \/ Finish)
  BY DEF Start, Crash, Reset, ResetNothing, ResetRemoveBlock, ResetRemoveIndex,
         AfterReset, FailReset, Finish, CreateIndex, GenerateDataFile, Exit
<1>3. ~ (SaveBlock \/ SaveMap \/ RestoreNext \/ IgnorePacket \/ BeginBlock \/ ContinueBlock)
  BY DEF SaveBlock, SaveMap, RestoreNext, RestoreBlock, IgnorePacket, BeginBlock,
         StartBlock, ContinueBlock, FreePacket
<1>4. ~ (CheckPastPayload \/ DropCorruptBlock \/ WriteBlock)
  BY DEF CheckPastPayload, DropCorruptBlock, WriteBlock, FreePacket
<1> QED  BY <1>1, <1>2, <1>3, <1>4 DEF Next, Handle

\* isMapFull is right about the maps of such a file.
LEMMA CompleteStep ==
    ASSUME NEW file, Publications = {file}, ShiftsDefined(file),
           Inv, ResumeInv, Complete, Next, onAir' = onAir
    PROVE  Complete'
<1> SUFFICES ASSUME pc' \in {"check", "write"}, blockPacketMap' # ClosedMap
             PROVE  Held(blockPacketMap') = 0 .. blockPacketMap'.packetTotal - 1
  BY DEF Complete
<1>1. CASE StorePacket
  <2>1. /\ pc = "store" /\ Loaded /\ packet.packetNumber \in Nat
        /\ blockPacketMap' = setMap(blockPacketMap, packet.packetNumber)
        /\ pc' = "check" => \E wide \in WideShift : isMapFull(blockPacketMap', wide)
        /\ pc' \in {"check", "receive"}
    BY <1>1, StoreEffect
  <2>2. PICK wide \in WideShift : isMapFull(blockPacketMap', wide)
    BY <2>1
  <2>3. /\ IsMap(blockPacketMap) /\ onAir = file /\ dataBlock.blockNumber \in Nat
    BY MaximaAssumption DEF Inv, Base, TypeOK, Block, BlockNumbers
  <2>4. /\ IsMap(blockPacketMap')
        /\ blockPacketMap'.packetTotal = blockPacketMap.packetTotal
    BY <2>1, <2>3, SetMapAdds
  <2>5. blockPacketMap # ClosedMap
    <3>1. setMap(ClosedMap, packet.packetNumber) = ClosedMap
      BY <2>1 DEF setMap, UpdateItem, InMap, ClosedMap
    <3> QED  BY <2>1, <3>1
  <2>6. /\ dataBlock.blockNumber < Len(file)
        /\ blockPacketMap.packetTotal = NbThrotChunks(file[dataBlock.blockNumber + 1])
    BY <2>1, <2>3, <2>5 DEF ResumeInv, InMemory, Resumable
  <2>7. Len(file) \in Nat
    BY PublicationsAssumption, LenProperties
  <2> DEFINE n == dataBlock.blockNumber + 1
  <2>8. n \in 1 .. Len(file) /\ blockPacketMap.packetTotal = NbThrotChunks(file[n])
    BY <2>3, <2>6, <2>7
  <2> HIDE DEF n
  <2>9. ShiftDefined(blockPacketMap'.packetTotal, wide)
    BY <2>4, <2>8 DEF ShiftsDefined
  <2> QED  BY <2>2, <2>4, <2>9, FullIffAllHeld
<1>2. CASE KeepBlock
  BY <1>2 DEF KeepBlock, memory, Complete
<1>3. CASE Republish
  BY <1>3 DEF Republish, memory, Complete
<1> QED  BY <1>1, <1>2, <1>3, CheckedAfter

\* The stream is only filled by generateDataFile and gone after the exit.
LEMMA StreamStep ==
    ASSUME Inv, StreamInFinale, Next, DefinedBehaviour'
    PROVE  StreamInFinale'
<1>1. CASE GenerateDataFile
  BY <1>1 DEF GenerateDataFile, DefinedBehaviour, StreamInFinale, InFinale
<1>2. CASE ~ GenerateDataFile
  <2>1. stream' \in {stream, <<>>}
    BY <1>2, StreamKept
  <2>2. CASE stream' # <<>>
    <3>1. InFinale
      BY <2>1, <2>2 DEF StreamInFinale
    <3>2. ~ (\E p \in PacketsOf(onAir) : ReceivePacket(p)) /\ ~ Start /\ ~ CreateIndex
      BY <3>1 DEF InFinale, ReceivePacket, Start, CreateIndex
    <3>3. ~ Handle
      BY <3>1
         DEF InFinale, Handle, SaveBlock, SaveMap, RestoreNext, IgnorePacket, BeginBlock,
             ContinueBlock, StorePacket, CheckPastPayload, DropCorruptBlock, KeepBlock, WriteBlock
    <3>4. ~ Crash /\ ~ Exit
      BY <2>2 DEF Crash, Exit, ClearMemory
    <3>5. Republish => InFinale'
      BY <3>1 DEF Republish, InFinale
    <3>6. Reset => InFinale'
      BY <3>1 DEF Reset, ResetNothing, ResetRemoveBlock, ResetRemoveIndex, AfterReset,
                  FailReset, InFinale
    <3>7. InFinale'
      BY <1>2, <3>2, <3>3, <3>4, <3>5, <3>6 DEF Next, Finish
    <3> QED  BY <3>7 DEF StreamInFinale
  <2>3. CASE stream' = <<>>
    BY <2>3 DEF StreamInFinale
  <2> QED  BY <2>2, <2>3
<1> QED  BY <1>1, <1>2

-----------------------------------------------------------------------------
(***************************************************************************)
(* What a step does to the packets that are not to be received again.      *)
(***************************************************************************)
LEMMA HeldUntouched ==
    ASSUME UNCHANGED <<dataBlock, blockPacketMap, mapFile>>
    PROVE  \A b \in BlockNumbers : HeldOf(b)' = HeldOf(b)
BY DEF HeldOf, Loaded

\* There is no map file of the block in memory.
LEMMA HeldInMemory ==
    ASSUME Inv, Loaded
    PROVE  /\ dataBlock.blockNumber \in BlockNumbers
           /\ ~ IsWhole(mapFile[dataBlock.blockNumber])
           /\ HeldOf(dataBlock.blockNumber) = Held(blockPacketMap)
           /\ \A b \in BlockNumbers : b # dataBlock.blockNumber =>
                 HeldOf(b) = IF IsWhole(mapFile[b]) THEN Held(mapFile[b].data) ELSE {}
<1>1. dataBlock.blockNumber \in BlockNumbers
  BY DEF Inv, Base, TypeOK, Block
<1>2. ~ IsWhole(mapFile[dataBlock.blockNumber])
  BY <1>1 DEF Inv, MapHasStoredBlock
<1> QED  BY <1>1, <1>2 DEF HeldOf

\* Without a block in memory, what is held is what the maps on disk say.
LEMMA HeldOnDisk ==
    ASSUME ~ Loaded
    PROVE  \A b \in BlockNumbers :
              HeldOf(b) = IF IsWhole(mapFile[b]) THEN Held(mapFile[b].data) ELSE {}
BY DEF HeldOf

\* The block leaves memory, and what was held of it with it.
LEMMA HeldForgotten ==
    ASSUME Inv, Loaded, dataBlock' = NoBlock, NEW n, n = dataBlock.blockNumber,
           \A b \in BlockNumbers : b # n => mapFile'[b] = mapFile[b],
           ~ IsWhole(mapFile'[n])
    PROVE  /\ HeldOf(n)' = {}
           /\ \A b \in BlockNumbers : b # n => HeldOf(b)' = HeldOf(b)
<1>1. ~ Loaded'
  BY NothingLoaded DEF Loaded
<1>2. \A b : HeldOf(b)' = IF IsWhole(mapFile'[b]) THEN Held(mapFile'[b].data) ELSE {}
  BY <1>1 DEF HeldOf
<1>3. HeldOf(n)' = {}
  BY <1>1 DEF HeldOf
<1> QED  BY <1>2, <1>3, HeldInMemory

\* It is put on disk with its map.
LEMMA HeldSaved ==
    ASSUME Inv, ~ WritesMayFail, SaveMap
    PROVE  \A b \in BlockNumbers : HeldOf(b)' = HeldOf(b)
<1> DEFINE n == dataBlock.blockNumber
<1>1. Loaded
  BY DEF SaveMap, Inv, Base, Phases, Holding
<1>2. mapFile' = [mapFile EXCEPT ![n] = Whole(blockPacketMap)] /\ dataBlock' = NoBlock
  <2>1. PICK f \in WriteOutcomes(mapFile[n], blockPacketMap) :
           mapFile' = [mapFile EXCEPT ![n] = f]
    BY DEF SaveMap
  <2>2. f = Whole(blockPacketMap)
    BY <2>1, SureWrite
  <2> QED  BY <2>1, <2>2 DEF SaveMap, ReleaseBlock
<1>3. DOMAIN mapFile = BlockNumbers
  BY DEF Inv, Base, TypeOK
<1>4. ~ Loaded'
  BY <1>2, NothingLoaded DEF Loaded
<1>5. \A b : HeldOf(b)' = IF IsWhole(mapFile'[b]) THEN Held(mapFile'[b].data) ELSE {}
  BY <1>4 DEF HeldOf
<1>6. IsWhole(Whole(blockPacketMap)) /\ Whole(blockPacketMap).data = blockPacketMap
  BY DEF IsWhole, Whole
<1>7. /\ n \in BlockNumbers /\ HeldOf(n) = Held(blockPacketMap)
      /\ \A b \in BlockNumbers : b # n =>
            HeldOf(b) = IF IsWhole(mapFile[b]) THEN Held(mapFile[b].data) ELSE {}
  BY <1>1, HeldInMemory
<1> HIDE DEF n
<1>8. mapFile'[n] = Whole(blockPacketMap)
      /\ \A b \in BlockNumbers : b # n => mapFile'[b] = mapFile[b]
  BY <1>2, <1>3, <1>7
<1> QED  BY <1>5, <1>6, <1>7, <1>8

\* It is taken up from there again.
LEMMA HeldRestored ==
    ASSUME Inv, ~ Loaded, NEW n \in BlockNumbers, Restorable(n), RemoveMapFile(n),
           dataBlock' = blockFile[n].data, blockPacketMap' = mapFile[n].data
    PROVE  \A b \in BlockNumbers : HeldOf(b)' = HeldOf(b)
<1>1. IsWhole(mapFile[n])
  BY DEF Restorable
<1>2. /\ dataBlock' \in Block /\ dataBlock'.blockNumber = n
      /\ Coherent(dataBlock', blockPacketMap')
  BY <1>1, StoredBlock
<1>3. Loaded'
  BY <1>2, CoherentLoaded DEF Loaded
<1>4. \A b \in BlockNumbers : b # n => mapFile'[b] = mapFile[b]
  BY DEF RemoveMapFile, Inv, Base, TypeOK
<1> QED  BY <1>1, <1>2, <1>3, <1>4, HeldOnDisk DEF HeldOf

\* Nothing to take up.
LEMMA HeldUnrestored ==
    ASSUME Inv, ~ Loaded, NEW n \in BlockNumbers, ~ Restorable(n), RemoveMapFile(n),
           dataBlock' = dataBlock
    PROVE  \A b \in BlockNumbers : HeldOf(b)' = HeldOf(b)
<1>1. ~ IsWhole(mapFile[n])
  BY StoredBlock
<1>2. mapFile' = mapFile
  BY <1>1 DEF RemoveMapFile
<1>3. ~ Loaded'
  BY DEF Loaded
<1> QED  BY <1>2, <1>3 DEF HeldOf

\* A restored block moves from the disk to memory, and loses nothing.
LEMMA HeldRestoreNext ==
    ASSUME Inv, RestoreNext
    PROVE  \A b \in BlockNumbers : HeldOf(b)' = HeldOf(b)
<1> DEFINE n == packet.blockNumber
<1>1. pc = "restore" /\ ~ Loaded /\ RemoveMapFile(n)
  BY DEF RestoreNext, RestoreBlock, Inv, Base, Phases, Holding
<1>2. n \in BlockNumbers
  BY <1>1, PacketInHand DEF Handling, Inv
<1>3. CASE Restorable(n) /\ dataBlock' = blockFile[n].data /\ blockPacketMap' = mapFile[n].data
  BY <1>1, <1>2, <1>3, HeldRestored
<1>4. CASE ~ Restorable(n) /\ dataBlock' = dataBlock
  BY <1>1, <1>2, <1>4, HeldUnrestored
<1>5. CASE IsWhole(mapFile[n]) /\ blockFile[n] = Torn
  BY <1>2, <1>5, StoredBlock
<1> QED  BY <1>3, <1>4, <1>5 DEF RestoreNext, RestoreBlock

\* Beginning a block loses nothing: it is restored or had nothing.
LEMMA HeldBeginBlock ==
    ASSUME Inv, BeginBlock
    PROVE  \A b \in BlockNumbers : HeldOf(b)' = HeldOf(b)
<1>0. pc = "accept" /\ ~ Loaded /\ ~ IsLastPacket(packet)
  BY DEF BeginBlock
<1>2. packet.blockNumber \in BlockNumbers /\ packet.packetTotal \in Nat \ {0}
  BY <1>0, PacketInHand DEF Handling, Inv
<1> PICK n \in BlockNumbers : n = packet.blockNumber
  BY <1>2
<1>1. pc = "accept" /\ ~ Loaded /\ ~ IsLastPacket(packet) /\ RemoveMapFile(n)
  BY <1>0 DEF BeginBlock, RestoreBlock
<1>3. CASE Restorable(n) /\ dataBlock' = blockFile[n].data /\ blockPacketMap' = mapFile[n].data
  BY <1>1, <1>2, <1>3, HeldRestored
<1>4. CASE ~ Restorable(n) /\ dataBlock' = dataBlock
  BY <1>1, <1>2, <1>4, HeldUnrestored
<1>5. CASE /\ ~ Restorable(n) /\ dataBlock' = NewBlock(packet)
           /\ blockPacketMap' \in NewMaps(packet.packetTotal)
  <2>1. dataBlock'.blockNumber = n
    BY <1>1, <1>5, NewBlockFacts DEF Handling, Inv
  <2>2. Loaded'
    BY <1>1, <1>5, NewBlockFacts DEF Handling, Inv, Loaded
  <2>3. Held(blockPacketMap') = {}
    BY <1>2, <1>5, InitMapEmpty, ClosedIsMap DEF NewMaps
  <2>4. ~ IsWhole(mapFile[n])
    BY <1>2, <1>5, StoredBlock
  <2>5. mapFile' = mapFile
    BY <1>1, <2>4 DEF RemoveMapFile
  <2>6. \A b \in BlockNumbers :
           HeldOf(b) = IF IsWhole(mapFile[b]) THEN Held(mapFile[b].data) ELSE {}
    BY <1>1, HeldOnDisk
  <2>7. HeldOf(n)' = {} /\ HeldOf(n) = {}
    BY <1>2, <2>1, <2>2, <2>3, <2>4, <2>6 DEF HeldOf
  <2>8. \A b \in BlockNumbers : b # n => HeldOf(b)' = HeldOf(b)
    BY <2>1, <2>2, <2>5, <2>6 DEF HeldOf
  <2> QED  BY <2>7, <2>8
<1>6. CASE IsWhole(mapFile[n]) /\ blockFile[n] = Torn
  BY <1>2, <1>6, StoredBlock
<1> QED  BY <1>3, <1>4, <1>5, <1>6 DEF BeginBlock, RestoreBlock, StartBlock

-----------------------------------------------------------------------------
(***************************************************************************)
(* The refinement, step by step.  The blocks of the file have numbers the  *)
(* receiver can name, which is what splitFile makes of any input.          *)
(***************************************************************************)
Numbers == 0 .. Len(onAir) - 1

Verifieds == IF InFinale THEN Numbers ELSE Completed

Delivered == IF IsWhole(output) THEN "yes" ELSE IF Exists(output) THEN "begun" ELSE "no"

RefineInv(file) ==
    /\ Inv /\ ResumeInv /\ WritesInv /\ DefinedBehaviour
    /\ FaithfulInv(file) /\ Complete /\ StreamInFinale

HeldSame == \A b \in BlockNumbers : HeldOf(b)' = HeldOf(b)

\* The steps Reception does not see.
LEMMA SilentMemory ==
    ASSUME Inv, ResumeInv, onAir' = onAir,
           Start \/ Reset \/ IgnorePacket \/ ContinueBlock \/ KeepBlock
    PROVE  HeldSame /\ Verifieds' = Verifieds /\ output' = output
<1>1. UNCHANGED <<dataBlock, blockPacketMap, mapFile, indexTable, output>>
  BY DEF Start, Reset, ResetNothing, ResetRemoveBlock, ResetRemoveIndex, IgnorePacket,
         ContinueBlock, KeepBlock, memory, disk
<1>2. HeldSame
  BY <1>1, HeldUntouched DEF HeldSame
<1>3. InFinale' <=> InFinale
  BY DEF Start, Reset, ResetNothing, ResetRemoveBlock, ResetRemoveIndex, AfterReset,
         FailReset, IgnorePacket, FreePacket, ContinueBlock, KeepBlock, InFinale
<1> QED  BY <1>1, <1>2, <1>3 DEF Verifieds, Completed, Numbers

\* A packet that has been read changes nothing yet.
LEMMA SilentReceive ==
    ASSUME Inv, ResumeInv, onAir' = onAir, NEW p \in PacketsOf(onAir), ReceivePacket(p)
    PROVE  HeldSame /\ Verifieds' = Verifieds /\ output' = output
<1>1. UNCHANGED <<dataBlock, blockPacketMap, mapFile, output>>
  BY DEF ReceivePacket, disk
<1>2. HeldSame
  BY <1>1, HeldUntouched DEF HeldSame
<1>3. ~ InFinale' /\ ~ InFinale
  BY DEF ReceivePacket, InFinale
<1>4. Completed' = Completed
  <2>1. CASE indexTable' = indexTable
    BY <2>1 DEF Completed
  <2>2. CASE indexTable.nbItems = 0 /\ indexTable' = allocateIndexTable(p.blockTotal)
    <3>1. Completed' = {}
      BY <2>2 DEF Completed, allocateIndexTable, InvalidItem
    <3>2. DOMAIN indexTable.items = 0 .. 0 - 1
      BY <2>2 DEF Inv, Base, TypeOK, IsIndexTable
    <3>3. Completed = {}
      BY <3>2 DEF Completed
    <3> QED  BY <3>1, <3>3
  <2> QED  BY <2>1, <2>2 DEF ReceivePacket
<1> QED  BY <1>1, <1>2, <1>3, <1>4 DEF Verifieds

\* A switch of blocks changes where the packets are and not which.
LEMMA SilentSwitch ==
    ASSUME Inv, ResumeInv, ~ WritesMayFail, DefinedBehaviour', onAir' = onAir,
           SaveBlock \/ SaveMap \/ RestoreNext \/ BeginBlock
    PROVE  HeldSame /\ Verifieds' = Verifieds /\ output' = output
<1>1. UNCHANGED <<indexTable, output>>
  BY DEF SaveBlock, SaveMap, RestoreNext, BeginBlock
<1>2. ~ InFinale' /\ ~ InFinale
  BY DEF SaveBlock, SaveMap, RestoreNext, RestoreBlock, BeginBlock, StartBlock, InFinale
<1>3. CASE SaveBlock
  <2>1. UNCHANGED <<dataBlock, blockPacketMap, mapFile>>
    <3>1. RefusedWrite(blockFile[dataBlock.blockNumber]) = {}
      BY DEF RefusedWrite
    <3> QED  BY <1>3, <3>1 DEF SaveBlock
  <2> QED  BY <1>1, <1>2, <2>1, HeldUntouched DEF HeldSame, Verifieds, Completed
<1>4. CASE SaveMap \/ RestoreNext \/ BeginBlock
  BY <1>1, <1>2, <1>4, HeldSaved, HeldRestoreNext, HeldBeginBlock DEF HeldSame, Verifieds, Completed
<1> QED  BY <1>3, <1>4

\* Without a map there is nothing of the block to forget, and with a full one
\* its checksum is right.
LEMMA SilentDrop ==
    ASSUME Inv, ResumeInv, Complete, onAir' = onAir, DropCorruptBlock
    PROVE  HeldSame /\ Verifieds' = Verifieds /\ output' = output
<1>1. UNCHANGED <<indexTable, output, mapFile>> /\ dataBlock' = NoBlock /\ Loaded
      /\ ~ ChecksumMatches /\ pc = "check"
  BY DEF DropCorruptBlock, ReleaseBlock, disk, Inv, Base, Phases, Holding
<1>2. ~ InFinale' /\ ~ InFinale
  BY DEF DropCorruptBlock, FreePacket, InFinale
<1>3. blockPacketMap = ClosedMap
  BY <1>1, CompleteMatches DEF Complete
<1> PICK n \in BlockNumbers : n = dataBlock.blockNumber
  BY <1>1, HeldInMemory
<1>4. HeldOf(n) = {} /\ ~ IsWhole(mapFile'[n])
  BY <1>1, <1>3, HeldInMemory, ClosedIsMap
<1>5. HeldOf(n)' = {} /\ \A b \in BlockNumbers : b # n => HeldOf(b)' = HeldOf(b)
  BY <1>1, <1>4, HeldForgotten
<1> QED  BY <1>1, <1>2, <1>4, <1>5 DEF HeldSame, Verifieds, Completed

\* The index replaces the table, with the same blocks verified.
LEMMA SilentIndex ==
    ASSUME NEW file, Publications = {file}, Inv, FaithfulInv(file), onAir' = onAir, CreateIndex
    PROVE  HeldSame /\ Verifieds' = Verifieds /\ output' = output
<1>1. UNCHANGED <<dataBlock, blockPacketMap, mapFile, output>> /\ pc = "index" /\ pc' = "generate"
  BY DEF CreateIndex
<1>2. HeldSame
  BY <1>1, HeldUntouched DEF HeldSame
<1>3. onAir = file /\ Completed = 0 .. indexTable.nbItems - 1 /\ indexTable.nbItems = Len(file)
  BY <1>1 DEF Inv, Base, TypeOK, CountMatchesIndex, FaithfulInv
<1>4. Verifieds = Numbers /\ Verifieds' = Numbers'
  BY <1>1, <1>3 DEF Verifieds, InFinale, Numbers
<1> QED  BY <1>1, <1>2, <1>4 DEF Numbers

\* A packet is gathered, unless its block has no map.
LEMMA GatherStep ==
    ASSUME Inv, ResumeInv, onAir' = onAir, StorePacket
    PROVE  /\ Verifieds' = Verifieds /\ output' = output
           /\ \/ HeldSame
              \/ \E n \in BlockNumbers, j \in Nat :
                    /\ n \in Numbers /\ n \notin Verifieds
                    /\ j \in 0 .. NbThrotChunks(onAir[n + 1]) - 1
                    /\ HeldOf(n)' = HeldOf(n) \cup {j}
                    /\ \A b \in BlockNumbers : b # n => HeldOf(b)' = HeldOf(b)
<1>1. /\ pc = "store" /\ Loaded /\ Loaded' /\ packet.packetNumber \in Nat
      /\ blockPacketMap' = setMap(blockPacketMap, packet.packetNumber)
      /\ dataBlock'.blockNumber = dataBlock.blockNumber
      /\ pc' \in {"check", "receive"}
  BY StoreEffect
<1>2. UNCHANGED <<indexTable, mapFile, output>>
  BY DEF StorePacket, disk
<1>3. ~ InFinale' /\ ~ InFinale
  BY <1>1 DEF InFinale
<1>4. Verifieds' = Verifieds
  BY <1>2, <1>3 DEF Verifieds, Completed
<1> PICK n \in BlockNumbers : n = dataBlock.blockNumber
  BY <1>1, HeldInMemory
<1> PICK j \in Nat : j = packet.packetNumber
  BY <1>1
<1>5. \A b \in BlockNumbers : b # n => HeldOf(b)' = HeldOf(b)
  BY <1>1, <1>2 DEF HeldOf
<1>6. HeldOf(n) = Held(blockPacketMap) /\ HeldOf(n)' = Held(setMap(blockPacketMap, j))
  BY <1>1 DEF HeldOf
<1>7. IsMap(blockPacketMap)
  BY DEF Inv, Base, TypeOK
<1>8. CASE blockPacketMap = ClosedMap
  <2>1. setMap(ClosedMap, j) = ClosedMap
    BY DEF setMap, UpdateItem, InMap, ClosedMap
  <2> QED  BY <1>2, <1>4, <1>5, <1>6, <1>8, <2>1 DEF HeldSame
<1>9. CASE blockPacketMap # ClosedMap
  <2>1. n < Len(onAir) /\ blockPacketMap.packetTotal = NbThrotChunks(onAir[n + 1])
    BY <1>1, <1>9 DEF ResumeInv, InMemory, Resumable
  <2>2. n = packet.blockNumber /\ n \notin Completed
    BY <1>1 DEF Inv, Base, Phases, BlockInMemory
  <2>3. j \in 0 .. NbThrotChunks(onAir[n + 1]) - 1
    BY <1>1, <2>2, PacketOnAir DEF ResumeInv, Handling
  <2>4. j < blockPacketMap.packetTotal
    <3>1. blockPacketMap.packetTotal \in Nat
      BY <1>7, <1>9, OpenMap
    <3> QED  BY <2>1, <2>3, <3>1
  <2>5. HeldOf(n)' = HeldOf(n) \cup {j}
    BY <1>6, <1>7, <2>4, SetMapAdds
  <2>6. n \in Numbers
    <3>1. Len(onAir) \in Nat /\ n \in Nat
      BY PublicationsAssumption, MaximaAssumption, LenProperties DEF Inv, Base, TypeOK, BlockNumbers
    <3> QED  BY <2>1, <3>1 DEF Numbers
  <2>7. n \notin Verifieds
    BY <1>3, <2>2 DEF Verifieds
  <2> QED  BY <1>2, <1>4, <1>5, <2>3, <2>5, <2>6, <2>7
<1> QED  BY <1>8, <1>9

\* A block is written when it is complete, and forgotten.
LEMMA VerifyStep ==
    ASSUME NEW file, Publications = {file}, RefineInv(file), ~ WritesMayFail, onAir' = onAir,
           WriteBlock
    PROVE  /\ output' = output
           /\ \E n \in BlockNumbers :
                 /\ n \in Numbers /\ Verifieds' = Verifieds \cup {n}
                 /\ HeldOf(n) = 0 .. NbThrotChunks(onAir[n + 1]) - 1 /\ HeldOf(n)' = {}
                 /\ \A b \in BlockNumbers : b # n => HeldOf(b)' = HeldOf(b)
<1> USE DEF RefineInv
<1>1. /\ pc = "write" /\ Loaded /\ dataBlock' = NoBlock /\ UNCHANGED <<mapFile, output>>
      /\ pc' \in {"index", "receive"}
  BY DEF WriteBlock, ReleaseBlock, Inv, Base, Phases, Holding
<1> PICK n \in BlockNumbers : n = dataBlock.blockNumber
  BY <1>1, HeldInMemory
<1>2. n = packet.blockNumber
  BY <1>1 DEF Inv, Base, Phases
<1>3. Completed' = Completed \cup {n}
  BY <1>2, WrittenBlockIntact DEF WritesInv, Inv
<1>4. ~ InFinale /\ ~ InFinale'
  BY <1>1 DEF InFinale
<1>5. blockPacketMap # ClosedMap /\ n < Len(onAir) /\ Resumable(dataBlock, blockPacketMap)
  BY <1>1 DEF ResumeInv, InMemory
<1>6. /\ HeldOf(n) = Held(blockPacketMap)
      /\ Held(blockPacketMap) = 0 .. blockPacketMap.packetTotal - 1
      /\ blockPacketMap.packetTotal = NbThrotChunks(onAir[n + 1])
  BY <1>1, <1>5, HeldInMemory DEF Complete, Resumable
<1>7. ~ IsWhole(mapFile'[n])
  BY <1>1, HeldInMemory
<1>8. HeldOf(n)' = {} /\ \A b \in BlockNumbers : b # n => HeldOf(b)' = HeldOf(b)
  BY <1>1, <1>7, HeldForgotten
<1>9. n \in Numbers
  <2>1. Len(onAir) \in Nat /\ n \in Nat
    BY PublicationsAssumption, MaximaAssumption, LenProperties DEF Inv, Base, TypeOK, BlockNumbers
  <2> QED  BY <1>5, <2>1 DEF Numbers
<1> QED  BY <1>1, <1>3, <1>4, <1>6, <1>8, <1>9 DEF Verifieds

\* The output is begun when every block has been verified.
LEMMA DeliverStep ==
    ASSUME Inv, DefinedBehaviour', onAir' = onAir, GenerateDataFile
    PROVE  /\ HeldSame /\ Verifieds' = Verifieds
           /\ output' = output \/ (Verifieds = Numbers /\ output' = Torn)
<1>1. UNCHANGED <<dataBlock, blockPacketMap, mapFile>> /\ pc = "generate"
      /\ output' \in {output, Torn}
  BY DEF GenerateDataFile
<1>2. HeldSame
  BY <1>1, HeldUntouched DEF HeldSame
<1>3. pc' = "erase"
  BY DEF GenerateDataFile, DefinedBehaviour
<1> QED  BY <1>1, <1>2, <1>3 DEF Verifieds, InFinale, Numbers

\* The end of a session: nothing is verified any more, one block is forgotten at
\* most, and a file that is begun or finished has all of its blocks verified.
Ended ==
    /\ Verifieds' = {}
    /\ \/ HeldSame
       \/ \E n \in BlockNumbers :
             /\ n \in Numbers /\ HeldOf(n)' = {}
             /\ \A b \in BlockNumbers : b # n => HeldOf(b)' = HeldOf(b)
    /\ \/ output' = output
       \/ Verifieds = Numbers /\ Exists(output')

\* The exit ends a session.
LEMMA ExitEnds ==
    ASSUME Inv, StreamInFinale, onAir' = onAir, Exit
    PROVE  Ended
<1>1. /\ pc = "exit" /\ pc' = "off" /\ indexTable' = NoIndex /\ dataBlock' = NoBlock
      /\ UNCHANGED mapFile
      /\ output' \in IF stream = <<>> THEN {output} ELSE WriteOutcomes(output, stream)
  BY DEF Exit, ClearMemory
<1>2. ~ Loaded
  BY <1>1 DEF Inv, Base, Phases, Holding
<1>3. ~ Loaded'
  BY <1>1, NothingLoaded DEF Loaded
<1>4. HeldSame
  BY <1>1, <1>2, <1>3 DEF HeldSame, HeldOf
<1>5. Verifieds' = {}
  <2>1. Completed' = {}
    BY <1>1, NoIndexType DEF Completed
  <2> QED  BY <1>1, <2>1 DEF Verifieds, InFinale
<1>6. Verifieds = Numbers
  BY <1>1 DEF Verifieds, InFinale
<1>7. output' \in {output, Whole(stream), Torn}
  BY <1>1, WriteLeaves
<1>8. Exists(Whole(stream)) /\ Exists(Torn)
  BY DEF Exists, Whole, Torn
<1> QED  BY <1>4, <1>5, <1>6, <1>7, <1>8 DEF Ended

\* So does a kill.
LEMMA CrashEnds ==
    ASSUME Inv, ResumeInv, StreamInFinale, onAir' = onAir, Crash
    PROVE  Ended
<1>1. /\ pc' = "off" /\ indexTable' = NoIndex /\ dataBlock' = NoBlock
      /\ output' \in IF pc = "generate" THEN Tear(output)
                     ELSE IF stream # <<>> THEN {output, Whole(stream)} ELSE {output}
  BY DEF Crash, ClearMemory
<1>2. ~ Loaded'
  BY <1>1, NothingLoaded DEF Loaded
<1>3. Verifieds' = {}
  <2>1. Completed' = {}
    BY <1>1, NoIndexType DEF Completed
  <2> QED  BY <1>1, <2>1 DEF Verifieds, InFinale
<1>4. output' = output \/ (Verifieds = Numbers /\ Exists(output'))
  <2>1. output' # output => InFinale /\ output' \in {Torn, Whole(stream)}
    BY <1>1 DEF Tear, StreamInFinale, InFinale
  <2>2. Exists(Whole(stream)) /\ Exists(Torn)
    BY DEF Exists, Whole, Torn
  <2> QED  BY <2>1, <2>2 DEF Verifieds
<1>5. CASE ~ Loaded
  <2>1. mapFile' = mapFile
    BY <1>5 DEF Crash, Inv, Base, Phases, Holding
  <2>2. HeldSame
    BY <1>2, <1>5, <2>1 DEF HeldSame, HeldOf
  <2> QED  BY <1>3, <1>4, <2>2 DEF Ended
<1>6. CASE Loaded
  <2> PICK n \in BlockNumbers : n = dataBlock.blockNumber
    BY <1>6, HeldInMemory
  <2>1. DOMAIN mapFile = BlockNumbers /\ ~ IsWhole(mapFile[n])
    BY <1>6, HeldInMemory DEF Inv, Base, TypeOK
  <2>2. mapFile' = mapFile \/ mapFile' = [mapFile EXCEPT ![n] = mapFile[n]]
        \/ mapFile' = [mapFile EXCEPT ![n] = Torn]
    BY DEF Crash, Tear
  <2>3. ~ IsWhole(Torn)
    BY DEF IsWhole, Torn
  <2>4. /\ \A b \in BlockNumbers : b # n => mapFile'[b] = mapFile[b]
        /\ ~ IsWhole(mapFile'[n])
    BY <2>1, <2>2, <2>3
  <2>5. HeldOf(n)' = {} /\ \A b \in BlockNumbers : b # n => HeldOf(b)' = HeldOf(b)
    BY <1>1, <1>6, <2>4, HeldForgotten
  <2>6. n \in Numbers
    <3>1. n < Len(onAir)
      BY <1>6 DEF ResumeInv, InMemory
    <3>2. Len(onAir) \in Nat /\ n \in Nat
      BY PublicationsAssumption, MaximaAssumption, LenProperties DEF Inv, Base, TypeOK, BlockNumbers
    <3> QED  BY <3>1, <3>2 DEF Numbers
  <2> QED  BY <1>3, <1>4, <2>5, <2>6 DEF Ended
<1> QED  BY <1>5, <1>6

heldNow == [b \in 0 .. Len(TheFile) - 1 |-> HeldOf(b)]

\* The file that is on the air is the file of the refinement.
LEMMA FileOnAir ==
    ASSUME NEW file, Publications = {file}
    PROVE  /\ TheFile = file /\ Len(file) \in Nat
           /\ Inv => onAir = TheFile /\ Numbers = 0 .. Len(TheFile) - 1
           /\ R!Blocks = 0 .. Len(TheFile) - 1
           /\ \A b \in R!Blocks : R!AllPackets(b) = 0 .. NbThrotChunks(TheFile[b + 1]) - 1
<1>1. TheFile = file
  BY DEF TheFile
<1>2. file \in Seq(Seq(Nat)) /\ Len(file) \in Nat
  BY PublicationsAssumption, LenProperties
<1>3. Inv => onAir = file
  BY DEF Inv, Base, TypeOK
<1> DEFINE totals == [i \in 1 .. Len(TheFile) |-> NbThrotChunks(TheFile[i])]
<1>4. Len(totals) = Len(TheFile)
  <2>1. \A i \in 1 .. Len(file) : NbThrotChunks(file[i]) \in Nat
    BY <1>2, ElementOfSeq, ChunkTotal
  <2>2. totals \in Seq(Nat)
    BY <1>1, <1>2, <2>1, IsASeq
  <2> QED  BY <1>1, <1>2
<1>5. R!Blocks = 0 .. Len(TheFile) - 1
  BY <1>4 DEF R!Blocks
<1>6. \A b \in R!Blocks : R!AllPackets(b) = 0 .. NbThrotChunks(TheFile[b + 1]) - 1
  <2> SUFFICES ASSUME NEW b \in R!Blocks
               PROVE  R!AllPackets(b) = 0 .. NbThrotChunks(TheFile[b + 1]) - 1
    OBVIOUS
  <2>1. b + 1 \in 1 .. Len(TheFile)
    BY <1>1, <1>2, <1>5
  <2> QED  BY <2>1 DEF R!AllPackets
<1> QED  BY <1>1, <1>2, <1>3, <1>5, <1>6 DEF Numbers

\* What is held is the same for Reception.
LEMMA HeldNowSame ==
    ASSUME Len(TheFile) \in Nat, Len(TheFile) <= MAX_BLOCK_NUMBER + 1, HeldSame
    PROVE  heldNow' = heldNow
<1>1. \A b \in 0 .. Len(TheFile) - 1 : b \in BlockNumbers
  BY MaximaAssumption DEF BlockNumbers
<1> QED  BY <1>1 DEF HeldSame, heldNow

\* What is held of one block changes.
LEMMA HeldNowExcept ==
    ASSUME Len(TheFile) \in Nat, Len(TheFile) <= MAX_BLOCK_NUMBER + 1,
           NEW n \in 0 .. Len(TheFile) - 1,
           \A b \in BlockNumbers : b # n => HeldOf(b)' = HeldOf(b)
    PROVE  heldNow' = [heldNow EXCEPT ![n] = HeldOf(n)'] /\ heldNow[n] = HeldOf(n)
<1>1. \A b \in 0 .. Len(TheFile) - 1 : b \in BlockNumbers
  BY MaximaAssumption DEF BlockNumbers
<1> QED  BY <1>1 DEF heldNow

\* Every step of the receiver is a step of Reception, or none.
LEMMA RefinementStep ==
    ASSUME NEW file, Publications = {file}, Len(file) <= MAX_BLOCK_NUMBER + 1, ~ WritesMayFail,
           RefineInv(file), RefineInv(file)', Next
    PROVE  [R!Next]_(R!vars)
<1> DEFINE Blocks == 0 .. Len(TheFile) - 1
           verified == IF InFinale THEN Blocks ELSE Completed
           delivered == Delivered
<1>1. /\ TheFile = file /\ Len(TheFile) \in Nat /\ onAir = TheFile /\ onAir' = onAir
      /\ Numbers = Blocks /\ R!Blocks = Blocks
      /\ \A b \in Blocks : R!AllPackets(b) = 0 .. NbThrotChunks(TheFile[b + 1]) - 1
  <2>1. Inv /\ Inv'
    BY DEF RefineInv
  <2>2. onAir' = file
    BY <2>1 DEF Inv, Base, TypeOK
  <2> QED  BY <2>1, <2>2, FileOnAir
<1>2. verified = Verifieds /\ verified' = Verifieds'
  BY <1>1 DEF Verifieds, Numbers
<1>3. ASSUME HeldSame, Verifieds' = Verifieds, output' = output
      PROVE  UNCHANGED R!vars
  <2>1. heldNow' = heldNow
    BY <1>1, <1>3, HeldNowSame
  <2>2. verified' = verified /\ delivered' = delivered
    BY <1>2, <1>3 DEF Delivered
  <2> QED  BY <2>1, <2>2 DEF R!vars, heldNow, Delivered
<1> USE DEF RefineInv
<1>4. CASE Start \/ Reset \/ IgnorePacket \/ ContinueBlock \/ KeepBlock
  BY <1>1, <1>3, <1>4, SilentMemory
<1>5. ASSUME NEW p \in PacketsOf(onAir), ReceivePacket(p)
      PROVE  UNCHANGED R!vars
  BY <1>1, <1>3, <1>5, SilentReceive
<1>6. CASE SaveBlock \/ SaveMap \/ RestoreNext \/ BeginBlock
  BY <1>1, <1>3, <1>6, SilentSwitch
<1>7. CASE DropCorruptBlock
  BY <1>1, <1>3, <1>7, SilentDrop
<1>8. CASE CreateIndex
  BY <1>1, <1>3, <1>8, SilentIndex
<1>9. CASE StorePacket
  <2>1. /\ Verifieds' = Verifieds /\ output' = output
        /\ \/ HeldSame
           \/ \E n \in BlockNumbers, j \in Nat :
                 /\ n \in Numbers /\ n \notin Verifieds
                 /\ j \in 0 .. NbThrotChunks(onAir[n + 1]) - 1
                 /\ HeldOf(n)' = HeldOf(n) \cup {j}
                 /\ \A b \in BlockNumbers : b # n => HeldOf(b)' = HeldOf(b)
    BY <1>1, <1>9, GatherStep
  <2>2. CASE HeldSame
    BY <1>3, <2>1, <2>2
  <2>3. CASE ~ HeldSame
    <3> PICK n \in BlockNumbers, j \in Nat :
           /\ n \in Numbers /\ n \notin Verifieds
           /\ j \in 0 .. NbThrotChunks(onAir[n + 1]) - 1
           /\ HeldOf(n)' = HeldOf(n) \cup {j}
           /\ \A b \in BlockNumbers : b # n => HeldOf(b)' = HeldOf(b)
      BY <2>1, <2>3
    <3>1. n \in R!Blocks /\ n \notin verified /\ j \in R!AllPackets(n)
      BY <1>1, <1>2
    <3>2. heldNow' = [heldNow EXCEPT ![n] = @ \cup {j}]
      BY <1>1, HeldNowExcept
    <3>3. verified' = verified /\ delivered' = delivered
      BY <1>2, <2>1 DEF Delivered
    <3>4. R!Gather(n)
      BY <3>1, <3>2, <3>3 DEF R!Gather, heldNow, Delivered
    <3> QED  BY <3>1, <3>4 DEF R!Next
  <2> QED  BY <2>2, <2>3
<1>10. CASE WriteBlock
  <2>1. /\ output' = output
        /\ \E n \in BlockNumbers :
              /\ n \in Numbers /\ Verifieds' = Verifieds \cup {n}
              /\ HeldOf(n) = 0 .. NbThrotChunks(onAir[n + 1]) - 1 /\ HeldOf(n)' = {}
              /\ \A b \in BlockNumbers : b # n => HeldOf(b)' = HeldOf(b)
    BY <1>1, <1>10, VerifyStep
  <2> PICK n \in BlockNumbers :
           /\ n \in Numbers /\ Verifieds' = Verifieds \cup {n}
           /\ HeldOf(n) = 0 .. NbThrotChunks(onAir[n + 1]) - 1 /\ HeldOf(n)' = {}
           /\ \A b \in BlockNumbers : b # n => HeldOf(b)' = HeldOf(b)
    BY <2>1
  <2>2. n \in R!Blocks /\ HeldOf(n) = R!AllPackets(n)
    BY <1>1
  <2>3. heldNow' = [heldNow EXCEPT ![n] = {}] /\ heldNow[n] = HeldOf(n)
    BY <1>1, HeldNowExcept
  <2>4. verified' = verified \cup {n} /\ delivered' = delivered
    BY <1>2, <2>1 DEF Delivered
  <2>5. R!Verify(n)
    BY <2>2, <2>3, <2>4 DEF R!Verify, heldNow, Delivered
  <2> QED  BY <2>2, <2>5 DEF R!Next
<1>11. CASE GenerateDataFile
  <2>1. /\ HeldSame /\ Verifieds' = Verifieds
        /\ output' = output \/ (Verifieds = Numbers /\ output' = Torn)
    BY <1>1, <1>11, DeliverStep
  <2>2. CASE output' = output
    BY <1>3, <2>1, <2>2
  <2>3. CASE Verifieds = Numbers /\ output' = Torn
    <3>1. verified = R!Blocks /\ verified' = verified
      BY <1>1, <1>2, <2>1, <2>3
    <3>2. delivered' = "begun"
      BY <2>3 DEF Delivered, IsWhole, Exists, Torn
    <3>3. heldNow' = heldNow
      BY <1>1, <2>1, HeldNowSame
    <3>4. R!Deliver
      BY <3>1, <3>2, <3>3 DEF R!Deliver, heldNow, Delivered
    <3> QED  BY <3>4 DEF R!Next
  <2> QED  BY <2>1, <2>2, <2>3
<1>12. CASE Exit \/ Crash
  <2>1. Ended
    BY <1>1, <1>12, ExitEnds, CrashEnds
  <2>2. verified' = {}
    BY <1>2, <2>1 DEF Ended
  <2>3. \/ heldNow' = heldNow
        \/ \E n \in R!Blocks : heldNow' = [heldNow EXCEPT ![n] = {}]
    <3>1. CASE HeldSame
      BY <1>1, <3>1, HeldNowSame
    <3>2. CASE ~ HeldSame
      <4> PICK n \in BlockNumbers :
             /\ n \in Numbers /\ HeldOf(n)' = {}
             /\ \A b \in BlockNumbers : b # n => HeldOf(b)' = HeldOf(b)
        BY <2>1, <3>2 DEF Ended
      <4>1. heldNow' = [heldNow EXCEPT ![n] = {}]
        BY <1>1, HeldNowExcept
      <4> QED  BY <1>1, <4>1
    <3> QED  BY <3>1, <3>2
  <2>4. \/ delivered' = delivered
        \/ verified = R!Blocks /\ delivered' \in {"begun", "yes"}
    <3>1. output' = output \/ (Verifieds = Numbers /\ Exists(output'))
      BY <2>1 DEF Ended
    <3> QED  BY <1>1, <1>2, <3>1 DEF Delivered
  <2>5. R!EndSession
    BY <2>2, <2>3, <2>4 DEF R!EndSession, heldNow, Delivered
  <2> QED  BY <2>5 DEF R!Next
<1>13. ~ Republish /\ ~ CheckPastPayload
  BY <1>1, CheckPastPayloadStep DEF Republish
<1> QED
  BY <1>4, <1>5, <1>6, <1>7, <1>8, <1>9, <1>10, <1>11, <1>12, <1>13 DEF Next, Handle, Finish

\* The invariant of the refinement is inductive.
LEMMA RefineInvKept ==
    ASSUME NEW file, Publications = {file}, ShiftsDefined(file), ~ WritesMayFail,
           RefineInv(file), [Next]_vars
    PROVE  RefineInv(file)'
<1> USE DEF RefineInv
<1>1. Inv'
  BY NextKeepsInv
<1>2. onAir' = onAir
  BY <1>1 DEF Inv, Base, TypeOK
<1>3. ResumeInv'
  BY <1>2, NextKeepsResume
<1>4. WritesInv' /\ DefinedBehaviour'
  BY NextKeepsWrites, NextKeepsDefined DEF Inv
<1>5. FaithfulInv(file)'
  BY OneFile, NextKeepsFaithful DEF Inv
<1>6. Complete' /\ StreamInFinale'
  <2>1. CASE Next
    BY <1>2, <1>4, <2>1, CompleteStep, StreamStep
  <2>2. CASE UNCHANGED vars
    BY <2>2 DEF vars, memory, Complete, StreamInFinale, InFinale
  <2> QED  BY <2>1, <2>2
<1> QED  BY <1>1, <1>3, <1>4, <1>5, <1>6

\* It holds at first.
LEMMA RefineInvInit ==
    ASSUME NEW file, Publications = {file}, ~ RemovesMayFail, Init
    PROVE  RefineInv(file)
<1>1. FaithfulInv(file)
  BY InitFaithful
<1>2. Complete /\ StreamInFinale
  BY DEF Init, InitMemory, Complete, StreamInFinale
<1>3. DefinedBehaviour
  BY DEF Init, DefinedBehaviour
<1> QED  BY <1>1, <1>2, <1>3, InitInv, InitResume, InitWrites DEF RefineInv

\* The receiver begins where Reception does.
LEMMA RefinementInit ==
    ASSUME NEW file, Publications = {file}, Len(file) <= MAX_BLOCK_NUMBER + 1, Init
    PROVE  R!Init
<1>1. TheFile = file /\ Len(TheFile) \in Nat /\ R!Blocks = 0 .. Len(TheFile) - 1
  BY FileOnAir
<1>2. ~ Loaded /\ Completed = {} /\ ~ InFinale
  BY NoneCompleted DEF Init, InitMemory, Loaded, NoBlock, InFinale
<1>3. \A b \in BlockNumbers : HeldOf(b) = {}
  BY <1>2 DEF Init, HeldOf, IsWhole, Absent
<1>4. \A b \in 0 .. Len(TheFile) - 1 : b \in BlockNumbers
  BY <1>1, MaximaAssumption DEF BlockNumbers
<1>5. heldNow = [b \in R!Blocks |-> {}]
  BY <1>1, <1>3, <1>4 DEF heldNow
<1>6. Delivered = "no"
  BY DEF Init, Delivered, IsWhole, Exists, Absent
<1> QED  BY <1>2, <1>5, <1>6 DEF R!Init, heldNow, Delivered

(***************************************************************************)
(* The receiver implements Reception: with one file on the air and a disk  *)
(* that refuses nothing, through losses, repetitions, switches of blocks,  *)
(* kills and restarts, no packet is forgotten except with the one block in *)
(* memory when a session ends, no block counts before all its packets are  *)
(* there, and nothing is delivered before every block has been verified.   *)
(* Without ShiftsDefined a map may be taken for full too early, and a      *)
(* disk that refuses writes loses the block a switch saves; with one that  *)
(* refuses removals a stale map takes back the packets stored since.       *)
(***************************************************************************)
THEOREM ReceptionImplemented ==
    ASSUME NEW file, Publications = {file}, Len(file) <= MAX_BLOCK_NUMBER + 1,
           ShiftsDefined(file), ~ WritesMayFail, ~ RemovesMayFail
    PROVE  Spec => ImplementsReception
<1>1. Init => RefineInv(file) /\ R!Init
  BY RefineInvInit, RefinementInit
<1>2. RefineInv(file) /\ [Next]_vars => RefineInv(file)'
  BY RefineInvKept
<1>3. RefineInv(file) /\ RefineInv(file)' /\ [Next]_vars => [R!Next]_(R!vars)
  <2>1. CASE UNCHANGED vars
    <3>1. UNCHANGED R!vars
      BY <2>1 DEF R!vars, vars, memory, disk, HeldOf, Loaded, InFinale, Completed
    <3> QED  BY <3>1
  <2> QED  BY <2>1, RefinementStep
<1> QED  BY <1>1, <1>2, <1>3, PTL DEF Spec, ImplementsReception, R!Spec

=============================================================================

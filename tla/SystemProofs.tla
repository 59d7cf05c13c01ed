----------------------------- MODULE SystemProofs -----------------------------
(***************************************************************************)
(* Proofs about the whole system, for every set of publications and every  *)
(* size of a packet, of a word and of the socket: the transmitter and the  *)
(* network give the receiver nothing but packets of the publication, and a *)
(* publication beyond the receiver's limits never becomes a result file.   *)
(***************************************************************************)
EXTENDS System, ReceptionProofs

(***************************************************************************)
(* Where the transmitter is, and what is on its way: the bytes counted as  *)
(* sent are those of the packets before j, which makes the next packet a   *)
(* packet of the publication.                                              *)
(***************************************************************************)
OnTheWay ==
    /\ onAir \in Publications
    /\ i \in 0 .. Len(onAir) - 1
    /\ j \in 0 .. NbThrotChunks(onAir[i + 1])
    /\ blockSize = SentBefore(onAir[i + 1], j)
    /\ ~ BlockIsSent(onAir[i + 1]) => j = 0
    /\ socket \in Seq(PacketsOf(onAir))

\* The transmitter's operators are those of the packets.
LEMMA TransmitterOperators ==
    /\ T!Block = onAir[i + 1] /\ T!nbThrotChunks = NbThrotChunks(onAir[i + 1])
    /\ T!BlockIsSent(onAir[i + 1]) <=> BlockIsSent(onAir[i + 1])
    /\ T!payloadSize = IF blockSize + ThrotData <= Len(onAir[i + 1])
                       THEN ThrotData ELSE Len(onAir[i + 1]) - blockSize
    /\ \A bytes : T!crc32c(bytes) = crc32c(bytes)
BY DEF T!Block, T!nbThrotChunks, T!NbThrotChunks, NbThrotChunks, T!BlockIsSent, BlockIsSent,
       T!payloadSize, T!crc32c, crc32c

\* The file on the air and the block that is being sent.
LEMMA SentBlock ==
    ASSUME onAir \in Publications, NEW n \in 0 .. Len(onAir) - 1
    PROVE  /\ onAir \in Seq(Seq(Nat)) /\ Len(onAir) \in Nat \ {0}
           /\ onAir[n + 1] \in Seq(Nat) /\ onAir[n + 1] # <<>>
           /\ NbThrotChunks(onAir[n + 1]) \in Nat \ {0}
<1>1. /\ onAir \in Seq(Seq(Nat)) /\ onAir # <<>>
      /\ \A m \in 1 .. Len(onAir) : onAir[m] # <<>>
  BY PublicationsAssumption
<1>2. Len(onAir) \in Nat \ {0}
  BY <1>1, EmptySeq, LenProperties
<1>3. n + 1 \in 1 .. Len(onAir)
  BY <1>2
<1>4. onAir[n + 1] \in Seq(Nat) /\ onAir[n + 1] # <<>>
  BY <1>1, <1>3, ElementOfSeq
<1> QED  BY <1>1, <1>2, <1>4, ChunkTotal

\* At first nothing is on its way.
LEMMA OnTheWayInit == SystemInit => OnTheWay
<1> SUFFICES ASSUME SystemInit PROVE OnTheWay
  OBVIOUS
<1>1. onAir \in Publications /\ i = 0 /\ j = 0 /\ blockSize = 0 /\ socket = <<>>
  BY DEF SystemInit, Init, T!Init
<1>2. Len(onAir) \in Nat \ {0}
  <2>1. onAir \in Seq(Seq(Nat)) /\ onAir # <<>>
    BY <1>1, PublicationsAssumption
  <2> QED  BY <2>1, EmptySeq, LenProperties
<1>3. i \in 0 .. Len(onAir) - 1
  BY <1>1, <1>2
<1>4. onAir[i + 1] \in Seq(Nat) /\ NbThrotChunks(onAir[i + 1]) \in Nat \ {0}
  BY <1>1, <1>3, SentBlock
<1>5. j \in 0 .. NbThrotChunks(onAir[i + 1]) /\ blockSize = SentBefore(onAir[i + 1], j)
  BY <1>1, <1>4, SentBounds
<1>6. socket \in Seq(PacketsOf(onAir))
  BY <1>1
<1> QED  BY <1>1, <1>3, <1>5, <1>6 DEF OnTheWay

\* What arrives is added to the socket at most twice.
LEMMA Arrived ==
    ASSUME NEW S, socket \in Seq(S), NEW datagram \in S, Arrive(datagram)
    PROVE  socket' \in Seq(S)
<1>1. CASE socket' = socket
  BY <1>1
<1>2. CASE socket' = Append(socket, datagram)
  BY <1>2, AppendProperties
<1>3. CASE socket' = socket \o <<datagram, datagram>>
  <2>1. <<datagram, datagram>> \in Seq(S)
    OBVIOUS
  <2> QED  BY <1>3, <2>1, ConcatProperties
<1>4. CASE socket' = <<datagram>> \o socket
  <2>1. <<datagram>> \in Seq(S)
    OBVIOUS
  <2> QED  BY <1>4, <2>1, ConcatProperties
<1> QED  BY <1>1, <1>2, <1>3, <1>4 DEF Arrive

\* A packet is sent.
LEMMA SendKeeps ==
    ASSUME OnTheWay, Send
    PROVE  OnTheWay' /\ UNCHANGED vars
<1> DEFINE whole == onAir[i + 1]
           size == IF blockSize + ThrotData <= Len(whole) THEN ThrotData
                   ELSE Len(whole) - blockSize
           payload == SubSeq(whole, blockSize + 1, blockSize + size)
<1>1. /\ BlockIsSent(whole) /\ j < NbThrotChunks(whole)
      /\ j' = j + 1 /\ blockSize' = blockSize + size /\ UNCHANGED <<onAir, i>>
  BY TransmitterOperators DEF Send, T!SendPacket, T!InBlock, T!NextPacket
<1>2. /\ onAir \in Seq(Seq(Nat)) /\ Len(onAir) \in Nat \ {0} /\ i \in 0 .. Len(onAir) - 1
      /\ whole \in Seq(Nat) /\ NbThrotChunks(whole) \in Nat \ {0}
      /\ j \in 0 .. NbThrotChunks(whole) /\ blockSize = SentBefore(whole, j)
  BY SentBlock DEF OnTheWay
<1>3. j \in 0 .. NbThrotChunks(whole) - 1 /\ j' \in 0 .. NbThrotChunks(whole)
  BY <1>1, <1>2
<1>4. blockSize + size = SentBefore(whole, j + 1) /\ payload = Chunk(whole, j)
  BY <1>2, <1>3, NextChunkSent
<1>5. wire' = {[checksum |-> crc32c(whole), blockNumber |-> i, blockTotal |-> Len(onAir),
                packetNumber |-> j, packetTotal |-> NbThrotChunks(whole),
                payload |-> payload]}
  <2>1. [n \in 1 .. Len(onAir) |-> n - 1][i + 1] = i
    BY <1>2
  <2> QED  BY <2>1, TransmitterOperators DEF Send, T!SendPacket
<1> HIDE DEF payload
<1>6. wire' \subseteq PacketsOf(onAir)
  BY <1>1, <1>2, <1>3, <1>4, <1>5, NextPacketSent
<1>7. PICK datagram \in wire' : Arrive(datagram)
  BY DEF Send
<1>8. socket' \in Seq(PacketsOf(onAir))
  BY <1>6, <1>7, Arrived DEF OnTheWay
<1>9. UNCHANGED vars
  BY <1>1 DEF Send, receiver, vars, environment
<1> HIDE DEF whole, size
<1>10. whole' = whole
  BY <1>1 DEF whole
<1> QED  BY <1>1, <1>3, <1>4, <1>8, <1>9, <1>10 DEF OnTheWay, whole

\* The next block or repetition begins with nothing sent.
LEMMA TurnKeeps ==
    ASSUME OnTheWay, Turn
    PROVE  OnTheWay' /\ UNCHANGED vars
<1>1. /\ onAir \in Seq(Seq(Nat)) /\ Len(onAir) \in Nat \ {0} /\ i \in 0 .. Len(onAir) - 1
      /\ onAir[i + 1] \in Seq(Nat) /\ NbThrotChunks(onAir[i + 1]) \in Nat \ {0}
      /\ ~ BlockIsSent(onAir[i + 1]) => j = 0
      /\ j \in 0 .. NbThrotChunks(onAir[i + 1]) /\ blockSize = SentBefore(onAir[i + 1], j)
  BY SentBlock DEF OnTheWay
<1>2. onAir' = onAir /\ T!NextTurn /\ socket' = socket
  BY DEF Turn, T!EndBlock, T!SkipBlock
<1>3. j' = 0 /\ blockSize' = 0
  <2>1. CASE T!EndBlock
    BY <2>1 DEF T!EndBlock
  <2>2. CASE T!SkipBlock
    <3>1. ~ BlockIsSent(onAir[i + 1]) /\ j' = j /\ blockSize' = blockSize
      BY <2>2, TransmitterOperators DEF T!SkipBlock
    <3> QED  BY <1>1, <3>1, SentBounds
  <2> QED  BY <2>1, <2>2 DEF Turn
<1>4. i' \in 0 .. Len(onAir) - 1
  <2>1. i' = i \/ i' = (i + 1) % Len(onAir)
    BY <1>2 DEF T!NextTurn
  <2> QED  BY <1>1, <2>1
<1>5. PICK n \in 0 .. Len(onAir) - 1 : n = i'
  BY <1>4
<1>6. onAir[n + 1] \in Seq(Nat) /\ NbThrotChunks(onAir[n + 1]) \in Nat \ {0}
  BY <1>5, SentBlock DEF OnTheWay
<1>7. SentBefore(onAir[n + 1], 0) = 0 /\ 0 \in 0 .. NbThrotChunks(onAir[n + 1])
  BY <1>6, SentBounds
<1>8. OnTheWay'
  BY <1>2, <1>3, <1>5, <1>7 DEF OnTheWay
<1>9. UNCHANGED vars
  BY <1>2 DEF Turn, receiver, vars, environment
<1> QED  BY <1>8, <1>9

\* What the receiver reads was sent.
LEMMA ReadKeeps ==
    ASSUME OnTheWay, Read
    PROVE  /\ OnTheWay' /\ onAir' = onAir
           /\ UNCHANGED vars \/ \E p \in PacketsOf(onAir) : ReceivePacket(p)
<1>1. /\ socket # <<>> /\ socket' = Tail(socket) /\ UNCHANGED <<i, j, blockSize>>
      /\ IF Accepts(Head(socket)) THEN ReceivePacket(Head(socket)) ELSE UNCHANGED vars
  BY DEF Read, transmitter
<1>2. Head(socket) \in PacketsOf(onAir) /\ socket' \in Seq(PacketsOf(onAir))
  BY <1>1, HeadTailProperties DEF OnTheWay
<1>3. onAir' = onAir
  BY <1>1 DEF ReceivePacket, vars, environment
<1>4. OnTheWay'
  BY <1>1, <1>2, <1>3 DEF OnTheWay
<1> QED  BY <1>1, <1>2, <1>3, <1>4

\* The receiver's own steps and its end leave the transmitter alone.
LEMMA WorkKeeps ==
    ASSUME OnTheWay, Work \/ Kill
    PROVE  OnTheWay' /\ onAir' = onAir /\ Next
<1>1. onAir' = onAir
  <2>1. CASE Kill
    BY <2>1 DEF Kill, Crash, environment
  <2>2. CASE Work
    BY <2>2
       DEF Work, Start, Reset, ResetNothing, ResetRemoveBlock, ResetRemoveIndex, Handle,
           SaveBlock, SaveMap, RestoreNext, IgnorePacket, BeginBlock, ContinueBlock,
           StorePacket, CheckPastPayload, DropCorruptBlock, KeepBlock, WriteBlock, Finish,
           CreateIndex, GenerateDataFile, Exit, environment
  <2> QED  BY <2>1, <2>2
<1>2. UNCHANGED <<i, j, blockSize>> /\ socket' \in {socket, <<>>}
  BY DEF Work, Kill, transmitter
<1>3. OnTheWay'
  <2>1. socket' \in Seq(PacketsOf(onAir))
    <3>1. <<>> \in Seq(PacketsOf(onAir))
      OBVIOUS
    <3> QED  BY <1>2, <3>1 DEF OnTheWay
  <2> QED  BY <1>1, <1>2, <2>1 DEF OnTheWay
<1>4. Next
  BY DEF Work, Kill, Next
<1> QED  BY <1>1, <1>3, <1>4

\* Every step of the system keeps OnTheWay and is a step of Receiver, or none.
LEMMA SystemStep ==
    ASSUME OnTheWay, [SystemNext]_systemVars
    PROVE  OnTheWay' /\ onAir' = onAir /\ [Next]_vars
<1>1. CASE Send \/ Turn
  BY <1>1, SendKeeps, TurnKeeps DEF vars, environment
<1>2. CASE Read
  <2>1. /\ OnTheWay' /\ onAir' = onAir
        /\ UNCHANGED vars \/ \E p \in PacketsOf(onAir) : ReceivePacket(p)
    BY <1>2, ReadKeeps
  <2> QED  BY <2>1 DEF Next
<1>3. CASE Work \/ Kill
  BY <1>3, WorkKeeps
<1>4. CASE UNCHANGED systemVars
  <2>1. UNCHANGED vars /\ UNCHANGED <<i, j, blockSize, socket>>
    BY <1>4 DEF systemVars, transmitter
  <2>2. onAir' = onAir
    BY <2>1 DEF vars, environment
  <2> QED  BY <2>1, <2>2 DEF OnTheWay
<1> QED  BY <1>1, <1>2, <1>3, <1>4 DEF SystemNext

(***************************************************************************)
(* What the receiver is proved to do of any packets of the publication, it *)
(* does in this system: through the transmitter's loop, a socket that      *)
(* overflows and a network that loses, doubles and reorders, each of its   *)
(* steps is a step of Receiver.                                            *)
(***************************************************************************)
THEOREM ReceiverImplemented == SystemSpec => ImplementsReceiver
<1>1. SystemInit => OnTheWay /\ Init
  BY OnTheWayInit DEF SystemInit
<1>2. OnTheWay /\ [SystemNext]_systemVars => OnTheWay' /\ [Next]_vars
  BY SystemStep
<1> QED  BY <1>1, <1>2, PTL DEF SystemSpec, ImplementsReceiver, Spec

-----------------------------------------------------------------------------
(***************************************************************************)
(* Blocks that are never received.  Of some the receiver never gets the    *)
(* last packet: an empty one is refused by readPacket.  Others are over    *)
(* with the packet that begins them: they are not sent, they cannot begin  *)
(* with their last packet, or their map is found full as soon as it has    *)
(* one packet.                                                             *)
(***************************************************************************)
LastOf(b) == NbThrotChunks(onAir[b + 1]) - 1

OverAtOnce(b) ==
    \/ ~ BlockIsSent(onAir[b + 1])
    \/ Len(onAir[b + 1]) < ThrotData
    \/ WideShift = {1} /\ NbThrotChunks(onAir[b + 1]) = NbBitsItem

Hopeless(b) == OverAtOnce(b) \/ Len(onAir[b + 1]) % ThrotData = 0

(***************************************************************************)
(* The inductive invariant: the last packet of such a block is never held, *)
(* in memory or on disk, so that its payload size stays that of the calloc *)
(* and its checksum never matches.  That needs, for the packet about to be *)
(* stored, that it is not the last one, and for a block that is over at    *)
(* once, that it does not stay in memory until there could be another one. *)
(***************************************************************************)
Stuck(b) ==
    /\ LastOf(b) \notin HeldOf(b)
    /\ pc = "store" /\ packet.blockNumber = b => ~ IsLastPacket(packet)
    /\ pc = "write" => packet.blockNumber # b
    /\ b \notin Completed
    /\ OverAtOnce(b) => /\ ~ IsWhole(mapFile[b])
                        /\ Loaded /\ dataBlock.blockNumber = b => pc \in {"store", "check"}

HopelessStuck ==
    \A b \in BlockNumbers : b < Len(onAir) /\ Hopeless(b) => Stuck(b)

\* A file that cannot be received, and what there is then of a result.
Unreceivable ==
    \/ Len(onAir) > MAX_BLOCK_NUMBER
    \/ \E b \in BlockNumbers : b < Len(onAir) /\ Hopeless(b)

NoResult ==
    /\ pc \notin {"index", "generate", "erase", "exit"}
    /\ output = Absent /\ stream = <<>>

-----------------------------------------------------------------------------
(***************************************************************************)
(* Packets of blocks that are never received.                              *)
(***************************************************************************)
\* A packet in hand tells the size of the file, which fits the index table.
LEMMA FileInHand ==
    ASSUME Inv, FromTheAir, pc \in Handling
    PROVE  /\ BlockIsSent(onAir[packet.blockNumber + 1])
           /\ indexTable.nbItems = Len(onAir) /\ Len(onAir) <= MAX_BLOCK_NUMBER
<1>1. packet \in PacketsOf(onAir)
  BY DEF FromTheAir
<1>2. PICK b \in {n \in 0 .. Len(onAir) - 1 : BlockIsSent(onAir[n + 1])} :
         packet \in {Packet(onAir, b, m) : m \in 0 .. NbThrotChunks(onAir[b + 1]) - 1}
  BY <1>1, Zenon DEF PacketsOf
<1>3. PICK m \in 0 .. NbThrotChunks(onAir[b + 1]) - 1 : packet = Packet(onAir, b, m)
  BY <1>2
<1>4. packet.blockNumber = b /\ packet.blockTotal = Len(onAir) /\ BlockIsSent(onAir[b + 1])
  BY <1>2, <1>3 DEF Packet
<1>5. packet.blockTotal = indexTable.nbItems /\ indexTable.nbItems \in 0 .. MAX_BLOCK_NUMBER
  BY DEF Inv, Base, Phases, TypeOK, IsIndexTable
<1>6. indexTable.nbItems <= MAX_BLOCK_NUMBER
  BY <1>5, MaximaAssumption
<1> QED  BY <1>4, <1>5, <1>6

\* The last packet of a block is empty exactly if the block is full packets,
\* and the only one if the block is shorter than a packet.
LEMMA LastPacketOf ==
    ASSUME Inv, NEW b \in Nat, b < Len(onAir)
    PROVE  /\ LastOf(b) \in Nat
           /\ Len(onAir[b + 1]) % ThrotData = 0 => Len(Chunk(onAir[b + 1], LastOf(b))) = 0
           /\ Len(onAir[b + 1]) < ThrotData => LastOf(b) = 0
<1> DEFINE n == Len(onAir[b + 1])
           q == n \div ThrotData
           c == Len(Chunk(onAir[b + 1], LastOf(b)))
<1>1. onAir[b + 1] \in Seq(Nat) /\ n \in Nat \ {0}
  BY BlockOnAir
<1>2. LastOf(b) = q /\ q \in Nat /\ q \in 0 .. NbThrotChunks(onAir[b + 1]) - 1
  <2>1. q \in Nat
    BY <1>1, ChunkCount
  <2>2. NbThrotChunks(onAir[b + 1]) = q + 1
    BY DEF NbThrotChunks
  <2> HIDE DEF q
  <2> QED  BY <2>1, <2>2 DEF LastOf
<1>3. c \in 0 .. ThrotData /\ q * ThrotData + c = n
  <2>1. q = NbThrotChunks(onAir[b + 1]) - 1
    BY <1>2 DEF LastOf
  <2> QED  BY <1>1, <1>2, <2>1, ChunkPlace
<1> HIDE DEF c, n
<1>4. n % ThrotData = n - ThrotData * q
  BY <1>1, ThrotDataAssumption
<1> HIDE DEF q
<1>5. q * ThrotData = ThrotData * q /\ ThrotData * q \in Nat
  BY <1>2, ThrotDataAssumption
<1>6. n % ThrotData = 0 => c = 0
  BY <1>1, <1>3, <1>4, <1>5, ThrotDataAssumption
<1>7. n < ThrotData => q = 0
  <2> SUFFICES ASSUME n < ThrotData PROVE q = 0
    OBVIOUS
  <2>1. n \div ThrotData = 0
    BY <1>1, ThrotDataAssumption
  <2> QED  BY <2>1 DEF q
<1> QED  BY <1>2, <1>6, <1>7 DEF c, n

\* readPacket refuses the last packet of a block of full packets.
LEMMA EmptyRefused ==
    ASSUME Inv, FromTheAir, pc \in Handling,
           Len(onAir[packet.blockNumber + 1]) % ThrotData = 0
    PROVE  ~ IsLastPacket(packet)
<1>1. /\ packet.blockNumber \in Nat /\ packet.blockNumber < Len(onAir)
      /\ packet.packetTotal = NbThrotChunks(onAir[packet.blockNumber + 1])
      /\ packet.payload = Chunk(onAir[packet.blockNumber + 1], packet.packetNumber)
  BY PacketOnAir
<1>2. Len(packet.payload) # 0
  BY DEF Inv, Base, Phases, readPacket
<1>3. packet.packetNumber # LastOf(packet.blockNumber)
  BY <1>1, <1>2, LastPacketOf
<1> QED  BY <1>1, <1>3 DEF IsLastPacket, LastOf

\* A block that is over at once and is begun has one word of packets.
LEMMA OneWord ==
    ASSUME Inv, FromTheAir, pc \in Handling, OverAtOnce(packet.blockNumber),
           ~ IsLastPacket(packet)
    PROVE  WideShift = {1} /\ packet.packetTotal = NbBitsItem
<1>1. /\ packet.blockNumber \in Nat /\ packet.blockNumber < Len(onAir)
      /\ packet.packetTotal = NbThrotChunks(onAir[packet.blockNumber + 1])
      /\ packet.packetNumber \in 0 .. NbThrotChunks(onAir[packet.blockNumber + 1]) - 1
  BY PacketOnAir
<1>2. BlockIsSent(onAir[packet.blockNumber + 1])
  BY FileInHand
<1>3. ~ Len(onAir[packet.blockNumber + 1]) < ThrotData
  <2> SUFFICES ASSUME Len(onAir[packet.blockNumber + 1]) < ThrotData PROVE FALSE
    OBVIOUS
  <2>1. LastOf(packet.blockNumber) = 0
    BY <1>1, LastPacketOf
  <2>2. packet.packetNumber \in 0 .. 0 /\ packet.packetTotal - 1 = 0
    BY <1>1, <2>1 DEF LastOf
  <2> QED  BY <2>2 DEF IsLastPacket
<1> QED  BY <1>1, <1>2, <1>3 DEF OverAtOnce

\* Without its last packet a block is too long for its checksum.
LEMMA LackingFails ==
    ASSUME Inv, ResumeInv, Loaded,
           LastOf(dataBlock.blockNumber) \notin Held(blockPacketMap)
    PROVE  ~ ChecksumMatches
<1>1. CASE blockPacketMap = ClosedMap
  BY <1>1, UnmappedFails
<1>2. CASE blockPacketMap # ClosedMap
  <2> DEFINE whole == onAir[dataBlock.blockNumber + 1]
             cut == SubSeq(dataBlock.payload, 1, dataBlock.payloadSize)
  <2>1. /\ dataBlock \in Block /\ dataBlock.payloadSize \in 1 .. Len(dataBlock.payload)
        /\ dataBlock.blockNumber < Len(onAir) /\ Resumable(dataBlock, blockPacketMap)
    BY <1>2 DEF Inv, Base, TypeOK, BlockInMemory, Coherent, ResumeInv, InMemory
  <2>2. dataBlock.blockNumber \in Nat
    BY <2>1, MaximaAssumption DEF Block, BlockNumbers
  <2>3. /\ dataBlock.checksum = crc32c(whole)
        /\ dataBlock.payloadSize = NbThrotChunks(whole) * ThrotData
    BY <2>1 DEF Resumable, LastOf
  <2>4. Len(whole) \in Nat /\ Len(whole) < dataBlock.payloadSize
    BY <2>1, <2>2, <2>3, BlockOnAir
  <2>5. Len(cut) = dataBlock.payloadSize /\ dataBlock.payloadSize \in Nat
    BY <2>1, ImageOfBlock DEF Block
  <2>6. cut # whole
    BY <2>4, <2>5
  <2> QED  BY <2>3, <2>6 DEF ChecksumMatches, crc32c
<1> QED  BY <1>1, <1>2

-----------------------------------------------------------------------------
(***************************************************************************)
(* What a step adds to the packets held of a block: the packet it stores.  *)
(***************************************************************************)
\* The block leaves memory and its map does not change on disk.
LEMMA HeldReleased ==
    ASSUME Inv, Next, ~ SaveMap, dataBlock' = NoBlock, NEW b \in BlockNumbers
    PROVE  HeldOf(b)' \subseteq HeldOf(b)
<1>1. ~ Loaded'
  BY NothingLoaded DEF Loaded
<1>2. CASE ~ IsWhole(mapFile'[b])
  BY <1>1, <1>2 DEF HeldOf
<1>3. CASE IsWhole(mapFile'[b])
  <2>1. mapFile'[b] = mapFile[b]
    BY <1>3, WaitingKept
  <2>2. ~ (Loaded /\ dataBlock.blockNumber = b)
    BY <1>3, <2>1 DEF Inv, MapHasStoredBlock
  <2> QED  BY <1>1, <1>3, <2>1, <2>2 DEF HeldOf
<1> QED  BY <1>2, <1>3

\* It is written with its map, or the write is refused.
LEMMA HeldWritten ==
    ASSUME Inv, SaveMap, NEW b \in BlockNumbers
    PROVE  /\ HeldOf(b)' \subseteq HeldOf(b)
           /\ dataBlock.blockNumber # b => mapFile'[b] = mapFile[b]
<1> DEFINE n == dataBlock.blockNumber
<1>1. Loaded /\ dataBlock' = NoBlock /\ DOMAIN mapFile = BlockNumbers
  BY DEF SaveMap, ReleaseBlock, Inv, Base, Phases, Holding, TypeOK
<1>2. ~ Loaded'
  BY <1>1, NothingLoaded DEF Loaded
<1>3. PICK file \in WriteOutcomes(mapFile[n], blockPacketMap) :
         mapFile' = [mapFile EXCEPT ![n] = file]
  BY DEF SaveMap
<1>4. file \in {Whole(blockPacketMap), mapFile[n], Torn}
  BY WriteLeaves
<1> HIDE DEF n
<1>5. CASE n # b
  <2>1. mapFile'[b] = mapFile[b]
    BY <1>1, <1>3, <1>5
  <2> QED  BY <1>1, <1>2, <1>5, <2>1 DEF HeldOf, n
<1>6. CASE n = b
  <2>1. mapFile'[b] = file /\ HeldOf(b) = Held(blockPacketMap) /\ ~ IsWhole(mapFile[n])
    BY <1>1, <1>3, <1>6, HeldInMemory DEF n
  <2>2. CASE file = Whole(blockPacketMap)
    BY <1>2, <1>6, <2>1, <2>2 DEF HeldOf, Whole, IsWhole, n
  <2>3. CASE file # Whole(blockPacketMap)
    <3>1. ~ IsWhole(file)
      BY <1>4, <2>1, <2>3 DEF IsWhole, Torn
    <3> QED  BY <1>2, <1>6, <2>1, <3>1 DEF HeldOf, n
  <2> QED  BY <1>6, <2>2, <2>3 DEF n
<1> QED  BY <1>5, <1>6 DEF n

\* The packet in hand is added to the block in memory.
LEMMA HeldStored ==
    ASSUME Inv, ResumeInv, StorePacket, NEW b \in BlockNumbers
    PROVE  HeldOf(b)' \subseteq
               IF packet.blockNumber = b THEN HeldOf(b) \cup {packet.packetNumber}
               ELSE HeldOf(b)
<1>1. /\ pc = "store" /\ Loaded /\ Loaded' /\ packet.packetNumber \in Nat
      /\ blockPacketMap' = setMap(blockPacketMap, packet.packetNumber)
      /\ dataBlock'.blockNumber = dataBlock.blockNumber /\ mapFile' = mapFile
  BY StoreEffect DEF StorePacket, disk
<1>2. dataBlock.blockNumber = packet.blockNumber /\ IsMap(blockPacketMap)
  BY <1>1 DEF Inv, Base, Phases, TypeOK
<1>3. Held(blockPacketMap') \subseteq Held(blockPacketMap) \cup {packet.packetNumber}
  BY <1>1, <1>2, SetMapAdds
<1> QED  BY <1>1, <1>2, <1>3 DEF HeldOf

\* Packets of a block are added one at a time, and by store only.
LEMMA HeldGrows ==
    ASSUME Inv, ResumeInv, Next, NEW b \in BlockNumbers
    PROVE  \/ HeldOf(b)' \subseteq HeldOf(b)
           \/ /\ StorePacket /\ packet.blockNumber = b
              /\ HeldOf(b)' \subseteq HeldOf(b) \cup {packet.packetNumber}
<1>1. CASE UNCHANGED <<dataBlock, blockPacketMap, mapFile>>
  BY <1>1, HeldUntouched
<1>2. CASE dataBlock' = NoBlock
  BY <1>2, HeldReleased, HeldWritten
<1>3. CASE \/ Start \/ Republish \/ Reset \/ IgnorePacket \/ ContinueBlock \/ KeepBlock
           \/ CreateIndex \/ GenerateDataFile
           \/ \E p \in PacketsOf(onAir) : ReceivePacket(p)
  <2>1. UNCHANGED <<dataBlock, blockPacketMap, mapFile>>
    BY <1>3
       DEF Start, Republish, Reset, ResetNothing, ResetRemoveBlock, ResetRemoveIndex,
           IgnorePacket, ContinueBlock, KeepBlock, CreateIndex, GenerateDataFile,
           ReceivePacket, memory, disk
  <2> QED  BY <1>1, <2>1
<1>4. CASE Crash \/ Exit \/ SaveMap \/ DropCorruptBlock \/ WriteBlock
  BY <1>2, <1>4 DEF Crash, Exit, ClearMemory, SaveMap, DropCorruptBlock, WriteBlock,
                    ReleaseBlock
<1>5. CASE SaveBlock
  BY <1>1, <1>2, <1>5 DEF SaveBlock, ReleaseBlock
<1>6. CASE RestoreNext \/ BeginBlock
  BY <1>6, HeldRestoreNext, HeldBeginBlock
<1>7. CASE StorePacket
  BY <1>7, HeldStored
<1> QED
  BY <1>3, <1>4, <1>5, <1>6, <1>7, CheckPastPayloadStep DEF Next, Handle, Finish

\* A map of one full word is found full whatever it holds when 1 << NB_BITS_ITEM
\* is 1, and so is a map that could not be allocated.
LEMMA FoundFull ==
    ASSUME NEW map, IsMap(map), map = ClosedMap \/ map.packetTotal = NbBitsItem
    PROVE  isMapFull(map, 1)
<1>1. CASE map = ClosedMap
  BY <1>1 DEF isMapFull, IsOpen, ClosedMap
<1>2. CASE map # ClosedMap
  <2>1. map.nbItems = NbItems(NbBitsItem)
    BY <1>2, OpenMap
  <2>2. (NbBitsItem - 1) \div NbBitsItem = 0 /\ (NbBitsItem - 1) % NbBitsItem = NbBitsItem - 1
    BY NbBitsItemAssumption
  <2>3. map.nbItems = 1 /\ BitOf(map.packetTotal - 1) + 1 = NbBitsItem
    BY <1>2, <2>1, <2>2, NbBitsItemAssumption DEF NbItems, BitOf
  <2>4. Mask(NbBitsItem, 1) = {}
    BY NbBitsItemAssumption DEF Mask
  <2>5. \A m \in 0 .. map.nbItems - 2 : map.items[m] = FullWord
    BY <2>3
  <2> QED  BY <2>3, <2>4, <2>5 DEF isMapFull
<1> QED  BY <1>1, <1>2

\* So the check of the checksum follows the first packet of such a block.
LEMMA CheckedAtOnce ==
    ASSUME Inv, ResumeInv, StorePacket, WideShift = {1}, packet.packetTotal = NbBitsItem
    PROVE  pc' = "check"
<1> DEFINE offset == maxPacketSize * packet.packetNumber
           map == setMap(blockPacketMap, packet.packetNumber)
<1>1. pc = "store" /\ Loaded /\ IsMap(blockPacketMap) /\ packet.packetNumber \in Nat
  BY StoreEffect DEF Inv, Base, TypeOK
<1>2. maxPacketSize \in Nat /\ Len(packet.payload) \in Nat
  BY <1>1, PacketInHand, ThrotDataAssumption DEF Handling, Inv, Base, TypeOK
<1>3. /\ ~ (IsLastPacket(packet) /\ Len(packet.payload) > maxPacketSize)
      /\ offset + Len(packet.payload) <= AdjustedSize
  BY <1>1, <1>2, PacketFits
<1>7. ~ offset + Len(packet.payload) > Len(dataBlock.payload)
  <2>1. dataBlock \in Block
    BY <1>1 DEF Inv, Base, TypeOK, Loaded
  <2>2. Len(dataBlock.payload) \in Nat
    BY <2>1, LenProperties DEF Block
  <2>3. offset + Len(packet.payload) <= Len(dataBlock.payload)
    BY <1>1, PacketFits
  <2>4. offset + Len(packet.payload) \in Int
    BY <1>1, FitsPayload
  <2> HIDE DEF offset
  <2> QED  BY <2>2, <2>3, <2>4
<1>4. blockPacketMap = ClosedMap \/ blockPacketMap.packetTotal = NbBitsItem
  <2>1. dataBlock.blockNumber = packet.blockNumber
    BY <1>1 DEF Inv, Base, Phases
  <2>2. packet.packetTotal = NbThrotChunks(onAir[packet.blockNumber + 1])
    BY <1>1, PacketOnAir DEF ResumeInv, Handling
  <2> QED  BY <1>1, <2>1, <2>2 DEF ResumeInv, InMemory, Resumable
<1>5. IsMap(map) /\ (map = ClosedMap \/ map.packetTotal = NbBitsItem)
  <2>1. IsMap(map) /\ map.packetTotal = blockPacketMap.packetTotal
    BY <1>1, SetMapAdds
  <2>2. CASE blockPacketMap = ClosedMap
    BY <1>1, <2>2 DEF setMap, UpdateItem, InMap, ClosedMap
  <2> QED  BY <1>4, <2>1, <2>2
<1>6. isMapFull(map, 1)
  BY <1>5, FoundFull
<1> QED  BY <1>3, <1>6, <1>7 DEF StorePacket

-----------------------------------------------------------------------------
(***************************************************************************)
(* A step of the receiver keeps what is said of a block that is never      *)
(* received, one part at a time.                                           *)
(***************************************************************************)
StuckBlock(b) ==
    /\ Inv /\ ResumeInv /\ onAir' = onAir
    /\ b \in BlockNumbers /\ b < Len(onAir) /\ Hopeless(b) /\ Stuck(b)

\* The last packet is not the one that is stored.
LEMMA LastStaysAway ==
    ASSUME NEW b, StuckBlock(b), Next
    PROVE  LastOf(b)' \notin HeldOf(b)'
<1> USE DEF StuckBlock
<1>1. LastOf(b)' = LastOf(b) /\ LastOf(b) \notin HeldOf(b)
  BY DEF LastOf, Stuck
<1>2. CASE HeldOf(b)' \subseteq HeldOf(b)
  BY <1>1, <1>2
<1>3. CASE /\ StorePacket /\ packet.blockNumber = b
           /\ HeldOf(b)' \subseteq HeldOf(b) \cup {packet.packetNumber}
  <2>1. pc = "store" /\ ~ IsLastPacket(packet)
    BY <1>3 DEF StorePacket, Stuck
  <2>2. packet.packetTotal = NbThrotChunks(onAir[b + 1])
    BY <1>3, <2>1, PacketOnAir DEF ResumeInv, Handling
  <2> QED  BY <1>1, <1>3, <2>1, <2>2 DEF LastOf, IsLastPacket
<1> QED  BY <1>2, <1>3, HeldGrows

\* Only BeginBlock and ContinueBlock lead to the store phase.
LEMMA StoredAfter ==
    ASSUME Next, pc' = "store"
    PROVE  BeginBlock \/ ContinueBlock \/ Republish
<1>1. ~ (\E p \in PacketsOf(onAir) : ReceivePacket(p))
  BY DEF ReceivePacket
<1>2. ~ (Start \/ Crash \/ Reset \/ Finish)
  BY DEF Start, Crash, Reset, ResetNothing, ResetRemoveBlock, ResetRemoveIndex,
         AfterReset, FailReset, Finish, CreateIndex, GenerateDataFile, Exit
<1>3. ~ (SaveBlock \/ SaveMap \/ RestoreNext \/ IgnorePacket)
  BY DEF SaveBlock, SaveMap, RestoreNext, RestoreBlock, IgnorePacket, FreePacket
<1>4. ~ (StorePacket \/ CheckPastPayload \/ DropCorruptBlock \/ KeepBlock \/ WriteBlock)
  BY DEF StorePacket, CheckPastPayload, DropCorruptBlock, KeepBlock, WriteBlock, FreePacket
<1> QED  BY <1>1, <1>2, <1>3, <1>4 DEF Next, Handle

\* The packet to be stored is not the last one of such a block.
LEMMA StoredIsNotLast ==
    ASSUME NEW b, StuckBlock(b), Next, pc' = "store", packet'.blockNumber = b
    PROVE  ~ IsLastPacket(packet')
<1> USE DEF StuckBlock
<1>1. ~ Republish
  BY DEF Republish
<1>2. CASE BeginBlock
  BY <1>2 DEF BeginBlock
<1>3. CASE ContinueBlock
  <2>1. pc = "accept" /\ packet' = packet /\ Loaded /\ dataBlock.blockNumber = b
    BY <1>3 DEF ContinueBlock, Consistent, memory
  <2>2. ~ OverAtOnce(b)
    BY <2>1 DEF Stuck
  <2> QED  BY <2>1, <2>2, EmptyRefused DEF Hopeless, ResumeInv, Handling
<1> QED  BY <1>1, <1>2, <1>3, StoredAfter

\* Its checksum does not match.
LEMMA NeverKept ==
    ASSUME NEW b, StuckBlock(b), KeepBlock
    PROVE  packet.blockNumber # b
<1> USE DEF StuckBlock
<1>1. pc = "check" /\ ChecksumMatches /\ Loaded /\ dataBlock.blockNumber = packet.blockNumber
  BY DEF KeepBlock, Inv, Base, Phases, Holding
<1>2. packet.blockNumber = b => LastOf(b) \notin Held(blockPacketMap)
  BY <1>1 DEF Stuck, HeldOf
<1> QED  BY <1>1, <1>2, LackingFails

\* Such a block never passes its checksum.
LEMMA NeverWritten ==
    ASSUME NEW b, StuckBlock(b), Next, pc' = "write"
    PROVE  packet'.blockNumber # b
<1>1. ~ Republish
  BY DEF Republish, StuckBlock
<1>2. ~ StorePacket
  BY DEF StorePacket, FreePacket
<1>3. KeepBlock
  BY <1>1, <1>2, CheckedAfter
<1>4. packet' = packet
  BY <1>3 DEF KeepBlock, memory
<1> QED  BY <1>3, <1>4, NeverKept

\* Such a block is never completed.
LEMMA NeverCounted ==
    ASSUME NEW b, StuckBlock(b), Next
    PROVE  b \notin Completed'
<1> USE DEF StuckBlock
<1>1. CASE ~ WriteBlock
  BY <1>1, CompletedItemKept DEF Stuck
<1>2. CASE WriteBlock
  <2>1. /\ packet.blockNumber # b
        /\ \E item : indexTable' = [indexTable EXCEPT !.items[packet.blockNumber] = item]
    BY <1>2 DEF WriteBlock, Stuck
  <2> QED  BY <2>1 DEF Stuck, Completed
<1> QED  BY <1>1, <1>2

\* A block that is over at once is not in memory when the next packet comes.
LEMMA GoneAtOnce ==
    ASSUME NEW b, StuckBlock(b), Next, OverAtOnce(b), Loaded', dataBlock'.blockNumber = b
    PROVE  pc' \in {"store", "check"}
<1> USE DEF StuckBlock
<1>1. ~ IsWhole(mapFile[b]) /\ (Loaded /\ dataBlock.blockNumber = b => pc \in {"store", "check"})
  BY DEF Stuck
<1>2. dataBlock' # NoBlock
  BY NothingLoaded DEF Loaded
<1>3. ASSUME dataBlock' = dataBlock PROVE pc \in {"store", "check"}
  BY <1>1, <1>3 DEF Loaded
<1>4. ~ Republish
  BY DEF Republish
<1>5. CASE \/ Start \/ Reset \/ IgnorePacket \/ ContinueBlock
           \/ CreateIndex \/ GenerateDataFile
           \/ \E p \in PacketsOf(onAir) : ReceivePacket(p)
  <2>1. dataBlock' = dataBlock /\ pc \notin {"store", "check"}
    BY <1>5
       DEF Start, Reset, ResetNothing, ResetRemoveBlock, ResetRemoveIndex,
           IgnorePacket, ContinueBlock, CreateIndex, GenerateDataFile,
           ReceivePacket, memory
  <2> QED  BY <1>3, <2>1
<1>6. CASE Crash \/ Exit \/ SaveMap \/ DropCorruptBlock \/ WriteBlock
  BY <1>2, <1>6 DEF Crash, Exit, ClearMemory, SaveMap, DropCorruptBlock, WriteBlock,
                    ReleaseBlock
<1>7. CASE SaveBlock
  <2>1. pc = "save" /\ (dataBlock' = dataBlock \/ dataBlock' = NoBlock)
    BY <1>7 DEF SaveBlock, ReleaseBlock
  <2> QED  BY <1>2, <1>3, <2>1
<1>8. CASE RestoreNext
  <2>1. pc = "restore"
    BY <1>8 DEF RestoreNext
  <2>2. packet.blockNumber \in BlockNumbers
    BY <2>1, PacketInHand DEF Handling, Inv
  <2>3. \/ Restorable(packet.blockNumber) /\ dataBlock' = blockFile[packet.blockNumber].data
        \/ dataBlock' = dataBlock
    BY <1>8 DEF RestoreNext, RestoreBlock
  <2>4. CASE Restorable(packet.blockNumber) /\ dataBlock' = blockFile[packet.blockNumber].data
    BY <1>1, <2>2, <2>4, StoredBlock DEF Restorable
  <2> QED  BY <1>3, <2>1, <2>3, <2>4
<1>9. CASE BeginBlock
  <2>1. pc = "accept" /\ (pc' = "store" \/ dataBlock' = dataBlock)
    BY <1>9 DEF BeginBlock, RestoreBlock, StartBlock
  <2> QED  BY <1>3, <2>1
<1>10. CASE StorePacket
  <2>1. pc = "store" /\ Loaded /\ dataBlock.blockNumber = b
    BY <1>10, StoreEffect
  <2>2. packet.blockNumber = b
    BY <2>1 DEF Inv, Base, Phases
  <2>3. ~ IsLastPacket(packet)
    BY <2>1, <2>2 DEF Stuck
  <2>4. WideShift = {1} /\ packet.packetTotal = NbBitsItem
    BY <2>1, <2>2, <2>3, OneWord DEF ResumeInv, Handling
  <2> QED  BY <1>10, <2>4, CheckedAtOnce
<1>11. CASE KeepBlock
  <2>1. pc = "check" /\ dataBlock' = dataBlock
    BY <1>11 DEF KeepBlock, memory
  <2>2. Loaded /\ dataBlock.blockNumber = b
    BY <2>1 DEF Loaded
  <2>3. packet.blockNumber = b
    BY <2>1, <2>2 DEF Inv, Base, Phases
  <2> QED  BY <1>11, <2>3, NeverKept
<1> QED
  BY <1>4, <1>5, <1>6, <1>7, <1>8, <1>9, <1>10, <1>11, CheckPastPayloadStep
     DEF Next, Handle, Finish

\* ... and never waits on disk.
LEMMA NeverWaits ==
    ASSUME NEW b, StuckBlock(b), Next, OverAtOnce(b)
    PROVE  ~ IsWhole(mapFile'[b])
<1> USE DEF StuckBlock
<1>1. ~ IsWhole(mapFile[b]) /\ (Loaded /\ dataBlock.blockNumber = b => pc \in {"store", "check"})
  BY DEF Stuck
<1>2. CASE ~ SaveMap
  BY <1>1, <1>2, WaitingKept
<1>3. CASE SaveMap
  <2>1. pc = "savemap" /\ Loaded
    BY <1>3 DEF SaveMap, Inv, Base, Phases, Holding
  <2> QED  BY <1>1, <1>3, <2>1, HeldWritten
<1> QED  BY <1>2, <1>3

\* Every step keeps what is said of such a block.
LEMMA StuckStep ==
    ASSUME NEW b, StuckBlock(b), Next
    PROVE  Stuck(b)'
<1>1. OverAtOnce(b)' <=> OverAtOnce(b)
  BY DEF OverAtOnce, StuckBlock
<1>2. LastOf(b)' \notin HeldOf(b)' /\ b \notin Completed'
  BY LastStaysAway, NeverCounted
<1>3. pc' = "store" /\ packet'.blockNumber = b => ~ IsLastPacket(packet')
  BY StoredIsNotLast
<1>4. pc' = "write" => packet'.blockNumber # b
  BY NeverWritten
<1>5. OverAtOnce(b) => /\ ~ IsWhole(mapFile'[b])
                       /\ Loaded' /\ dataBlock'.blockNumber = b => pc' \in {"store", "check"}
  BY GoneAtOnce, NeverWaits
<1> QED  BY <1>1, <1>2, <1>3, <1>4, <1>5 DEF Stuck

\* The same of all blocks, and of steps of the system that are none of the receiver.
LEMMA HopelessStep ==
    ASSUME Inv, ResumeInv, HopelessStuck, [Next]_vars, onAir' = onAir
    PROVE  HopelessStuck'
<1>1. CASE Next
  <2> SUFFICES ASSUME NEW b \in BlockNumbers, b < Len(onAir'), Hopeless(b)'
               PROVE  Stuck(b)'
    BY DEF HopelessStuck
  <2>1. b < Len(onAir) /\ Hopeless(b)
    BY DEF Hopeless, OverAtOnce
  <2>2. StuckBlock(b)
    BY <2>1 DEF HopelessStuck, StuckBlock
  <2> QED  BY <1>1, <2>2, StuckStep
<1>2. CASE UNCHANGED vars
  BY <1>2 DEF vars, memory, disk, HopelessStuck, Hopeless, OverAtOnce, Stuck, LastOf, HeldOf,
              Loaded, Completed
<1> QED  BY <1>1, <1>2

\* The last block that is missing never gets the table complete, and in a file of
\* too many blocks no packet gets past the index table.
LEMMA IndexOutOfReach ==
    ASSUME Inv, Inv', ResumeInv, Unreceivable, HopelessStuck', onAir' = onAir, WriteBlock
    PROVE  pc' # "index"
<1> SUFFICES ASSUME pc' = "index" PROVE FALSE
  OBVIOUS
<1>1. pc = "write" /\ indexTable'.nbItems = indexTable.nbItems
  BY DEF WriteBlock
<1>2. indexTable.nbItems = Len(onAir) /\ Len(onAir) <= MAX_BLOCK_NUMBER
  BY <1>1, FileInHand DEF ResumeInv, Handling
<1>3. Len(onAir) \in Nat
  <2>1. indexTable.nbItems \in Nat
    BY MaximaAssumption DEF Inv, Base, TypeOK, IsIndexTable
  <2> QED  BY <1>2, <2>1
<1>4. PICK b \in BlockNumbers : b < Len(onAir) /\ Hopeless(b)
  BY <1>2, <1>3, MaximaAssumption DEF Unreceivable
<1>5. b \in 0 .. indexTable'.nbItems - 1
  BY <1>1, <1>2, <1>3, <1>4, MaximaAssumption DEF BlockNumbers
<1>6. b \in Completed'
  BY <1>5 DEF Inv, Base, CountMatchesIndex
<1>7. b < Len(onAir') /\ Hopeless(b)'
  BY <1>4 DEF Hopeless, OverAtOnce
<1> QED  BY <1>4, <1>6, <1>7 DEF HopelessStuck, Stuck

\* With such a block, or too many, the reception never ends.
LEMMA NoResultStep ==
    ASSUME Inv, Inv', ResumeInv, Unreceivable, NoResult, HopelessStuck', onAir' = onAir, Next
    PROVE  NoResult'
<1>1. CASE WriteBlock
  <2>1. pc' \in {"index", "receive"} /\ UNCHANGED <<stream, output>>
    BY <1>1 DEF WriteBlock
  <2> QED  BY <1>1, <2>1, IndexOutOfReach DEF NoResult
<1>2. CASE Crash
  BY <1>2 DEF NoResult, Crash, ClearMemory
<1>3. CASE Start \/ Republish
  BY <1>3 DEF NoResult, Start, Republish, memory, disk
<1>4. CASE Reset
  BY <1>4 DEF NoResult, Reset, ResetNothing, ResetRemoveBlock, ResetRemoveIndex, AfterReset,
              FailReset, memory, disk
<1>5. ASSUME NEW p \in PacketsOf(onAir), ReceivePacket(p) PROVE NoResult'
  BY <1>5 DEF NoResult, ReceivePacket, disk
<1>6. CASE SaveBlock \/ SaveMap \/ RestoreNext
  BY <1>6 DEF NoResult, SaveBlock, SaveMap, RestoreNext, RestoreBlock
<1>7. CASE BeginBlock
  BY <1>7 DEF NoResult, BeginBlock, RestoreBlock, StartBlock
<1>8. CASE \/ IgnorePacket \/ ContinueBlock \/ StorePacket \/ CheckPastPayload
           \/ DropCorruptBlock \/ KeepBlock
  BY <1>8 DEF NoResult, IgnorePacket, ContinueBlock, StorePacket, CheckPastPayload,
              DropCorruptBlock, KeepBlock, FreePacket, memory, disk
<1>9. CASE Finish
  BY <1>9 DEF NoResult, Finish, CreateIndex, GenerateDataFile, Exit
<1> QED
  BY <1>1, <1>2, <1>3, <1>4, <1>5, <1>6, <1>7, <1>8, <1>9 DEF Next, Handle

(***************************************************************************)
(* The inductive invariant of the system.                                  *)
(***************************************************************************)
SystemInv ==
    OnTheWay /\ Inv /\ ResumeInv /\ HopelessStuck /\ (Unreceivable => NoResult)

\* The invariant of the system holds at first.
LEMMA SystemInvInit == ASSUME ~ RemovesMayFail PROVE SystemInit => SystemInv
<1> SUFFICES ASSUME SystemInit PROVE SystemInv
  OBVIOUS
<1>1. Init
  BY DEF SystemInit
<1>2. /\ pc = "off" /\ ~ Loaded /\ Completed = {} /\ output = Absent /\ stream = <<>>
      /\ \A b \in BlockNumbers : ~ IsWhole(mapFile[b])
  BY <1>1, NoIndexType
     DEF Init, InitMemory, Loaded, NoBlock, Completed, IsWhole, Absent
<1>3. HopelessStuck
  BY <1>2 DEF HopelessStuck, Stuck, HeldOf
<1>4. NoResult
  BY <1>2 DEF NoResult
<1> QED  BY <1>1, <1>3, <1>4, OnTheWayInit, InitInv, InitResume DEF SystemInv

\* Every step of the system keeps it.
LEMMA SystemInvKept ==
    ASSUME SystemInv, [SystemNext]_systemVars
    PROVE  SystemInv'
<1> USE DEF SystemInv
<1>1. OnTheWay' /\ onAir' = onAir /\ [Next]_vars
  BY SystemStep
<1>2. Inv' /\ ResumeInv' /\ HopelessStuck'
  BY <1>1, NextKeepsInv, NextKeepsResume, HopelessStep
<1>3. Unreceivable' <=> Unreceivable
  BY <1>1 DEF Unreceivable, Hopeless, OverAtOnce
<1>4. ASSUME Unreceivable, NoResult PROVE NoResult'
  <2>1. CASE Next
    BY <1>1, <1>2, <1>4, <2>1, NoResultStep
  <2>2. CASE UNCHANGED vars
    BY <1>4, <2>2 DEF NoResult, vars, memory, disk
  <2> QED  BY <1>1, <2>1, <2>2
<1> QED  BY <1>1, <1>2, <1>3, <1>4

\* It always holds.
LEMMA SystemInvHolds == ASSUME ~ RemovesMayFail PROVE SystemSpec => []SystemInv
  BY SystemInvInit, SystemInvKept, PTL DEF SystemSpec

(***************************************************************************)
(* The limits the receiver has are exact (server.c:114-115,                *)
(* receivefile.c:22 and 203, blockpacketmap.c): whatever the network loses,*)
(* doubles and reorders, wherever the receiver is killed, whatever memory  *)
(* or writes the machine refuses, as long as no removal fails, a file that *)
(* breaks one of them leaves no result file, not even one that was begun.  *)
(***************************************************************************)
THEOREM UnreceivableStaysAway ==
    ASSUME ~ RemovesMayFail PROVE SystemSpec => []UnreceivableNeverArrives
<1>1. SystemInv => UnreceivableNeverArrives
  <2> SUFFICES ASSUME SystemInv,
                      \/ Len(onAir) > MAX_BLOCK_NUMBER
                      \/ \E n \in 1 .. Len(onAir) :
                            \/ ~ BlockIsSent(onAir[n])
                            \/ Len(onAir[n]) < ThrotData \/ Len(onAir[n]) % ThrotData = 0
                            \/ WideShift = {1} /\ NbThrotChunks(onAir[n]) = NbBitsItem
               PROVE  ~ Exists(output)
    BY DEF UnreceivableNeverArrives
  <2>1. Len(onAir) \in Nat
    BY SentBlock DEF SystemInv, OnTheWay
  <2>2. Unreceivable
    <3>1. CASE Len(onAir) > MAX_BLOCK_NUMBER
      BY <3>1 DEF Unreceivable
    <3>2. CASE ~ (Len(onAir) > MAX_BLOCK_NUMBER)
      <4>1. PICK n \in 1 .. Len(onAir) : Hopeless((n - 1))
        <5>1. PICK n \in 1 .. Len(onAir) :
                 \/ ~ BlockIsSent(onAir[n])
                 \/ Len(onAir[n]) < ThrotData \/ Len(onAir[n]) % ThrotData = 0
                 \/ WideShift = {1} /\ NbThrotChunks(onAir[n]) = NbBitsItem
          BY <3>2
        <5>2. (n - 1) + 1 = n
          BY <2>1
        <5> QED  BY <5>1, <5>2 DEF Hopeless, OverAtOnce
      <4>2. n - 1 \in BlockNumbers /\ n - 1 < Len(onAir)
        BY <2>1, <3>2, <4>1, MaximaAssumption DEF BlockNumbers
      <4> QED  BY <4>1, <4>2 DEF Unreceivable
    <3> QED  BY <3>1, <3>2
  <2> QED  BY <2>2 DEF SystemInv, NoResult, Exists, Absent
<1> QED  BY <1>1, SystemInvHolds, PTL

-----------------------------------------------------------------------------
(***************************************************************************)
(* The result file.  What the receiver proofs say of one publication holds *)
(* of the one on the air here, whichever it is, once every completed block *)
(* is a block of that one.                                                 *)
(***************************************************************************)
\* The checksum a block is kept for is that of the block on the air.
LEMMA WrittenIsOnAir ==
    ASSUME Inv, ResumeInv, WritesInv, ~ WritesMayFail, WriteBlock
    PROVE  blockFile'[packet.blockNumber].data.payload = onAir[packet.blockNumber + 1]
<1> DEFINE n == packet.blockNumber
<1>1. /\ pc = "write" /\ Loaded /\ dataBlock.blockNumber = n /\ dataBlock \in Block
      /\ n \in BlockNumbers /\ DOMAIN blockFile = BlockNumbers
  BY PacketInHand DEF WriteBlock, Handling, Inv, Base, Phases, Holding, TypeOK
<1>2. dataBlock.checksum = crc32c(onAir[n + 1])
  BY <1>1 DEF ResumeInv, InMemory, Resumable, Unmapped
<1>3. PICK file \in WriteOutcomes(blockFile[n], BlockImage(dataBlock)) :
         blockFile' = [blockFile EXCEPT ![n] = file]
  BY <1>1 DEF WriteBlock
<1>4. blockFile'[n] = Whole(BlockImage(dataBlock))
  BY <1>1, <1>3, SureWrite
<1>5. blockFile'[n].data.checksum = dataBlock.checksum
  <2>1. BlockImage(dataBlock).checksum = dataBlock.checksum
    BY <1>1 DEF BlockImage, Block
  <2>2. Whole(BlockImage(dataBlock)).data = BlockImage(dataBlock)
    BY DEF Whole
  <2> QED  BY <1>4, <2>1, <2>2
<1>6. blockFile'[n].data.checksum = crc32c(blockFile'[n].data.payload)
  BY WrittenBlockIntact DEF WritesInv, ReadsVerified, Inv
<1> QED  BY <1>2, <1>5, <1>6 DEF crc32c

\* Every completed block stays the block on the air.
LEMMA CompletedStep ==
    ASSUME Inv, ResumeInv, WritesInv, ~ WritesMayFail, CompletedOf(onAir), onAir' = onAir,
           [Next]_vars
    PROVE  CompletedOf(onAir)'
<1> SUFFICES ASSUME NEW b \in Completed'
             PROVE  blockFile'[b].data.payload = onAir[b + 1]
  BY DEF CompletedOf
<1>1. CASE UNCHANGED vars
  BY <1>1 DEF vars, memory, disk, CompletedOf, Completed
<1>2. ASSUME Next, ~ Crash, b \in Completed PROVE blockFile'[b].data.payload = onAir[b + 1]
  BY <1>2, FinalFileKept DEF CompletedOf, Inv, WritesInv
<1>3. CASE WriteBlock
  <2>1. Next
    BY <1>3 DEF Next, Handle
  <2>2. b \in Completed \/ b = packet.blockNumber
    BY <1>3, WrittenBlockIntact DEF WritesInv, Inv
  <2>3. ~ Crash
    BY <1>3 DEF WriteBlock, Crash, Idle
  <2> QED  BY <1>2, <1>3, <2>1, <2>2, <2>3, WrittenIsOnAir
<1>4. CASE Next /\ ~ WriteBlock
  BY <1>2, <1>4, CompletedItemKept
<1> QED  BY <1>1, <1>3, <1>4

ResultInv == WritesInv /\ CompletedOf(onAir) /\ FaithfulInv(onAir)

\* The invariant of the result file holds at first.
LEMMA ResultInvInit == SystemInit => ResultInv
<1> SUFFICES ASSUME SystemInit PROVE ResultInv
  OBVIOUS
<1>1. Init /\ Completed = {}
  BY NoneCompleted DEF SystemInit, Init, InitMemory
<1> QED  BY <1>1, InitWrites, InitFaithful DEF ResultInv, CompletedOf

\* Every step of the system keeps it.
LEMMA ResultInvKept ==
    ASSUME ~ WritesMayFail, SystemInv, ResultInv, [SystemNext]_systemVars
    PROVE  ResultInv'
<1>1. OnTheWay /\ Inv /\ ResumeInv /\ WritesInv /\ CompletedOf(onAir) /\ FaithfulInv(onAir)
  BY DEF SystemInv, ResultInv
<1>2. onAir' = onAir /\ [Next]_vars
  BY <1>1, SystemStep
<1>3. WritesInv' /\ CompletedOf(onAir)'
  BY <1>1, <1>2, NextKeepsWrites, CompletedStep DEF Inv
<1>4. PICK file \in Publications : file = onAir
  BY <1>1 DEF OnTheWay
<1>5. FaithfulInv(file)'
  BY <1>1, <1>2, <1>4, NextKeepsFaithful DEF Inv
<1>6. FaithfulInv(onAir)'
  BY <1>2, <1>4, <1>5 DEF FaithfulInv
<1> QED  BY <1>3, <1>6 DEF ResultInv

(***************************************************************************)
(* README.txt:18, "Check result file is the same as the input file": with  *)
(* a disk that refuses nothing, a result file the receiver has finished    *)
(* is the file that is being transmitted, through losses, copies and       *)
(* reordering, an overflowing socket, kills and any number of sessions.    *)
(***************************************************************************)
THEOREM ResultIsTheInput ==
    ASSUME ~ WritesMayFail, ~ RemovesMayFail PROVE SystemSpec => []ResultIsInput
<1>1. ResultInv => ResultIsInput
  BY DEF ResultInv, FaithfulInv, ResultIsInput
<1>2. SystemInv /\ ResultInv /\ [SystemNext]_systemVars => ResultInv'
  BY ResultInvKept
<1> QED  BY <1>1, <1>2, ResultInvInit, SystemInvHolds, PTL DEF SystemSpec

(***************************************************************************)
(* Of any publication, every block in memory or waiting on disk is one the *)
(* reception can be resumed from, across the kills and sessions of the     *)
(* system, also when the disk refuses writes and memory runs out, as long  *)
(* as no map file outlives its block because remove failed                 *)
(* (receivefile.c:67-73).                                                  *)
(***************************************************************************)
THEOREM SystemBlocksResumable ==
    ASSUME ~ RemovesMayFail PROVE SystemSpec => []EveryBlockResumable
<1>1. SystemInv => EveryBlockResumable
  BY DEF SystemInv, ResumeInv, InMemory, OnDisk, EveryBlockResumable
<1> QED  BY <1>1, SystemInvHolds, PTL

(***************************************************************************)
(* From the transmitter's loop up to what a receiver promises: with one    *)
(* file to send and a disk that refuses nothing, the system gathers every  *)
(* block, verifies it once it is complete and delivers when all are        *)
(* verified.  The assumptions are those of ReceptionImplemented.           *)
(***************************************************************************)
THEOREM SystemImplementsReception ==
    ASSUME NEW file, Publications = {file}, Len(file) <= MAX_BLOCK_NUMBER + 1,
           ShiftsDefined(file), ~ WritesMayFail, ~ RemovesMayFail
    PROVE  SystemSpec => ImplementsReception
<1>1. Spec => ImplementsReception
  BY ReceptionImplemented
<1> QED  BY <1>1, ReceiverImplemented, PTL DEF ImplementsReceiver

=============================================================================

--------------------------- MODULE DataPacketLemmas ---------------------------
(***************************************************************************)
(* What the packets of a publication look like, for every publication,     *)
(* every packet size and every limit: the arithmetic of runServer.         *)
(***************************************************************************)
EXTENDS DataPacket, SequenceTheorems, TLAPS

\* nbThrotChunks - 1 whole chunks and a rest shorter than a chunk.
LEMMA ChunkCount ==
    ASSUME NEW n \in Nat
    PROVE  /\ n \div ThrotData \in Nat
           /\ ThrotData * (n \div ThrotData) <= n
           /\ n < ThrotData * (n \div ThrotData) + ThrotData
  BY ThrotDataAssumption

\* Each packet number below nbThrotChunks begins within the block, and all but
\* the last have a whole chunk before the end.
LEMMA ChunkWithin ==
    ASSUME NEW n \in Nat, NEW j \in 0 .. n \div ThrotData
    PROVE  /\ j * ThrotData \in Nat /\ j * ThrotData <= n
           /\ j # n \div ThrotData => j * ThrotData + ThrotData <= n
<1> DEFINE q == n \div ThrotData
<1>1. q \in Nat /\ ThrotData * q <= n /\ n < ThrotData * q + ThrotData
  BY ChunkCount
<1>2. j \in 0 .. q
  OBVIOUS
<1> HIDE DEF q
<1>3. j * ThrotData \in Nat
  BY <1>1, <1>2, ThrotDataAssumption
<1>4. \A a, b \in Nat : a <= b => a * ThrotData <= b * ThrotData
  <2> SUFFICES ASSUME NEW a \in Nat, NEW b \in Nat, a <= b
               PROVE  a * ThrotData <= b * ThrotData
    OBVIOUS
  <2>1. (b - a) * ThrotData >= 0
    BY ThrotDataAssumption
  <2> QED  BY <2>1, ThrotDataAssumption
<1>5. j * ThrotData <= q * ThrotData
  BY <1>1, <1>2, <1>4
<1>6. j # q => (j + 1) * ThrotData <= q * ThrotData
  BY <1>1, <1>2, <1>4
<1>7. (j + 1) * ThrotData = j * ThrotData + ThrotData /\ q * ThrotData = ThrotData * q
  BY <1>1, <1>2, ThrotDataAssumption
<1>8. j * ThrotData <= n /\ (j # q => j * ThrotData + ThrotData <= n)
  BY <1>1, <1>3, <1>5, <1>6, <1>7, ThrotDataAssumption
<1> QED  BY <1>3, <1>8 DEF q

\* Chunk j is a piece of the block; only the last may be shorter than ThrotData.
LEMMA ChunkSize ==
    ASSUME NEW block \in Seq(Nat), NEW j \in 0 .. NbThrotChunks(block) - 1
    PROVE  /\ Chunk(block, j) \in Seq(Nat)
           /\ Len(Chunk(block, j)) \in 0 .. ThrotData
           /\ j # NbThrotChunks(block) - 1 => Len(Chunk(block, j)) = ThrotData
<1> DEFINE n == Len(block)
           sent == j * ThrotData
           size == IF sent + ThrotData <= n THEN ThrotData ELSE n - sent
<1>1. n \in Nat /\ \A k \in 1 .. n : block[k] \in Nat
  BY LenProperties
<1>2. n \div ThrotData \in Nat
  BY <1>1, ChunkCount
<1>3. j \in 0 .. n \div ThrotData
  BY <1>2 DEF NbThrotChunks
<1>4. /\ sent \in Nat /\ sent <= n
      /\ j # n \div ThrotData => sent + ThrotData <= n
  BY <1>1, <1>3, ChunkWithin
<1>5. Chunk(block, j) = SubSeq(block, sent + 1, sent + size)
  BY DEF Chunk
<1> HIDE DEF sent, n
<1>6. size \in 0 .. ThrotData /\ sent + size <= n
  BY <1>1, <1>4, ThrotDataAssumption
<1>7. \A k \in sent + 1 .. sent + size : block[k] \in Nat
  BY <1>1, <1>4, <1>6, ThrotDataAssumption
<1> HIDE DEF size
<1>8. sent + 1 \in Int /\ sent + size \in Int
  BY <1>4, <1>6, ThrotDataAssumption
<1>9. /\ Chunk(block, j) \in Seq(Nat)
      /\ Len(Chunk(block, j)) =
            IF sent + 1 <= sent + size THEN (sent + size) - (sent + 1) + 1 ELSE 0
  BY <1>5, <1>7, <1>8, SubSeqProperties
<1>10. Len(Chunk(block, j)) = size
  BY <1>4, <1>6, <1>9, ThrotDataAssumption
<1>11. j # NbThrotChunks(block) - 1 => size = ThrotData
  BY <1>2, <1>3, <1>4 DEF NbThrotChunks, size, n
<1> QED  BY <1>6, <1>9, <1>10, <1>11

(***************************************************************************)
(* A block is cut into at least one chunk.                                 *)
(***************************************************************************)
LEMMA ChunkTotal ==
    ASSUME NEW block \in Seq(Nat)
    PROVE  NbThrotChunks(block) \in Nat \ {0}
<1>1. Len(block) \in Nat
  BY LenProperties
<1>2. Len(block) \div ThrotData \in Nat
  BY <1>1, ChunkCount
<1> QED  BY <1>2 DEF NbThrotChunks

(***************************************************************************)
(* The packets that are ever sent, and the checksums of the blocks that    *)
(* ever have number b.                                                     *)
(***************************************************************************)
AllPackets == UNION {PacketsOf(file) : file \in Publications}

Checksums(b) == {crc32c(file[b + 1]) : file \in {f \in Publications : b < Len(f)}}

\* What every packet of a publication satisfies.
LEMMA PacketFacts ==
    ASSUME NEW p \in AllPackets
    PROVE  /\ p.blockTotal \in Nat \ {0} /\ p.blockNumber \in 0 .. p.blockTotal - 1
           /\ p.packetTotal \in Nat \ {0} /\ p.packetNumber \in 0 .. p.packetTotal - 1
           /\ p.payload \in Seq(Nat) /\ Len(p.payload) \in 0 .. ThrotData
           /\ ~ IsLastPacket(p) => Len(p.payload) = ThrotData
           /\ p.checksum \in Checksums(p.blockNumber)
<1>1. PICK file \in Publications : p \in PacketsOf(file)
  BY DEF AllPackets
<1>20. PICK b \in 0 .. Len(file) - 1 :
          \E j \in 0 .. NbThrotChunks(file[b + 1]) - 1 : p = Packet(file, b, j)
  BY <1>1 DEF PacketsOf
<1>2. PICK j \in 0 .. NbThrotChunks(file[b + 1]) - 1 : p = Packet(file, b, j)
  BY <1>20
<1>3. file \in Seq(Seq(Nat)) /\ file # <<>>
  BY PublicationsAssumption
<1>4. Len(file) \in Nat \ {0}
  BY <1>3, EmptySeq
<1>5. file[b + 1] \in Seq(Nat)
  BY <1>2, <1>3, <1>4, ElementOfSeq
<1> DEFINE block == file[b + 1]
<1>6. Len(block) \in Nat
  BY <1>5, LenProperties
<1> HIDE DEF block
<1>7. NbThrotChunks(block) \in Nat \ {0}
  <2>1. Len(block) \div ThrotData \in Nat
    BY <1>6, ChunkCount
  <2> QED  BY <2>1 DEF NbThrotChunks
<1>8. /\ p.checksum = crc32c(block) /\ p.blockNumber = b /\ p.blockTotal = Len(file)
      /\ p.packetNumber = j /\ p.packetTotal = NbThrotChunks(block)
      /\ p.payload = Chunk(block, j)
  BY <1>2 DEF Packet, block
<1>9. /\ p.payload \in Seq(Nat) /\ Len(p.payload) \in 0 .. ThrotData
      /\ ~ IsLastPacket(p) => Len(p.payload) = ThrotData
  <2>1. block \in Seq(Nat) /\ j \in 0 .. NbThrotChunks(block) - 1
    BY <1>2, <1>5 DEF block
  <2>2. /\ Chunk(block, j) \in Seq(Nat) /\ Len(Chunk(block, j)) \in 0 .. ThrotData
        /\ j # NbThrotChunks(block) - 1 => Len(Chunk(block, j)) = ThrotData
    BY <2>1, ChunkSize
  <2> QED  BY <1>8, <2>2 DEF IsLastPacket
<1>10. p.checksum \in Checksums(p.blockNumber)
  BY <1>2, <1>4, <1>8 DEF Checksums, block
<1> QED  BY <1>2, <1>4, <1>7, <1>8, <1>9, <1>10 DEF block

(***************************************************************************)
(* blockSize of runServer when j packets of a block have been cut off.     *)
(***************************************************************************)
SentBefore(block, j) == IF j * ThrotData <= Len(block) THEN j * ThrotData ELSE Len(block)

\* The bytes sent before a packet, at both ends of a block.
LEMMA SentBounds ==
    ASSUME NEW block \in Seq(Nat), NEW j \in 0 .. NbThrotChunks(block)
    PROVE  /\ SentBefore(block, j) \in 0 .. Len(block)
           /\ SentBefore(block, 0) = 0
           /\ SentBefore(block, NbThrotChunks(block)) = Len(block)
<1> DEFINE n == Len(block)
           q == n \div ThrotData
<1>1. n \in Nat
  BY LenProperties
<1>2. q \in Nat /\ ThrotData * q <= n /\ n < ThrotData * q + ThrotData
  BY <1>1, ChunkCount
<1>3. NbThrotChunks(block) = q + 1
  BY DEF NbThrotChunks
<1> HIDE DEF q, n
<1>4. 0 * ThrotData = 0 /\ (q + 1) * ThrotData = ThrotData * q + ThrotData
  BY <1>2, ThrotDataAssumption
<1>5. j * ThrotData \in Nat
  BY <1>2, <1>3, ThrotDataAssumption
<1>6. (q + 1) * ThrotData > n
  BY <1>1, <1>2, <1>4, ThrotDataAssumption
<1>7. SentBefore(block, j) \in 0 .. n
  BY <1>1, <1>5 DEF SentBefore, n
<1>8. SentBefore(block, 0) = 0
  BY <1>1, <1>4 DEF SentBefore, n
<1>9. SentBefore(block, q + 1) = n
  BY <1>1, <1>2, <1>4, <1>6, ThrotDataAssumption DEF SentBefore, n
<1> QED  BY <1>3, <1>7, <1>8, <1>9 DEF n

(***************************************************************************)
(* The payload of the next packet, counted from blockSize as the code      *)
(* does, is chunk j, and takes blockSize to the packet after it.           *)
(***************************************************************************)
LEMMA NextChunkSent ==
    ASSUME NEW block \in Seq(Nat), NEW j \in 0 .. NbThrotChunks(block) - 1
    PROVE  LET sent == SentBefore(block, j)
               size == IF sent + ThrotData <= Len(block) THEN ThrotData ELSE Len(block) - sent
           IN  /\ sent + size = SentBefore(block, j + 1)
               /\ SubSeq(block, sent + 1, sent + size) = Chunk(block, j)
<1> DEFINE n == Len(block)
           q == n \div ThrotData
           s == j * ThrotData
<1>1. n \in Nat /\ q \in Nat /\ j \in 0 .. q
  BY LenProperties, ChunkCount DEF NbThrotChunks
<1>2. s \in Nat /\ s <= n /\ (j # q => s + ThrotData <= n)
  BY <1>1, ChunkWithin
<1>3. ThrotData * q <= n /\ n < ThrotData * q + ThrotData
  BY <1>1, ChunkCount
<1>4. (j + 1) * ThrotData = s + ThrotData /\ (j = q => s = ThrotData * q)
  BY <1>1, ThrotDataAssumption
<1>5. SentBefore(block, j) = s
  BY <1>2 DEF SentBefore
<1> HIDE DEF s
<1>6. SentBefore(block, j + 1) = IF s + ThrotData <= n THEN s + ThrotData ELSE n
  BY <1>4 DEF SentBefore
<1> HIDE DEF q
<1> DEFINE size == IF s + ThrotData <= n THEN ThrotData ELSE n - s
<1>7. s + size = SentBefore(block, j + 1)
  BY <1>1, <1>2, <1>3, <1>4, <1>6, ThrotDataAssumption
<1>8. SubSeq(block, s + 1, s + size) = Chunk(block, j)
  BY DEF Chunk, s
<1> QED  BY <1>5, <1>7, <1>8

(***************************************************************************)
(* The datagram of one turn of the packet loop is a packet of the file.    *)
(***************************************************************************)
LEMMA NextPacketSent ==
    ASSUME NEW file \in Seq(Seq(Nat)), NEW b \in 0 .. Len(file) - 1,
           BlockIsSent(file[b + 1]), NEW j \in 0 .. NbThrotChunks(file[b + 1]) - 1,
           NEW payload, payload = Chunk(file[b + 1], j)
    PROVE  [checksum |-> crc32c(file[b + 1]), blockNumber |-> b, blockTotal |-> Len(file),
            packetNumber |-> j, packetTotal |-> NbThrotChunks(file[b + 1]),
            payload |-> payload] \in PacketsOf(file)
<1>1. Packet(file, b, j) \in PacketsOf(file)
  <2>1. b \in {n \in 0 .. Len(file) - 1 : BlockIsSent(file[n + 1])}
    OBVIOUS
  <2>2. Packet(file, b, j) \in {Packet(file, b, m) : m \in 0 .. NbThrotChunks(file[b + 1]) - 1}
    OBVIOUS
  <2> QED  BY <2>1, <2>2, Zenon DEF PacketsOf
<1> QED  BY <1>1 DEF Packet

(***************************************************************************)
(* Where a chunk is: the whole ones end a chunk further on, the last one   *)
(* at the end of the block, and no two of them overlap.                    *)
(***************************************************************************)
LEMMA ChunksApart ==
    ASSUME NEW a \in Nat, NEW b \in Nat, a < b
    PROVE  a * ThrotData + ThrotData <= b * ThrotData
<1>1. (b - a - 1) * ThrotData >= 0
  BY ThrotDataAssumption
<1>2. (b - a - 1) * ThrotData = b * ThrotData - a * ThrotData - ThrotData
  BY ThrotDataAssumption
<1>3. a * ThrotData \in Nat /\ b * ThrotData \in Nat
  BY ThrotDataAssumption
<1> QED  BY <1>1, <1>2, <1>3, ThrotDataAssumption

\* A chunk lies in its place in the block, and the last one ends it.
LEMMA ChunkPlace ==
    ASSUME NEW block \in Seq(Nat), NEW j \in 0 .. NbThrotChunks(block) - 1
    PROVE  /\ j * ThrotData \in Nat
           /\ Chunk(block, j) \in Seq(Nat) /\ Len(Chunk(block, j)) \in 0 .. ThrotData
           /\ j * ThrotData + Len(Chunk(block, j)) <= Len(block)
           /\ j = NbThrotChunks(block) - 1 =>
                 j * ThrotData + Len(Chunk(block, j)) = Len(block)
           /\ \A i \in j * ThrotData + 1 .. j * ThrotData + Len(Chunk(block, j)) :
                 Chunk(block, j)[i - j * ThrotData] = block[i]
<1> DEFINE n == Len(block)
           q == n \div ThrotData
           s == j * ThrotData
           size == IF s + ThrotData <= n THEN ThrotData ELSE n - s
<1>1. n \in Nat /\ q \in Nat /\ j \in 0 .. q /\ NbThrotChunks(block) - 1 = q
  BY LenProperties, ChunkCount DEF NbThrotChunks
<1>2. s \in Nat /\ s <= n
  BY <1>1, ChunkWithin
<1>3. n < ThrotData * q + ThrotData /\ (j = q => s = ThrotData * q)
  <2>1. n < ThrotData * q + ThrotData
    BY <1>1, ChunkCount
  <2> HIDE DEF q
  <2>2. j = q => s = ThrotData * q
    BY <1>1, ThrotDataAssumption
  <2> QED  BY <2>1, <2>2
<1>4. \A i \in 1 .. n : block[i] \in Nat
  BY LenProperties
<1>5. Chunk(block, j) = SubSeq(block, s + 1, s + size)
  BY DEF Chunk
<1> HIDE DEF s, n, q
<1>6. size \in 0 .. ThrotData /\ s + size <= n /\ (j = q => s + size = n)
  BY <1>1, <1>2, <1>3, ThrotDataAssumption
<1>7. \A i \in s + 1 .. s + size : block[i] \in Nat
  BY <1>1, <1>2, <1>4, <1>6, ThrotDataAssumption
<1> HIDE DEF size
<1>8. s + 1 \in Int /\ s + size \in Int
  BY <1>2, <1>6, ThrotDataAssumption
<1>9. /\ Chunk(block, j) \in Seq(Nat)
      /\ Len(Chunk(block, j)) =
            IF s + 1 <= s + size THEN (s + size) - (s + 1) + 1 ELSE 0
      /\ \A i \in 1 .. (s + size) - (s + 1) + 1 : Chunk(block, j)[i] = block[(s + 1) + i - 1]
  BY <1>5, <1>7, <1>8, SubSeqProperties
<1>10. Len(Chunk(block, j)) = size /\ (s + size) - (s + 1) + 1 = size
  BY <1>2, <1>6, <1>9, ThrotDataAssumption
<1>11. ASSUME NEW i \in s + 1 .. s + size
       PROVE  Chunk(block, j)[i - s] = block[i]
  <2>1. i - s \in 1 .. size /\ (s + 1) + (i - s) - 1 = i
    BY <1>2, <1>6
  <2> QED  BY <1>9, <1>10, <2>1
<1> QED  BY <1>1, <1>2, <1>6, <1>9, <1>10, <1>11 DEF s, n, q

(***************************************************************************)
(* A payload has a chunk in its place when it has the bytes of the block   *)
(* there.                                                                  *)
(***************************************************************************)
LEMMA ChunkInPlace ==
    ASSUME NEW block \in Seq(Nat), NEW j \in 0 .. NbThrotChunks(block) - 1,
           NEW payload \in Seq(Nat),
           j * ThrotData + Len(Chunk(block, j)) <= Len(payload)
    PROVE  SubSeq(payload, j * ThrotData + 1, j * ThrotData + Len(Chunk(block, j)))
               = Chunk(block, j)
           <=> \A i \in j * ThrotData + 1 .. j * ThrotData + Len(Chunk(block, j)) :
                   payload[i] = block[i]
<1> DEFINE s == j * ThrotData
           c == Chunk(block, j)
           p == SubSeq(payload, s + 1, s + Len(c))
<1>1. /\ s \in Nat /\ c \in Seq(Nat) /\ Len(c) \in Nat
      /\ \A i \in s + 1 .. s + Len(c) : c[i - s] = block[i]
  BY ChunkPlace, ThrotDataAssumption
<1>2. s + Len(c) <= Len(payload) /\ Len(payload) \in Nat
  BY LenProperties
<1> HIDE DEF s, c
<1>3. \A i \in s + 1 .. s + Len(c) : payload[i] \in Nat
  <2>1. \A i \in s + 1 .. s + Len(c) : i \in 1 .. Len(payload)
    BY <1>1, <1>2
  <2> QED  BY <2>1, ElementOfSeq
<1>4. s + 1 \in Int /\ s + Len(c) \in Int
  BY <1>1
<1>5. /\ p \in Seq(Nat)
      /\ Len(p) = IF s + 1 <= s + Len(c) THEN (s + Len(c)) - (s + 1) + 1 ELSE 0
      /\ \A i \in 1 .. (s + Len(c)) - (s + 1) + 1 : p[i] = payload[(s + 1) + i - 1]
  BY <1>3, <1>4, SubSeqProperties
<1> HIDE DEF p
<1>6. /\ Len(p) = Len(c)
      /\ \A i \in 1 .. Len(c) : p[i] = payload[s + i]
  <2>1. Len(p) = Len(c) /\ (s + Len(c)) - (s + 1) + 1 = Len(c)
    BY <1>1, <1>5
  <2>2. \A i \in 1 .. Len(c) : (s + 1) + i - 1 = s + i
    BY <1>1
  <2> QED  BY <1>5, <2>1, <2>2
<1>7. ASSUME p = c, NEW i \in s + 1 .. s + Len(c)
      PROVE  payload[i] = block[i]
  <2>1. i - s \in 1 .. Len(c) /\ s + (i - s) = i
    BY <1>1
  <2> QED  BY <1>1, <1>6, <1>7, <2>1
<1>8. ASSUME \A i \in s + 1 .. s + Len(c) : payload[i] = block[i]
      PROVE  p = c
  <2>1. ASSUME NEW i \in 1 .. Len(c)
        PROVE  p[i] = c[i]
    <3>1. s + i \in s + 1 .. s + Len(c) /\ (s + i) - s = i
      BY <1>1
    <3> QED  BY <1>1, <1>6, <1>8, <3>1
  <2> QED  BY <1>1, <1>5, <1>6, <2>1, SeqEqual
<1> QED  BY <1>7, <1>8 DEF p, s, c

\* Every byte of a block is in one of its chunks.
LEMMA ChunkOfByte ==
    ASSUME NEW block \in Seq(Nat), NEW i \in 1 .. Len(block)
    PROVE  \E j \in 0 .. NbThrotChunks(block) - 1 :
              i \in j * ThrotData + 1 .. j * ThrotData + Len(Chunk(block, j))
<1> DEFINE n == Len(block)
           q == n \div ThrotData
           j == (i - 1) \div ThrotData
<1>1. n \in Nat /\ q \in Nat /\ ThrotData * q <= n /\ n < ThrotData * q + ThrotData
      /\ NbThrotChunks(block) - 1 = q
  BY LenProperties, ChunkCount DEF NbThrotChunks
<1>2. i - 1 \in Nat /\ i <= n
  BY <1>1
<1>3. j \in Nat /\ ThrotData * j <= i - 1 /\ i - 1 < ThrotData * j + ThrotData
  BY <1>2, ChunkCount
<1> HIDE DEF n, q, j
<1>4. j * ThrotData = ThrotData * j /\ q * ThrotData = ThrotData * q
      /\ j * ThrotData \in Nat /\ q * ThrotData \in Nat
  BY <1>1, <1>3, ThrotDataAssumption
<1>5. j <= q
  <2> SUFFICES ASSUME q < j PROVE FALSE
    BY <1>1, <1>3
  <2>1. q * ThrotData + ThrotData <= j * ThrotData
    BY <1>1, <1>3, ChunksApart
  <2> QED  BY <1>1, <1>2, <1>3, <1>4, <2>1, ThrotDataAssumption
<1>6. j \in 0 .. NbThrotChunks(block) - 1
  BY <1>1, <1>3, <1>5
<1>7. j * ThrotData + Len(Chunk(block, j)) >= i
  <2>1. CASE j = NbThrotChunks(block) - 1
    <3>1. j * ThrotData + Len(Chunk(block, j)) = Len(block)
      BY <1>6, <2>1, ChunkPlace
    <3> QED  BY <1>2, <3>1 DEF n
  <2>2. CASE j # NbThrotChunks(block) - 1
    <3>1. Len(Chunk(block, j)) = ThrotData
      BY <1>6, <2>2, ChunkSize
    <3> QED  BY <1>2, <1>3, <1>4, <3>1, ThrotDataAssumption
  <2> QED  BY <2>1, <2>2
<1>8. Len(Chunk(block, j)) \in Nat
  BY <1>6, ChunkPlace, ThrotDataAssumption
<1>9. i \in j * ThrotData + 1 .. j * ThrotData + Len(Chunk(block, j))
  BY <1>2, <1>3, <1>4, <1>7, <1>8
<1> QED  BY <1>6, <1>9
=============================================================================

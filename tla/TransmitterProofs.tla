-------------------------- MODULE TransmitterProofs --------------------------
(***************************************************************************)
(* What holds of the sending side for every input, every block size and    *)
(* every limit: an index that can be loaded stands for one input, and the  *)
(* loop of runServer sends the packets of what was loaded.                 *)
(***************************************************************************)
EXTENDS Transmitter, DataPacketLemmas

\* How many blocks the input is to be cut into.
blocks == (Len(input) - 1) \div size + 1

(***************************************************************************)
(* splitFile, statement by statement: what its variables and the history   *)
(* hold, and that no index is there while the blocks are being made.       *)
(***************************************************************************)
Locals ==
    /\ pc \notin {"split", "index"} => nbItems = 0 /\ blockNumber = 0
    /\ pc # "reset" \/ ~ IsWhole(indexFile) => cursor = 0
    /\ pc = "reset" /\ IsWhole(indexFile) => cursor <= indexFile.data.nbItems
    /\ pc \in {"open", "split", "index"} => ~ IsWhole(indexFile)
    /\ pc \in {"split", "index"} => input # <<>> /\ nbItems = NbItems(input, size)
    /\ size \in Nat /\ (input # <<>> => size >= MIN_BLOCK_SIZE)

\* Block b is a piece of the input, unless it could not be written.
BlockOfInput(b) ==
    IsWhole(blockFile[b]) => blockFile[b].data.payload = Cut(input, size)[b + 1]

(***************************************************************************)
(* While no error was passed over: the blocks made so far are those of the *)
(* input, the loop only ends when all of them are made, and an index is    *)
(* that of the blocks there are.                                           *)
(***************************************************************************)
OneInput ==
    ~ unnoticed =>
        /\ pc \in {"split", "index"} => \A b \in 0 .. blockNumber - 1 : BlockOfInput(b)
        /\ pc = "index" => blockNumber = nbItems /\ nbItems = blocks
        /\ IsWhole(indexFile) =>
              /\ input # <<>> /\ indexFile.data.nbItems = blocks
              /\ \A b \in 0 .. blocks - 1 : /\ indexFile.data.items[b] = b
                                            /\ b \in BlockNumbers => BlockOfInput(b)

(***************************************************************************)
(* runServer: nothing is sent while a file is prepared, and blockSize is   *)
(* what the packets before j hold.                                         *)
(***************************************************************************)
Loop ==
    /\ ~ Sending => numbers = <<>> /\ i = 0 /\ k = 1 /\ j = 0 /\ blockSize = 0 /\ wire = {}
    /\ Sending =>
          /\ pc = "off"
          /\ i \in 0 .. Len(onAir) - 1 /\ k \in 1 .. BLOCK_SEND_REPEAT
          /\ j \in 0 .. S!nbThrotChunks /\ blockSize = SentBefore(S!Block, j)
          /\ ~ BlockIsSent(S!Block) => j = 0
          /\ numbers = [n \in 1 .. Len(onAir) |-> n - 1] => wire \subseteq PacketsOf(onAir)

Inv == TypeOK /\ Locals /\ OneInput /\ Loop /\ PublicationComplete
-----------------------------------------------------------------------------
\* Blocks up to the last one hold the input, and the last one is needed.
LEMMA BlockCount ==
    ASSUME NEW length \in Nat \ {0}, NEW n \in Nat \ {0}, NEW b \in Nat
    PROVE  LET count == (length - 1) \div n + 1
           IN  /\ count \in Nat \ {0}
               /\ count % (MAX_BLOCK_NUMBER + 2) \in 0 .. MAX_BLOCK_NUMBER + 1
               /\ count % (MAX_BLOCK_NUMBER + 2) <= count
               /\ b < count <=> b * n < length
<1> DEFINE q == (length - 1) \div n
           m == MAX_BLOCK_NUMBER + 2
<1>1. q \in Nat /\ n * q <= length - 1 /\ length - 1 < n * q + n
  OBVIOUS
<1>2. m \in Nat \ {0}
  BY MaximaAssumption
<1> HIDE DEF q, m
<1>3. (q + 1) % m \in 0 .. m - 1 /\ (q + 1) % m <= q + 1
  BY <1>1, <1>2
<1>4. ASSUME b <= q PROVE b * n < length
  <2>1. (q - b) * n >= 0 /\ (q - b) * n = n * q - b * n
    BY <1>1, <1>4
  <2>2. b * n \in Nat /\ n * q \in Nat
    BY <1>1
  <2> QED  BY <1>1, <2>1, <2>2
<1>5. ASSUME ~ b <= q PROVE ~ b * n < length
  <2>1. (b - q - 1) * n >= 0 /\ (b - q - 1) * n = b * n - n * q - n
    BY <1>1, <1>5
  <2>2. b * n \in Nat /\ n * q \in Nat
    BY <1>1
  <2> QED  BY <1>1, <2>1, <2>2
<1>6. m - 1 = MAX_BLOCK_NUMBER + 1
  BY MaximaAssumption DEF m
<1> QED  BY <1>1, <1>3, <1>4, <1>5, <1>6 DEF q, m

(***************************************************************************)
(* What fread is asked for next is the next block of the input; it is      *)
(* shorter than a block only when nothing is left after it, and nothing    *)
(* only when all blocks are made.                                          *)
(***************************************************************************)
LEMMA NextBlock ==
    ASSUME input \in Seq(Nat) \ {<<>>}, size \in Nat \ {0}, blockNumber \in Nat
    PROVE  /\ NextChunk \in Seq(Nat)
           /\ blocks \in Nat \ {0} /\ NbItems(input, size) <= blocks
           /\ NbItems(input, size) \in 0 .. MAX_BLOCK_NUMBER + 1
           /\ blockNumber < blocks => NextChunk = Cut(input, size)[blockNumber + 1]
           /\ NextChunk = <<>> => blockNumber >= blocks
           /\ Len(NextChunk) # size => blockNumber + 1 >= blocks
<1> DEFINE n == Len(input)
           sent == blockNumber * size
           end == IF sent + size <= n THEN sent + size ELSE n
<1>1. n \in Nat \ {0} /\ \A m \in 1 .. n : input[m] \in Nat
  BY EmptySeq, LenProperties
<1>2. sent \in Nat /\ (blockNumber + 1) * size = sent + size
  OBVIOUS
<1>3. /\ blocks \in Nat \ {0}
      /\ NbItems(input, size) \in 0 .. MAX_BLOCK_NUMBER + 1
      /\ NbItems(input, size) <= blocks
      /\ blockNumber < blocks <=> sent < n
      /\ blockNumber + 1 < blocks <=> sent + size < n
  <2>1. blockNumber + 1 \in Nat
    OBVIOUS
  <2> QED  BY <1>1, <1>2, <2>1, BlockCount DEF NbItems, blocks
<1>4. NextChunk = SubSeq(input, sent + 1, end)
  BY DEF NextChunk
<1>5. ASSUME blockNumber < blocks
      PROVE  NextChunk = Cut(input, size)[blockNumber + 1]
  <2> DEFINE m == blockNumber + 1
  <2>1. m \in 1 .. blocks /\ m - 1 = blockNumber /\ m * size = sent + size
    BY <1>2, <1>3, <1>5
  <2> HIDE DEF m
  <2>2. Cut(input, size)[m] =
           SubSeq(input, (m - 1) * size + 1, IF m * size <= n THEN m * size ELSE n)
    BY <2>1 DEF Cut, blocks
  <2>3. Cut(input, size)[m] = NextChunk
    BY <1>4, <2>1, <2>2
  <2> QED  BY <2>3 DEF m
<1> HIDE DEF sent, n
<1>6. end \in Int /\ end <= n
  BY <1>1, <1>2
<1>7. NextChunk \in Seq(Nat) /\ Len(NextChunk) = IF sent + 1 <= end THEN end - sent ELSE 0
  <2>1. \A m \in sent + 1 .. end : input[m] \in Nat
    BY <1>1, <1>2, <1>6
  <2> HIDE DEF end
  <2>2. /\ NextChunk \in Seq(Nat)
        /\ Len(NextChunk) = IF sent + 1 <= end THEN end - (sent + 1) + 1 ELSE 0
    BY <1>2, <1>4, <1>6, <2>1, SubSeqProperties
  <2> QED  BY <1>2, <1>6, <2>2
<1>8. NextChunk = <<>> => ~ sent < n
  BY <1>1, <1>2, <1>7
<1>9. Len(NextChunk) # size => ~ sent + size < n
  BY <1>1, <1>2, <1>7
<1>10. blockNumber + 1 >= blocks <=> ~ blockNumber + 1 < blocks
  BY <1>3
<1>11. blockNumber >= blocks <=> ~ blockNumber < blocks
  BY <1>3
<1> QED  BY <1>3, <1>5, <1>7, <1>8, <1>9, <1>10, <1>11

\* What fread gives is a sequence of bytes in any case.
LEMMA ReadsAreBytes ==
    ASSUME NextChunk \in Seq(Nat), NEW bytes \in Reads
    PROVE  bytes \in Seq(Nat)
<1>1. CASE bytes = NextChunk
  BY <1>1
<1>2. CASE bytes # NextChunk
  <2>1. PICK n \in 0 .. Len(NextChunk) - 1 : bytes = SubSeq(NextChunk, 1, n)
    BY <1>2 DEF Reads
  <2>2. \A m \in 1 .. n : NextChunk[m] \in Nat
    BY <2>1, LenProperties
  <2> QED  BY <2>1, <2>2, LenProperties, SubSeqProperties
<1> QED  BY <1>1, <1>2
-----------------------------------------------------------------------------
\* The two halves of the type invariant.
PrepareTypes ==
    /\ pc \in {"off", "reset", "open", "split", "index"}
    /\ nbItems \in 0 .. MAX_BLOCK_NUMBER + 1 /\ blockNumber \in 0 .. nbItems
    /\ cursor \in 0 .. MAX_BLOCK_NUMBER + 1
    /\ DOMAIN blockFile = BlockNumbers
    /\ \A b \in BlockNumbers :
          IsWhole(blockFile[b]) => /\ blockFile[b].data.blockNumber = b
                                   /\ blockFile[b].data.payload \in Seq(Nat) \ {<<>>}
    /\ IsWhole(indexFile) => /\ indexFile.data.nbItems \in 0 .. MAX_BLOCK_NUMBER + 1
                             /\ indexFile.data.items \in
                                   [0 .. indexFile.data.nbItems - 1 -> 0 .. MAX_BLOCK_NUMBER + 1]
    /\ input \in {<<>>} \cup Inputs /\ unnoticed \in BOOLEAN

LoopTypes == onAir \in Seq(Seq(Nat)) /\ numbers \in [1 .. Len(onAir) -> BlockNumbers]

\* The types of the preparation and of the loop.
LEMMA TypeParts == TypeOK <=> PrepareTypes /\ LoopTypes
BY DEF TypeOK, PrepareTypes, LoopTypes

PrepareInv == PrepareTypes /\ Locals /\ OneInput
LoopInv == LoopTypes /\ Loop /\ PublicationComplete

\* The invariant is one of the preparation and one of the loop.
LEMMA InvParts == Inv <=> PrepareInv /\ LoopInv
BY TypeParts DEF Inv, PrepareInv, LoopInv

\* The same after a step.
LEMMA InvPartsAfter == Inv' <=> PrepareInv' /\ LoopInv'
BY DEF Inv, PrepareInv, LoopInv, TypeOK, PrepareTypes, LoopTypes

\* Server's name for the number of packets of the block it is at.
LEMMA ServerChunks ==
    /\ S!nbThrotChunks = NbThrotChunks(S!Block)
    /\ S!nbThrotChunks' = NbThrotChunks(S!Block')
BY DEF S!nbThrotChunks, S!NbThrotChunks, NbThrotChunks

\* The invariant holds at first.
LEMMA InitInv ==
    ASSUME Init
    PROVE  Inv
<1>1. PrepareInv
  <2>1. ~ IsWhole(Absent) /\ MAX_BLOCK_NUMBER \in Nat
    BY MaximaAssumption DEF IsWhole, Absent
  <2>2. /\ pc = "off" /\ nbItems = 0 /\ blockNumber = 0 /\ cursor = 0
        /\ blockFile = [b \in BlockNumbers |-> Absent] /\ indexFile = Absent
        /\ input = <<>> /\ size = 0 /\ unnoticed = FALSE
    BY DEF Init, PrepareInit
  <2>3. /\ ~ IsWhole(indexFile) /\ DOMAIN blockFile = BlockNumbers
        /\ \A b \in BlockNumbers : ~ IsWhole(blockFile[b])
    <3>1. \A b \in BlockNumbers : blockFile[b] = Absent
      BY <2>2
    <3> QED  BY <2>1, <2>2, <3>1
  <2>4. /\ nbItems \in 0 .. MAX_BLOCK_NUMBER + 1 /\ blockNumber \in 0 .. nbItems
        /\ cursor \in 0 .. MAX_BLOCK_NUMBER + 1
    BY <2>1, <2>2
  <2>5. PrepareTypes
    <3> QED  BY <2>2, <2>3, <2>4, Zenon DEF PrepareTypes
  <2>6. Locals
    BY <2>1, <2>2 DEF Locals
  <2>7. OneInput
    BY <2>1, <2>2 DEF OneInput
  <2> QED  BY <2>5, <2>6, <2>7 DEF PrepareInv
<1>2. LoopInv
  <2>1. onAir = <<>> /\ onAir \in Seq(Seq(Nat)) /\ Len(onAir) = 0 /\ numbers = <<>>
    BY EmptySeq DEF Init
  <2>2. numbers \in [1 .. Len(onAir) -> BlockNumbers]
    BY <2>1
  <2> QED  BY <2>1, <2>2 DEF Init, LoopInv, LoopTypes, Loop, PublicationComplete, Sending
<1> QED  BY <1>1, <1>2, InvParts

-----------------------------------------------------------------------------
(***************************************************************************)
(* Whatever removes or tears files and leaves the loop that makes blocks   *)
(* keeps what is said of the others.                                       *)
(***************************************************************************)
OnlyRemoves ==
    /\ DOMAIN blockFile' = BlockNumbers
    /\ \A b \in BlockNumbers : IsWhole(blockFile'[b]) => blockFile'[b] = blockFile[b]
    /\ IsWhole(indexFile') => indexFile' = indexFile
    /\ UNCHANGED history

\* Whatever only removes or tears files keeps the rest true.
LEMMA RemovalKeeps ==
    ASSUME PrepareInv, OnlyRemoves, pc' \in {"off", "reset", "open"},
           nbItems' = 0, blockNumber' = 0, cursor' \in 0 .. MAX_BLOCK_NUMBER + 1
    PROVE  PrepareTypes' /\ OneInput'
<1>1. PrepareTypes'
  BY MaximaAssumption DEF PrepareInv, PrepareTypes, OnlyRemoves, history
<1>2. ASSUME ~ unnoticed', IsWhole(indexFile')
      PROVE  /\ input' # <<>> /\ indexFile'.data.nbItems = blocks'
             /\ \A b \in 0 .. blocks' - 1 : /\ indexFile'.data.items[b] = b
                                            /\ b \in BlockNumbers => BlockOfInput(b)'
  <2>1. /\ indexFile' = indexFile /\ input' = input /\ size' = size /\ blocks' = blocks
        /\ ~ unnoticed
    BY <1>2 DEF OnlyRemoves, history, blocks
  <2>2. /\ input # <<>> /\ indexFile.data.nbItems = blocks
        /\ \A b \in 0 .. blocks - 1 : /\ indexFile.data.items[b] = b
                                      /\ b \in BlockNumbers => BlockOfInput(b)
    BY <1>2, <2>1 DEF PrepareInv, OneInput
  <2>3. \A b \in BlockNumbers : BlockOfInput(b) => BlockOfInput(b)'
    BY <2>1 DEF OnlyRemoves, BlockOfInput
  <2> QED  BY <2>1, <2>2, <2>3
<1> QED  BY <1>1, <1>2 DEF OneInput

\* One file is removed or torn, the others stay.
LEMMA ReplacedFile ==
    ASSUME PrepareTypes, NEW n, NEW file, ~ IsWhole(file) \/ file = blockFile[n],
           blockFile' = [blockFile EXCEPT ![n] = file]
    PROVE  /\ DOMAIN blockFile' = BlockNumbers
           /\ \A b \in BlockNumbers : IsWhole(blockFile'[b]) => blockFile'[b] = blockFile[b]
BY DEF PrepareTypes

\* What a file can be.
LEMMA NotWhole ==
    ~ IsWhole(Absent) /\ ~ IsWhole(Torn) /\ \A x : IsWhole(Whole(x)) /\ Whole(x).data = x
BY DEF IsWhole, Absent, Torn, Whole

\* A reset, finished or not, and a kill keep the invariant.
LEMMA RemovalStep ==
    ASSUME PrepareInv, Begin \/ ResetNothing \/ ResetBlock \/ ResetIndex \/ Kill
    PROVE  PrepareInv'
<1> USE DEF PrepareInv
<1>1. CASE Begin
  <2>1. OnlyRemoves /\ pc' = "reset" /\ pc = "off" /\ UNCHANGED memory /\ indexFile' = indexFile
    BY <1>1 DEF Begin, OnlyRemoves, directory, PrepareTypes
  <2>2. cursor = 0 /\ nbItems = 0 /\ blockNumber = 0
    BY <2>1 DEF Locals
  <2>3. PrepareTypes' /\ OneInput'
    BY <2>1, <2>2, RemovalKeeps DEF memory, PrepareTypes
  <2>4. Locals'
    BY <2>1, <2>2 DEF Locals, memory, OnlyRemoves, history, PrepareTypes
  <2> QED  BY <2>3, <2>4
<1>2. CASE ResetNothing
  <2>1. OnlyRemoves /\ pc' = "open" /\ pc = "reset" /\ UNCHANGED memory /\ indexFile' = indexFile
        /\ ~ IsWhole(indexFile)
    BY <1>2 DEF ResetNothing, OnlyRemoves, directory, PrepareTypes
  <2>2. cursor = 0 /\ nbItems = 0 /\ blockNumber = 0
    BY <2>1 DEF Locals
  <2>3. PrepareTypes' /\ OneInput'
    BY <2>1, <2>2, RemovalKeeps DEF memory, PrepareTypes
  <2>4. Locals'
    BY <2>1, <2>2 DEF Locals, memory, OnlyRemoves, history
  <2> QED  BY <2>3, <2>4
<1>3. CASE ResetBlock
  <2> DEFINE n == indexFile.data.items[cursor]
  <2>1. /\ pc = "reset" /\ IsWhole(indexFile) /\ cursor < indexFile.data.nbItems
        /\ indexFile' = indexFile /\ UNCHANGED history
    BY <1>3 DEF ResetBlock
  <2>2. nbItems = 0 /\ blockNumber = 0
    BY <2>1 DEF Locals
  <2>3. \/ /\ blockFile' = [blockFile EXCEPT ![n] = Absent]
           /\ cursor' = cursor + 1 /\ pc' = pc /\ UNCHANGED <<nbItems, blockNumber>>
        \/ Leave /\ blockFile' = blockFile
    BY <1>3 DEF ResetBlock
  <2> HIDE DEF n
  <2>4. OnlyRemoves
    BY <2>1, <2>3, ReplacedFile, NotWhole DEF OnlyRemoves, PrepareTypes
  <2>5. /\ pc' \in {"off", "reset"} /\ nbItems' = 0 /\ blockNumber' = 0
        /\ cursor' \in 0 .. MAX_BLOCK_NUMBER + 1 /\ cursor' <= indexFile.data.nbItems
        /\ pc' = "off" => cursor' = 0
    <3>1. /\ cursor \in Nat /\ indexFile.data.nbItems \in 0 .. MAX_BLOCK_NUMBER + 1
          /\ MAX_BLOCK_NUMBER \in Nat
      BY <2>1, MaximaAssumption DEF PrepareTypes
    <3> QED  BY <2>1, <2>2, <2>3, <3>1 DEF Leave
  <2>6. PrepareTypes' /\ OneInput'
    BY <2>4, <2>5, RemovalKeeps
  <2>7. Locals'
    BY <2>1, <2>5 DEF Locals, history
  <2> QED  BY <2>6, <2>7
<1>4. CASE ResetIndex
  <2>1. /\ pc = "reset" /\ pc' \in {"off", "open"} /\ blockFile' = blockFile
        /\ indexFile' \in {indexFile, Absent} /\ (pc' = "open" => indexFile' = Absent)
        /\ cursor' = 0 /\ UNCHANGED history
        /\ nbItems' \in {0, nbItems} /\ blockNumber' \in {0, blockNumber}
    BY <1>4 DEF ResetIndex, Leave
  <2>2. nbItems' = 0 /\ blockNumber' = 0
    BY <2>1 DEF Locals
  <2>3. OnlyRemoves /\ (pc' = "open" => ~ IsWhole(indexFile'))
    BY <2>1, NotWhole DEF OnlyRemoves, PrepareTypes
  <2>4. PrepareTypes' /\ OneInput'
    BY <2>1, <2>2, <2>3, RemovalKeeps, MaximaAssumption
  <2>5. Locals'
    BY <2>1, <2>2, <2>3 DEF Locals, history
  <2> QED  BY <2>4, <2>5
<1>5. CASE Kill
  <2>1. pc' = "off" /\ nbItems' = 0 /\ blockNumber' = 0 /\ cursor' = 0 /\ UNCHANGED history
    BY <1>5 DEF Kill, Leave
  <2>2. \/ blockFile' = blockFile
        \/ \E f \in Tear(blockFile[blockNumber]) :
              blockFile' = [blockFile EXCEPT ![blockNumber] = f]
    BY <1>5 DEF Kill
  <2>3. /\ DOMAIN blockFile' = BlockNumbers
        /\ \A b \in BlockNumbers : IsWhole(blockFile'[b]) => blockFile'[b] = blockFile[b]
    <3>1. CASE blockFile' = blockFile
      BY <3>1 DEF PrepareTypes
    <3>2. ASSUME NEW f \in Tear(blockFile[blockNumber]),
                 blockFile' = [blockFile EXCEPT ![blockNumber] = f]
          PROVE  <2>3!1 /\ <2>3!2
      <4>1. ~ IsWhole(f) \/ f = blockFile[blockNumber]
        BY <3>2, NotWhole DEF Tear
      <4> QED  BY <3>2, <4>1, ReplacedFile
    <3> QED  BY <2>2, <3>1, <3>2
  <2>4. IsWhole(indexFile') => indexFile' = indexFile
    BY <1>5, NotWhole DEF Kill, Tear
  <2>5. OnlyRemoves
    BY <2>1, <2>3, <2>4 DEF OnlyRemoves
  <2>6. PrepareTypes' /\ OneInput'
    BY <2>1, <2>5, RemovalKeeps, MaximaAssumption
  <2>7. Locals'
    BY <2>1 DEF Locals, history
  <2> QED  BY <2>6, <2>7
<1> QED  BY <1>1, <1>2, <1>3, <1>4, <1>5

\* Opening the input keeps it.
LEMMA OpenStep ==
    ASSUME PrepareInv, Open
    PROVE  PrepareInv'
<1> USE DEF PrepareInv
<1>1. /\ pc = "open" /\ ~ IsWhole(indexFile)
      /\ nbItems = 0 /\ blockNumber = 0 /\ cursor = 0
  BY DEF Open, Locals
<1>2. PICK file \in Inputs, n \in {m \in BlockSizes : m >= MIN_BLOCK_SIZE} :
         /\ input' = file /\ size' = n /\ unnoticed' = FALSE
         /\ \/ file = <<>> /\ Leave
            \/ file # <<>> /\ nbItems' = NbItems(file, n) /\ pc' = "split"
                           /\ UNCHANGED <<blockNumber, cursor>>
         /\ UNCHANGED directory
  BY DEF Open
<1>3. /\ blockFile' = blockFile /\ indexFile' = indexFile /\ blockNumber' = 0 /\ cursor' = 0
      /\ pc' \in {"off", "split"} /\ (pc' = "off" => nbItems' = 0)
      /\ pc' = "split" => input' # <<>> /\ nbItems' = NbItems(input', size')
  BY <1>1, <1>2 DEF directory, Leave
<1>4. /\ size' \in Nat \ {0} /\ size' >= MIN_BLOCK_SIZE /\ input' \in Seq(Nat)
      /\ input' \in Inputs /\ unnoticed' = FALSE
  BY <1>2, PrepareAssumption
<1>5. nbItems' \in 0 .. MAX_BLOCK_NUMBER + 1 /\ blockNumber' \in 0 .. nbItems'
  <2>1. CASE pc' = "off"
    BY <1>3, <2>1, MaximaAssumption
  <2>2. CASE pc' = "split"
    <3>1. Len(input') \in Nat \ {0}
      BY <1>3, <1>4, <2>2, EmptySeq, LenProperties
    <3>2. NbItems(input', size') \in 0 .. MAX_BLOCK_NUMBER + 1
      BY <1>4, <3>1, BlockCount DEF NbItems
    <3> QED  BY <1>3, <2>2, <3>2
  <2> QED  BY <1>3, <2>1, <2>2
<1>6. PrepareTypes'
  <2>1. cursor' \in 0 .. MAX_BLOCK_NUMBER + 1 /\ pc' \in {"off", "reset", "open", "split", "index"}
    BY <1>3, MaximaAssumption
  <2> QED  BY <1>3, <1>4, <1>5, <2>1 DEF PrepareTypes
<1>7. Locals'
  BY <1>1, <1>3, <1>4 DEF Locals
<1>8. OneInput'
  <2>1. \A b : ~ b \in 0 .. blockNumber' - 1
    BY <1>3
  <2> QED  BY <1>1, <1>3, <2>1 DEF OneInput
<1> QED  BY <1>6, <1>7, <1>8

-----------------------------------------------------------------------------
\* splitFile asks for a block of a file that is there, and puts it in its table.
LEMMA InSplit ==
    ASSUME PrepareInv, pc \in {"split", "index"}
    PROVE  /\ input \in Seq(Nat) \ {<<>>} /\ size \in Nat \ {0} /\ blockNumber \in Nat
           /\ nbItems = NbItems(input, size) /\ ~ IsWhole(indexFile) /\ cursor = 0
           /\ blockNumber < nbItems => blockNumber \in BlockNumbers
<1>1. /\ input # <<>> /\ nbItems = NbItems(input, size) /\ ~ IsWhole(indexFile) /\ cursor = 0
      /\ size \in Nat /\ size >= MIN_BLOCK_SIZE
  BY DEF PrepareInv, Locals
<1>2. input \in Seq(Nat) /\ MIN_BLOCK_SIZE \in Nat \ {0}
  BY <1>1, PrepareAssumption DEF PrepareInv, PrepareTypes
<1>3. nbItems \in 0 .. MAX_BLOCK_NUMBER + 1 /\ blockNumber \in 0 .. nbItems
  BY DEF PrepareInv, PrepareTypes
<1> QED  BY <1>1, <1>2, <1>3, MaximaAssumption DEF BlockNumbers

\* The loop ends only when the input is used up or an error was passed over.
LEMMA SplitEnds ==
    ASSUME PrepareInv, pc = "split", NEW bytes \in Reads, bytes = NextChunk
    PROVE  /\ bytes = <<>> => blockNumber = nbItems /\ nbItems = blocks
           /\ blockNumber < nbItems /\ Len(bytes) # size =>
                  blockNumber + 1 = nbItems /\ nbItems = blocks
           /\ blockNumber < nbItems => bytes = Cut(input, size)[blockNumber + 1]
<1>1. /\ input \in Seq(Nat) \ {<<>>} /\ size \in Nat \ {0} /\ blockNumber \in Nat
      /\ nbItems = NbItems(input, size)
  BY InSplit
<1>2. /\ blocks \in Nat \ {0} /\ nbItems <= blocks /\ nbItems \in Nat
      /\ blockNumber < blocks => NextChunk = Cut(input, size)[blockNumber + 1]
      /\ NextChunk = <<>> => blockNumber >= blocks
      /\ Len(NextChunk) # size => blockNumber + 1 >= blocks
  BY <1>1, NextBlock
<1>3. blockNumber <= nbItems
  BY DEF PrepareInv, PrepareTypes
<1> QED  BY <1>1, <1>2, <1>3

\* Making a block keeps it.
LEMMA SplitStep ==
    ASSUME PrepareInv, Split
    PROVE  PrepareInv'
<1> USE DEF PrepareInv
<1>1. pc = "split" /\ UNCHANGED <<indexFile, input, size>>
  BY DEF Split
<1>2. PICK bytes \in Reads :
         \/ /\ bytes = <<>> /\ pc' = "index"
            /\ unnoticed' = (unnoticed \/ bytes # NextChunk)
            /\ UNCHANGED <<memory, blockFile>>
         \/ /\ bytes # <<>> /\ blockNumber >= nbItems /\ Leave
            /\ UNCHANGED <<unnoticed, blockFile>>
         \/ /\ bytes # <<>> /\ blockNumber < nbItems
            /\ \E file \in WriteOutcomes(blockFile[blockNumber], BlockOf(bytes)) :
                  /\ blockFile' = [blockFile EXCEPT ![blockNumber] = file]
                  /\ unnoticed' = \/ unnoticed \/ bytes # NextChunk
                                  \/ IsWhole(file) /\ file # Whole(BlockOf(bytes))
            /\ blockNumber' = blockNumber + 1
            /\ pc' = IF Len(bytes) = size THEN "split" ELSE "index"
            /\ UNCHANGED <<nbItems, cursor>>
  BY DEF Split
<1>3. /\ input \in Seq(Nat) \ {<<>>} /\ size \in Nat \ {0} /\ blockNumber \in Nat
      /\ nbItems = NbItems(input, size) /\ ~ IsWhole(indexFile') /\ cursor = 0
      /\ blockNumber < nbItems => blockNumber \in BlockNumbers
  BY <1>1, InSplit
<1>4. blocks' = blocks /\ input' = input /\ size' = size /\ Cut(input, size)' = Cut(input, size)
  BY <1>1 DEF blocks
<1>5. ASSUME bytes = <<>>, pc' = "index", unnoticed' = (unnoticed \/ bytes # NextChunk),
             UNCHANGED <<memory, blockFile>>
      PROVE  PrepareInv'
  <2>1. PrepareTypes'
    <3>1. unnoticed' \in BOOLEAN
      BY <1>5
    <3> QED  BY <1>1, <1>3, <1>5, <3>1 DEF PrepareTypes, memory
  <2>2. Locals'
    BY <1>3, <1>4, <1>5 DEF Locals, memory
  <2>3. ASSUME ~ unnoticed'
        PROVE  /\ blockNumber' = nbItems' /\ nbItems' = blocks'
               /\ \A b \in 0 .. blockNumber' - 1 : BlockOfInput(b)'
    <3>1. ~ unnoticed /\ bytes = NextChunk
      BY <1>5, <2>3
    <3>2. blockNumber = nbItems /\ nbItems = blocks
      BY <1>1, <1>5, <3>1, SplitEnds
    <3>3. \A b \in 0 .. blockNumber - 1 : BlockOfInput(b)
      BY <1>1, <3>1 DEF OneInput
    <3> QED  BY <1>4, <1>5, <3>2, <3>3 DEF memory, BlockOfInput
  <2>4. OneInput'
    BY <1>3, <2>3 DEF OneInput
  <2> QED  BY <2>1, <2>2, <2>4
<1>6. ASSUME Leave, UNCHANGED <<unnoticed, blockFile>>
      PROVE  PrepareInv'
  <2>1. OnlyRemoves
    BY <1>1, <1>3, <1>6 DEF OnlyRemoves, PrepareTypes, history
  <2>2. PrepareTypes' /\ OneInput'
    BY <1>6, <2>1, RemovalKeeps, MaximaAssumption DEF Leave
  <2>3. Locals'
    BY <1>3, <1>4, <1>6 DEF Locals, Leave
  <2> QED  BY <2>2, <2>3
<1>7. ASSUME bytes # <<>>, blockNumber < nbItems, blockNumber' = blockNumber + 1,
             pc' = IF Len(bytes) = size THEN "split" ELSE "index",
             UNCHANGED <<nbItems, cursor>>,
             NEW file \in WriteOutcomes(blockFile[blockNumber], BlockOf(bytes)),
             blockFile' = [blockFile EXCEPT ![blockNumber] = file],
             unnoticed' = (\/ unnoticed \/ bytes # NextChunk
                           \/ IsWhole(file) /\ file # Whole(BlockOf(bytes)))
      PROVE  PrepareInv'
  <2>1. \/ file = Whole(BlockOf(bytes))
        \/ ~ IsWhole(file)
        \/ file = blockFile[blockNumber]
    BY <1>7, NotWhole DEF WriteOutcomes, RefusedWrite, Tear
  <2>2. bytes \in Seq(Nat) \ {<<>>}
    BY <1>3, <1>7, NextBlock, ReadsAreBytes
  <2>3. /\ Whole(BlockOf(bytes)).data.blockNumber = blockNumber
        /\ Whole(BlockOf(bytes)).data.payload = bytes
    BY NotWhole DEF BlockOf
  <2>4. /\ DOMAIN blockFile' = BlockNumbers /\ blockFile'[blockNumber] = file
        /\ \A b \in BlockNumbers : b # blockNumber => blockFile'[b] = blockFile[b]
    BY <1>3, <1>7 DEF PrepareTypes
  <2>5. PrepareTypes'
    <3>1. unnoticed' \in BOOLEAN
      BY <1>7
    <3>2. nbItems' \in 0 .. MAX_BLOCK_NUMBER + 1 /\ blockNumber' \in 0 .. nbItems'
      BY <1>7 DEF PrepareTypes
    <3>3. \A b \in BlockNumbers :
             IsWhole(blockFile'[b]) => /\ blockFile'[b].data.blockNumber = b
                                       /\ blockFile'[b].data.payload \in Seq(Nat) \ {<<>>}
      BY <2>1, <2>2, <2>3, <2>4 DEF PrepareTypes
    <3>4. pc' \in {"off", "reset", "open", "split", "index"} /\ cursor' = cursor
      BY <1>7
    <3> QED  BY <1>1, <1>3, <1>4, <2>4, <3>1, <3>2, <3>3, <3>4 DEF PrepareTypes
  <2>6. Locals'
    BY <1>3, <1>4, <1>7 DEF Locals
  <2>7. ASSUME ~ unnoticed'
        PROVE  /\ pc' = "index" => blockNumber' = nbItems' /\ nbItems' = blocks'
               /\ \A b \in 0 .. blockNumber' - 1 : BlockOfInput(b)'
    <3>1. ~ unnoticed /\ bytes = NextChunk /\ (IsWhole(file) => file = Whole(BlockOf(bytes)))
      BY <1>7, <2>7
    <3>2. /\ Len(bytes) # size => blockNumber + 1 = nbItems /\ nbItems = blocks
          /\ bytes = Cut(input, size)[blockNumber + 1]
      BY <1>1, <1>7, <3>1, SplitEnds
    <3>3. \A b \in 0 .. blockNumber - 1 : BlockOfInput(b)
      BY <1>1, <3>1 DEF OneInput
    <3>4. pc' = "index" => blockNumber' = nbItems' /\ nbItems' = blocks'
      BY <1>4, <1>7, <3>2
    <3>5. ASSUME NEW b \in 0 .. blockNumber', IsWhole(blockFile'[b]), b < blockNumber'
          PROVE  blockFile'[b].data.payload = Cut(input, size)[b + 1]
      <4>1. CASE b = blockNumber
        BY <2>3, <2>4, <3>1, <3>2, <3>5, <4>1
      <4>2. CASE b # blockNumber
        <5>1. /\ blockNumber' = blockNumber + 1 /\ blockNumber \in BlockNumbers
              /\ b \in 0 .. blockNumber'
          BY <1>3, <1>7, <3>5
        <5>2. b \in 0 .. blockNumber - 1 /\ b \in BlockNumbers
          BY <1>3, <3>5, <4>2, <5>1, MaximaAssumption DEF BlockNumbers
        <5> QED  BY <2>4, <3>3, <3>5, <4>2, <5>2 DEF BlockOfInput
      <4> QED  BY <4>1, <4>2
    <3>6. \A b \in 0 .. blockNumber' - 1 : BlockOfInput(b)'
      <4> SUFFICES ASSUME NEW b \in 0 .. blockNumber' - 1, IsWhole(blockFile'[b])
                   PROVE  blockFile'[b].data.payload = Cut(input, size)[b + 1]
        BY <1>4 DEF BlockOfInput
      <4>1. blockNumber' \in Nat
        BY <1>3, <1>7
      <4>2. b \in 0 .. blockNumber' /\ b < blockNumber'
        <5>1. \A m \in Nat : \A x \in 0 .. m - 1 : x \in 0 .. m /\ x < m
          OBVIOUS
        <5> QED  BY <4>1, <5>1
      <4> QED  BY <3>5, <4>2
    <3> QED  BY <3>4, <3>6
  <2>8. OneInput'
    BY <1>3, <2>7 DEF OneInput
  <2> QED  BY <2>5, <2>6, <2>8
<1> QED  BY <1>2, <1>5, <1>6, <1>7

\* Writing the index keeps it.
LEMMA CreateIndexStep ==
    ASSUME PrepareInv, CreateIndex
    PROVE  PrepareInv'
<1> USE DEF PrepareInv
<1>1. /\ pc = "index" /\ blockFile' = blockFile /\ UNCHANGED history
      /\ pc' = "off" /\ nbItems' = 0 /\ blockNumber' = 0 /\ cursor' = 0
  BY DEF CreateIndex, Leave
<1>2. /\ ~ IsWhole(indexFile) /\ size \in Nat \ {0} /\ input \in Seq(Nat) \ {<<>>}
  BY <1>1, InSplit
<1>3. Locals'
  BY <1>1, <1>2, PrepareAssumption DEF Locals, history
<1>4. CASE ~ IsWhole(indexFile')
  <2>1. OnlyRemoves
    BY <1>1, <1>4 DEF OnlyRemoves, PrepareTypes
  <2> QED  BY <1>1, <1>3, <2>1, RemovalKeeps, MaximaAssumption
<1>5. CASE IsWhole(indexFile')
  <2>1. PICK rest \in [blockNumber .. nbItems - 1 -> Uninitialised] :
           indexFile' \in WriteOutcomes(indexFile,
              [nbItems |-> nbItems,
               items |-> [b \in 0 .. nbItems - 1 |-> IF b < blockNumber THEN b ELSE rest[b]]])
    BY DEF CreateIndex
  <2> DEFINE items == [b \in 0 .. nbItems - 1 |-> IF b < blockNumber THEN b ELSE rest[b]]
             table == [nbItems |-> nbItems, items |-> items]
  <2>2. indexFile' = Whole(table)
    BY <1>2, <1>5, <2>1, NotWhole DEF WriteOutcomes, RefusedWrite, Tear
  <2>3. indexFile'.data.nbItems = nbItems /\ indexFile'.data.items = items
    <3> HIDE DEF items
    <3>1. indexFile'.data = table
      BY <2>2, NotWhole, Zenon
    <3> QED  BY <3>1
  <2>4. nbItems \in 0 .. MAX_BLOCK_NUMBER + 1 /\ blockNumber \in 0 .. nbItems
    BY DEF PrepareTypes
  <2>5. items \in [0 .. nbItems - 1 -> 0 .. MAX_BLOCK_NUMBER + 1]
    <3>1. ASSUME NEW b \in 0 .. nbItems - 1
          PROVE  (IF b < blockNumber THEN b ELSE rest[b]) \in 0 .. MAX_BLOCK_NUMBER + 1
      <4>1. CASE b < blockNumber
        BY <2>4, <3>1, <4>1, MaximaAssumption
      <4>2. CASE ~ b < blockNumber
        <5>1. b \in blockNumber .. nbItems - 1
          BY <2>4, <3>1, <4>2, MaximaAssumption
        <5> QED  BY <4>2, <5>1, PrepareAssumption
      <4> QED  BY <4>1, <4>2
    <3> QED  BY <3>1
  <2>6. PrepareTypes'
    <3>1. /\ nbItems' \in 0 .. MAX_BLOCK_NUMBER + 1 /\ blockNumber' \in 0 .. nbItems'
          /\ cursor' \in 0 .. MAX_BLOCK_NUMBER + 1
      BY <1>1, MaximaAssumption
    <3> HIDE DEF items, table
    <3> QED  BY <1>1, <2>3, <2>4, <2>5, <3>1 DEF PrepareTypes, history
  <2>7. ASSUME ~ unnoticed'
        PROVE  /\ input' # <<>> /\ nbItems = blocks'
               /\ \A b \in 0 .. blocks' - 1 : /\ items[b] = b
                                              /\ b \in BlockNumbers => BlockOfInput(b)'
    <3>1. ~ unnoticed /\ input' = input /\ size' = size /\ blocks' = blocks
      BY <1>1, <2>7 DEF history, blocks
    <3>2. /\ blockNumber = nbItems /\ nbItems = blocks
          /\ \A b \in 0 .. blockNumber - 1 : BlockOfInput(b)
      BY <1>1, <3>1 DEF OneInput
    <3>3. \A b \in 0 .. blocks - 1 : items[b] = b
      BY <2>4, <3>2, MaximaAssumption
    <3>4. \A b : BlockOfInput(b)' <=> BlockOfInput(b)
      BY <1>1, <3>1 DEF BlockOfInput
    <3> HIDE DEF items, table
    <3> QED  BY <1>2, <3>1, <3>2, <3>3, <3>4
  <2>8. OneInput'
    <3> HIDE DEF items, table
    <3> QED  BY <1>1, <2>3, <2>7 DEF OneInput
  <2> QED  BY <1>3, <2>6, <2>8
<1> QED  BY <1>4, <1>5

-----------------------------------------------------------------------------
\* Preparing files does not touch the loop, which stands still.
LEMMA PrepareKeepsLoop ==
    ASSUME Inv, (~ Sending /\ Begin) \/ Work \/ Kill, UNCHANGED loop
    PROVE  LoopInv'
<1>1. onAir' = onAir /\ numbers' = numbers /\ i' = i /\ k' = k /\ j' = j
      /\ blockSize' = blockSize /\ wire' = wire
  BY DEF loop
<1>2. ~ Sending
  <2>1. CASE Work \/ Kill
    <3>1. pc # "off"
      BY <2>1
         DEF Work, Kill, ResetNothing, ResetBlock, ResetIndex, Open, Split, CreateIndex
    <3> QED  BY <3>1 DEF Inv, Loop
  <2> QED  BY <2>1
<1>3. ~ Sending'
  BY <1>1, <1>2 DEF Sending
<1>4. LoopTypes'
  BY <1>1 DEF Inv, TypeOK, LoopTypes
<1>5. Loop'
  BY <1>1, <1>2, <1>3 DEF Inv, Loop
<1>6. PublicationComplete'
  BY <1>3 DEF PublicationComplete
<1> QED  BY <1>4, <1>5, <1>6 DEF LoopInv

\* A preparation beside a loop that stands still.
LEMMA PrepareStep ==
    ASSUME Inv, (~ Sending /\ Begin) \/ Work \/ Kill, UNCHANGED loop
    PROVE  Inv'
<1>1. PrepareInv
  BY InvParts
<1>2. PrepareInv'
  BY <1>1, RemovalStep, OpenStep, SplitStep, CreateIndexStep DEF Work
<1> QED  BY <1>2, PrepareKeepsLoop, InvPartsAfter

\* Nothing of the preparation changes while the loop runs.
LEMMA PrepareKept ==
    ASSUME PrepareInv, UNCHANGED prepareVars
    PROVE  PrepareInv'
<1>1. /\ pc' = pc /\ nbItems' = nbItems /\ blockNumber' = blockNumber /\ cursor' = cursor
      /\ blockFile' = blockFile /\ indexFile' = indexFile
      /\ input' = input /\ size' = size /\ unnoticed' = unnoticed
  BY DEF prepareVars, memory, directory, history
<1>2. PrepareTypes'
  BY <1>1 DEF PrepareInv, PrepareTypes
<1>3. Locals'
  BY <1>1 DEF PrepareInv, Locals
<1>4. OneInput'
  BY <1>1 DEF PrepareInv, OneInput, BlockOfInput, blocks
<1> QED  BY <1>2, <1>3, <1>4 DEF PrepareInv

(***************************************************************************)
(* transmitFile: the blocks of the index, each of them verified, are the   *)
(* blocks of the one input the index stands for.                           *)
(***************************************************************************)
LEMMA LoadStep ==
    ASSUME Inv, Load
    PROVE  Inv'
<1> DEFINE table == indexFile.data
           Read(b) == FileAt(table.items[b])
           payloads == [n \in 1 .. table.nbItems |-> Read(n - 1).data.payload]
           headers == [n \in 1 .. table.nbItems |-> Read(n - 1).data.blockNumber]
<1>1. /\ pc = "off" /\ ~ Sending /\ IsWhole(indexFile) /\ UNCHANGED prepareVars
      /\ i' = i /\ k' = k /\ j' = j /\ blockSize' = blockSize /\ wire' = wire
      /\ \A b \in 0 .. table.nbItems - 1 : ReadsVerified(Read(b))
      /\ onAir' = payloads /\ numbers' = headers
  BY DEF Load
<1>2. PrepareInv'
  BY <1>1, InvParts, PrepareKept
<1>3. /\ table.nbItems \in Nat /\ PrepareTypes
      /\ i = 0 /\ k = 1 /\ j = 0 /\ blockSize = 0 /\ wire = {}
  BY <1>1, InvParts DEF PrepareInv, PrepareTypes, LoopInv, Loop
<1>4. ASSUME NEW b \in 0 .. table.nbItems - 1
      PROVE  /\ table.items[b] \in BlockNumbers /\ Read(b) = blockFile[table.items[b]]
             /\ IsWhole(blockFile[table.items[b]])
             /\ Read(b).data.blockNumber = table.items[b]
             /\ Read(b).data.payload \in Seq(Nat) \ {<<>>}
  <2>1. IsWhole(Read(b))
    BY <1>1, <1>4 DEF ReadsVerified
  <2>2. table.items[b] \in BlockNumbers
    BY <2>1, NotWhole DEF FileAt
  <2>3. Read(b) = blockFile[table.items[b]]
    BY <2>2 DEF FileAt
  <2> HIDE DEF Read
  <2> QED  BY <1>3, <2>1, <2>2, <2>3 DEF PrepareTypes
<1> HIDE DEF table, Read
<1>5. /\ payloads \in [1 .. table.nbItems -> Seq(Nat)]
      /\ headers \in [1 .. table.nbItems -> BlockNumbers]
  <2>1. \A n \in 1 .. table.nbItems : n - 1 \in 0 .. table.nbItems - 1
    BY <1>3
  <2> QED  BY <1>4, <2>1
<1> HIDE DEF payloads, headers
<1>6. payloads \in Seq(Seq(Nat)) /\ Len(payloads) = table.nbItems
  BY <1>3, <1>5, SeqDef, LenProperties
<1>7. LoopTypes'
  BY <1>1, <1>5, <1>6 DEF LoopTypes
<1>8. Loop'
  <2>1. CASE table.nbItems = 0
    <3>1. onAir' = <<>> /\ numbers' = <<>>
      BY <1>1, <1>5, <1>6, <2>1, EmptySeq
    <3> QED  BY <1>1, <1>3, <3>1 DEF Loop, Sending
  <2>2. CASE table.nbItems # 0
    <3>1. Sending' /\ pc' = "off" /\ Len(onAir') \in Nat \ {0} /\ onAir' \in Seq(Seq(Nat))
      BY <1>1, <1>3, <1>6, <2>2, EmptySeq DEF Sending, prepareVars
    <3>2. S!Block' \in Seq(Nat)
      BY <1>1, <1>3, <3>1, ElementOfSeq DEF S!Block
    <3>3. S!nbThrotChunks' = NbThrotChunks(S!Block')
      BY ServerChunks
    <3>4. 0 \in 0 .. NbThrotChunks(S!Block') /\ SentBefore(S!Block', 0) = 0
      BY <3>2, ChunkTotal, SentBounds
    <3> QED
      BY <1>1, <1>3, <3>1, <3>3, <3>4, RepeatAssumption DEF Loop
  <2> QED  BY <2>1, <2>2
<1>9. PublicationComplete'
  <2> SUFFICES ASSUME Sending', ~ unnoticed'
               PROVE  /\ payloads = Cut(input, size)
                      /\ headers = [n \in 1 .. table.nbItems |-> n - 1]
    BY <1>1, <1>6 DEF PublicationComplete, prepareVars, history
  <2>1. /\ input # <<>> /\ table.nbItems = blocks
        /\ \A b \in 0 .. blocks - 1 : /\ table.items[b] = b
                                      /\ b \in BlockNumbers => BlockOfInput(b)
    BY <1>1 DEF Inv, OneInput, prepareVars, history, table
  <2>2. Cut(input, size) = [n \in 1 .. table.nbItems |-> Cut(input, size)[n]]
    BY <2>1 DEF Cut, blocks
  <2>3. ASSUME NEW n \in 1 .. table.nbItems
        PROVE  payloads[n] = Cut(input, size)[n] /\ headers[n] = n - 1
    <3>1. n - 1 \in 0 .. table.nbItems - 1 /\ (n - 1) + 1 = n
      BY <1>3
    <3>2. table.items[n - 1] = n - 1 /\ n - 1 \in BlockNumbers
      BY <1>4, <2>1, <3>1
    <3>3. payloads[n] = Read(n - 1).data.payload /\ headers[n] = Read(n - 1).data.blockNumber
      BY DEF payloads, headers
    <3>4. Read(n - 1) = blockFile[n - 1] /\ IsWhole(blockFile[n - 1])
          /\ Read(n - 1).data.blockNumber = n - 1
      BY <1>4, <3>1, <3>2
    <3>5. BlockOfInput(n - 1)
      BY <2>1, <3>1, <3>2
    <3> QED  BY <3>1, <3>3, <3>4, <3>5 DEF BlockOfInput
  <2>4. payloads = [n \in 1 .. table.nbItems |-> payloads[n]]
        /\ headers = [n \in 1 .. table.nbItems |-> headers[n]]
    BY <1>5
  <2> QED  BY <2>2, <2>3, <2>4
<1> QED  BY <1>2, <1>7, <1>8, <1>9, InvPartsAfter DEF LoopInv

-----------------------------------------------------------------------------
\* Where the loop is: at a block that was loaded.
LEMMA AtBlock ==
    ASSUME LoopInv, Sending
    PROVE  /\ onAir \in Seq(Seq(Nat)) /\ Len(onAir) \in Nat \ {0} /\ i \in 0 .. Len(onAir) - 1
           /\ S!Block = onAir[i + 1] /\ S!Block \in Seq(Nat)
           /\ NbThrotChunks(S!Block) \in Nat \ {0}
           /\ j \in 0 .. NbThrotChunks(S!Block)
<1>1. /\ onAir \in Seq(Seq(Nat)) /\ onAir # <<>>
      /\ i \in 0 .. Len(onAir) - 1 /\ j \in 0 .. S!nbThrotChunks
  BY DEF LoopInv, LoopTypes, Loop, Sending
<1>2. Len(onAir) \in Nat \ {0}
  BY <1>1, EmptySeq, LenProperties
<1>3. S!Block = onAir[i + 1]
  BY DEF S!Block
<1>4. S!Block \in Seq(Nat)
  BY <1>1, <1>2, <1>3, ElementOfSeq
<1> QED  BY <1>1, <1>2, <1>3, <1>4, ServerChunks, ChunkTotal

\* A packet is sent or missed: either way its payload counts as sent.
LEMMA PacketStep ==
    ASSUME LoopInv, Sending, S!SendPacket \/ S!MissPacket
    PROVE  /\ UNCHANGED <<onAir, numbers, i, k>> /\ j' \in 0 .. S!nbThrotChunks
           /\ BlockIsSent(S!Block) /\ blockSize' = SentBefore(S!Block, j')
           /\ numbers = [n \in 1 .. Len(onAir) |-> n - 1] => wire' \subseteq PacketsOf(onAir)
<1>1. /\ BlockIsSent(S!Block) /\ j < S!nbThrotChunks /\ j' = j + 1
      /\ blockSize' = blockSize + S!payloadSize
      /\ UNCHANGED <<onAir, numbers, i, k>>
  BY DEF S!SendPacket, S!MissPacket, S!InBlock, S!NextPacket, S!BlockIsSent, BlockIsSent,
         S!NbThrotChunks, NbThrotChunks
<1>2. /\ onAir \in Seq(Seq(Nat)) /\ i \in 0 .. Len(onAir) - 1
      /\ S!Block = onAir[i + 1] /\ S!Block \in Seq(Nat)
      /\ NbThrotChunks(S!Block) \in Nat \ {0} /\ S!nbThrotChunks = NbThrotChunks(S!Block)
      /\ j \in 0 .. NbThrotChunks(S!Block) /\ blockSize = SentBefore(S!Block, j)
  BY AtBlock, ServerChunks DEF LoopInv, Loop
<1>3. j \in 0 .. NbThrotChunks(S!Block) - 1 /\ j' \in 0 .. S!nbThrotChunks
  BY <1>1, <1>2
<1>4. S!payloadSize = IF blockSize + ThrotData <= Len(S!Block)
                      THEN ThrotData ELSE Len(S!Block) - blockSize
  BY DEF S!payloadSize
<1>5. /\ blockSize + S!payloadSize = SentBefore(S!Block, j + 1)
      /\ SubSeq(S!Block, blockSize + 1, blockSize + S!payloadSize) = Chunk(S!Block, j)
  BY <1>2, <1>3, <1>4, NextChunkSent
<1>6. ASSUME numbers = [n \in 1 .. Len(onAir) |-> n - 1]
      PROVE  wire' \subseteq PacketsOf(onAir)
  <2>1. CASE wire' = {}
    BY <2>1
  <2>2. CASE S!SendPacket
    <3> DEFINE payload == SubSeq(S!Block, blockSize + 1, blockSize + S!payloadSize)
    <3>1. numbers[i + 1] = i
      BY <1>2, <1>6
    <3>2. wire' = {[checksum |-> crc32c(S!Block), blockNumber |-> numbers[i + 1],
                    blockTotal |-> Len(onAir), packetNumber |-> j,
                    packetTotal |-> S!nbThrotChunks, payload |-> payload]}
      BY <2>2 DEF S!SendPacket, S!crc32c, crc32c
    <3>3. wire' = {[checksum |-> crc32c(onAir[i + 1]), blockNumber |-> i,
                    blockTotal |-> Len(onAir), packetNumber |-> j,
                    packetTotal |-> NbThrotChunks(onAir[i + 1]), payload |-> payload]}
      BY <1>2, <3>1, <3>2
    <3> HIDE DEF payload
    <3>4. payload = Chunk(onAir[i + 1], j)
      BY <1>2, <1>5 DEF payload
    <3> QED  BY <1>1, <1>2, <1>3, <3>3, <3>4, NextPacketSent
  <2>3. CASE S!MissPacket
    BY <2>1, <2>3 DEF S!MissPacket
  <2> QED  BY <2>2, <2>3
<1> QED  BY <1>1, <1>3, <1>5, <1>6

\* The block is done or skipped: the next one begins with nothing sent.
LEMMA TurnStep ==
    ASSUME LoopInv, Sending, S!EndBlock \/ S!SkipBlock
    PROVE  /\ UNCHANGED <<onAir, numbers>> /\ wire' = {} /\ j' = 0 /\ blockSize' = 0
           /\ i' \in 0 .. Len(onAir) - 1 /\ k' \in 1 .. BLOCK_SEND_REPEAT
<1>1. /\ onAir \in Seq(Seq(Nat)) /\ Len(onAir) \in Nat \ {0} /\ i \in 0 .. Len(onAir) - 1
      /\ S!Block \in Seq(Nat) /\ j \in 0 .. NbThrotChunks(S!Block)
      /\ blockSize = SentBefore(S!Block, j)
      /\ ~ BlockIsSent(S!Block) => j = 0
      /\ k \in 1 .. BLOCK_SEND_REPEAT
  BY AtBlock DEF LoopInv, Loop
<1>2. UNCHANGED <<onAir, numbers>> /\ wire' = {} /\ S!NextTurn
  BY DEF S!EndBlock, S!SkipBlock
<1>3. j' = 0 /\ blockSize' = 0
  <2>1. CASE S!EndBlock
    BY <2>1 DEF S!EndBlock
  <2>2. CASE S!SkipBlock
    <3>1. ~ BlockIsSent(S!Block) /\ j' = j /\ blockSize' = blockSize
      BY <2>2 DEF S!SkipBlock, S!BlockIsSent, BlockIsSent, S!NbThrotChunks, NbThrotChunks
    <3> QED  BY <1>1, <3>1, SentBounds
  <2> QED  BY <2>1, <2>2
<1>4. i' \in 0 .. Len(onAir) - 1
  <2>1. i' = i \/ i' = (i + 1) % Len(onAir)
    BY <1>2 DEF S!NextTurn
  <2> QED  BY <1>1, <2>1
<1>5. k' \in 1 .. BLOCK_SEND_REPEAT
  BY <1>1, <1>2, RepeatAssumption DEF S!NextTurn
<1> QED  BY <1>2, <1>3, <1>4, <1>5

\* A turn of runServer keeps the invariant.
LEMMA SendStep ==
    ASSUME Inv, Send
    PROVE  Inv'
<1>1. Sending /\ S!Next /\ UNCHANGED prepareVars /\ PrepareInv /\ LoopInv
  BY InvParts DEF Send
<1>2. PrepareInv'
  BY <1>1, PrepareKept
<1>3. pc' = "off" /\ input' = input /\ size' = size /\ unnoticed' = unnoticed
  BY <1>1 DEF LoopInv, Loop, prepareVars, history
<1>4. UNCHANGED <<onAir, numbers>>
  BY <1>1, PacketStep, TurnStep DEF S!Next
<1>5. /\ i' \in 0 .. Len(onAir) - 1 /\ k' \in 1 .. BLOCK_SEND_REPEAT
      /\ j' \in 0 .. S!nbThrotChunks' /\ blockSize' = SentBefore(S!Block', j')
      /\ ~ BlockIsSent(S!Block') => j' = 0
      /\ numbers = [n \in 1 .. Len(onAir) |-> n - 1] => wire' \subseteq PacketsOf(onAir)
  <2>1. CASE S!SendPacket \/ S!MissPacket
    <3>1. /\ UNCHANGED <<onAir, numbers, i, k>> /\ j' \in 0 .. S!nbThrotChunks
          /\ BlockIsSent(S!Block) /\ blockSize' = SentBefore(S!Block, j')
          /\ numbers = [n \in 1 .. Len(onAir) |-> n - 1] => wire' \subseteq PacketsOf(onAir)
      BY <1>1, <2>1, PacketStep
    <3>2. S!Block' = S!Block /\ S!nbThrotChunks' = S!nbThrotChunks
      BY <3>1, ServerChunks DEF S!Block
    <3> QED  BY <1>1, <3>1, <3>2 DEF LoopInv, Loop
  <2>2. CASE S!EndBlock \/ S!SkipBlock
    <3>1. /\ UNCHANGED <<onAir, numbers>> /\ wire' = {} /\ j' = 0 /\ blockSize' = 0
          /\ i' \in 0 .. Len(onAir) - 1 /\ k' \in 1 .. BLOCK_SEND_REPEAT
      BY <1>1, <2>2, TurnStep
    <3>2. S!Block' = onAir[i' + 1]
      BY <3>1 DEF S!Block
    <3>3. S!Block' \in Seq(Nat)
      BY <1>1, <3>1, <3>2, AtBlock, ElementOfSeq
    <3>4. SentBefore(S!Block', 0) = 0 /\ NbThrotChunks(S!Block') \in Nat \ {0}
      BY <3>3, ChunkTotal, SentBounds
    <3> QED  BY <3>1, <3>4, ServerChunks
  <2> QED  BY <1>1, <2>1, <2>2 DEF S!Next
<1>6. Sending'
  BY <1>1, <1>4 DEF Sending
<1>7. LoopTypes'
  BY <1>1, <1>4 DEF LoopInv, LoopTypes
<1>8. Loop'
  BY <1>3, <1>4, <1>5, <1>6 DEF Loop
<1>9. PublicationComplete'
  BY <1>1, <1>3, <1>4, <1>6 DEF LoopInv, PublicationComplete
<1> QED  BY <1>2, <1>7, <1>8, <1>9, InvPartsAfter DEF LoopInv

\* Stopping the transmitter keeps it.
LEMMA StopStep ==
    ASSUME Inv, Stop
    PROVE  Inv'
<1>1. /\ onAir' = <<>> /\ numbers' = <<>>
      /\ i' = 0 /\ k' = 1 /\ j' = 0 /\ blockSize' = 0 /\ wire' = {}
      /\ UNCHANGED prepareVars
  BY DEF Stop
<1>2. PrepareInv'
  BY <1>1, InvParts, PrepareKept
<1>3. ~ Sending' /\ onAir' \in Seq(Seq(Nat)) /\ Len(onAir') = 0
  BY <1>1, EmptySeq DEF Sending
<1>4. numbers' \in [1 .. Len(onAir') -> BlockNumbers]
  BY <1>1, <1>3
<1>5. LoopTypes' /\ Loop' /\ PublicationComplete'
  BY <1>1, <1>3, <1>4 DEF LoopTypes, Loop, PublicationComplete
<1> QED  BY <1>2, <1>5, InvPartsAfter DEF LoopInv

\* Every step keeps it.
LEMMA NextInv ==
    ASSUME Inv, [Next]_vars
    PROVE  Inv'
<1>1. CASE ((~ Sending /\ Begin) \/ Work \/ Kill) /\ UNCHANGED loop
  BY <1>1, PrepareStep
<1>2. CASE Load
  BY <1>2, LoadStep
<1>3. CASE Send
  BY <1>3, SendStep
<1>4. CASE Stop
  BY <1>4, StopStep
<1>5. CASE UNCHANGED vars
  <2>1. UNCHANGED prepareVars /\ UNCHANGED loop
    BY <1>5 DEF vars
  <2>2. PrepareInv'
    BY <2>1, InvParts, PrepareKept
  <2>3. /\ onAir' = onAir /\ numbers' = numbers /\ i' = i /\ k' = k /\ j' = j
        /\ blockSize' = blockSize /\ wire' = wire
        /\ pc' = pc /\ input' = input /\ size' = size /\ unnoticed' = unnoticed
    BY <2>1 DEF loop, prepareVars, history
  <2>4. Sending' = Sending /\ S!Block' = S!Block /\ S!nbThrotChunks' = S!nbThrotChunks
    BY <2>3, ServerChunks DEF Sending, S!Block
  <2>5. LoopTypes' /\ PublicationComplete'
    BY <2>3, <2>4, InvParts DEF LoopInv, LoopTypes, PublicationComplete
  <2>6. Loop'
    BY <2>3, <2>4, InvParts DEF LoopInv, Loop
  <2> QED  BY <2>2, <2>5, <2>6, InvPartsAfter DEF LoopInv
<1> QED  BY <1>1, <1>2, <1>3, <1>4, <1>5 DEF Next

\* It always holds.
LEMMA SpecInv == Spec => []Inv
<1> QED  BY InitInv, NextInv, PTL DEF Spec

-----------------------------------------------------------------------------
(***************************************************************************)
(* Every variable has its type, for every input, block size and limit: in  *)
(* particular the number of the next block stays in the table splitFile    *)
(* allocated for the number of blocks it counted, which has only 16 bits.  *)
(***************************************************************************)
THEOREM TypeCorrect == Spec => []TypeOK
<1>1. Inv => TypeOK
  BY DEF Inv
<1> QED  BY <1>1, SpecInv, PTL

(***************************************************************************)
(* What transmitFile loads is the whole input that was prepared last, cut  *)
(* as it was asked to be, whatever was killed or failed before: unless an  *)
(* error went unnoticed.                                                   *)
(***************************************************************************)
THEOREM LoadsOneInput == Spec => []PublicationComplete
<1>1. Inv => PublicationComplete
  BY DEF Inv
<1> QED  BY <1>1, SpecInv, PTL

\* Every datagram of the loop is a packet of the file that was prepared.
LEMMA WirePackets ==
    ASSUME Inv
    PROVE  WireCarriesInput
BY DEF Inv, Loop, PublicationComplete, WireCarriesInput

(***************************************************************************)
(* Unless an error went unnoticed, every datagram of runServer is a packet *)
(* of the input prepared last, with its own offset and its own length.     *)
(***************************************************************************)
THEOREM WireIsInput == Spec => []WireCarriesInput
BY WirePackets, SpecInv, PTL

(***************************************************************************)
(* readPacket accepts each of them, but for the empty ones: the limits of  *)
(* the two programs fit for every value of the constants that              *)
(* MaximaAssumption allows.                                                *)
(***************************************************************************)
LEMMA PacketAccepted ==
    ASSUME NEW file \in Seq(Seq(Nat)), Len(file) <= MAX_BLOCK_NUMBER + 1,
           NEW p \in PacketsOf(file), p.payload # <<>>
    PROVE  readPacket(p)
<1>1. PICK b \in {n \in 0 .. Len(file) - 1 : BlockIsSent(file[n + 1])} :
         p \in {Packet(file, b, m) : m \in 0 .. NbThrotChunks(file[b + 1]) - 1}
  BY Zenon DEF PacketsOf
<1>2. PICK m \in 0 .. NbThrotChunks(file[b + 1]) - 1 : p = Packet(file, b, m)
  BY <1>1
<1> DEFINE block == file[b + 1]
<1>3. b \in 0 .. Len(file) - 1 /\ Len(file) \in Nat /\ block \in Seq(Nat)
  <2>1. b \in 0 .. Len(file) - 1 /\ Len(file) \in Nat
    BY <1>1, LenProperties
  <2> QED  BY <2>1, ElementOfSeq
<1>4. NbThrotChunks(block) \in Nat \ {0} /\ NbThrotChunks(block) <= MAX_PACKET_NUMBER
  BY <1>1, <1>3, ChunkTotal DEF BlockIsSent
<1> HIDE DEF block
<1>5. m \in 0 .. NbThrotChunks(block) - 1
  BY <1>2 DEF block
<1>6. /\ p.blockTotal = Len(file) /\ p.blockNumber = b /\ p.packetNumber = m
      /\ p.packetTotal = NbThrotChunks(block) /\ p.payload = Chunk(block, m)
  BY <1>2 DEF Packet, block
<1>7. p.payload \in Seq(Nat) /\ Len(p.payload) \in 0 .. ThrotData
  BY <1>3, <1>5, <1>6, ChunkSize
<1>8. Len(p.payload) # 0
  BY <1>7, EmptySeq
<1> QED
  BY <1>3, <1>4, <1>5, <1>6, <1>7, <1>8, MaximaAssumption, ThrotDataAssumption
     DEF readPacket, SizeofPacketSize

\* A datagram with a payload passes every check of readPacket.
LEMMA WireAccepted ==
    ASSUME Inv
    PROVE  ReceiversAccept
<1> SUFFICES ASSUME ~ unnoticed, NEW p \in wire, p.payload # <<>>
             PROVE  readPacket(p)
  BY DEF ReceiversAccept
<1>1. Sending
  BY DEF Inv, Loop
<1>2. /\ numbers = [n \in 1 .. Len(onAir) |-> n - 1] /\ wire \subseteq PacketsOf(onAir)
      /\ onAir \in Seq(Seq(Nat)) /\ numbers \in [1 .. Len(onAir) -> BlockNumbers]
  BY <1>1 DEF Inv, TypeOK, Loop, PublicationComplete
<1>3. Len(onAir) \in Nat \ {0}
  BY <1>1, <1>2, EmptySeq, LenProperties DEF Sending
<1>4. numbers[Len(onAir)] = Len(onAir) - 1 /\ numbers[Len(onAir)] \in BlockNumbers
  <2>1. Len(onAir) \in 1 .. Len(onAir)
    BY <1>3
  <2>2. \A n \in 1 .. Len(onAir) : numbers[n] = n - 1
    BY <1>2
  <2>3. \A n \in 1 .. Len(onAir) : numbers[n] \in BlockNumbers
    BY <1>2
  <2> QED  BY <2>1, <2>2, <2>3
<1>5. Len(onAir) <= MAX_BLOCK_NUMBER + 1
  BY <1>3, <1>4, MaximaAssumption DEF BlockNumbers
<1> QED  BY <1>2, <1>5, PacketAccepted

\* readPacket accepts every datagram the transmitter sends, but for empty ones.
THEOREM LimitsAgree == Spec => []ReceiversAccept
BY WireAccepted, SpecInv, PTL

(***************************************************************************)
(* One pass of the packet loop stays in the block and ends with exactly    *)
(* its bytes sent, for every block and every packet size.                  *)
(***************************************************************************)
LEMMA PassCovers ==
    ASSUME Inv
    PROVE  PassCoversBlock
<1> SUFFICES ASSUME Sending
             PROVE  /\ blockSize <= Len(S!Block)
                    /\ j = S!nbThrotChunks => blockSize = Len(S!Block)
  BY DEF PassCoversBlock
<1>1. LoopInv /\ blockSize = SentBefore(S!Block, j)
  BY InvParts DEF LoopInv, Loop
<1>2. S!Block \in Seq(Nat) /\ j \in 0 .. NbThrotChunks(S!Block)
  BY <1>1, AtBlock
<1>3. Len(S!Block) \in Nat
  BY <1>2, LenProperties
<1> QED  BY <1>1, <1>2, <1>3, SentBounds, ServerChunks

\* One pass of the packet loop sends the bytes of the block, no more and no less.
THEOREM PassIsWholeBlock == Spec => []PassCoversBlock
BY PassCovers, SpecInv, PTL
=============================================================================

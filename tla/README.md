# multicast-file-distribution: TLA+ models, checks and proofs

One program, run in one of three modes, distributes a file over IP multicast:

* *prepare* cuts the file into numbered block files and writes an index file;
* *transmit* loads a prepared directory and sends every block, cut into packets,
  in an endless loop (each block `BLOCK_SEND_REPEAT` = 2 times in a row);
* *receive* collects packets in any order, one block at a time, writes every
  complete block to disk, and in the end puts the file together.

There is no return channel: a receiver that missed a packet waits until the
transmitter comes round to that block again.

## Inventory

| component (source) | state | operations | what is hard about it | what makes it correct |
|---|---|---|---|---|
| packet map (`blockpacketmap.c`) | a bit per packet of a block in 32-bit words | `initMap setMap clearMap toggleMap getMap isMapFull closeMap` | the partly used last word; a shift by the full width | behaves as a set of packet numbers; "full" means all packets |
| packet format (`client.c` `readPacket`, `types.h`) | none | the coherency checks on a datagram | limits that must agree with those of the other side | accepts what the transmitter sends |
| checksum (`crc32.c`) | two tables, filled on the first call | `crc32a crc32b crc32c crc32cx reverse` | one function by bit and by table, from both ends of the word, by byte and by little-endian word | all compute the same function, and tell blocks apart that differ in a few bytes |
| transmitter (`server.c` `runServer`) | block `i`, repetition `k`, packet `j`, bytes sent `blockSize` | send, miss, end a block, skip a block | nested loop counters reset in different places; empty last packet | what is sent are packets of the file; every block comes again |
| loading (`transmitfile.c`) | the blocks in memory | read index and block files, verify, or exit | a directory that a killed or failed preparation left | one whole file or nothing |
| receiver (`receivefile.c`) | block in memory, its map, index table, counters, output directory | a packet; switch of blocks; completion; index; output; exit | order of packets, blocks taken up again from disk, kills at any point, a disk that refuses writes or removals | see below |
| files (`parsefile.c`) | index, block, map and output files | create, read, generate | torn files, results nobody looks at, an unclosed stream | reads what was written, or says it could not |
| preparation (`splitfile.c`) | block files, index file | `splitFile`, `resetOuputDir` | interrupted removal, 16-bit counters, short reads, results nobody looks at | an index that can be loaded stands for the input |
| command line, build files (`main.c`, `macros.h`, `Makefile`, `nbproject`) | none | parsing | nothing | not modelled |

Interactions: `main` calls `splitFile`, `transmitFile` or `receiveFile`, each to
its end. `transmitFile` calls `runServer`; `receiveFile` calls `readPacket`, the
packet map, `crc32c`, the file functions and `resetOuputDir`. Transmitter and
receivers share nothing but UDP datagrams. The processes are single-threaded:
what interleaves is the transmitter, the network and a receiver, and a receiver
with its own past, through the files an earlier session left.

The hazards, each at its line, with the property that covers it, are in
`PROJECT.json`.

## Modules

| module | models |
|---|---|
| `BlockPacketMap` | `blockpacketmap.c` as operators on `[packetTotal, items]`; an item is the set of its bits that are 1 |
| `BlockPacketMapSpec` | one map under any sequence of calls, one action per function |
| `PacketSet` | what the map promises: a set of packet numbers |
| `BlockPacketMapLemmas` | what each function of the map does to the set of packets it holds, proved |
| `BlockPacketMapProofs` | the proofs about the map under any sequence of calls |
| `DataPacket` | a publication (the prepared file on the air), the packets it is cut into, `readPacket` |
| `DataPacketLemmas` | what the packets of a publication look like, proved |
| `Crc32` | the four functions of `crc32.c` in lockstep, bit by bit |
| `Crc32Proofs` | the proofs about them |
| `Files` | a file of an output directory: what writes, refused writes and kills leave of it |
| `Prepare` | `splitFile` and the directory, over any number of preparations |
| `Server` | `runServer`, one action per way through its loop body; an instance of it is in `Transmitter` and one in `System` |
| `Transmitter` | `Prepare`, loading (`transmitFile`) and `Server` on one directory, and their properties |
| `TransmitterProofs` | the proofs about the sending side |
| `Receiver` | `receiveFile` with the file functions it calls and the output directory |
| `ReceiverSafety` | the properties of `Receiver` |
| `ReceiverProofs` | what is proved of `Receiver` with any publications, also changing under way |
| `Reception` | what a receiver promises, without packets, files or switches |
| `ReceptionProofs` | what is proved of `Receiver` with one publication on the air: blocks can be resumed, duplicates are held, `Reception` is implemented |
| `System` | `Server`, the network, the socket, and `Receiver` killed and started again |
| `SystemProofs` | the proofs about the whole system |
| `MC*` | constants for TLC |

### How the sending side corresponds to the code

`Prepare` follows `splitFile` through `reset` -> `open` -> `split` -> `index`, one
action per file touched, with `Kill` and every early exit between them: a missing or
empty input (found only after the directory has been reset), a number of blocks
truncated to the 16 bits of a `tBlockNumber` (the check after it can find nothing;
the bound in the loop does, with blocks already written), a read that comes short and
ends the loop like the end of the file, a block file that is not written and that
nobody asks about, and index items that are uninitialised memory because their blocks
were never made. A block or index file that cannot be removed ends the reset. Files of any kind are prepared one after the other in one directory,
so that each preparation meets what the earlier ones left.

`Transmitter` adds `transmitFile` (`Load`: every block the index lists, read and
verified, or exit) and the loop of `Server` on what was loaded, until `Stop`. `input`,
`size` and `unnoticed` are history variables: what the latest preparation was asked to
do, and whether an error was passed over on the way (`splitfile.c:166` and `:197`). The
properties say that nothing else can go wrong unseen: what can be loaded is the last
input, whole and in order (`PublicationComplete`), and what is sent of it are its packets
(`WireCarriesInput`). As `README.txt` has it, one program at a time runs on a directory.

`Crc32` feeds all four functions the same message byte by byte and `crc32c` a second
one. A word is the set of its 1 bits, so `^`, `<<` and `>>` are set operations; tables
and inner loops are recursive functions. `crc32a`, `crc32b` and `crc32cx` take a 0 byte
for the end of the message and `crc32cx` whole words, so they are compared on the
messages they are made for.

### How the receiver corresponds to the code

`pc` says where `receiveFile` is. A packet goes through
`receive` -> (`save` -> `savemap` -> `restore` when it belongs to the next block)
-> `accept` -> `store` -> (`check` -> `write` when the map is full), and back to
`receive`; after the last block come `index`, `generate`, `erase` and `exit`.
The actions are cut where the code changes something on disk, so that `Crash`,
which may come anywhere, finds every state of the directory that a kill can
leave. A kill during a write leaves the file as it was (before `fopen`) or `Torn`
(emptied by `fopen "wb+"`, not yet flushed by `fclose`); every block, map or index
file fits in what a torn file stands for because a reader finds it short. The output file is different: it is
written block by block into a stream that is never closed, so it is `Torn` from
`generateDataFile` until the program exits, or until a kill that comes after
the C library happened to flush everything.

`dataBlock.payload = <<>>` stands for `_pPayload == NULL`,
`indexTable.nbItems = 0` for `_pItems == NULL`. `pc = "undefined"` is the point
from which the code uses freed memory, or reads or writes past the payload of a block;
nothing is claimed from there on except that a kill ends it.

The environment is as weak as UDP: the next packet read is any packet of the
publication on the air, any number of times, in any order. `System` shows that
this is what a receiver beside a real transmitter sees (`ImplementsReceiver`).
`Republish` replaces the publication between sessions, and with `RepublishLive`
also under a running receiver. `WritesMayFail` lets the disk refuse any write
of a block, map or index file, `RemovesMayFail` any removal.

A removal that fails in `resetOuputDir` ends the program. One that fails in
`restoreBlockFromMapFile` (`receivefile.c:67-73`, `RemoveMapFile`) is only reported: the
map file stays, beside a block that is in memory, completed later, or saved again without
a map. This goes far. The stale map brings a completed block back at
`receivefile.c:173`; the next switch writes its file again, and a refused write tears it.
A restart may find the block file cut behind its last packet beside a map without that
packet: the next last packet shortens `payloadSize` again, and so on until it wraps
(`AdjustedSize` wraps at `SIZE_MAX`), after which the overflow check lets any packet past
the payload (`StorePacket`) and the checksum and the next switch read past it
(`CheckPastPayload`, `SaveBlock`). All of it is in the model. The properties that hold all
the same are `TypeOK`, `CountMatchesIndex` and `CountedBlocksVerified`; on a disk that
refuses no write also `CompletedBlockIntact`, `OutputFaithful` and `IndexDescribesBlocks`.
With `RemovesMayFail` set in `MCReceiver.cfg`, TLC finds violations of `MapHasStoredBlock`,
`CopyStaysInBuffer`, `DefinedBehaviour`, `DuplicatesAreHeld` and `EveryBlockResumable`:
they are claimed, and proved, of a disk that removes what it is asked to.

Two more faults have a constant. With `CallocMayFail` the two allocations of a new
block may fail: without a payload the packet is dropped (with whatever map an attempt to
restore the block left), and a failure of `initMap` nobody looks at: the block then
has a payload and a closed map, of which `isMapFull` is true, and goes with its
first packet, past nothing but the checksum. With `MapOutgrowsBuffer` a map file is
longer than the buffer of its stream, so that a torn one may have its header:
`readMapFile` then fails with the header filled in and words allocated that it has
not read (`UnreadMaps`: any words), and `receiveFile`, without a block, asks this map
which packets it holds. `DuplicatesAreHeld` says that this is the only way in which a
packet is dropped for a duplicate that is not one. Once it happens it may last: as
long as no block begins, every packet may be taken for a duplicate, and with
`MapOutgrowsBuffer` a receiver killed inside the write of a map and started again
need not ever end. A map longer than a buffer of 4096 bytes is one of more than
some 32000 packets, a block of over 280 MB.

### Abstractions

* Outside `Crc32` the checksum is injective: no two blocks share one. Everything
  that rests on a checksum is claimed up to collisions of a 32-bit CRC;
  `NearBlocksToldApart` is what the CRC itself guarantees.
* A byte is a number; sizes are scaled down (below). Integers do not wrap
  except those that do in some run of the code: the number of blocks of a preparation, and
  `payloadSize` below zero, at `SIZE_MAX`.
* `1 << 32` in `isMapFull` is undefined in C. `WideShift` is the set of values
  the build may produce: 0 (ARM), 1 (x86), or both.
* A datagram that the transmitter cannot allocate, one that cannot be sent and one lost on
  the way are the same to a receiver. When the receiver cannot allocate one
  (`client.c:93`) it has only peeked at it and reads it again: no step.
* The offsets in the index of a preparation are left out: nothing reads them.
* Other failing allocations, file names, the clock of the throttle and log output
  are left out.

## Runs

`NbBitsItem` = 2 or 3 bits for 32, `ThrotData` = 2 bytes for 8734, blocks of
one to four packets, `MAX_BLOCK_NUMBER` = 2 or 3 for 65534. With words of two bits a
block of three bytes is two packets in one word, a block of five bytes three packets in
two words with the second one half used: the shapes the code tells apart (whole and
partly used last word, full and short last packet) all occur.
The receiver's runs have three blocks, so that a block has a next one and one that is
not next. In `system` a receivable file has two equal blocks, or one in two words, and
the socket holds two datagrams: enough for a datagram to be overtaken, doubled and
dropped for want of room. Beside them are files of every kind that is not receivable.
Two sessions on a directory are enough for every interaction with what an
earlier session left, since a session only ever reads the state of the directory.
`receiver_live` has one session of two blocks: a refused removal or write and two
publications within it bring up the stale maps, the mixtures and the wrapped size, and 5.7
million states; what a further session finds when removals failed in the one before is
covered by the theorems alone. `SIZE_MAX` is 10 or 15, above every size a block has.
The preparations of `transmitter` are not bounded at all: the directory and what is in
memory have finitely many states. Its inputs are empty, seven bytes and nine, in
blocks of 1 (refused), 2, 3 and 7 bytes: a short last block or none, too many blocks,
blocks too large to be sent, a block of a whole number of packets. The messages of
`crc` have up to five bytes, a word and the beginning of the next, of three values.

| run | shows |
|---|---|
| `packetmap` | any sequence of calls on maps of 1, 2, 4, 5 and 7 packets in words of 3 bits, both outcomes of the wide shift: the map is a set of packets (`ImplementsPacketSet`) |
| `packetmap_multiple` | violation: with 3 or 6 packets and the x86 shift, a map is full although packets are missing |
| `crc` | the four checksum functions agree on all these messages (`FormsAgree`), and two blocks that differ within four bytes in a row have different checksums (`NearBlocksToldApart`) |
| `transmitter` | any sequence of preparations, killed, failing or refused a write or a removal anywhere, and transmissions between them: `PublicationComplete`, `WireCarriesInput`, `ReceiversAccept`, `PassCoversBlock`, and `EveryBlockComesAgain` |
| `receiver` | three blocks, two sessions, a kill anywhere, failing allocations, maps torn after their header, a disk that refuses nothing: all the safety properties, `DuplicatesAreHeld`, and `ImplementsReception` |
| `receiver_live` | two publications that share their first packet and replace each other at any moment, a disk that may refuse every write and every removal, a kill anywhere: the blocks are counted right (`CountMatchesIndex`), and what is counted is a whole block of one published file (`CountedBlocksVerified`) |
| `receiver_stale` | violation: two sessions with different publications deliver a mixture |
| `receiver_freed` | violation: a refused write ends in the use of freed memory |
| `receiver_reset` | violation: a kill inside `resetOuputDir` makes every later reset fail |
| `receiver_lost` | violation: a kill after the blocks were removed and before the output was flushed loses a received file |
| `system` | a file of every kind, the real order of the transmitter, a socket of two datagrams, loss, duplication, reordering, and a receiver killed once at any point of the reception: the file arrives if its sizes allow it (`ReceivableFileArrives`), no output appears if they do not (`UnreceivableNeverArrives`), a finished one is the file on the air (`ResultIsInput`), and the receiver sees only what `Receiver` assumes (`ImplementsReceiver`) |
| `system_short` | violation: a publication with a block that fits in one packet never arrives |

`CHECK_DEADLOCK FALSE` stands only in the receiver's configurations, where
`MaxSessions` stops the program, and in `crc`, where messages end; transmitter and
system are checked for deadlock.

## Fairness

`Transmitter!FairSpec` and `System!SystemSpec` assume that the transmitter's loop and
the receiver process go on (weak fairness of each process: nothing in the code
blocks for ever while there is a datagram to read). Of the operator it is assumed that
a receiver that was killed is started again, up to `MaxSessions` (`Start` is a step of
`Work`), nothing else: `EveryBlockComesAgain` is claimed only of a transmission nobody
stops, and `ReceivableFileArrives` of a receiver that is killed at most `MaxSessions` - 1
times.

For the network, fairness of each packet is not enough: the receiver keeps one block at a time and drops
packets of blocks that are neither this one nor the next, so packets that all
arrive infinitely often may still always arrive at the wrong moment. The
assumption is strong fairness of good rounds: of infinitely many rounds over all
blocks, infinitely many are ones in which every datagram arrives once and is
read in time: in such a round the next datagram waits for room in the socket, so that an
overflow only happens in bad rounds. Independent losses amount to that. What a bad round did
before (a packet of another block still in the socket, a half-received block in
memory) is arbitrary, and the run shows that the receiver recovers. The second
transmission of each block matters here: with `BLOCK_SEND_REPEAT` = 1 a packet
delayed into a good round can make the receiver miss the block that follows,
and `ReceivableFileArrives` does not hold.

## Proofs

What the runs check on small instances, these theorems establish for every value
of the constants; the assumptions are the named `ASSUME`s of the modules
(`NbBitsItem` and `ThrotData` positive, a packet payload that fits
`MAX_PACKET_SIZE`, publications of nonempty blocks, a `SIZE_MAX` that no block exceeds)
and what a theorem states.
Every safety property of a passing run, and all three refinements, are proved.

**The packet map** (`BlockPacketMapProofs`). `PacketMapTypeCorrect` and
`PacketMapIsSet`: for every word width and packet total for which C defines the
shift in `isMapFull`, the bit map implements `PacketSet`, and "full" is the answer
exactly when no packet is missing. The argument goes by position: packet `n` is
bit `n % NbBitsItem` of word `n \div NbBitsItem`, so setting one changes no other
(`SetMapAdds` and its like), and all words but the last full plus the masked bits
of the last is all packets. The assumption is where finding 1 comes in.

**The checksum** (`Crc32Proofs`), for messages of any length and any bytes.
`ImplementationsAgree` (`FormsAgree`): one shift of the word is a linear map; the inner
loops are eight of them, unrolled; linearity makes the table of `crc32c` one look-up
for eight shifts, and four tables of `crc32cx` four turns; `crc32a` is `crc32b` in the
mirror (`TurnAMirrored`). The invariant (`InStep`) says what each function holds in the
middle of a word, `crc32cx` being up to three bytes behind. `NearDifferencesSeen`
(`NearBlocksToldApart`): by linearity the difference of two words after a turn depends
on their difference before it only; while all differing bytes are among the last four
read, it is what so many turns make of 8 to 32 differing bits, which is not nothing
because a shift loses nothing (`ShiftInjective`), and it stays so.

**The sending side** (`TransmitterProofs`), for every input, block size and limit, any
sequence of preparations, kills and failures:

| theorem | property |
|---|---|
| `TypeCorrect` | `TypeOK` |
| `LoadsOneInput` | `PublicationComplete` |
| `WireIsInput` | `WireCarriesInput` |
| `LimitsAgree` | `ReceiversAccept` |
| `PassIsWholeBlock` | `PassCoversBlock` |

The invariant ties the directory to what `splitFile` is doing (`Locals`, `OneInput`):
while blocks are made there is no whole index, the blocks below `blockNumber` are those
of the input or could not be written, and an index that can be read lists as many blocks
as the input has, which means that the 16-bit count was not truncated. `Loop` says that
`blockSize` is the size of the packets before `j`; packets that are missed count too.

**The receiver** (`ReceiverProofs`), for any publications, packet and word sizes,
number of sessions, with kills at every point, refused allocations, torn maps, and a
publication that is replaced under way. What the disk may refuse differs:

| theorem | property | assumes |
|---|---|---|
| `ReceiverTypeCorrect` | `TypeOK` | |
| `CountIsExact` | `CountMatchesIndex` | |
| `CountedAreVerified` | `CountedBlocksVerified` | |
| `CopyInBuffer` | `CopyStaysInBuffer` | `RemovesMayFail` is `FALSE` |
| `MapsHaveBlocks` | `MapHasStoredBlock` | `RemovesMayFail` is `FALSE` |
| `CompletedStaysFrozen` | `CompletedFrozen` | `RemovesMayFail` is `FALSE` |
| `CompletedIsIntact` | `CompletedBlockIntact` | `WritesMayFail` is `FALSE` |
| `IndexDescribes` | `IndexDescribesBlocks` | `WritesMayFail` is `FALSE` |
| `OutputIsFaithful` | `OutputFaithful` | one publication, `WritesMayFail` is `FALSE` |
| `BehaviourDefined` | `DefinedBehaviour` | both are `FALSE` |

None of them is inductive alone. They are proved from three invariants, each with a lemma
per action. The first, `Base`, holds on any disk:

* `Phases` ties `pc` to what is loaded: a block in memory exactly where one is used, a
  checked packet in hand exactly where one is handled, from `store` to `write` the block
  of that packet, not completed, and no index file while packets are received. Without it
  no action can use what an earlier one tested.
* `BlockKnown` and `FilesKnown`: the checksum of a block, in memory or on disk, is that of
  a published block of its number, and a whole block file has the bytes its header says.
  However stale the map beside it, this is never lost.
* `Verified` carries the checksum from `check` to `write`. With `BlockKnown` it makes
  `CountedBlocksVerified` inductive.
* `MapAtHand`: a block whose map could not be allocated is new, stored with a packet that
  is not its last, full by the closed map, and leaves the memory or is written before
  another packet is read.

If no removal fails, `Inv` adds what ties a block to its map:

* `Coherent`, of the block in memory (`BlockInMemory`) and of every block that waits
  on disk with a map (`BlocksOnDisk`): the payload size is within the payload, and is
  still that of the `calloc` until the last packet is held. This is why a last packet
  can shorten the size only once, and therefore why the copy stays in the buffer
  also in a block that was restored from a file cut at its payload size. `store` may
  run with the last packet only when that packet is not in the map (`LastPacketNew`).
* `HalfSaved` holds between the two writes of a switch: the block file is already the
  block in memory. A kill there leaves a block without a map, which is harmless; the
  other order would not be.
* `MapHasStoredBlock` itself, and `IndexWithoutMaps`: the index lists no block with a
  map, so that `resetOuputDir` removes no block that is to be taken up again.

If no write fails, `WritesInv` adds to `Base` that a completed block that a stale map
brought back to memory is the one on disk (`RestoredAsStored`): every packet for it is
dropped at `receivefile.c:190`, so that the next switch writes the same file
(`FinalFileKept`), and that `generateDataFile` can read every block (`IndexReadable`).
The checksum verified in memory is then that of the file when the output is made.
`IndexDescribes` needs no more of the recursive `Offsets` than its defining equation
(`OffsetsAddUp`). `OutputIsFaithful` follows for a single publication, which excludes
finding 3: the index table has as many blocks as the publication, the index made of it
lists them all, the stream written from them is the file, and only that stream reaches the
output whole (`FaithfulInv`). `BehaviourDefined` needs both invariants: `NeverPastPayload`
and `FitsPayload` come from `Inv`, readable blocks from `WritesInv`.

**The reception** (`ReceptionProofs`), for one publication of any shape:

| theorem | property | assumes besides |
|---|---|---|
| `BlocksResumable` | `EveryBlockResumable` | `RemovesMayFail` is `FALSE` |
| `DuplicatesHeld` | `DuplicatesAreHeld` | `RemovesMayFail` is `FALSE` |
| `ReceptionImplemented` | `ImplementsReception` | `ShiftsDefined`, blocks that can be numbered, `WritesMayFail` and `RemovesMayFail` are `FALSE` |

`EveryBlockResumable` is not inductive: `ResumeInv` adds that the packet in hand is of
the publication, that `accept` is only reached with a block of that packet's number or
none, that a block with a closed map is on its way out of memory with a payload size that
no checksum matches (`Unmapped`), and what map may be left where no block is. The heart of
it is that a packet copied to its place leaves the others in theirs (`CopyPlaces`), that
the file of a block is cut behind every packet it holds (`CutPlaces`), and that a block
with all its packets in place is the block that was sent. Blocks that an
earlier publication left are not covered: finding 3 is about them.

The refinement adds that a full map has all packets (`Complete`, from the packet map's
theorem, hence `ShiftsDefined`: without it the x86 shift finds a map full too early) and
that the stream is filled only after everything was verified (`StreamInFinale`). Then each
action is a step of `Reception` or none: the switch of blocks moves packets between
memory and disk (`HeldRestoreNext`, `HeldBeginBlock`), `StorePacket` gathers one,
`WriteBlock` verifies, and a kill or an exit forgets at most the block in memory
(`CrashEnds`). A disk that refuses writes may lose the block that a switch saves, so
that two blocks are forgotten before the next end of a session: there is no such
theorem without that assumption, nor with stale maps, which take back what was gathered
since. Files have at most `MAX_BLOCK_NUMBER + 1` blocks
because `splitFile` numbers no more.

**The system** (`SystemProofs`), for any set of publications, any socket size:

| theorem | property | assumes |
|---|---|---|
| `ReceiverImplemented` | `ImplementsReceiver` | |
| `UnreceivableStaysAway` | `UnreceivableNeverArrives` | `RemovesMayFail` is `FALSE` |
| `SystemBlocksResumable` | `EveryBlockResumable` | `RemovesMayFail` is `FALSE` |
| `ResultIsTheInput` | `ResultIsInput` | `WritesMayFail` and `RemovesMayFail` are `FALSE` |
| `SystemImplementsReception` | `ImplementsReception` | those of `ReceptionImplemented` |

`OnTheWay` says where the transmitter is and that the socket holds packets of the file on
the air, by which every step of the system is one of `Receiver` or none. That a file beyond
the limits leaves no result, not even one that was begun, rests on `HopelessStuck`: of a
block with an empty last packet, a single packet, too many packets, or one full word of
packets with the x86 shift, the last packet is never held. Then its payload size is still
that of the `calloc`, the checksum over it matches no block, and the count never reaches
the total. For a block that is over with its first packet (`OverAtOnce`) the induction
needs as well that it never stays in memory, nor on disk with a map, until another packet
comes. A file of too many blocks never has an index table. `ResultIsTheInput` uses the
receiver's invariants with the publication on the air in place of the only one: what a
session completes is of that publication (`WrittenIsOnAir`).

**Left to TLC.** Liveness (`EveryBlockComesAgain`, `ReceivableFileArrives`) and everything
that needs `ENABLED` or fairness: it is out of the prover's reach, and with it that a
receivable file does arrive. The violations are runs, not theorems. Nothing is proved of
the recursive functions of `Crc32` and `Receiver` by induction over their argument; the
proofs unroll loops of fixed length, use a defining equation once, or take the least
element of a set of numbers.

## Findings

Each is a run that ends in a violation; `PROJECT.json` has the lines and the
comments they are measured against.

1. `isMapFull` shifts by the full width when the number of packets is a multiple
   of 32 (`packetmap_multiple`).
2. A block smaller than one packet is never received (`system_short`).
3. Block and map files of a killed session are completed in a session for
   another publication (`receiver_stale`).
4. `createBlockFile` may fail unnoticed, and `generateDataFile` then uses freed
   memory (`receiver_freed`).
5. `resetOuputDir`, once interrupted, fails for ever (`receiver_reset`).
6. The blocks are removed before the output is flushed (`receiver_lost`).

Other limits of the code are part of properties that hold, and are exact there:
a block whose size is a multiple of the packet payload ends with an empty packet, which
`readPacket` rejects, and never arrives; neither does a file with a block of too many
packets, which the transmitter skips, nor one of `MAX_BLOCK_NUMBER + 1` blocks, which
the receiver's index table refuses (`ReceiversAccept`, `UnreceivableNeverArrives`, and
`Receivable` in `ReceivableFileArrives`). Errors that `splitFile` passes over are the
exception in `PublicationComplete`; the torn map above is the exception in
`DuplicatesAreHeld`. A map of several full words is in neither `Receivable` nor
`UnreceivableNeverArrives`: with the x86 shift it may get through when its packets come in
a lucky order.

## Not modelled

* `initServer`, `closeServer`, `initClient`, `closeClient`: socket set-up.
  `runClient` and `writePacket` are called by nothing.
* Failing allocations of file names, of index tables being read, and in the read
  functions of `parsefile.c`; that of the receiver's index table is a dropped packet, that
  of a packet no step at all (see Abstractions).
* Datagrams that no transmitter of this program sends: `readPacket` peeks at a datagram
  shorter than a header and never consumes it (`client.c:80`).
* Several receivers: they share the network and nothing else, so each is the receiver of
  `System`.
* File names, which depend on the block number alone.
* Widths beyond those named: the 32-bit offsets of an index, which nothing reads, and the
  `int` length of `crc32c` for blocks of 2 GiB and more.
* `main.c`'s arguments, `macros.h`, build files and generated projects: no state.

## Plan

Done: packet map, checksum, preparation, loading, transmitter, receiver, system; every
safety property of the passing runs and the three refinements are proved. Next:

1. The safety half of liveness, by variants: a number that every turn of `runServer` makes
   smaller until a given block comes up (`EveryBlockComesAgain`), and one that every step
   of `receiveFile` makes smaller until it reads the next packet or exits. With weak
   fairness the rest is one line, but a line the prover cannot check.
2. `DuplicatesAreHeld` and the copy in the buffer stated of the system, whose publication
   is any.
3. `ResultIsTheInput` and `UnreceivableStaysAway` with stale maps: both rest on more of
   `Inv` than they may need.
4. `ReceptionImplemented` without `ShiftsDefined`, for the files whose blocks the x86
   shift treats right.

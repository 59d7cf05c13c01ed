----------------------------- MODULE Transmitter -----------------------------
(***************************************************************************)
(* The sending side: files are prepared in a directory (Prepare), and what *)
(* is there is loaded (transmitFile of transmitfile.c) and sent in an      *)
(* endless loop (Server) until the operator stops it.  As README.txt has   *)
(* it, the two programs are run one after the other on a directory.        *)
(***************************************************************************)
EXTENDS Prepare

CONSTANT BLOCK_SEND_REPEAT

ASSUME RepeatAssumption == BLOCK_SEND_REPEAT \in Nat \ {0}

VARIABLES onAir, numbers, i, k, j, blockSize, wire   \* see Server; <<>> is not sending

S == INSTANCE Server

loop == <<onAir, numbers, i, k, j, blockSize, wire>>
vars == <<prepareVars, loop>>

Sending == onAir # <<>>

Init ==
    /\ PrepareInit
    /\ onAir = <<>> /\ numbers = <<>>
    /\ i = 0 /\ k = 1 /\ j = 0 /\ blockSize = 0 /\ wire = {}

-----------------------------------------------------------------------------
\* transmitFile: every block file the index lists, verified, or exit.
Load ==
    /\ pc = "off" /\ ~ Sending /\ IsWhole(indexFile)
    /\ LET table == indexFile.data
           Read(b) == FileAt(table.items[b])
       IN  /\ \A b \in 0 .. table.nbItems - 1 : ReadsVerified(Read(b))
           /\ onAir' = [n \in 1 .. table.nbItems |-> Read(n - 1).data.payload]
           /\ numbers' = [n \in 1 .. table.nbItems |-> Read(n - 1).data.blockNumber]
    /\ UNCHANGED <<i, k, j, blockSize, wire, prepareVars>>

Send == Sending /\ S!Next /\ UNCHANGED prepareVars

\* CTRL + C.
Stop ==
    /\ Sending
    /\ onAir' = <<>> /\ numbers' = <<>>
    /\ i' = 0 /\ k' = 1 /\ j' = 0 /\ blockSize' = 0 /\ wire' = {}
    /\ UNCHANGED prepareVars

Next ==
    \/ ((~ Sending /\ Begin) \/ Work \/ Kill) /\ UNCHANGED loop
    \/ Load \/ Send \/ Stop

Spec == Init /\ [][Next]_vars
\* As long as nobody stops it, the loop goes on: it waits for nothing.
FairSpec == Spec /\ WF_vars(Send)
-----------------------------------------------------------------------------
(***************************************************************************)
(* Every variable has its type; in particular the block number stays in    *)
(* the table splitFile allocated.                                          *)
(***************************************************************************)
TypeOK ==
    /\ pc \in {"off", "reset", "open", "split", "index"}
    /\ nbItems \in 0 .. MAX_BLOCK_NUMBER + 1 /\ blockNumber \in 0 .. nbItems
    /\ cursor \in 0 .. MAX_BLOCK_NUMBER + 1
    /\ DOMAIN blockFile = BlockNumbers
    /\ \A b \in BlockNumbers :
          IsWhole(blockFile[b]) => /\ blockFile[b].data.blockNumber = b
                                   /\ blockFile[b].data.payload \in Seq(Nat) \ {<<>>}
    /\ IsWhole(indexFile) => /\ indexFile.data.nbItems \in 0 .. MAX_BLOCK_NUMBER + 1
                             /\ indexFile.data.items \in
                                   [0 .. indexFile.data.nbItems - 1 -> 0 .. MAX_BLOCK_NUMBER + 1]
    /\ input \in {<<>>} \cup Inputs /\ unnoticed \in BOOLEAN
    /\ onAir \in Seq(Seq(Nat)) /\ numbers \in [1 .. Len(onAir) -> BlockNumbers]

(***************************************************************************)
(* What is loaded is the whole file that was last prepared, cut as it was  *)
(* asked to be, whatever preparations were killed or failed in the         *)
(* directory before it: unless an error went unnoticed, in the read of the *)
(* input (splitfile.c:166) or in a write that left an older block in place *)
(* (splitfile.c:197), an index that can be loaded stands for one input.    *)
(***************************************************************************)
PublicationComplete ==
    Sending /\ ~ unnoticed =>
        /\ onAir = Cut(input, size)
        /\ numbers = [n \in 1 .. Len(onAir) |-> n - 1]

(***************************************************************************)
(* From the input to the network: every datagram is a packet of the file   *)
(* that was prepared, also after packets that could not be sent and blocks *)
(* that are skipped.  The receivers place packet j at j times the packet   *)
(* size (receivefile.c:303).                                               *)
(***************************************************************************)
WireCarriesInput ==
    Sending /\ ~ unnoticed => wire \subseteq PacketsOf(Cut(input, size))

(***************************************************************************)
(* The limits of the two sides agree: readPacket accepts every datagram,   *)
(* but for the empty last one of a block that is a whole number of packets *)
(* (server.c:114).                                                         *)
(***************************************************************************)
ReceiversAccept == ~ unnoticed => \A p \in wire : readPacket(p) \/ p.payload = <<>>

(***************************************************************************)
(* One pass of the packet loop covers the block: it ends with exactly the  *)
(* bytes of the block sent, and never reads past the payload on its way.   *)
(***************************************************************************)
PassCoversBlock ==
    Sending => /\ blockSize <= Len(S!Block)
               /\ j > 0 /\ j = S!nbThrotChunks => blockSize = Len(S!Block)

(***************************************************************************)
(* The loop of runServer is endless: until it is stopped, every block      *)
(* comes up again, BLOCK_SEND_REPEAT times each, so that a receiver that   *)
(* joins late or loses packets gets another chance at each of them.        *)
(***************************************************************************)
EveryBlockComesAgain ==
    \A b \in BlockNumbers, n \in 1 .. BLOCK_SEND_REPEAT :
        []<>(~ Sending \/ (b < Len(onAir) => i = b /\ k = n))
=============================================================================

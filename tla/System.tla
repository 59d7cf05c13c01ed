-------------------------------- MODULE System --------------------------------
(***************************************************************************)
(* The transmitter (Server), the multicast network and one receiver        *)
(* (Receiver) that is started MaxSessions times: it may be killed while it *)
(* receives, and what it has on disk by then is what the next session      *)
(* starts from.                                                            *)
(*                                                                         *)
(* A datagram that arrives waits in the receive buffer of the socket, of   *)
(* SocketSize datagrams; when the buffer is full it is lost.  The network  *)
(* goes through bad and good periods: in a bad one it loses, duplicates    *)
(* and delays datagrams, in a good one each datagram arrives once and the  *)
(* receiver keeps up with the throttled transmitter.  A period lasts for   *)
(* at least one round of the transmitter over all blocks.                  *)
(***************************************************************************)
EXTENDS Receiver

CONSTANTS BLOCK_SEND_REPEAT, SocketSize

ASSUME SystemAssumption ==
    SocketSize \in Nat \ {0} /\ BLOCK_SEND_REPEAT \in Nat \ {0}

VARIABLES i, k, j, blockSize, wire,   \* the transmitter
          good,                       \* whether the network is good
          socket                      \* the datagrams waiting to be read

\* The block files of a publication are numbered in order, see Transmitter.
T == INSTANCE Server WITH numbers <- [n \in 1 .. Len(onAir) |-> n - 1]

transmitter == <<i, k, j, blockSize, wire>>
receiver == <<sessions, pc, memory, disk>>
systemVars == <<vars, transmitter, good, socket>>

SystemInit ==
    /\ Init
    /\ T!Init
    /\ good \in BOOLEAN
    /\ socket = <<>>

\* initClient opens the socket after the reset, closeClient after the last block.
Listening == pc \notin {"off", "reset", "index", "generate", "erase", "exit"}

Room == Len(socket) < SocketSize

\* What the socket may hold once the datagram has been sent.
Arrive(datagram) ==
    IF ~ Listening THEN UNCHANGED socket
    ELSE IF good THEN Room /\ socket' = Append(socket, datagram)
    ELSE \/ UNCHANGED socket
         \/ Room /\ socket' = Append(socket, datagram)
         \/ /\ Len(socket) + 2 <= SocketSize
            /\ socket' = socket \o <<datagram, datagram>>
         \/ Room /\ socket' = <<datagram>> \o socket

\* A packet the transmitter fails to send (T!MissPacket) is as good as lost on
\* the way: nothing but wire, which nobody reads, tells the two apart.
Send ==
    /\ T!SendPacket
    /\ \E datagram \in wire' : Arrive(datagram)
    /\ UNCHANGED <<receiver, good>>

\* With the round over all blocks the period may end.
RoundEnds == i' = 0 /\ k' = 1

Turn ==
    /\ T!EndBlock \/ T!SkipBlock
    /\ IF RoundEnds THEN good' \in BOOLEAN ELSE UNCHANGED good
    /\ UNCHANGED <<receiver, socket>>

\* The receiver takes a datagram from the socket and handles or drops it.
Read ==
    /\ pc = "receive" /\ socket # <<>>
    /\ socket' = Tail(socket)
    /\ LET p == Head(socket)
       IN  IF Accepts(p) THEN ReceivePacket(p) ELSE UNCHANGED vars
    /\ UNCHANGED <<transmitter, good>>

Work == (Start \/ Reset \/ Handle \/ Finish) /\ UNCHANGED <<transmitter, good, socket>>

\* The operator kills the receiver, to start it again later; the socket goes
\* with it.  Once the index file is there a kill is another matter, see Receiver.
Kill ==
    /\ Listening /\ sessions < MaxSessions
    /\ Crash
    /\ socket' = <<>>
    /\ UNCHANGED <<transmitter, good>>

SystemNext == Send \/ Turn \/ Read \/ Work \/ Kill

(***************************************************************************)
(* The loop of the transmitter and the receiver process run on.  The       *)
(* network is not bad for ever: of infinitely many rounds infinitely many  *)
(* are good ones, which is what independent losses amount to.              *)
(***************************************************************************)
SystemSpec ==
    /\ SystemInit /\ [][SystemNext]_systemVars
    /\ WF_systemVars(Send \/ Turn) /\ WF_systemVars(Read) /\ WF_systemVars(Work)
    /\ SF_systemVars(Turn /\ RoundEnds /\ good')

-----------------------------------------------------------------------------
(***************************************************************************)
(* What the program is for: a receiver that is left running ends, and with *)
(* the file that is being transmitted (README.txt:18, "Check result file   *)
(* is the same as the input file").                                        *)
(***************************************************************************)
FileArrives == <>(pc = "off" /\ output = Whole(onAir))

(***************************************************************************)
(* Which files that holds of.  Every block must be sent (server.c:115),    *)
(* begin with a packet that is not its last (receivefile.c:203), end with  *)
(* one that is not empty (server.c:114), and have its map found full when  *)
(* it is (blockpacketmap.c, 1 << NB_BITS_ITEM); and the receiver's limit   *)
(* is one block less than the transmitter's (receivefile.c:22).            *)
(***************************************************************************)
Receivable(file) ==
    /\ Len(file) <= MAX_BLOCK_NUMBER
    /\ \A n \in 1 .. Len(file) :
          /\ BlockIsSent(file[n])
          /\ Len(file[n]) >= ThrotData /\ Len(file[n]) % ThrotData # 0
          /\ NbThrotChunks(file[n]) % NbBitsItem # 0 \/ 1 \notin WideShift

(***************************************************************************)
(* Such a file arrives, through losses, reorderings, switches between      *)
(* unfinished blocks and kills during the reception.                       *)
(***************************************************************************)
ReceivableFileArrives == Receivable(onAir) => FileArrives

(***************************************************************************)
(* And no other does, whatever the network delivers: the limits above are  *)
(* exact, and a receiver that cannot succeed never leaves a result file.   *)
(* (A block of several full words is left out: it may get through when its *)
(* packets come in a lucky order.)                                         *)
(***************************************************************************)
UnreceivableNeverArrives ==
    (\/ Len(onAir) > MAX_BLOCK_NUMBER
     \/ \E n \in 1 .. Len(onAir) :
           \/ ~ BlockIsSent(onAir[n])
           \/ Len(onAir[n]) < ThrotData \/ Len(onAir[n]) % ThrotData = 0
           \/ WideShift = {1} /\ NbThrotChunks(onAir[n]) = NbBitsItem)
    => ~ Exists(output)

(***************************************************************************)
(* The safety half of FileArrives, for any file: a result file that has    *)
(* been finished is the file on the air, block by block and in order       *)
(* (README.txt:18), in whatever order the packets came, from however many  *)
(* sessions the blocks are.                                                *)
(***************************************************************************)
ResultIsInput == IsWhole(output) => output.data = onAir

(***************************************************************************)
(* The receiver's assumption about its environment, that every packet it   *)
(* reads is a packet of the publication on the air, is what the            *)
(* transmitter and the socket guarantee: every step of the receiver in     *)
(* this system is a step of Receiver, so what holds there holds here.      *)
(***************************************************************************)
ImplementsReceiver == Spec
=============================================================================

------------------------------ MODULE Reception ------------------------------
(***************************************************************************)
(* What a receiver promises while one publication is on the air: it        *)
(* gathers the packets of each block, verifies a block once it has all of  *)
(* them, never looks at a verified block again in the session, and         *)
(* delivers the file only after every block has been verified.  What has   *)
(* been gathered for a block is lost only with the end of the session, and *)
(* then for one block at most: the others wait on disk.                    *)
(***************************************************************************)
EXTENDS Integers, Sequences

CONSTANT PacketTotal   \* the number of packets of each block, block 0 at 1

Blocks == 0 .. Len(PacketTotal) - 1

VARIABLES held,       \* the packets of each block that are not to be received again
          verified,   \* the blocks the session is done with
          delivered   \* "no", "begun" or "yes"

vars == <<held, verified, delivered>>

AllPackets(b) == 0 .. PacketTotal[b + 1] - 1

Init ==
    /\ held = [b \in Blocks |-> {}]
    /\ verified = {}
    /\ delivered = "no"

Gather(b) ==
    /\ b \notin verified
    /\ \E j \in AllPackets(b) : held' = [held EXCEPT ![b] = @ \cup {j}]
    /\ UNCHANGED <<verified, delivered>>

Verify(b) ==
    /\ held[b] = AllPackets(b)
    /\ held' = [held EXCEPT ![b] = {}]
    /\ verified' = verified \cup {b}
    /\ UNCHANGED delivered

Deliver ==
    /\ verified = Blocks
    /\ delivered' = "begun"
    /\ UNCHANGED <<held, verified>>

EndSession ==
    /\ \/ UNCHANGED held
       \/ \E b \in Blocks : held' = [held EXCEPT ![b] = {}]
    /\ \/ UNCHANGED delivered
       \/ verified = Blocks /\ delivered' \in {"begun", "yes"}
    /\ verified' = {}

Next ==
    \/ \E b \in Blocks : Gather(b) \/ Verify(b)
    \/ Deliver
    \/ EndSession

Spec == Init /\ [][Next]_vars
=============================================================================

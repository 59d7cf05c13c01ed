------------------------------ MODULE PacketSet ------------------------------
(***************************************************************************)
(* What the packet map promises to the code that uses it: it behaves as a  *)
(* set of packet numbers below a total, and it is full exactly when every  *)
(* packet number below the total is in it.                                 *)
(***************************************************************************)
EXTENDS Integers

CONSTANTS Totals,         \* the packet totals maps are opened with
          PacketNumbers   \* the packet numbers callers pass

VARIABLES total,   \* 0 when the map is closed
          got,     \* the packets marked as received
          ret      \* what the last call answered

vars == <<total, got, ret>>

Answer(b) == IF b THEN "true" ELSE "false"

Init == total = 0 /\ got = {} /\ ret = "void"

Open(n) == total = 0 /\ total' = n /\ got' = {} /\ ret' = "void"

Close == total' = 0 /\ got' = {} /\ ret' = "void"

\* A packet number outside the map changes nothing.
Change(new, p) ==
    /\ got' = IF p < total THEN new ELSE got
    /\ ret' = "void"
    /\ UNCHANGED total

Add(p) == Change(got \cup {p}, p)
Remove(p) == Change(got \ {p}, p)
Flip(p) == Change((got \ {p}) \cup ({p} \ got), p)

Has(p) == ret' = Answer(p \in got) /\ UNCHANGED <<total, got>>

Full == ret' = Answer(got = 0 .. total - 1) /\ UNCHANGED <<total, got>>

Next ==
    \/ \E n \in Totals : Open(n)
    \/ \E p \in PacketNumbers : Add(p) \/ Remove(p) \/ Flip(p) \/ Has(p)
    \/ Full
    \/ Close

Spec == Init /\ [][Next]_vars
=============================================================================

--------------------------- MODULE BucketContract ---------------------------
(***************************************************************************)
(* What the buckets of a group promise to the readers of their snapshots,  *)
(* without epochs, tokens, leases or processes.  The n-th state of a group *)
(* is active when n is even.                                               *)
(***************************************************************************)
EXTENDS Naturals

CONSTANT Buckets

VARIABLES
    open,     \* may the bucket show a snapshot
    shown,    \* version a reader finds, 0 for none
    latest,   \* last version ever shown
    decided   \* the group state that the bucket follows

vars == <<open, shown, latest, decided>>

Active(n) == n % 2 = 0

Init ==
    /\ open = [b \in Buckets |-> TRUE]
    /\ shown = [b \in Buckets |-> 0]
    /\ latest = [b \in Buckets |-> 0]
    /\ decided = [b \in Buckets |-> 0]

\* The bucket follows the group, never back to an earlier state of it.
Decide(b) ==
    /\ decided' = [decided EXCEPT ![b] = decided'[b]]
    /\ decided'[b] >= decided[b]
    /\ open' = [open EXCEPT ![b] = Active(decided'[b])]
    /\ shown' = [shown EXCEPT ![b] = IF Active(decided'[b]) THEN @ ELSE 0]
    /\ latest' = latest

\* An open bucket shows a version above all it has shown before, also above
\* those it showed before it was closed.
Show(b) ==
    /\ open[b]
    /\ latest' = [latest EXCEPT ![b] = latest'[b]]
    /\ latest'[b] > latest[b]
    /\ shown' = [shown EXCEPT ![b] = latest'[b]]
    /\ UNCHANGED <<open, decided>>

Next == \E b \in Buckets : Decide(b) \/ Show(b)

Spec == Init /\ [][Next]_vars

=============================================================================

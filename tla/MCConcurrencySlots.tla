------------------------- MODULE MCConcurrencySlots -------------------------
(***************************************************************************)
(* Small instances of ConcurrencySlots.  The instance is chosen in the     *)
(* initial state: the requests that are made and the abandoned calls that  *)
(* Redis may execute late.                                                 *)
(***************************************************************************)
EXTENDS ConcurrencySlots, TLC

CONSTANTS p1, p2, s1, s2, r1, r2, r3, Instances

\* Two requests, one of which opens a Live session.
LiveSession == [requests |-> {s1, s2}, late |-> 1]
\* Three requests compete for the slot and the place in the queue.
FullQueue == [requests |-> {r1, r2, r3}, late |-> 0]
MCSafety == {LiveSession, FullQueue}
MCLiveness == {LiveSession}

MCSymmetry == Permutations({p1, p2}) \union Permutations({r1, r2, r3})

VARIABLE inst

mcVars == <<vars, inst>>

MCInit == Init /\ inst \in Instances

\* A step of an instance is one of its own requests.
Deployed ==
    /\ \A r \in Requests \ inst.requests : pc'[r] = "idle"
    /\ Cardinality(pending') <= inst.late
    /\ UNCHANGED inst

MCSpec == MCInit /\ [][Next /\ Deployed]_mcVars

\* The fairness of FairSpec, for the requests of the instance.
MCFairSpec ==
    /\ MCSpec
    /\ \A r \in Requests : WF_mcVars(Serve(r) /\ Deployed)
    /\ \A r \in Requests : WF_mcVars((Heartbeat(r) \/ HeartbeatFails(r)) /\ Deployed)
    /\ \A r \in Requests : WF_mcVars(LiveLapse(r) /\ pc[r] = "over" /\ Deployed)
    /\ WF_mcVars(Tick /\ Deployed)
=============================================================================

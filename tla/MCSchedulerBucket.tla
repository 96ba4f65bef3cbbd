-------------------------- MODULE MCSchedulerBucket --------------------------
(***************************************************************************)
(* Small instances of SchedulerBucket.  The instance is chosen in the      *)
(* initial state: the processes that exist and the states of the group.    *)
(***************************************************************************)
EXTENDS SchedulerBucket

CONSTANTS b1, b2, w1, r1, p1, p2

\* b1 is treated before b2.
MCRank == [b \in Buckets |-> IF b = b1 THEN 1 ELSE 2]

\* A poller and a full rebuild decide on both buckets of the group.
TwoBuckets == [procs |-> {w1, r1}, states |-> 3]
\* Two slow writers of b1 and a poller, over a retirement and a reopening.
SlowWriters == [procs |-> {w1, p1, p2}, states |-> 2]
MCInstances == {TwoBuckets, SlowWriters}

VARIABLE inst

mcVars == <<vars, inst>>

\* A step of an instance is one of its own processes.
Deployed ==
    /\ \A p \in Procs \ inst.procs : pc'[p] = pc[p]
    /\ \A p \in Publishers : todo'[p] \subseteq {b1}
    /\ group' <= inst.states
    /\ UNCHANGED inst

MCInit == Init /\ inst \in MCInstances

MCNext == Next /\ Deployed

\* The fairness of FairSpec, for the processes of the instance.
MCFairSpec ==
    /\ MCInit /\ [][MCNext]_mcVars
    /\ WF_mcVars(EnqueueGroupChanged /\ Deployed)
    /\ \A p \in Procs : WF_mcVars(Poll(p) /\ Deployed) /\ WF_mcVars(Step(p) /\ Deployed)
    /\ WF_mcVars(LeaseExpires /\ Deployed)
=============================================================================

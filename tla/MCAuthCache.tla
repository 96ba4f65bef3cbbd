---------------------------- MODULE MCAuthCache ----------------------------
(***************************************************************************)
(* Small instances of AuthCache on two processes: the lookups and a worker *)
(* on the first, the administrator and a second worker on the other.  The  *)
(* instance is chosen in the initial state: the actors that exist and the  *)
(* number of changes.                                                      *)
(***************************************************************************)
EXTENDS AuthCache

CONSTANTS p1, p2, k1, k2, a1, r1, r2

MCProcs == {p1, p2}
MCProcOf == [x \in Actors |-> IF x \in {k1, r1, r2} THEN p1 ELSE p2]

\* The key is deleted next to lookups that share flights ...
Deleted == [actors |-> {r1, r2, k1, a1}, changes |-> 1]
\* ... or next to two workers.
TwoWorkers == [actors |-> {r1, k1, k2, a1}, changes |-> 1]
\* It is then created with the same value and its quota changed: two changes
\* that commit no row.
Recreated == [actors |-> {r1, k1, a1}, changes |-> 3]

VARIABLE inst

mcVars == <<vars, inst>>

MCInit == Init /\ inst \in {Deleted, TwoWorkers, Recreated}

\* A step of an instance is one of its own actors.
Deployed ==
    /\ \A r \in Requests \ inst.actors : at'[r] = "idle"
    /\ \A k \in Invalidators \ inst.actors : pc'[k] = "idle"
    /\ db' <= inst.changes
    /\ UNCHANGED inst

MCSpec == MCInit /\ [][Next /\ Deployed]_mcVars

\* The fairness of FairSpec, for the actors of the instance.  A process without
\* local cache has no entries and no subscriber.
MCFairSpec ==
    /\ MCSpec
    /\ \A r \in Requests : WF_mcVars(LookupStep(r) /\ UNCHANGED inst)
    /\ \A k \in Invalidators : WF_mcVars(PassStep(k) /\ UNCHANGED inst)
    /\ \A v \in Tracked :
           /\ WF_mcVars(LeaseExpires(v) /\ UNCHANGED inst)
           /\ SF_mcVars(\E k \in Workers \cap inst.actors :
                           Claim(k, v) /\ UNCHANGED inst)
    /\ \A p \in Caching : /\ WF_mcVars(L1Expires(p) /\ UNCHANGED inst)
                          /\ WF_mcVars(Deliver(p) /\ UNCHANGED inst)
                          /\ WF_mcVars(Reconnect(p) /\ UNCHANGED inst)
=============================================================================

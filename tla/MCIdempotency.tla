--------------------------- MODULE MCIdempotency ---------------------------
(***************************************************************************)
(* Small instances of Idempotency.  The instance is chosen in the initial  *)
(* state: the requests that are made, how far the clock runs, and whether  *)
(* an operation may outlive its lease.                                     *)
(***************************************************************************)
EXTENDS Idempotency, TLC

CONSTANTS r1, r2, r3, q1, Instances

MCRequests == {r1, r2, r3, q1}
MCKeys == {"k1"}
MCKeyOf == [p \in MCRequests |-> "k1"]

\* q1 reuses the key with another payload.
MCFingerprints == {"f1", "f2"}
MCFingerprintOf == [p \in MCRequests |-> IF p = q1 THEN "f2" ELSE "f1"]

\* r3 renews its lease.
MCBounded == {r3}

\* Three requests retry one payload, within their leases.
Retries == [requests |-> {r1, r2, r3}, horizon |-> 4, overruns |-> FALSE]
\* A request with another payload, and operations that may overrun.
OtherPayload == [requests |-> {r1, r2, q1}, horizon |-> 3, overruns |-> TRUE]

MCSafety == {Retries, OtherPayload}
MCRetries == {Retries}

VARIABLE inst

mcVars == <<vars, inst>>

MCInit == Init /\ inst \in Instances

\* A step of an instance is one of its own requests, in its own time.
Deployed ==
    /\ \A p \in Requests \ inst.requests : req'[p].pc = "idle"
    /\ \A p \in Requests : req'[p].start + TTL <= inst.horizon
    /\ \A k \in Keys : rows'[k].expiresAt <= inst.horizon
    /\ now' <= inst.horizon
    /\ inst.overruns \/ overrun' = {}
    /\ UNCHANGED inst

MCSpec == MCInit /\ [][Next /\ Deployed]_mcVars

\* The fairness of FairSpec.  Where no operation outlives its lease, the
\* clock waits for the operations that are under way, but not for ever.
MCFairSpec ==
    /\ MCSpec
    /\ WF_mcVars(Tick /\ now < inst.horizon /\ UNCHANGED inst)
    /\ WF_mcVars(CleanupOnce /\ UNCHANGED inst)
=============================================================================

--------------------------- MODULE MCOAuthRefresh ---------------------------
(***************************************************************************)
(* Small instances of OAuthRefresh on two processes.  The instance is      *)
(* chosen in the initial state: the actors that exist, the number of       *)
(* failures and whether administrators edit the account.                   *)
(***************************************************************************)
EXTENDS OAuthRefresh

CONSTANTS p1, p2, b1, b2, q1, a1, a2

MCProcs == {p1, p2}
MCProcOf == [r \in Actors |-> IF r \in {b2, a2} THEN p2 ELSE p1]

\* The services of two processes and a request in the first.
Services == [actors |-> {b1, b2, q1}, faults |-> 2, edits |-> FALSE]
\* The services and an administrator who refreshes or authorises the account.
Administered == [actors |-> {b1, b2, a1}, faults |-> 1, edits |-> FALSE]
\* One service and an administrator who may also edit it.
Edited == [actors |-> {b1, a1}, faults |-> 1, edits |-> TRUE]
\* Two of them, without failures.
Administrators == [actors |-> {b1, a1, a2}, faults |-> 0, edits |-> TRUE]

VARIABLE inst

mcVars == <<vars, inst>>

MCInit == Init /\ inst \in {Services, Administered, Edited, Administrators}

\* A step of an instance is one of its own actors.
Deployed ==
    /\ \A r \in Actors \ inst.actors : pc'[r] = "idle"
    /\ inst.edits \/ \A a \in Admins : pc'[a] # "edit"
    /\ faults' <= inst.faults
    /\ UNCHANGED inst

MCSpec == MCInit /\ [][Next /\ Deployed]_mcVars

\* The fairness of FairSpec, for the actors of the instance.
MCFairSpec ==
    /\ MCSpec
    /\ \A r \in Background :
           WF_mcVars(r \in inst.actors /\ (Start(r) \/ RefresherStep(r)) /\ UNCHANGED inst)
    /\ \A r \in Requests : WF_mcVars(RefresherStep(r) /\ UNCHANGED inst)
    /\ WF_mcVars(LockExpires /\ UNCHANGED inst)
=============================================================================

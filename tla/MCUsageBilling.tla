--------------------------- MODULE MCUsageBilling ---------------------------
(***************************************************************************)
(* Small instances of UsageBilling.  The instance is chosen in the initial *)
(* state: the tasks that there are.                                        *)
(***************************************************************************)
EXTENDS UsageBilling

CONSTANTS v1, v2, b1, video, chat, Instances

\* Two polls of one video.
Polls == [tasks |-> {v1, v2}, failures |-> 2]
\* A poll and the end of an ordinary request share the pool.
Records == [tasks |-> {v1, b1}, failures |-> 1]
MCBoth == {Polls, Records}
MCPolls == {Polls}

MCJobOf == [t \in Tasks |-> IF t = b1 THEN chat ELSE video]
MCKind == [t \in Tasks |-> IF t = b1 THEN "best_effort" ELSE "grok"]

VARIABLE inst

mcVars == <<vars, inst>>

MCInit == Init /\ inst \in Instances

\* A step of an instance is one of its own tasks.
Deployed ==
    /\ \A t \in Tasks \ inst.tasks : stage'[t] = "idle"
    /\ faults' <= inst.failures
    /\ UNCHANGED inst

MCSpec == MCInit /\ [][Next /\ Deployed]_mcVars

\* The fairness of FairSpec, for the tasks of the instance.
MCFairSpec ==
    /\ MCSpec
    /\ \A t \in Tasks : WF_mcVars(TaskStep(t) /\ Deployed)
    /\ WF_mcVars(ExecuteTask /\ Deployed)
=============================================================================

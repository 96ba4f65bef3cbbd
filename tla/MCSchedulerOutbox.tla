-------------------------- MODULE MCSchedulerOutbox --------------------------
(***************************************************************************)
(* Small instances of SchedulerOutbox.  An instance is chosen in the       *)
(* initial state: the actors that exist, the accounts that are changed and *)
(* the number of failures.  The other actors stay idle.                    *)
(***************************************************************************)
EXTENDS SchedulerOutbox, TLC

CONSTANTS a1, a2, w1, w2, w3, k1, k2, f1, r1, Instances

\* An autocommitting writer and a poller that share the outbox with nobody.
OnePoller == [actors |-> {w1, k1}, accounts |-> {a1, a2}, ids |-> 2,
              failures |-> 1]
\* Two pollers and a writer of transactions.
TwoPollers == [actors |-> {w2, k1, k2}, accounts |-> {a1}, ids |-> 2,
               failures |-> 0]
\* Two transactions that may commit in the other order than their ids.
TwoTransactions == [actors |-> {w2, w3, k1, f1}, accounts |-> {a1, a2}, ids |-> 2,
                    failures |-> 0]
\* An autocommitting writer, a poller and the full rebuild.
PollAndRebuild == [actors |-> {w1, k1, f1}, accounts |-> {a1}, ids |-> 1,
                   failures |-> 1]
\* A request that publishes its own read, and the full rebuild, but no poller.
FallbackAndRebuild == [actors |-> {w1, f1, r1}, accounts |-> {a1}, ids |-> 2,
                       failures |-> 1]

MCAll == {OnePoller, TwoPollers, TwoTransactions, PollAndRebuild, FallbackAndRebuild}
MCGrace == {[TwoTransactions EXCEPT !.actors = {w2, w3, k1}]}

VARIABLE inst

mcVars == <<vars, inst>>

MCInit == Init /\ inst \in Instances

\* A step of an instance is one of its own actors.
Deployed ==
    /\ \A w \in Writers \ inst.actors : wpc'[w] = "idle"
    /\ \A t \in Tasks \ inst.actors : pc'[t] = "idle"
    /\ {target'[w] : w \in {v \in Writers : wpc'[v] # "idle"}} \subseteq inst.accounts
    /\ faults' <= inst.failures
    /\ nextId' + Cardinality({w \in Writers : wpc'[w] = "changed"}) <= inst.ids + 1
    /\ UNCHANGED inst

MCNext == Next /\ Deployed

MCSpec == MCInit /\ [][MCNext]_mcVars

\* The fairness of FairSpec, for the actors of the instance.
MCFairSpec ==
    /\ MCSpec
    /\ \A w \in Writers : WF_mcVars(WriterStep(w) /\ Deployed)
    /\ \A k \in Workers : WF_mcVars((WorkerStep(k) \/ RebuildStep(k)) /\ Deployed)
    /\ \A f \in Refreshers : WF_mcVars((StartRebuild(f) \/ RebuildStep(f)) /\ Deployed)
    /\ \A r \in Readers : WF_mcVars(RebuildStep(r) /\ Deployed)
    /\ WF_mcVars(LockExpires /\ Deployed)

\* When the changes stop, Redis ends up equal to the database, in the instances
\* that have the ticker of the full rebuild, as every process of the code does.
ConvergesWithRebuild == inst.actors \cap Refreshers # {} => Converges
=============================================================================

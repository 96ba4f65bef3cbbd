------------------------ MODULE SchedulerBucketProofs ------------------------
(***************************************************************************)
(* Theorems about SchedulerBucket, for any number of buckets, processes,   *)
(* group states, versions and failures: its type invariant, that a shown   *)
(* snapshot is younger than the last retirement, and that the buckets      *)
(* implement BucketContract.                                               *)
(*                                                                         *)
(* None of these is inductive.  That a slow writer is turned away needs    *)
(* the order of token, read and epoch; that versions rise across           *)
(* retirements needs that a version which may still win was drawn in the   *)
(* present epoch; that decisions apply in order needs the lease to outlive *)
(* the work done under it (LeaseOutlivesWork).                             *)
(***************************************************************************)
EXTENDS SchedulerBucket, TLAPS

\* What a process keeps when a bucket is done.
DoneEffect(p) ==
    /\ pc'[p] \in {"idle", "mark", "load"}
    /\ pc' = [pc EXCEPT ![p] = pc'[p]]
    /\ ver' = [ver EXCEPT ![p] = 0]
    /\ cur' = cur
    /\ todo'[p] \subseteq todo[p]
    /\ pc'[p] = "idle" => born'[p] = NotRead
    /\ todo' = [todo EXCEPT ![p] = todo'[p]]
    /\ tok'[p] = tok[p] \/ (tok'[p] = NoTokens /\ pc'[p] = "idle")
    /\ tok' = [tok EXCEPT ![p] = tok'[p]]
    /\ mark'[p] \in {mark[p], 0}
    /\ mark' = [mark EXCEPT ![p] = mark'[p]]
    /\ plan'[p] \in {plan[p], 0}
    /\ plan' = [plan EXCEPT ![p] = plan'[p]]
    /\ born'[p] \in {born[p], NotRead}
    /\ born' = [born EXCEPT ![p] = born'[p]]

\* To stop has this effect.
LEMMA StopEffect ==
  ASSUME TypeOK, NEW p \in Procs, Stop(p)
  PROVE  DoneEffect(p)
  BY DEF Stop, Forget, Goto, DoneEffect, TypeOK

\* Whichever way BucketDone goes, it has this effect.
LEMMA BucketDoneEffect ==
  ASSUME TypeOK, NEW p \in Procs, NEW b, BucketDone(p, b)
  PROVE  DoneEffect(p)
<1>1. CASE todo[p] = {b} /\ p \in Publishers
  BY <1>1, StopEffect DEF BucketDone
<1>2. CASE ~ (todo[p] = {b} /\ p \in Publishers)
  <2>1. /\ pc' = [pc EXCEPT ![p] = "mark"] \/ pc' = [pc EXCEPT ![p] = "load"]
        /\ ver' = [ver EXCEPT ![p] = 0]
        /\ \/ todo' = [todo EXCEPT ![p] = {}]
           \/ todo' = [todo EXCEPT ![p] = @ \ {b}]
        /\ UNCHANGED <<mark, plan, tok, cur, born>>
    BY <1>2 DEF BucketDone, Goto
  <2>2. /\ pc'[p] \in {"mark", "load"}
        /\ pc' = [pc EXCEPT ![p] = pc'[p]]
    BY <2>1 DEF TypeOK
  <2>3. todo'[p] \subseteq todo[p] /\ todo' = [todo EXCEPT ![p] = todo'[p]]
    BY <2>1 DEF TypeOK
  <2>4. /\ tok' = [tok EXCEPT ![p] = tok'[p]] /\ mark' = [mark EXCEPT ![p] = mark'[p]]
        /\ plan' = [plan EXCEPT ![p] = plan'[p]] /\ born' = [born EXCEPT ![p] = born'[p]]
    BY <2>1 DEF TypeOK
  <2>5. /\ tok'[p] = tok[p] /\ mark'[p] = mark[p]
        /\ plan'[p] = plan[p] /\ born'[p] = born[p] /\ cur' = cur
    BY <2>1 DEF TypeOK
  <2>6. ver' = [ver EXCEPT ![p] = 0]
    BY <2>1 DEF TypeOK
  <2>7. /\ mark'[p] \in {mark[p], 0} /\ plan'[p] \in {plan[p], 0}
        /\ born'[p] \in {born[p], NotRead}
    BY <2>5
  <2> QED BY <2>2, <2>3, <2>4, <2>5, <2>6, <2>7 DEF DoneEffect
<1> QED BY <1>1, <1>2

\* So does giving up on a bucket.
LEMMA GiveUpEffect ==
  ASSUME TypeOK, NEW p \in Procs, NEW b, GiveUp(p, b)
  PROVE  DoneEffect(p)
  BY StopEffect, BucketDoneEffect DEF GiveUp

\* A process stops or leaves a bucket after an error.
GivenUp(p) ==
    /\ DoneEffect(p)
    /\ pc'[p] = "idle" \/ pc[p] \in {"load", "allocate", "activate"}
    /\ lease' = lease \/ (lease = p /\ lease' = None)
    /\ faults' \in Nat
    /\ UNCHANGED <<group, announced, consumed, redisVars>>

\* A failure makes it do so.
LEMMA FailEffect ==
  ASSUME TypeOK, NEW p \in Procs, Fail(p)
  PROVE  GivenUp(p)
<1>1. CASE Stop(p)
  <2>1. DoneEffect(p) /\ pc'[p] = "idle"
    BY <1>1, StopEffect DEF Stop, Goto, TypeOK
  <2> QED BY <2>1 DEF Fail, Fault, GivenUp, TypeOK
<1>2. CASE ~ Stop(p)
  <2>1. PICK b \in todo[p] : BucketDone(p, b)
    BY <1>2 DEF Fail
  <2>2. DoneEffect(p)
    BY <2>1, BucketDoneEffect
  <2>3. pc[p] \in {"load", "allocate", "activate"}
    BY <1>2 DEF Fail
  <2> QED BY <2>2, <2>3 DEF Fail, Fault, GivenUp, TypeOK
<1> QED BY <1>1, <1>2

\* The accounts of a bucket come from a query of now or of before.
ReadEffect(p, b) ==
    /\ pc[p] = "load" /\ b \in todo[p]
    /\ pc' = [pc EXCEPT ![p] = "allocate"]
    /\ cur' = [cur EXCEPT ![p] = b]
    /\ born' \in [Procs -> [Buckets -> Nat]]
    /\ \A q \in Procs \ {p} : born'[q] = born[q]
    /\ \A c \in Buckets : born'[p][c] \in {born[p][c], epoch[c]}
    /\ born'[p][b] = epoch[b] \/ born'[p][b] # 0
    /\ UNCHANGED <<group, announced, consumed, lease, redisVars, mark, plan,
                   todo, tok, ver, faults>>

\* A process reads, or finds the bucket locked and gives up.
LEMMA LoadEffect ==
  ASSUME TypeOK, NEW p \in Procs, NEW b \in Buckets, LoadAccounts(p, b)
  PROVE  ReadEffect(p, b) \/ GivenUp(p)
<1>1. CASE /\ born[p][b] # 0
           /\ born' = born
           /\ cur' = [cur EXCEPT ![p] = b]
           /\ Goto(p, "allocate")
           /\ UNCHANGED <<mark, plan, todo, tok, ver, faults>>
  BY <1>1 DEF LoadAccounts, Turn, Goto, ReadEffect, TypeOK
<1>2. CASE /\ born[p][b] = 0
           /\ \E shared \in SUBSET {c \in todo[p] \ {b} : born[p][c] = 0} :
                 born' = [born EXCEPT ![p] = [c \in Buckets |->
                            IF c \in shared \union {b} THEN epoch[c] ELSE born[p][c]]]
           /\ cur' = [cur EXCEPT ![p] = b]
           /\ Goto(p, "allocate")
           /\ UNCHANGED <<mark, plan, todo, tok, ver, faults>>
  <2>1. PICK shared \in SUBSET {c \in todo[p] \ {b} : born[p][c] = 0} :
          born' = [born EXCEPT ![p] = [c \in Buckets |->
                     IF c \in shared \union {b} THEN epoch[c] ELSE born[p][c]]]
    BY <1>2
  <2>2. [c \in Buckets |-> IF c \in shared \union {b} THEN epoch[c] ELSE born[p][c]]
            \in [Buckets -> Nat]
    BY DEF TypeOK
  <2>3. born' \in [Procs -> [Buckets -> Nat]] /\ \A q \in Procs \ {p} : born'[q] = born[q]
    BY <2>1, <2>2 DEF TypeOK
  <2>4. \A c \in Buckets : born'[p][c] \in {born[p][c], epoch[c]}
    BY <2>1 DEF TypeOK
  <2>5. born'[p][b] = epoch[b]
    BY <2>1 DEF TypeOK
  <2>6. /\ pc[p] = "load" /\ b \in todo[p] /\ pc' = [pc EXCEPT ![p] = "allocate"]
        /\ cur' = [cur EXCEPT ![p] = b]
        /\ UNCHANGED <<group, announced, consumed, lease, redisVars, mark, plan,
                       todo, tok, ver, faults>>
    BY <1>2 DEF LoadAccounts, Turn, Goto
  <2> QED BY <2>3, <2>4, <2>5, <2>6 DEF ReadEffect
<1>3. CASE Fault /\ GiveUp(p, b)
  <2>1. DoneEffect(p)
    BY <1>3, GiveUpEffect
  <2>2. pc[p] = "load" /\ UNCHANGED <<group, announced, consumed, lease, redisVars>>
    BY DEF LoadAccounts
  <2> QED BY <1>3, <2>1, <2>2 DEF GivenUp, Fault, TypeOK
<1> QED BY <1>1, <1>2, <1>3 DEF LoadAccounts

\* DoneEffect, process by process.
DonePointwise(p) ==
    /\ pc'[p] \in {"idle", "mark", "load"} /\ ver'[p] = 0
    /\ todo'[p] \subseteq todo[p]
    /\ tok'[p] = tok[p] \/ (tok'[p] = NoTokens /\ pc'[p] = "idle")
    /\ born'[p] = born[p] \/ born'[p] = NotRead
    /\ pc'[p] = "idle" => born'[p] = NotRead
    /\ \A q \in Procs : cur'[q] = cur[q]
    /\ \A q \in Procs \ {p} :
           /\ pc'[q] = pc[q] /\ ver'[q] = ver[q] /\ todo'[q] = todo[q]
           /\ tok'[q] = tok[q] /\ born'[q] = born[q] /\ plan'[q] = plan[q]

\* Only the process whose bucket is done changes.
LEMMA BucketDonePointwise ==
  ASSUME TypeOK, NEW p \in Procs, DoneEffect(p)
  PROVE  DonePointwise(p)
<1>1. \A q \in Procs \ {p} : pc'[q] = pc[q] /\ ver'[q] = ver[q] /\ todo'[q] = todo[q]
  BY DEF TypeOK, DoneEffect
<1>2. \A q \in Procs \ {p} : tok'[q] = tok[q] /\ born'[q] = born[q] /\ plan'[q] = plan[q]
  BY DEF TypeOK, DoneEffect
<1> QED BY <1>1, <1>2 DEF TypeOK, DoneEffect, DonePointwise

\* The end of a bucket keeps the types of the processes' variables.
LEMMA BucketDoneTypes ==
  ASSUME TypeOK, NEW p \in Procs, DoneEffect(p)
  PROVE  /\ pc' \in [Procs -> States] /\ ver' \in [Procs -> Nat]
         /\ \A q \in Procs : ver'[q] # 0 <=> pc'[q] = "activate"
         /\ todo' \in [Procs -> SUBSET Buckets] /\ tok' \in [Procs -> [Buckets -> Nat]]
         /\ mark' \in [Procs -> Nat] /\ plan' \in [Procs -> Nat]
         /\ born' \in [Procs -> [Buckets -> Nat]] /\ cur' \in [Procs -> Buckets]
<1> USE DEF TypeOK
<1>0. pc'[p] \in States
  BY DEF DoneEffect, States
<1>1. pc' \in [Procs -> States] /\ ver' \in [Procs -> Nat]
  <2>1. pc' \in [Procs -> States]
    <3>1. pc' = [pc EXCEPT ![p] = pc'[p]] /\ pc \in [Procs -> States]
      BY DEF DoneEffect
    <3> HIDE DEF TypeOK
    <3> QED BY <1>0, <3>1
  <2>2. ver' \in [Procs -> Nat]
    BY DEF DoneEffect
  <2> QED BY <2>1, <2>2
<1>2. \A q \in Procs : ver'[q] # 0 <=> pc'[q] = "activate"
  BY DEF DoneEffect
<1>3. tok'[p] \in [Buckets -> Nat]
  BY DEF DoneEffect, NoTokens
<1>4. todo' \in [Procs -> SUBSET Buckets] /\ tok' \in [Procs -> [Buckets -> Nat]]
  BY <1>3 DEF DoneEffect
<1>5. mark' \in [Procs -> Nat] /\ plan' \in [Procs -> Nat]
  <2>1. mark'[p] \in Nat /\ plan'[p] \in Nat
    BY DEF DoneEffect
  <2> QED BY <2>1 DEF DoneEffect
<1>6. born' \in [Procs -> [Buckets -> Nat]] /\ cur' \in [Procs -> Buckets]
  <2>1. born'[p] \in [Buckets -> Nat]
    BY DEF DoneEffect, NotRead
  <2> QED BY <2>1 DEF DoneEffect
<1> QED BY <1>1, <1>2, <1>4, <1>5, <1>6

\* Every step keeps the types.
LEMMA TypeStep == TypeOK /\ [Next]_vars => TypeOK'
<1> SUFFICES ASSUME TypeOK, [Next]_vars
             PROVE  TypeOK'
  OBVIOUS
<1> USE BucketAssumption DEF TypeOK, States, NoTokens, NotRead
<1>0. ASSUME NEW p \in Procs, GivenUp(p)
      PROVE  TypeOK'
  BY <1>0, BucketDoneTypes DEF GivenUp, redisVars
<1>1. ASSUME ChangeGroup
      PROVE  TypeOK'
  BY <1>1 DEF ChangeGroup, redisVars, procVars
<1>2. ASSUME EnqueueGroupChanged
      PROVE  TypeOK'
  BY <1>2 DEF EnqueueGroupChanged, redisVars, procVars
<1>3. ASSUME NEW p \in Procs, Poll(p)
      PROVE  TypeOK'
  BY <1>3 DEF Poll, Goto, redisVars, procVars
<1>4. ASSUME NEW p \in Procs, Refresh(p)
      PROVE  TypeOK'
  BY <1>4 DEF Refresh, Goto, redisVars, procVars
<1>5. ASSUME NEW p \in Procs, TryAcquireGroupLifecycleLease(p)
      PROVE  TypeOK'
  <2>1. CASE lease = None
    <3>1. /\ lease' = p /\ pc[p] = "lease" /\ pc' = [pc EXCEPT ![p] = "read"]
          /\ UNCHANGED <<group, announced, consumed, redisVars, mark,
                         plan, todo, tok, cur, born, ver, faults>>
      BY <1>5, <2>1 DEF TryAcquireGroupLifecycleLease, Goto
    <3> QED BY <2>1, <3>1 DEF redisVars
  <2>2. CASE lease # None
    <3>1. Stop(p) /\ UNCHANGED <<group, announced, consumed, lease, redisVars, faults>>
      BY <1>5, <2>2 DEF TryAcquireGroupLifecycleLease
    <3>2. DoneEffect(p) /\ pc'[p] = "idle"
      BY <3>1, StopEffect DEF Stop, Goto, TypeOK
    <3> QED BY <3>1, <3>2, <1>0 DEF GivenUp, TypeOK
  <2> QED BY <2>1, <2>2
<1>6. ASSUME NEW p \in Procs, ReadGroup(p)
      PROVE  TypeOK'
  BY <1>6 DEF ReadGroup, Goto, redisVars, procVars
<1>7. ASSUME NEW p \in Procs, NEW b \in Buckets, Retire(p, b)
      PROVE  TypeOK'
  BY <1>7 DEF Retire, Turn, redisVars, procVars
<1>8. ASSUME NEW p \in Procs, NEW b \in Buckets, Reopen(p, b)
      PROVE  TypeOK'
  BY <1>8 DEF Reopen, Turn, redisVars, procVars
<1>9. ASSUME NEW p \in Procs, ReleaseGroupLifecycleLease(p)
      PROVE  TypeOK'
  <2>1. CASE lease = p
    <3>1. /\ pc[p] = "apply" /\ todo[p] = {} /\ lease' = None
          /\ UNCHANGED <<group, announced, consumed, redisVars, mark,
                         plan, tok, cur, born, ver, faults>>
      BY <1>9, <2>1 DEF ReleaseGroupLifecycleLease
    <3>2. CASE Active(plan[p])
      <4>1. /\ pc' = [pc EXCEPT ![p] = "load"]
            /\ todo' = [todo EXCEPT ![p] = Buckets]
        BY <1>9, <2>1, <3>2 DEF ReleaseGroupLifecycleLease, Goto
      <4> QED BY <3>1, <3>2, <4>1 DEF redisVars
    <3>3. CASE ~ Active(plan[p])
      <4>1. /\ pc' = [pc EXCEPT ![p] = "mark"]
            /\ todo' = [todo EXCEPT ![p] = {}]
        BY <1>9, <2>1, <3>3 DEF ReleaseGroupLifecycleLease, Goto
      <4> QED BY <3>1, <3>3, <4>1 DEF redisVars
    <3> QED BY <3>2, <3>3
  <2>2. CASE lease # p
    <3>1. Stop(p) /\ UNCHANGED <<group, announced, consumed, lease, redisVars, faults>>
      BY <1>9, <2>2 DEF ReleaseGroupLifecycleLease
    <3>2. DoneEffect(p) /\ pc'[p] = "idle"
      BY <3>1, StopEffect DEF Stop, Goto, TypeOK
    <3> QED BY <3>1, <3>2, <1>0 DEF GivenUp, TypeOK
  <2> QED BY <2>1, <2>2
<1>10. ASSUME NEW p \in Procs, SetWatermark(p)
      PROVE  TypeOK'
  BY <1>10 DEF SetWatermark, Stop, Forget, Goto, redisVars, procVars
<1>11. ASSUME NEW p \in Procs, NEW b \in Buckets, CaptureBucketWriteToken(p, b)
      PROVE  TypeOK'
  BY <1>11 DEF CaptureBucketWriteToken, Goto, redisVars, procVars
<1>12. ASSUME NEW p \in Procs, NEW b \in Buckets, LoadAccounts(p, b)
      PROVE  TypeOK'
  <2>1. CASE GivenUp(p)
    BY <2>1, <1>0
  <2>2. CASE ReadEffect(p, b)
    BY <2>2 DEF ReadEffect, redisVars
  <2> QED BY <1>12, <2>1, <2>2, LoadEffect
<1>13. ASSUME NEW p \in Procs, AllocateSnapshotVersion(p)
      PROVE  TypeOK'
  <2>1. CASE Admitted(p)
    <3>1. /\ pc[p] = "allocate" /\ pc' = [pc EXCEPT ![p] = "activate"]
          /\ version' = [version EXCEPT ![cur[p]] = @ + 1]
          /\ ver' = [ver EXCEPT ![p] = version[cur[p]] + 1]
          /\ UNCHANGED <<group, announced, consumed, lease, epoch, retired, active,
                         decided, latest, shownBorn, mark, plan, todo, tok, cur,
                         born, faults>>
      BY <1>13, <2>1 DEF AllocateSnapshotVersion, Fenced, Goto
    <3>2. cur[p] \in Buckets /\ version[cur[p]] \in Nat
      OBVIOUS
    <3> QED BY <2>1, <3>1, <3>2
  <2>2. CASE ~ Admitted(p)
    <3>1. GiveUp(p, cur[p]) /\ pc[p] = "allocate"
          /\ UNCHANGED <<group, announced, consumed, lease, redisVars, faults>>
      BY <1>13, <2>2 DEF AllocateSnapshotVersion, Fenced
    <3> QED BY <3>1, <1>0, GiveUpEffect DEF GivenUp, TypeOK
  <2> QED BY <2>1, <2>2
<1>14. ASSUME NEW p \in Procs, ActivateSnapshotVersion(p)
      PROVE  TypeOK'
  <2>1. CASE ~ Admitted(p)
    <3>1. GiveUp(p, cur[p]) /\ pc[p] = "activate"
          /\ UNCHANGED <<group, announced, consumed, lease, redisVars, faults>>
      BY <1>14, <2>1 DEF ActivateSnapshotVersion, Fenced
    <3> QED BY <3>1, <1>0, GiveUpEffect DEF GivenUp, TypeOK
  <2>2. CASE Admitted(p)
    <3>1. /\ pc[p] = "activate" /\ cur[p] \in Buckets
          /\ ver[p] \in Nat /\ active[cur[p]] \in Nat
          /\ UNCHANGED <<group, announced, consumed, lease, epoch, retired,
                         version, decided, faults>>
      BY <1>14, <2>2 DEF ActivateSnapshotVersion, Fenced, redisVars
    <3>2. DoneEffect(p)
      BY <1>14, <2>2, BucketDoneEffect DEF ActivateSnapshotVersion, Fenced
    <3>3. /\ pc' \in [Procs -> States] /\ ver' \in [Procs -> Nat]
          /\ \A q \in Procs : ver'[q] # 0 <=> pc'[q] = "activate"
          /\ todo' \in [Procs -> SUBSET Buckets] /\ tok' \in [Procs -> [Buckets -> Nat]]
          /\ mark' \in [Procs -> Nat] /\ plan' \in [Procs -> Nat]
          /\ born' \in [Procs -> [Buckets -> Nat]] /\ cur' \in [Procs -> Buckets]
      BY <3>1, <3>2, BucketDoneTypes
    <3>4. CASE ver[p] >= active[cur[p]]
      <4>1. /\ active' = [active EXCEPT ![cur[p]] = ver[p]]
            /\ latest' = [latest EXCEPT ![cur[p]] = ver[p]]
            /\ shownBorn' = [shownBorn EXCEPT ![cur[p]] = born[p][cur[p]]]
        BY <1>14, <2>2, <3>1, <3>4 DEF ActivateSnapshotVersion, Fenced
      <4> QED BY <2>2, <3>1, <3>3, <3>4, <4>1
    <3>5. CASE ver[p] < active[cur[p]]
      <4>1. UNCHANGED <<active, latest, shownBorn>>
        BY <1>14, <2>2, <3>1, <3>5 DEF ActivateSnapshotVersion, Fenced, redisVars
      <4> QED BY <2>2, <3>1, <3>3, <3>5, <4>1
    <3> QED BY <3>1, <3>4, <3>5
  <2> QED BY <2>1, <2>2
<1>15. ASSUME NEW p \in Procs, Fail(p)
      PROVE  TypeOK'
  BY <1>15, <1>0, FailEffect
<1>16. ASSUME LeaseExpires
      PROVE  TypeOK'
  BY <1>16 DEF LeaseExpires, Working, redisVars, procVars
<1>17. CASE UNCHANGED vars
  BY <1>17 DEF vars, redisVars, procVars
<1> QED BY <1>1, <1>2, <1>3, <1>4, <1>5, <1>6, <1>7, <1>8, <1>9, <1>10,
   <1>11, <1>12, <1>13, <1>14, <1>15, <1>16, <1>17 DEF Next, Step

-----------------------------------------------------------------------------
(***************************************************************************)
(* The inductive invariant, in parts.                                      *)
(***************************************************************************)
\* A process that decides owns the lease.
LeaseInv == \A p \in Procs : Working(p) => lease = p

\* A decision that may still be applied is at least as new as those that
\* were; none is newer than the group.
OrderInv ==
    /\ \A b \in Buckets : decided[b] <= group
    /\ \A p \in Procs : pc[p] = "apply" =>
           plan[p] <= group /\ \A b \in Buckets : decided[b] <= plan[p]

\* A token is never ahead of its bucket, and a retirement outdates them all.
FenceInv ==
    \A p \in Procs, b \in Buckets :
        /\ tok[p][b] <= epoch[b]
        /\ retired[b] # 0 => tok[p][b] < epoch[b]

\* A process that rebuilds has a token for each bucket it has still to treat;
\* it took the token of a bucket before it read the accounts.
HoldInv ==
    \A p \in Procs :
        /\ pc[p] = "apply" /\ Active(plan[p]) =>
               \A b \in Buckets \ todo[p] : tok[p][b] > 0
        /\ pc[p] \in {"load", "allocate", "activate"} =>
               \A b \in todo[p] : tok[p][b] > 0
        /\ pc[p] \in {"idle", "lease", "read", "apply"} => born[p] = NotRead
        /\ pc[p] \in {"load", "allocate", "activate"} =>
               \A b \in todo[p] : born[p][b] # 0 =>
                   tok[p][b] <= born[p][b] /\ born[p][b] <= epoch[b]
        /\ pc[p] \in {"allocate", "activate"} =>
               cur[p] \in todo[p] /\ born[p][cur[p]] # 0

\* ShownIsOfThisLife, of an epoch that exists.
ShownInv ==
    \A b \in Buckets : active[b] # 0 =>
        retired[b] = 0 /\ shownBorn[b] = epoch[b] /\ epoch[b] > 0

\* Versions are drawn once.  One that may still be activated in a bucket that
\* shows nothing is above all that the bucket has shown.
VersionInv ==
    /\ \A b \in Buckets : latest[b] <= version[b] /\ active[b] \in {0, latest[b]}
    /\ \A p \in Procs : pc[p] = "activate" =>
           /\ ver[p] <= version[cur[p]]
           /\ ver[p] # latest[cur[p]]
           /\ Admitted(p) /\ active[cur[p]] = 0 => ver[p] > latest[cur[p]]
    /\ \A p, q \in Procs :
           pc[p] = "activate" /\ pc[q] = "activate" /\ p # q /\ cur[p] = cur[q]
               => ver[p] # ver[q]

IInv == TypeOK /\ LeaseInv /\ OrderInv /\ FenceInv /\ HoldInv /\ ShownInv /\ VersionInv

\* The lease is taken when free, released by its owner, and does not expire
\* under a working owner.
LEMMA LeaseStep == TypeOK /\ LeaseInv /\ [Next]_vars => LeaseInv'
<1> SUFFICES ASSUME TypeOK, LeaseInv, [Next]_vars
             PROVE  LeaseInv'
  OBVIOUS
<1> USE BucketAssumption, LeaseOutlivesWork DEF TypeOK, LeaseInv, Working
<1>0. ASSUME NEW p \in Procs, GivenUp(p)
      PROVE  LeaseInv'
  <2>1. DonePointwise(p)
    BY <1>0, BucketDonePointwise DEF GivenUp
  <2> QED BY <1>0, <2>1 DEF GivenUp, DonePointwise, redisVars
<1>1. ASSUME ChangeGroup
      PROVE  LeaseInv'
  BY <1>1 DEF ChangeGroup, redisVars, procVars
<1>2. ASSUME EnqueueGroupChanged
      PROVE  LeaseInv'
  BY <1>2 DEF EnqueueGroupChanged, redisVars, procVars
<1>3. ASSUME NEW p \in Procs, Poll(p)
      PROVE  LeaseInv'
  BY <1>3 DEF Poll, Goto, redisVars, procVars
<1>4. ASSUME NEW p \in Procs, Refresh(p)
      PROVE  LeaseInv'
  BY <1>4 DEF Refresh, Goto, redisVars, procVars
<1>5. ASSUME NEW p \in Procs, TryAcquireGroupLifecycleLease(p)
      PROVE  LeaseInv'
  <2>1. CASE lease = None
    <3>1. /\ lease' = p /\ pc[p] = "lease" /\ pc' = [pc EXCEPT ![p] = "read"]
          /\ UNCHANGED <<group, announced, consumed, redisVars, mark,
                         plan, todo, tok, cur, born, ver, faults>>
      BY <1>5, <2>1 DEF TryAcquireGroupLifecycleLease, Goto
    <3> QED BY <2>1, <3>1 DEF redisVars
  <2>2. CASE lease # None
    <3>1. Stop(p) /\ UNCHANGED <<group, announced, consumed, lease, redisVars, faults>>
      BY <1>5, <2>2 DEF TryAcquireGroupLifecycleLease
    <3>2. DoneEffect(p) /\ pc'[p] = "idle"
      BY <3>1, StopEffect DEF Stop, Goto, TypeOK
    <3> QED BY <3>1, <3>2, <1>0 DEF GivenUp, TypeOK
  <2> QED BY <2>1, <2>2
<1>6. ASSUME NEW p \in Procs, ReadGroup(p)
      PROVE  LeaseInv'
  BY <1>6 DEF ReadGroup, Goto, redisVars, procVars
<1>7. ASSUME NEW p \in Procs, NEW b \in Buckets, Retire(p, b)
      PROVE  LeaseInv'
  BY <1>7 DEF Retire, Turn, redisVars, procVars
<1>8. ASSUME NEW p \in Procs, NEW b \in Buckets, Reopen(p, b)
      PROVE  LeaseInv'
  BY <1>8 DEF Reopen, Turn, redisVars, procVars
<1>9. ASSUME NEW p \in Procs, ReleaseGroupLifecycleLease(p)
      PROVE  LeaseInv'
  <2>1. CASE lease = p
    <3>1. /\ pc[p] = "apply" /\ todo[p] = {} /\ lease' = None
          /\ UNCHANGED <<group, announced, consumed, redisVars, mark,
                         plan, tok, cur, born, ver, faults>>
      BY <1>9, <2>1 DEF ReleaseGroupLifecycleLease
    <3>2. CASE Active(plan[p])
      <4>1. /\ pc' = [pc EXCEPT ![p] = "load"]
            /\ todo' = [todo EXCEPT ![p] = Buckets]
        BY <1>9, <2>1, <3>2 DEF ReleaseGroupLifecycleLease, Goto
      <4> QED BY <3>1, <3>2, <4>1 DEF redisVars
    <3>3. CASE ~ Active(plan[p])
      <4>1. /\ pc' = [pc EXCEPT ![p] = "mark"]
            /\ todo' = [todo EXCEPT ![p] = {}]
        BY <1>9, <2>1, <3>3 DEF ReleaseGroupLifecycleLease, Goto
      <4> QED BY <3>1, <3>3, <4>1 DEF redisVars
    <3> QED BY <3>2, <3>3
  <2>2. CASE lease # p
    <3>1. Stop(p) /\ UNCHANGED <<group, announced, consumed, lease, redisVars, faults>>
      BY <1>9, <2>2 DEF ReleaseGroupLifecycleLease
    <3>2. DoneEffect(p) /\ pc'[p] = "idle"
      BY <3>1, StopEffect DEF Stop, Goto, TypeOK
    <3> QED BY <3>1, <3>2, <1>0 DEF GivenUp, TypeOK
  <2> QED BY <2>1, <2>2
<1>10. ASSUME NEW p \in Procs, SetWatermark(p)
      PROVE  LeaseInv'
  BY <1>10 DEF SetWatermark, Stop, Forget, Goto, redisVars, procVars
<1>11. ASSUME NEW p \in Procs, NEW b \in Buckets, CaptureBucketWriteToken(p, b)
      PROVE  LeaseInv'
  BY <1>11 DEF CaptureBucketWriteToken, Goto, redisVars, procVars
<1>12. ASSUME NEW p \in Procs, NEW b \in Buckets, LoadAccounts(p, b)
      PROVE  LeaseInv'
  <2>1. CASE GivenUp(p)
    BY <2>1, <1>0
  <2>2. CASE ReadEffect(p, b)
    BY <2>2 DEF ReadEffect, redisVars
  <2> QED BY <1>12, <2>1, <2>2, LoadEffect
<1>13. ASSUME NEW p \in Procs, AllocateSnapshotVersion(p)
      PROVE  LeaseInv'
  <2>1. CASE Admitted(p)
    <3>1. /\ pc[p] = "allocate" /\ pc' = [pc EXCEPT ![p] = "activate"]
          /\ version' = [version EXCEPT ![cur[p]] = @ + 1]
          /\ ver' = [ver EXCEPT ![p] = version[cur[p]] + 1]
          /\ UNCHANGED <<group, announced, consumed, lease, epoch, retired, active,
                         decided, latest, shownBorn, mark, plan, todo, tok, cur,
                         born, faults>>
      BY <1>13, <2>1 DEF AllocateSnapshotVersion, Fenced, Goto
    <3>2. cur[p] \in Buckets /\ version[cur[p]] \in Nat
      OBVIOUS
    <3> QED BY <2>1, <3>1, <3>2 DEF Admitted
  <2>2. CASE ~ Admitted(p)
    <3>1. GiveUp(p, cur[p]) /\ pc[p] = "allocate"
          /\ UNCHANGED <<group, announced, consumed, lease, redisVars, faults>>
      BY <1>13, <2>2 DEF AllocateSnapshotVersion, Fenced
    <3> QED BY <3>1, <1>0, GiveUpEffect DEF GivenUp, TypeOK
  <2> QED BY <2>1, <2>2
<1>14. ASSUME NEW p \in Procs, ActivateSnapshotVersion(p)
      PROVE  LeaseInv'
  <2>1. CASE ~ Admitted(p)
    <3>1. GiveUp(p, cur[p]) /\ pc[p] = "activate"
          /\ UNCHANGED <<group, announced, consumed, lease, redisVars, faults>>
      BY <1>14, <2>1 DEF ActivateSnapshotVersion, Fenced
    <3> QED BY <3>1, <1>0, GiveUpEffect DEF GivenUp, TypeOK
  <2>2. CASE Admitted(p)
    <3>1. /\ pc[p] = "activate" /\ cur[p] \in Buckets
          /\ ver[p] \in Nat /\ active[cur[p]] \in Nat
          /\ UNCHANGED <<group, announced, consumed, lease, epoch, retired,
                         version, decided, faults>>
      BY <1>14, <2>2 DEF ActivateSnapshotVersion, Fenced, redisVars
    <3>2. DoneEffect(p)
      BY <1>14, <2>2, BucketDoneEffect DEF ActivateSnapshotVersion, Fenced
    <3>3. DonePointwise(p)
      BY <3>2, BucketDonePointwise
    <3>4. CASE ver[p] >= active[cur[p]]
      <4>1. /\ active' = [active EXCEPT ![cur[p]] = ver[p]]
            /\ latest' = [latest EXCEPT ![cur[p]] = ver[p]]
            /\ shownBorn' = [shownBorn EXCEPT ![cur[p]] = born[p][cur[p]]]
        BY <1>14, <2>2, <3>1, <3>4 DEF ActivateSnapshotVersion, Fenced
      <4> QED BY <2>2, <3>1, <3>3, <3>4, <4>1 DEF DonePointwise, Admitted
    <3>5. CASE ver[p] < active[cur[p]]
      <4>1. UNCHANGED <<active, latest, shownBorn>>
        BY <1>14, <2>2, <3>1, <3>5 DEF ActivateSnapshotVersion, Fenced, redisVars
      <4> QED BY <2>2, <3>1, <3>3, <3>5, <4>1 DEF DonePointwise, Admitted
    <3> QED BY <3>1, <3>4, <3>5
  <2> QED BY <2>1, <2>2
<1>15. ASSUME NEW p \in Procs, Fail(p)
      PROVE  LeaseInv'
  BY <1>15, <1>0, FailEffect
<1>16. ASSUME LeaseExpires
      PROVE  LeaseInv'
  BY <1>16 DEF LeaseExpires, Working, redisVars, procVars
<1>17. CASE UNCHANGED vars
  BY <1>17 DEF vars, redisVars, procVars
<1> QED BY <1>1, <1>2, <1>3, <1>4, <1>5, <1>6, <1>7, <1>8, <1>9, <1>10,
   <1>11, <1>12, <1>13, <1>14, <1>15, <1>16, <1>17 DEF Next, Step

\* A decision is read while no other one is in progress.
LEMMA OrderStep == TypeOK /\ LeaseInv /\ OrderInv /\ [Next]_vars => OrderInv'
<1> SUFFICES ASSUME TypeOK, LeaseInv, OrderInv, [Next]_vars
             PROVE  OrderInv'
  OBVIOUS
<1> USE BucketAssumption DEF TypeOK, LeaseInv, OrderInv, Working
<1>0. ASSUME NEW p \in Procs, GivenUp(p)
      PROVE  OrderInv'
  <2>1. DonePointwise(p)
    BY <1>0, BucketDonePointwise DEF GivenUp
  <2> QED BY <1>0, <2>1 DEF GivenUp, DonePointwise, redisVars
<1>1. ASSUME ChangeGroup
      PROVE  OrderInv'
  BY <1>1 DEF ChangeGroup, redisVars, procVars
<1>2. ASSUME EnqueueGroupChanged
      PROVE  OrderInv'
  BY <1>2 DEF EnqueueGroupChanged, redisVars, procVars
<1>3. ASSUME NEW p \in Procs, Poll(p)
      PROVE  OrderInv'
  BY <1>3 DEF Poll, Goto, redisVars, procVars
<1>4. ASSUME NEW p \in Procs, Refresh(p)
      PROVE  OrderInv'
  BY <1>4 DEF Refresh, Goto, redisVars, procVars
<1>5. ASSUME NEW p \in Procs, TryAcquireGroupLifecycleLease(p)
      PROVE  OrderInv'
  <2>1. CASE lease = None
    <3>1. /\ lease' = p /\ pc[p] = "lease" /\ pc' = [pc EXCEPT ![p] = "read"]
          /\ UNCHANGED <<group, announced, consumed, redisVars, mark,
                         plan, todo, tok, cur, born, ver, faults>>
      BY <1>5, <2>1 DEF TryAcquireGroupLifecycleLease, Goto
    <3> QED BY <2>1, <3>1 DEF redisVars
  <2>2. CASE lease # None
    <3>1. Stop(p) /\ UNCHANGED <<group, announced, consumed, lease, redisVars, faults>>
      BY <1>5, <2>2 DEF TryAcquireGroupLifecycleLease
    <3>2. DoneEffect(p) /\ pc'[p] = "idle"
      BY <3>1, StopEffect DEF Stop, Goto, TypeOK
    <3> QED BY <3>1, <3>2, <1>0 DEF GivenUp, TypeOK
  <2> QED BY <2>1, <2>2
<1>6. ASSUME NEW p \in Procs, ReadGroup(p)
      PROVE  OrderInv'
  BY <1>6 DEF ReadGroup, Goto, redisVars, procVars
<1>7. ASSUME NEW p \in Procs, NEW b \in Buckets, Retire(p, b)
      PROVE  OrderInv'
  BY <1>7 DEF Retire, Turn, redisVars, procVars
<1>8. ASSUME NEW p \in Procs, NEW b \in Buckets, Reopen(p, b)
      PROVE  OrderInv'
  BY <1>8 DEF Reopen, Turn, redisVars, procVars
<1>9. ASSUME NEW p \in Procs, ReleaseGroupLifecycleLease(p)
      PROVE  OrderInv'
  <2>1. CASE lease = p
    <3>1. /\ pc[p] = "apply" /\ todo[p] = {} /\ lease' = None
          /\ UNCHANGED <<group, announced, consumed, redisVars, mark,
                         plan, tok, cur, born, ver, faults>>
      BY <1>9, <2>1 DEF ReleaseGroupLifecycleLease
    <3>2. CASE Active(plan[p])
      <4>1. /\ pc' = [pc EXCEPT ![p] = "load"]
            /\ todo' = [todo EXCEPT ![p] = Buckets]
        BY <1>9, <2>1, <3>2 DEF ReleaseGroupLifecycleLease, Goto
      <4> QED BY <3>1, <3>2, <4>1 DEF redisVars
    <3>3. CASE ~ Active(plan[p])
      <4>1. /\ pc' = [pc EXCEPT ![p] = "mark"]
            /\ todo' = [todo EXCEPT ![p] = {}]
        BY <1>9, <2>1, <3>3 DEF ReleaseGroupLifecycleLease, Goto
      <4> QED BY <3>1, <3>3, <4>1 DEF redisVars
    <3> QED BY <3>2, <3>3
  <2>2. CASE lease # p
    <3>1. Stop(p) /\ UNCHANGED <<group, announced, consumed, lease, redisVars, faults>>
      BY <1>9, <2>2 DEF ReleaseGroupLifecycleLease
    <3>2. DoneEffect(p) /\ pc'[p] = "idle"
      BY <3>1, StopEffect DEF Stop, Goto, TypeOK
    <3> QED BY <3>1, <3>2, <1>0 DEF GivenUp, TypeOK
  <2> QED BY <2>1, <2>2
<1>10. ASSUME NEW p \in Procs, SetWatermark(p)
      PROVE  OrderInv'
  BY <1>10 DEF SetWatermark, Stop, Forget, Goto, redisVars, procVars
<1>11. ASSUME NEW p \in Procs, NEW b \in Buckets, CaptureBucketWriteToken(p, b)
      PROVE  OrderInv'
  BY <1>11 DEF CaptureBucketWriteToken, Goto, redisVars, procVars
<1>12. ASSUME NEW p \in Procs, NEW b \in Buckets, LoadAccounts(p, b)
      PROVE  OrderInv'
  <2>1. CASE GivenUp(p)
    BY <2>1, <1>0
  <2>2. CASE ReadEffect(p, b)
    BY <2>2 DEF ReadEffect, redisVars
  <2> QED BY <1>12, <2>1, <2>2, LoadEffect
<1>13. ASSUME NEW p \in Procs, AllocateSnapshotVersion(p)
      PROVE  OrderInv'
  <2>1. CASE Admitted(p)
    <3>1. /\ pc[p] = "allocate" /\ pc' = [pc EXCEPT ![p] = "activate"]
          /\ version' = [version EXCEPT ![cur[p]] = @ + 1]
          /\ ver' = [ver EXCEPT ![p] = version[cur[p]] + 1]
          /\ UNCHANGED <<group, announced, consumed, lease, epoch, retired, active,
                         decided, latest, shownBorn, mark, plan, todo, tok, cur,
                         born, faults>>
      BY <1>13, <2>1 DEF AllocateSnapshotVersion, Fenced, Goto
    <3>2. cur[p] \in Buckets /\ version[cur[p]] \in Nat
      OBVIOUS
    <3> QED BY <2>1, <3>1, <3>2 DEF Admitted
  <2>2. CASE ~ Admitted(p)
    <3>1. GiveUp(p, cur[p]) /\ pc[p] = "allocate"
          /\ UNCHANGED <<group, announced, consumed, lease, redisVars, faults>>
      BY <1>13, <2>2 DEF AllocateSnapshotVersion, Fenced
    <3> QED BY <3>1, <1>0, GiveUpEffect DEF GivenUp, TypeOK
  <2> QED BY <2>1, <2>2
<1>14. ASSUME NEW p \in Procs, ActivateSnapshotVersion(p)
      PROVE  OrderInv'
  <2>1. CASE ~ Admitted(p)
    <3>1. GiveUp(p, cur[p]) /\ pc[p] = "activate"
          /\ UNCHANGED <<group, announced, consumed, lease, redisVars, faults>>
      BY <1>14, <2>1 DEF ActivateSnapshotVersion, Fenced
    <3> QED BY <3>1, <1>0, GiveUpEffect DEF GivenUp, TypeOK
  <2>2. CASE Admitted(p)
    <3>1. /\ pc[p] = "activate" /\ cur[p] \in Buckets
          /\ ver[p] \in Nat /\ active[cur[p]] \in Nat
          /\ UNCHANGED <<group, announced, consumed, lease, epoch, retired,
                         version, decided, faults>>
      BY <1>14, <2>2 DEF ActivateSnapshotVersion, Fenced, redisVars
    <3>2. DoneEffect(p)
      BY <1>14, <2>2, BucketDoneEffect DEF ActivateSnapshotVersion, Fenced
    <3>3. DonePointwise(p)
      BY <3>2, BucketDonePointwise
    <3>4. CASE ver[p] >= active[cur[p]]
      <4>1. /\ active' = [active EXCEPT ![cur[p]] = ver[p]]
            /\ latest' = [latest EXCEPT ![cur[p]] = ver[p]]
            /\ shownBorn' = [shownBorn EXCEPT ![cur[p]] = born[p][cur[p]]]
        BY <1>14, <2>2, <3>1, <3>4 DEF ActivateSnapshotVersion, Fenced
      <4> QED BY <2>2, <3>1, <3>3, <3>4, <4>1 DEF DonePointwise, Admitted
    <3>5. CASE ver[p] < active[cur[p]]
      <4>1. UNCHANGED <<active, latest, shownBorn>>
        BY <1>14, <2>2, <3>1, <3>5 DEF ActivateSnapshotVersion, Fenced, redisVars
      <4> QED BY <2>2, <3>1, <3>3, <3>5, <4>1 DEF DonePointwise, Admitted
    <3> QED BY <3>1, <3>4, <3>5
  <2> QED BY <2>1, <2>2
<1>15. ASSUME NEW p \in Procs, Fail(p)
      PROVE  OrderInv'
  BY <1>15, <1>0, FailEffect
<1>16. ASSUME LeaseExpires
      PROVE  OrderInv'
  BY <1>16 DEF LeaseExpires, Working, redisVars, procVars
<1>17. CASE UNCHANGED vars
  BY <1>17 DEF vars, redisVars, procVars
<1> QED BY <1>1, <1>2, <1>3, <1>4, <1>5, <1>6, <1>7, <1>8, <1>9, <1>10,
   <1>11, <1>12, <1>13, <1>14, <1>15, <1>16, <1>17 DEF Next, Step

\* Only a retirement raises the epoch of a bucket, and tokens are handed out
\* while it is open.
LEMMA FenceStep == TypeOK /\ FenceInv /\ [Next]_vars => FenceInv'
<1> SUFFICES ASSUME TypeOK, FenceInv, [Next]_vars
             PROVE  FenceInv'
  OBVIOUS
<1> USE BucketAssumption DEF TypeOK, FenceInv, NoTokens
<1>0. ASSUME NEW p \in Procs, GivenUp(p)
      PROVE  FenceInv'
  <2>1. DonePointwise(p)
    BY <1>0, BucketDonePointwise DEF GivenUp
  <2>2. tok'[p] = tok[p] \/ tok'[p] = NoTokens
    BY <2>1 DEF DonePointwise
  <2>3. \A c \in Buckets : tok'[p][c] = tok[p][c] \/ tok'[p][c] = 0
    BY <2>2
  <2>4. \A q \in Procs \ {p} : tok'[q] = tok[q]
    BY <2>1 DEF DonePointwise
  <2>5. UNCHANGED <<epoch, retired>>
    BY <1>0 DEF GivenUp, redisVars
  <2>6. \A q \in Procs, c \in Buckets : tok[q][c] \in Nat /\ epoch[c] \in Nat
    OBVIOUS
  <2>7. \A c \in Buckets : tok'[p][c] \in Nat /\ tok'[p][c] <= tok[p][c]
    <3> SUFFICES ASSUME NEW c \in Buckets
                 PROVE  tok'[p][c] \in Nat /\ tok'[p][c] <= tok[p][c]
      OBVIOUS
    <3>1. tok[p][c] \in Nat
      BY <2>6
    <3>2. tok'[p][c] = tok[p][c] \/ tok'[p][c] = 0
      BY <2>3
    <3> QED BY ONLY <3>1, <3>2
  <2>8. \A q \in Procs \ {p}, c \in Buckets :
          tok'[q][c] \in Nat /\ tok'[q][c] <= tok[q][c]
    BY <2>4, <2>6
  <2>9. \A q \in Procs, c \in Buckets :
          tok'[q][c] \in Nat /\ tok'[q][c] <= tok[q][c]
    BY <2>7, <2>8
  <2> QED BY <2>5, <2>6, <2>9
<1>1. ASSUME ChangeGroup
      PROVE  FenceInv'
  BY <1>1 DEF ChangeGroup, redisVars, procVars
<1>2. ASSUME EnqueueGroupChanged
      PROVE  FenceInv'
  BY <1>2 DEF EnqueueGroupChanged, redisVars, procVars
<1>3. ASSUME NEW p \in Procs, Poll(p)
      PROVE  FenceInv'
  BY <1>3 DEF Poll, Goto, redisVars, procVars
<1>4. ASSUME NEW p \in Procs, Refresh(p)
      PROVE  FenceInv'
  BY <1>4 DEF Refresh, Goto, redisVars, procVars
<1>5. ASSUME NEW p \in Procs, TryAcquireGroupLifecycleLease(p)
      PROVE  FenceInv'
  <2>1. CASE lease = None
    <3>1. /\ lease' = p /\ pc[p] = "lease" /\ pc' = [pc EXCEPT ![p] = "read"]
          /\ UNCHANGED <<group, announced, consumed, redisVars, mark,
                         plan, todo, tok, cur, born, ver, faults>>
      BY <1>5, <2>1 DEF TryAcquireGroupLifecycleLease, Goto
    <3> QED BY <2>1, <3>1 DEF redisVars
  <2>2. CASE lease # None
    <3>1. Stop(p) /\ UNCHANGED <<group, announced, consumed, lease, redisVars, faults>>
      BY <1>5, <2>2 DEF TryAcquireGroupLifecycleLease
    <3>2. DoneEffect(p) /\ pc'[p] = "idle"
      BY <3>1, StopEffect DEF Stop, Goto, TypeOK
    <3> QED BY <3>1, <3>2, <1>0 DEF GivenUp, TypeOK
  <2> QED BY <2>1, <2>2
<1>6. ASSUME NEW p \in Procs, ReadGroup(p)
      PROVE  FenceInv'
  BY <1>6 DEF ReadGroup, Goto, redisVars, procVars
<1>7. ASSUME NEW p \in Procs, NEW b \in Buckets, Retire(p, b)
      PROVE  FenceInv'
  BY <1>7 DEF Retire, Turn, redisVars, procVars
<1>8. ASSUME NEW p \in Procs, NEW b \in Buckets, Reopen(p, b)
      PROVE  FenceInv'
  BY <1>8 DEF Reopen, Turn, redisVars, procVars
<1>9. ASSUME NEW p \in Procs, ReleaseGroupLifecycleLease(p)
      PROVE  FenceInv'
  <2>1. CASE lease = p
    <3>1. /\ pc[p] = "apply" /\ todo[p] = {} /\ lease' = None
          /\ UNCHANGED <<group, announced, consumed, redisVars, mark,
                         plan, tok, cur, born, ver, faults>>
      BY <1>9, <2>1 DEF ReleaseGroupLifecycleLease
    <3>2. CASE Active(plan[p])
      <4>1. /\ pc' = [pc EXCEPT ![p] = "load"]
            /\ todo' = [todo EXCEPT ![p] = Buckets]
        BY <1>9, <2>1, <3>2 DEF ReleaseGroupLifecycleLease, Goto
      <4> QED BY <3>1, <3>2, <4>1 DEF redisVars
    <3>3. CASE ~ Active(plan[p])
      <4>1. /\ pc' = [pc EXCEPT ![p] = "mark"]
            /\ todo' = [todo EXCEPT ![p] = {}]
        BY <1>9, <2>1, <3>3 DEF ReleaseGroupLifecycleLease, Goto
      <4> QED BY <3>1, <3>3, <4>1 DEF redisVars
    <3> QED BY <3>2, <3>3
  <2>2. CASE lease # p
    <3>1. Stop(p) /\ UNCHANGED <<group, announced, consumed, lease, redisVars, faults>>
      BY <1>9, <2>2 DEF ReleaseGroupLifecycleLease
    <3>2. DoneEffect(p) /\ pc'[p] = "idle"
      BY <3>1, StopEffect DEF Stop, Goto, TypeOK
    <3> QED BY <3>1, <3>2, <1>0 DEF GivenUp, TypeOK
  <2> QED BY <2>1, <2>2
<1>10. ASSUME NEW p \in Procs, SetWatermark(p)
      PROVE  FenceInv'
  BY <1>10 DEF SetWatermark, Stop, Forget, Goto, redisVars, procVars
<1>11. ASSUME NEW p \in Procs, NEW b \in Buckets, CaptureBucketWriteToken(p, b)
      PROVE  FenceInv'
  BY <1>11 DEF CaptureBucketWriteToken, Goto, redisVars, procVars
<1>12. ASSUME NEW p \in Procs, NEW b \in Buckets, LoadAccounts(p, b)
      PROVE  FenceInv'
  <2>1. CASE GivenUp(p)
    BY <2>1, <1>0
  <2>2. CASE ReadEffect(p, b)
    BY <2>2 DEF ReadEffect, redisVars
  <2> QED BY <1>12, <2>1, <2>2, LoadEffect
<1>13. ASSUME NEW p \in Procs, AllocateSnapshotVersion(p)
      PROVE  FenceInv'
  <2>1. CASE Admitted(p)
    <3>1. /\ pc[p] = "allocate" /\ pc' = [pc EXCEPT ![p] = "activate"]
          /\ version' = [version EXCEPT ![cur[p]] = @ + 1]
          /\ ver' = [ver EXCEPT ![p] = version[cur[p]] + 1]
          /\ UNCHANGED <<group, announced, consumed, lease, epoch, retired, active,
                         decided, latest, shownBorn, mark, plan, todo, tok, cur,
                         born, faults>>
      BY <1>13, <2>1 DEF AllocateSnapshotVersion, Fenced, Goto
    <3>2. cur[p] \in Buckets /\ version[cur[p]] \in Nat
      OBVIOUS
    <3> QED BY <2>1, <3>1, <3>2 DEF Admitted
  <2>2. CASE ~ Admitted(p)
    <3>1. GiveUp(p, cur[p]) /\ pc[p] = "allocate"
          /\ UNCHANGED <<group, announced, consumed, lease, redisVars, faults>>
      BY <1>13, <2>2 DEF AllocateSnapshotVersion, Fenced
    <3> QED BY <3>1, <1>0, GiveUpEffect DEF GivenUp, TypeOK
  <2> QED BY <2>1, <2>2
<1>14. ASSUME NEW p \in Procs, ActivateSnapshotVersion(p)
      PROVE  FenceInv'
  <2>1. CASE ~ Admitted(p)
    <3>1. GiveUp(p, cur[p]) /\ pc[p] = "activate"
          /\ UNCHANGED <<group, announced, consumed, lease, redisVars, faults>>
      BY <1>14, <2>1 DEF ActivateSnapshotVersion, Fenced
    <3> QED BY <3>1, <1>0, GiveUpEffect DEF GivenUp, TypeOK
  <2>2. CASE Admitted(p)
    <3>1. /\ pc[p] = "activate" /\ cur[p] \in Buckets
          /\ ver[p] \in Nat /\ active[cur[p]] \in Nat
          /\ UNCHANGED <<group, announced, consumed, lease, epoch, retired,
                         version, decided, faults>>
      BY <1>14, <2>2 DEF ActivateSnapshotVersion, Fenced, redisVars
    <3>2. DoneEffect(p)
      BY <1>14, <2>2, BucketDoneEffect DEF ActivateSnapshotVersion, Fenced
    <3>3. DonePointwise(p)
      BY <3>2, BucketDonePointwise
    <3>4. CASE ver[p] >= active[cur[p]]
      <4>1. /\ active' = [active EXCEPT ![cur[p]] = ver[p]]
            /\ latest' = [latest EXCEPT ![cur[p]] = ver[p]]
            /\ shownBorn' = [shownBorn EXCEPT ![cur[p]] = born[p][cur[p]]]
        BY <1>14, <2>2, <3>1, <3>4 DEF ActivateSnapshotVersion, Fenced
      <4>2. tok'[p] = tok[p] \/ tok'[p] = NoTokens
        BY <3>3 DEF DonePointwise
      <4>3. \A c \in Buckets : tok'[p][c] = tok[p][c] \/ tok'[p][c] = 0
        BY <4>2
      <4>4. \A q \in Procs \ {p} : tok'[q] = tok[q]
        BY <3>3 DEF DonePointwise
      <4>5. UNCHANGED <<epoch, retired>>
        BY <3>1
      <4>6. \A q \in Procs, c \in Buckets : tok[q][c] \in Nat /\ epoch[c] \in Nat
        OBVIOUS
      <4>7. \A c \in Buckets : tok'[p][c] \in Nat /\ tok'[p][c] <= tok[p][c]
        <5> SUFFICES ASSUME NEW c \in Buckets
                     PROVE  tok'[p][c] \in Nat /\ tok'[p][c] <= tok[p][c]
          OBVIOUS
        <5>1. tok[p][c] \in Nat
          BY <4>6
        <5>2. tok'[p][c] = tok[p][c] \/ tok'[p][c] = 0
          BY <4>3
        <5> QED BY ONLY <5>1, <5>2
      <4>8. \A q \in Procs \ {p}, c \in Buckets :
              tok'[q][c] \in Nat /\ tok'[q][c] <= tok[q][c]
        BY <4>4, <4>6
      <4>9. \A q \in Procs, c \in Buckets :
              tok'[q][c] \in Nat /\ tok'[q][c] <= tok[q][c]
        BY <4>7, <4>8
      <4> QED BY <4>5, <4>6, <4>9
    <3>5. CASE ver[p] < active[cur[p]]
      <4>1. UNCHANGED <<active, latest, shownBorn>>
        BY <1>14, <2>2, <3>1, <3>5 DEF ActivateSnapshotVersion, Fenced, redisVars
      <4>2. tok'[p] = tok[p] \/ tok'[p] = NoTokens
        BY <3>3 DEF DonePointwise
      <4>3. \A c \in Buckets : tok'[p][c] = tok[p][c] \/ tok'[p][c] = 0
        BY <4>2
      <4>4. \A q \in Procs \ {p} : tok'[q] = tok[q]
        BY <3>3 DEF DonePointwise
      <4>5. UNCHANGED <<epoch, retired>>
        BY <3>1
      <4>6. \A q \in Procs, c \in Buckets : tok[q][c] \in Nat /\ epoch[c] \in Nat
        OBVIOUS
      <4>7. \A c \in Buckets : tok'[p][c] \in Nat /\ tok'[p][c] <= tok[p][c]
        <5> SUFFICES ASSUME NEW c \in Buckets
                     PROVE  tok'[p][c] \in Nat /\ tok'[p][c] <= tok[p][c]
          OBVIOUS
        <5>1. tok[p][c] \in Nat
          BY <4>6
        <5>2. tok'[p][c] = tok[p][c] \/ tok'[p][c] = 0
          BY <4>3
        <5> QED BY ONLY <5>1, <5>2
      <4>8. \A q \in Procs \ {p}, c \in Buckets :
              tok'[q][c] \in Nat /\ tok'[q][c] <= tok[q][c]
        BY <4>4, <4>6
      <4>9. \A q \in Procs, c \in Buckets :
              tok'[q][c] \in Nat /\ tok'[q][c] <= tok[q][c]
        BY <4>7, <4>8
      <4> QED BY <4>5, <4>6, <4>9
    <3> QED BY <3>1, <3>4, <3>5
  <2> QED BY <2>1, <2>2
<1>15. ASSUME NEW p \in Procs, Fail(p)
      PROVE  FenceInv'
  BY <1>15, <1>0, FailEffect
<1>16. ASSUME LeaseExpires
      PROVE  FenceInv'
  BY <1>16 DEF LeaseExpires, Working, redisVars, procVars
<1>17. CASE UNCHANGED vars
  BY <1>17 DEF vars, redisVars, procVars
<1> QED BY <1>1, <1>2, <1>3, <1>4, <1>5, <1>6, <1>7, <1>8, <1>9, <1>10,
   <1>11, <1>12, <1>13, <1>14, <1>15, <1>16, <1>17 DEF Next, Step

\* Epochs never fall, so what was read under a token stays between it and the
\* epoch.
LEMMA HoldStep == TypeOK /\ FenceInv /\ HoldInv /\ [Next]_vars => HoldInv'
<1> SUFFICES ASSUME TypeOK, FenceInv, HoldInv, [Next]_vars
             PROVE  HoldInv'
  OBVIOUS
<1> USE BucketAssumption DEF TypeOK, FenceInv, HoldInv, NoTokens, NotRead
<1>0. ASSUME NEW p \in Procs, GivenUp(p)
      PROVE  HoldInv'
  <2>1. DonePointwise(p)
    BY <1>0, BucketDonePointwise DEF GivenUp
  <2> QED BY <1>0, <2>1 DEF GivenUp, DonePointwise, redisVars
<1>1. ASSUME ChangeGroup
      PROVE  HoldInv'
  BY <1>1 DEF ChangeGroup, redisVars, procVars
<1>2. ASSUME EnqueueGroupChanged
      PROVE  HoldInv'
  BY <1>2 DEF EnqueueGroupChanged, redisVars, procVars
<1>3. ASSUME NEW p \in Procs, Poll(p)
      PROVE  HoldInv'
  BY <1>3 DEF Poll, Goto, redisVars, procVars
<1>4. ASSUME NEW p \in Procs, Refresh(p)
      PROVE  HoldInv'
  BY <1>4 DEF Refresh, Goto, redisVars, procVars
<1>5. ASSUME NEW p \in Procs, TryAcquireGroupLifecycleLease(p)
      PROVE  HoldInv'
  <2>1. CASE lease = None
    <3>1. /\ lease' = p /\ pc[p] = "lease" /\ pc' = [pc EXCEPT ![p] = "read"]
          /\ UNCHANGED <<group, announced, consumed, redisVars, mark,
                         plan, todo, tok, cur, born, ver, faults>>
      BY <1>5, <2>1 DEF TryAcquireGroupLifecycleLease, Goto
    <3> QED BY <2>1, <3>1 DEF redisVars
  <2>2. CASE lease # None
    <3>1. Stop(p) /\ UNCHANGED <<group, announced, consumed, lease, redisVars, faults>>
      BY <1>5, <2>2 DEF TryAcquireGroupLifecycleLease
    <3>2. DoneEffect(p) /\ pc'[p] = "idle"
      BY <3>1, StopEffect DEF Stop, Goto, TypeOK
    <3> QED BY <3>1, <3>2, <1>0 DEF GivenUp, TypeOK
  <2> QED BY <2>1, <2>2
<1>6. ASSUME NEW p \in Procs, ReadGroup(p)
      PROVE  HoldInv'
  BY <1>6 DEF ReadGroup, Goto, redisVars, procVars
<1>7. ASSUME NEW p \in Procs, NEW b \in Buckets, Retire(p, b)
      PROVE  HoldInv'
  BY <1>7 DEF Retire, Turn, redisVars, procVars
<1>8. ASSUME NEW p \in Procs, NEW b \in Buckets, Reopen(p, b)
      PROVE  HoldInv'
  BY <1>8 DEF Reopen, Turn, redisVars, procVars
<1>9. ASSUME NEW p \in Procs, ReleaseGroupLifecycleLease(p)
      PROVE  HoldInv'
  <2>1. CASE lease = p
    <3>1. /\ pc[p] = "apply" /\ todo[p] = {} /\ lease' = None
          /\ UNCHANGED <<group, announced, consumed, redisVars, mark,
                         plan, tok, cur, born, ver, faults>>
      BY <1>9, <2>1 DEF ReleaseGroupLifecycleLease
    <3>2. CASE Active(plan[p])
      <4>1. /\ pc' = [pc EXCEPT ![p] = "load"]
            /\ todo' = [todo EXCEPT ![p] = Buckets]
        BY <1>9, <2>1, <3>2 DEF ReleaseGroupLifecycleLease, Goto
      <4> QED BY <3>1, <3>2, <4>1 DEF redisVars
    <3>3. CASE ~ Active(plan[p])
      <4>1. /\ pc' = [pc EXCEPT ![p] = "mark"]
            /\ todo' = [todo EXCEPT ![p] = {}]
        BY <1>9, <2>1, <3>3 DEF ReleaseGroupLifecycleLease, Goto
      <4> QED BY <3>1, <3>3, <4>1 DEF redisVars
    <3> QED BY <3>2, <3>3
  <2>2. CASE lease # p
    <3>1. Stop(p) /\ UNCHANGED <<group, announced, consumed, lease, redisVars, faults>>
      BY <1>9, <2>2 DEF ReleaseGroupLifecycleLease
    <3>2. DoneEffect(p) /\ pc'[p] = "idle"
      BY <3>1, StopEffect DEF Stop, Goto, TypeOK
    <3> QED BY <3>1, <3>2, <1>0 DEF GivenUp, TypeOK
  <2> QED BY <2>1, <2>2
<1>10. ASSUME NEW p \in Procs, SetWatermark(p)
      PROVE  HoldInv'
  BY <1>10 DEF SetWatermark, Stop, Forget, Goto, redisVars, procVars
<1>11. ASSUME NEW p \in Procs, NEW b \in Buckets, CaptureBucketWriteToken(p, b)
      PROVE  HoldInv'
  BY <1>11 DEF CaptureBucketWriteToken, Goto, redisVars, procVars
<1>12. ASSUME NEW p \in Procs, NEW b \in Buckets, LoadAccounts(p, b)
      PROVE  HoldInv'
  <2>1. CASE GivenUp(p)
    BY <2>1, <1>0
  <2>2. CASE ReadEffect(p, b)
    <3>1. /\ pc[p] = "load" /\ pc'[p] = "allocate" /\ cur'[p] = b /\ b \in todo[p]
          /\ UNCHANGED <<todo, tok, epoch, plan>>
      BY <2>2 DEF ReadEffect, redisVars
    <3>2. \A q \in Procs \ {p} :
            pc'[q] = pc[q] /\ cur'[q] = cur[q] /\ born'[q] = born[q]
      BY <2>2 DEF ReadEffect
    <3>3. \A c \in todo[p] : /\ c \in Buckets /\ tok[p][c] > 0 /\ tok[p][c] <= epoch[c]
                             /\ tok[p][c] \in Nat /\ epoch[c] \in Nat
      BY <3>1
    <3>4. \A c \in todo[p] : born'[p][c] # 0 =>
            tok[p][c] <= born'[p][c] /\ born'[p][c] <= epoch[c]
      <4> SUFFICES ASSUME NEW c \in todo[p], born'[p][c] # 0
                   PROVE  tok[p][c] <= born'[p][c] /\ born'[p][c] <= epoch[c]
        OBVIOUS
      <4>1. c \in Buckets /\ born'[p][c] \in {born[p][c], epoch[c]}
        BY <2>2, <3>3 DEF ReadEffect
      <4> QED BY <3>1, <3>3, <4>1
    <3>5. born'[p][b] # 0
      BY <2>2, <3>1, <3>3 DEF ReadEffect
    <3> QED BY <3>1, <3>2, <3>3, <3>4, <3>5
  <2> QED BY <1>12, <2>1, <2>2, LoadEffect
<1>13. ASSUME NEW p \in Procs, AllocateSnapshotVersion(p)
      PROVE  HoldInv'
  <2>1. CASE Admitted(p)
    <3>1. /\ pc[p] = "allocate" /\ pc' = [pc EXCEPT ![p] = "activate"]
          /\ version' = [version EXCEPT ![cur[p]] = @ + 1]
          /\ ver' = [ver EXCEPT ![p] = version[cur[p]] + 1]
          /\ UNCHANGED <<group, announced, consumed, lease, epoch, retired, active,
                         decided, latest, shownBorn, mark, plan, todo, tok, cur,
                         born, faults>>
      BY <1>13, <2>1 DEF AllocateSnapshotVersion, Fenced, Goto
    <3>2. cur[p] \in Buckets /\ version[cur[p]] \in Nat
      OBVIOUS
    <3> QED BY <2>1, <3>1, <3>2 DEF Admitted
  <2>2. CASE ~ Admitted(p)
    <3>1. GiveUp(p, cur[p]) /\ pc[p] = "allocate"
          /\ UNCHANGED <<group, announced, consumed, lease, redisVars, faults>>
      BY <1>13, <2>2 DEF AllocateSnapshotVersion, Fenced
    <3> QED BY <3>1, <1>0, GiveUpEffect DEF GivenUp, TypeOK
  <2> QED BY <2>1, <2>2
<1>14. ASSUME NEW p \in Procs, ActivateSnapshotVersion(p)
      PROVE  HoldInv'
  <2>1. CASE ~ Admitted(p)
    <3>1. GiveUp(p, cur[p]) /\ pc[p] = "activate"
          /\ UNCHANGED <<group, announced, consumed, lease, redisVars, faults>>
      BY <1>14, <2>1 DEF ActivateSnapshotVersion, Fenced
    <3> QED BY <3>1, <1>0, GiveUpEffect DEF GivenUp, TypeOK
  <2>2. CASE Admitted(p)
    <3>1. /\ pc[p] = "activate" /\ cur[p] \in Buckets
          /\ ver[p] \in Nat /\ active[cur[p]] \in Nat
          /\ UNCHANGED <<group, announced, consumed, lease, epoch, retired,
                         version, decided, faults>>
      BY <1>14, <2>2 DEF ActivateSnapshotVersion, Fenced, redisVars
    <3>2. DoneEffect(p)
      BY <1>14, <2>2, BucketDoneEffect DEF ActivateSnapshotVersion, Fenced
    <3>3. DonePointwise(p)
      BY <3>2, BucketDonePointwise
    <3>4. CASE ver[p] >= active[cur[p]]
      <4>1. /\ active' = [active EXCEPT ![cur[p]] = ver[p]]
            /\ latest' = [latest EXCEPT ![cur[p]] = ver[p]]
            /\ shownBorn' = [shownBorn EXCEPT ![cur[p]] = born[p][cur[p]]]
        BY <1>14, <2>2, <3>1, <3>4 DEF ActivateSnapshotVersion, Fenced
      <4>2. /\ pc[p] = "activate" /\ epoch' = epoch /\ \A q \in Procs : todo[q] \subseteq Buckets
        BY <3>1
      <4>3. ASSUME NEW q \in Procs, q # p
            PROVE  /\ pc'[q] = pc[q] /\ todo'[q] = todo[q] /\ tok'[q] = tok[q]
                   /\ born'[q] = born[q] /\ plan'[q] = plan[q] /\ cur'[q] = cur[q]
        BY <4>3, <3>3 DEF DonePointwise
      <4>4. /\ pc'[p] \in {"idle", "mark", "load"} /\ todo'[p] \subseteq todo[p]
            /\ pc'[p] = "idle" => born'[p] = NotRead
            /\ pc'[p] = "load" => tok'[p] = tok[p]
            /\ born'[p] = born[p] \/ born'[p] = NotRead
        BY <3>3 DEF DonePointwise
      <4>5. \A c \in todo'[p] : born'[p][c] = born[p][c] \/ born'[p][c] = 0
        BY <4>2, <4>4
      <4> QED BY <4>2, <4>3, <4>4, <4>5
    <3>5. CASE ver[p] < active[cur[p]]
      <4>1. UNCHANGED <<active, latest, shownBorn>>
        BY <1>14, <2>2, <3>1, <3>5 DEF ActivateSnapshotVersion, Fenced, redisVars
      <4>2. /\ pc[p] = "activate" /\ epoch' = epoch /\ \A q \in Procs : todo[q] \subseteq Buckets
        BY <3>1
      <4>3. ASSUME NEW q \in Procs, q # p
            PROVE  /\ pc'[q] = pc[q] /\ todo'[q] = todo[q] /\ tok'[q] = tok[q]
                   /\ born'[q] = born[q] /\ plan'[q] = plan[q] /\ cur'[q] = cur[q]
        BY <4>3, <3>3 DEF DonePointwise
      <4>4. /\ pc'[p] \in {"idle", "mark", "load"} /\ todo'[p] \subseteq todo[p]
            /\ pc'[p] = "idle" => born'[p] = NotRead
            /\ pc'[p] = "load" => tok'[p] = tok[p]
            /\ born'[p] = born[p] \/ born'[p] = NotRead
        BY <3>3 DEF DonePointwise
      <4>5. \A c \in todo'[p] : born'[p][c] = born[p][c] \/ born'[p][c] = 0
        BY <4>2, <4>4
      <4> QED BY <4>2, <4>3, <4>4, <4>5
    <3> QED BY <3>1, <3>4, <3>5
  <2> QED BY <2>1, <2>2
<1>15. ASSUME NEW p \in Procs, Fail(p)
      PROVE  HoldInv'
  BY <1>15, <1>0, FailEffect
<1>16. ASSUME LeaseExpires
      PROVE  HoldInv'
  BY <1>16 DEF LeaseExpires, Working, redisVars, procVars
<1>17. CASE UNCHANGED vars
  BY <1>17 DEF vars, redisVars, procVars
<1> QED BY <1>1, <1>2, <1>3, <1>4, <1>5, <1>6, <1>7, <1>8, <1>9, <1>10,
   <1>11, <1>12, <1>13, <1>14, <1>15, <1>16, <1>17 DEF Next, Step

\* The second check of the token leaves one epoch for the token, the read and
\* the bucket.
LEMMA ShownStep == TypeOK /\ FenceInv /\ HoldInv /\ ShownInv /\ [Next]_vars
   => ShownInv'
<1> SUFFICES ASSUME TypeOK, FenceInv, HoldInv, ShownInv, [Next]_vars
             PROVE  ShownInv'
  OBVIOUS
<1> USE BucketAssumption DEF TypeOK, FenceInv, HoldInv, ShownInv, NoTokens
<1>0. ASSUME NEW p \in Procs, GivenUp(p)
      PROVE  ShownInv'
  <2>1. DonePointwise(p)
    BY <1>0, BucketDonePointwise DEF GivenUp
  <2> QED BY <1>0, <2>1 DEF GivenUp, DonePointwise, redisVars
<1>1. ASSUME ChangeGroup
      PROVE  ShownInv'
  BY <1>1 DEF ChangeGroup, redisVars, procVars
<1>2. ASSUME EnqueueGroupChanged
      PROVE  ShownInv'
  BY <1>2 DEF EnqueueGroupChanged, redisVars, procVars
<1>3. ASSUME NEW p \in Procs, Poll(p)
      PROVE  ShownInv'
  BY <1>3 DEF Poll, Goto, redisVars, procVars
<1>4. ASSUME NEW p \in Procs, Refresh(p)
      PROVE  ShownInv'
  BY <1>4 DEF Refresh, Goto, redisVars, procVars
<1>5. ASSUME NEW p \in Procs, TryAcquireGroupLifecycleLease(p)
      PROVE  ShownInv'
  <2>1. CASE lease = None
    <3>1. /\ lease' = p /\ pc[p] = "lease" /\ pc' = [pc EXCEPT ![p] = "read"]
          /\ UNCHANGED <<group, announced, consumed, redisVars, mark,
                         plan, todo, tok, cur, born, ver, faults>>
      BY <1>5, <2>1 DEF TryAcquireGroupLifecycleLease, Goto
    <3> QED BY <2>1, <3>1 DEF redisVars
  <2>2. CASE lease # None
    <3>1. Stop(p) /\ UNCHANGED <<group, announced, consumed, lease, redisVars, faults>>
      BY <1>5, <2>2 DEF TryAcquireGroupLifecycleLease
    <3>2. DoneEffect(p) /\ pc'[p] = "idle"
      BY <3>1, StopEffect DEF Stop, Goto, TypeOK
    <3> QED BY <3>1, <3>2, <1>0 DEF GivenUp, TypeOK
  <2> QED BY <2>1, <2>2
<1>6. ASSUME NEW p \in Procs, ReadGroup(p)
      PROVE  ShownInv'
  BY <1>6 DEF ReadGroup, Goto, redisVars, procVars
<1>7. ASSUME NEW p \in Procs, NEW b \in Buckets, Retire(p, b)
      PROVE  ShownInv'
  BY <1>7 DEF Retire, Turn, redisVars, procVars
<1>8. ASSUME NEW p \in Procs, NEW b \in Buckets, Reopen(p, b)
      PROVE  ShownInv'
  BY <1>8 DEF Reopen, Turn, redisVars, procVars
<1>9. ASSUME NEW p \in Procs, ReleaseGroupLifecycleLease(p)
      PROVE  ShownInv'
  <2>1. CASE lease = p
    <3>1. /\ pc[p] = "apply" /\ todo[p] = {} /\ lease' = None
          /\ UNCHANGED <<group, announced, consumed, redisVars, mark,
                         plan, tok, cur, born, ver, faults>>
      BY <1>9, <2>1 DEF ReleaseGroupLifecycleLease
    <3>2. CASE Active(plan[p])
      <4>1. /\ pc' = [pc EXCEPT ![p] = "load"]
            /\ todo' = [todo EXCEPT ![p] = Buckets]
        BY <1>9, <2>1, <3>2 DEF ReleaseGroupLifecycleLease, Goto
      <4> QED BY <3>1, <3>2, <4>1 DEF redisVars
    <3>3. CASE ~ Active(plan[p])
      <4>1. /\ pc' = [pc EXCEPT ![p] = "mark"]
            /\ todo' = [todo EXCEPT ![p] = {}]
        BY <1>9, <2>1, <3>3 DEF ReleaseGroupLifecycleLease, Goto
      <4> QED BY <3>1, <3>3, <4>1 DEF redisVars
    <3> QED BY <3>2, <3>3
  <2>2. CASE lease # p
    <3>1. Stop(p) /\ UNCHANGED <<group, announced, consumed, lease, redisVars, faults>>
      BY <1>9, <2>2 DEF ReleaseGroupLifecycleLease
    <3>2. DoneEffect(p) /\ pc'[p] = "idle"
      BY <3>1, StopEffect DEF Stop, Goto, TypeOK
    <3> QED BY <3>1, <3>2, <1>0 DEF GivenUp, TypeOK
  <2> QED BY <2>1, <2>2
<1>10. ASSUME NEW p \in Procs, SetWatermark(p)
      PROVE  ShownInv'
  BY <1>10 DEF SetWatermark, Stop, Forget, Goto, redisVars, procVars
<1>11. ASSUME NEW p \in Procs, NEW b \in Buckets, CaptureBucketWriteToken(p, b)
      PROVE  ShownInv'
  BY <1>11 DEF CaptureBucketWriteToken, Goto, redisVars, procVars
<1>12. ASSUME NEW p \in Procs, NEW b \in Buckets, LoadAccounts(p, b)
      PROVE  ShownInv'
  <2>1. CASE GivenUp(p)
    BY <2>1, <1>0
  <2>2. CASE ReadEffect(p, b)
    BY <2>2 DEF ReadEffect, redisVars
  <2> QED BY <1>12, <2>1, <2>2, LoadEffect
<1>13. ASSUME NEW p \in Procs, AllocateSnapshotVersion(p)
      PROVE  ShownInv'
  <2>1. CASE Admitted(p)
    <3>1. /\ pc[p] = "allocate" /\ pc' = [pc EXCEPT ![p] = "activate"]
          /\ version' = [version EXCEPT ![cur[p]] = @ + 1]
          /\ ver' = [ver EXCEPT ![p] = version[cur[p]] + 1]
          /\ UNCHANGED <<group, announced, consumed, lease, epoch, retired, active,
                         decided, latest, shownBorn, mark, plan, todo, tok, cur,
                         born, faults>>
      BY <1>13, <2>1 DEF AllocateSnapshotVersion, Fenced, Goto
    <3>2. cur[p] \in Buckets /\ version[cur[p]] \in Nat
      OBVIOUS
    <3> QED BY <2>1, <3>1, <3>2 DEF Admitted
  <2>2. CASE ~ Admitted(p)
    <3>1. GiveUp(p, cur[p]) /\ pc[p] = "allocate"
          /\ UNCHANGED <<group, announced, consumed, lease, redisVars, faults>>
      BY <1>13, <2>2 DEF AllocateSnapshotVersion, Fenced
    <3> QED BY <3>1, <1>0, GiveUpEffect DEF GivenUp, TypeOK
  <2> QED BY <2>1, <2>2
<1>14. ASSUME NEW p \in Procs, ActivateSnapshotVersion(p)
      PROVE  ShownInv'
  <2>1. CASE ~ Admitted(p)
    <3>1. GiveUp(p, cur[p]) /\ pc[p] = "activate"
          /\ UNCHANGED <<group, announced, consumed, lease, redisVars, faults>>
      BY <1>14, <2>1 DEF ActivateSnapshotVersion, Fenced
    <3> QED BY <3>1, <1>0, GiveUpEffect DEF GivenUp, TypeOK
  <2>2. CASE Admitted(p)
    <3>1. /\ pc[p] = "activate" /\ cur[p] \in Buckets
          /\ ver[p] \in Nat /\ active[cur[p]] \in Nat
          /\ UNCHANGED <<group, announced, consumed, lease, epoch, retired,
                         version, decided, faults>>
      BY <1>14, <2>2 DEF ActivateSnapshotVersion, Fenced, redisVars
    <3>2. DoneEffect(p)
      BY <1>14, <2>2, BucketDoneEffect DEF ActivateSnapshotVersion, Fenced
    <3>3. DonePointwise(p)
      BY <3>2, BucketDonePointwise
    <3>4. CASE ver[p] >= active[cur[p]]
      <4>1. /\ active' = [active EXCEPT ![cur[p]] = ver[p]]
            /\ latest' = [latest EXCEPT ![cur[p]] = ver[p]]
            /\ shownBorn' = [shownBorn EXCEPT ![cur[p]] = born[p][cur[p]]]
        BY <1>14, <2>2, <3>1, <3>4 DEF ActivateSnapshotVersion, Fenced
      <4>2. /\ retired[cur[p]] = 0 /\ tok[p][cur[p]] = epoch[cur[p]]
            /\ cur[p] \in todo[p]
        BY <2>2, <3>1 DEF Admitted
      <4>3. tok[p][cur[p]] > 0
        BY <3>1, <4>2
      <4>4. tok[p][cur[p]] <= born[p][cur[p]] /\ born[p][cur[p]] <= epoch[cur[p]]
        BY <3>1
      <4>5. born[p][cur[p]] \in Nat /\ epoch[cur[p]] \in Nat
        BY <3>1
      <4>6. born[p][cur[p]] = epoch[cur[p]] /\ epoch[cur[p]] > 0
        BY ONLY <4>2, <4>3, <4>4, <4>5
      <4> QED BY <3>1, <4>1, <4>2, <4>6
    <3>5. CASE ver[p] < active[cur[p]]
      <4>1. UNCHANGED <<active, latest, shownBorn>>
        BY <1>14, <2>2, <3>1, <3>5 DEF ActivateSnapshotVersion, Fenced, redisVars
      <4> QED BY <2>2, <3>1, <3>3, <3>5, <4>1 DEF DonePointwise, Admitted
    <3> QED BY <3>1, <3>4, <3>5
  <2> QED BY <2>1, <2>2
<1>15. ASSUME NEW p \in Procs, Fail(p)
      PROVE  ShownInv'
  BY <1>15, <1>0, FailEffect
<1>16. ASSUME LeaseExpires
      PROVE  ShownInv'
  BY <1>16 DEF LeaseExpires, Working, redisVars, procVars
<1>17. CASE UNCHANGED vars
  BY <1>17 DEF vars, redisVars, procVars
<1> QED BY <1>1, <1>2, <1>3, <1>4, <1>5, <1>6, <1>7, <1>8, <1>9, <1>10,
   <1>11, <1>12, <1>13, <1>14, <1>15, <1>16, <1>17 DEF Next, Step

\* A version of an earlier life of the bucket is never admitted; one of this
\* life is above those of the earlier ones.
LEMMA VersionStep == TypeOK /\ FenceInv /\ ShownInv /\ VersionInv /\
   [Next]_vars => VersionInv'
<1> SUFFICES ASSUME TypeOK, FenceInv, ShownInv, VersionInv, [Next]_vars
             PROVE  VersionInv'
  OBVIOUS
<1> USE BucketAssumption DEF TypeOK, FenceInv, ShownInv, VersionInv,
   NoTokens, Admitted
<1>0. ASSUME NEW p \in Procs, GivenUp(p)
      PROVE  VersionInv'
  <2>1. DonePointwise(p)
    BY <1>0, BucketDonePointwise DEF GivenUp
  <2>2. \A q \in Procs : pc'[q] = "activate" =>
          /\ q # p /\ pc[q] = "activate" /\ ver'[q] = ver[q]
          /\ cur'[q] = cur[q] /\ cur[q] \in Buckets
          /\ tok'[q] = tok[q]
    BY <2>1 DEF DonePointwise
  <2>3. UNCHANGED <<epoch, retired, version, active, latest>>
    BY <1>0 DEF GivenUp, redisVars
  <2> QED BY <2>2, <2>3 DEF Admitted
<1>1. ASSUME ChangeGroup
      PROVE  VersionInv'
  BY <1>1 DEF ChangeGroup, redisVars, procVars
<1>2. ASSUME EnqueueGroupChanged
      PROVE  VersionInv'
  BY <1>2 DEF EnqueueGroupChanged, redisVars, procVars
<1>3. ASSUME NEW p \in Procs, Poll(p)
      PROVE  VersionInv'
  BY <1>3 DEF Poll, Goto, redisVars, procVars
<1>4. ASSUME NEW p \in Procs, Refresh(p)
      PROVE  VersionInv'
  BY <1>4 DEF Refresh, Goto, redisVars, procVars
<1>5. ASSUME NEW p \in Procs, TryAcquireGroupLifecycleLease(p)
      PROVE  VersionInv'
  <2>1. CASE lease = None
    <3>1. /\ lease' = p /\ pc[p] = "lease" /\ pc' = [pc EXCEPT ![p] = "read"]
          /\ UNCHANGED <<group, announced, consumed, redisVars, mark,
                         plan, todo, tok, cur, born, ver, faults>>
      BY <1>5, <2>1 DEF TryAcquireGroupLifecycleLease, Goto
    <3> QED BY <2>1, <3>1 DEF redisVars
  <2>2. CASE lease # None
    <3>1. Stop(p) /\ UNCHANGED <<group, announced, consumed, lease, redisVars, faults>>
      BY <1>5, <2>2 DEF TryAcquireGroupLifecycleLease
    <3>2. DoneEffect(p) /\ pc'[p] = "idle"
      BY <3>1, StopEffect DEF Stop, Goto, TypeOK
    <3> QED BY <3>1, <3>2, <1>0 DEF GivenUp, TypeOK
  <2> QED BY <2>1, <2>2
<1>6. ASSUME NEW p \in Procs, ReadGroup(p)
      PROVE  VersionInv'
  BY <1>6 DEF ReadGroup, Goto, redisVars, procVars
<1>7. ASSUME NEW p \in Procs, NEW b \in Buckets, Retire(p, b)
      PROVE  VersionInv'
  BY <1>7 DEF Retire, Turn, redisVars, procVars
<1>8. ASSUME NEW p \in Procs, NEW b \in Buckets, Reopen(p, b)
      PROVE  VersionInv'
  BY <1>8 DEF Reopen, Turn, redisVars, procVars
<1>9. ASSUME NEW p \in Procs, ReleaseGroupLifecycleLease(p)
      PROVE  VersionInv'
  <2>1. CASE lease = p
    <3>1. /\ pc[p] = "apply" /\ todo[p] = {} /\ lease' = None
          /\ UNCHANGED <<group, announced, consumed, redisVars, mark,
                         plan, tok, cur, born, ver, faults>>
      BY <1>9, <2>1 DEF ReleaseGroupLifecycleLease
    <3>2. CASE Active(plan[p])
      <4>1. /\ pc' = [pc EXCEPT ![p] = "load"]
            /\ todo' = [todo EXCEPT ![p] = Buckets]
        BY <1>9, <2>1, <3>2 DEF ReleaseGroupLifecycleLease, Goto
      <4> QED BY <3>1, <3>2, <4>1 DEF redisVars
    <3>3. CASE ~ Active(plan[p])
      <4>1. /\ pc' = [pc EXCEPT ![p] = "mark"]
            /\ todo' = [todo EXCEPT ![p] = {}]
        BY <1>9, <2>1, <3>3 DEF ReleaseGroupLifecycleLease, Goto
      <4> QED BY <3>1, <3>3, <4>1 DEF redisVars
    <3> QED BY <3>2, <3>3
  <2>2. CASE lease # p
    <3>1. Stop(p) /\ UNCHANGED <<group, announced, consumed, lease, redisVars, faults>>
      BY <1>9, <2>2 DEF ReleaseGroupLifecycleLease
    <3>2. DoneEffect(p) /\ pc'[p] = "idle"
      BY <3>1, StopEffect DEF Stop, Goto, TypeOK
    <3> QED BY <3>1, <3>2, <1>0 DEF GivenUp, TypeOK
  <2> QED BY <2>1, <2>2
<1>10. ASSUME NEW p \in Procs, SetWatermark(p)
      PROVE  VersionInv'
  BY <1>10 DEF SetWatermark, Stop, Forget, Goto, redisVars, procVars
<1>11. ASSUME NEW p \in Procs, NEW b \in Buckets, CaptureBucketWriteToken(p, b)
      PROVE  VersionInv'
  BY <1>11 DEF CaptureBucketWriteToken, Goto, redisVars, procVars
<1>12. ASSUME NEW p \in Procs, NEW b \in Buckets, LoadAccounts(p, b)
      PROVE  VersionInv'
  <2>1. CASE GivenUp(p)
    BY <2>1, <1>0
  <2>2. CASE ReadEffect(p, b)
    BY <2>2 DEF ReadEffect, redisVars
  <2> QED BY <1>12, <2>1, <2>2, LoadEffect
<1>13. ASSUME NEW p \in Procs, AllocateSnapshotVersion(p)
      PROVE  VersionInv'
  <2>1. CASE Admitted(p)
    <3>1. /\ pc[p] = "allocate" /\ pc' = [pc EXCEPT ![p] = "activate"]
          /\ version' = [version EXCEPT ![cur[p]] = @ + 1]
          /\ ver' = [ver EXCEPT ![p] = version[cur[p]] + 1]
          /\ UNCHANGED <<group, announced, consumed, lease, epoch, retired, active,
                         decided, latest, shownBorn, mark, plan, todo, tok, cur,
                         born, faults>>
      BY <1>13, <2>1 DEF AllocateSnapshotVersion, Fenced, Goto
    <3>2. cur[p] \in Buckets /\ version[cur[p]] \in Nat
      OBVIOUS
    <3> QED BY <2>1, <3>1, <3>2 DEF Admitted
  <2>2. CASE ~ Admitted(p)
    <3>1. GiveUp(p, cur[p]) /\ pc[p] = "allocate"
          /\ UNCHANGED <<group, announced, consumed, lease, redisVars, faults>>
      BY <1>13, <2>2 DEF AllocateSnapshotVersion, Fenced
    <3> QED BY <3>1, <1>0, GiveUpEffect DEF GivenUp, TypeOK
  <2> QED BY <2>1, <2>2
<1>14. ASSUME NEW p \in Procs, ActivateSnapshotVersion(p)
      PROVE  VersionInv'
  <2>1. CASE ~ Admitted(p)
    <3>1. GiveUp(p, cur[p]) /\ pc[p] = "activate"
          /\ UNCHANGED <<group, announced, consumed, lease, redisVars, faults>>
      BY <1>14, <2>1 DEF ActivateSnapshotVersion, Fenced
    <3> QED BY <3>1, <1>0, GiveUpEffect DEF GivenUp, TypeOK
  <2>2. CASE Admitted(p)
    <3>1. /\ pc[p] = "activate" /\ cur[p] \in Buckets
          /\ ver[p] \in Nat /\ active[cur[p]] \in Nat
          /\ UNCHANGED <<group, announced, consumed, lease, epoch, retired,
                         version, decided, faults>>
      BY <1>14, <2>2 DEF ActivateSnapshotVersion, Fenced, redisVars
    <3>2. DoneEffect(p)
      BY <1>14, <2>2, BucketDoneEffect DEF ActivateSnapshotVersion, Fenced
    <3>3. DonePointwise(p)
      BY <3>2, BucketDonePointwise
    <3>4. CASE ver[p] >= active[cur[p]]
      <4>1. /\ active' = [active EXCEPT ![cur[p]] = ver[p]]
            /\ latest' = [latest EXCEPT ![cur[p]] = ver[p]]
            /\ shownBorn' = [shownBorn EXCEPT ![cur[p]] = born[p][cur[p]]]
        BY <1>14, <2>2, <3>1, <3>4 DEF ActivateSnapshotVersion, Fenced
      <4>2. \A q \in Procs : pc'[q] = "activate" =>
              /\ q # p /\ pc[q] = "activate" /\ ver'[q] = ver[q]
              /\ cur'[q] = cur[q] /\ cur[q] \in Buckets
              /\ tok'[q] = tok[q]
        BY <3>3 DEF DonePointwise
      <4>3. \A c \in Buckets :
              /\ latest'[c] <= version'[c] /\ active'[c] \in {0, latest'[c]}
              /\ c # cur[p] => active'[c] = active[c] /\ latest'[c] = latest[c]
        BY <3>1, <4>1
      <4>4. latest'[cur[p]] = ver[p] /\ active'[cur[p]] = ver[p] /\ ver[p] # 0
        BY <3>1, <4>1
      <4>5. ASSUME NEW q \in Procs, pc'[q] = "activate"
            PROVE  /\ ver'[q] <= version'[cur'[q]]
                   /\ ver'[q] # latest'[cur'[q]]
                   /\ Admitted(q)' /\ active'[cur'[q]] = 0 => ver'[q] > latest'[cur'[q]]
        <5>1. CASE cur[q] = cur[p]
          BY <3>1, <4>2, <4>4, <4>5, <5>1
        <5>2. CASE cur[q] # cur[p]
          <6>1. Admitted(q)' => Admitted(q)
            BY <3>1, <4>2, <4>5 DEF Admitted
          <6> QED BY <3>1, <4>2, <4>3, <4>5, <5>2, <6>1
        <5> QED BY <5>1, <5>2
      <4>6. \A q, r \in Procs :
              pc'[q] = "activate" /\ pc'[r] = "activate" /\ q # r /\ cur'[q] = cur'[r]
                  => ver'[q] # ver'[r]
        BY <4>2
      <4> QED BY <4>3, <4>5, <4>6
    <3>5. CASE ver[p] < active[cur[p]]
      <4>1. UNCHANGED <<active, latest, shownBorn>>
        BY <1>14, <2>2, <3>1, <3>5 DEF ActivateSnapshotVersion, Fenced, redisVars
      <4>2. \A q \in Procs : pc'[q] = "activate" =>
              /\ q # p /\ pc[q] = "activate" /\ ver'[q] = ver[q]
              /\ cur'[q] = cur[q] /\ cur[q] \in Buckets
              /\ tok'[q] = tok[q]
        BY <3>3 DEF DonePointwise
      <4>3. \A q \in Procs : pc'[q] = "activate" /\ Admitted(q)' => Admitted(q)
        BY <3>1, <4>2 DEF Admitted
      <4> QED BY <3>1, <4>1, <4>2, <4>3
    <3> QED BY <3>1, <3>4, <3>5
  <2> QED BY <2>1, <2>2
<1>15. ASSUME NEW p \in Procs, Fail(p)
      PROVE  VersionInv'
  BY <1>15, <1>0, FailEffect
<1>16. ASSUME LeaseExpires
      PROVE  VersionInv'
  BY <1>16 DEF LeaseExpires, Working, redisVars, procVars
<1>17. CASE UNCHANGED vars
  BY <1>17 DEF vars, redisVars, procVars
<1> QED BY <1>1, <1>2, <1>3, <1>4, <1>5, <1>6, <1>7, <1>8, <1>9, <1>10,
   <1>11, <1>12, <1>13, <1>14, <1>15, <1>16, <1>17 DEF Next, Step

-----------------------------------------------------------------------------
\* The types hold in every reachable state, for every value of the constants.
THEOREM TypeCorrect == Spec => []TypeOK
<1>1. Init => TypeOK
  BY BucketAssumption DEF Init, TypeOK, States, NoTokens, NotRead
<1> QED BY <1>1, TypeStep, PTL DEF Spec

\* The inductive invariant holds at first.
LEMMA InitIInv == Init => IInv
<1> SUFFICES ASSUME Init
             PROVE  IInv
  OBVIOUS
<1>1. TypeOK
  BY BucketAssumption DEF Init, TypeOK, States, NoTokens, NotRead
<1>2. LeaseInv /\ OrderInv /\ HoldInv
  BY <1>1 DEF Init, LeaseInv, OrderInv, HoldInv, Working, TypeOK, NotRead
<1>3. FenceInv /\ ShownInv /\ VersionInv
  BY <1>1 DEF Init, FenceInv, ShownInv, VersionInv, NoTokens, TypeOK
<1> QED BY <1>1, <1>2, <1>3 DEF IInv

\* The inductive invariant holds in every reachable state.
LEMMA Inductive == Spec => []IInv
<1>1. IInv /\ [Next]_vars => IInv'
  BY TypeStep, LeaseStep, OrderStep, FenceStep, HoldStep, ShownStep, VersionStep DEF IInv
<1> QED BY <1>1, InitIInv, PTL DEF Spec

\* No snapshot that was read before the last retirement of its bucket is ever
\* shown, and nothing is shown while the bucket is retired.
THEOREM ShownIsYoung == Spec => []ShownIsOfThisLife
<1>1. IInv => ShownIsOfThisLife
  BY DEF IInv, ShownInv, ShownIsOfThisLife
<1> QED BY <1>1, Inductive, PTL

-----------------------------------------------------------------------------
(***************************************************************************)
(* The implementation of BucketContract.                                   *)
(***************************************************************************)
\* Every step of the detailed specification is a step of the contract.
LEMMA ContractStep == IInv /\ [Next]_vars => [Contract!Next]_(Contract!vars)
<1> SUFFICES ASSUME IInv, [Next]_vars
             PROVE  Contract!Next \/ UNCHANGED Contract!vars
  OBVIOUS
<1> USE DEF IInv
<1>1. ASSUME NEW p \in Procs, NEW b \in Buckets, Retire(p, b)
      PROVE  Contract!Decide(b)
  <2>1. /\ plan[p] \in Nat /\ decided[b] <= plan[p] /\ ~ Active(plan[p])
        /\ decided' = [decided EXCEPT ![b] = plan[p]] /\ decided'[b] = plan[p]
        /\ active' = [active EXCEPT ![b] = 0] /\ latest' = latest
    BY <1>1 DEF Retire, OrderInv, TypeOK
  <2>2. retired'[b] # 0 /\ \A c \in Buckets \ {b} : retired'[c] = retired[c]
    BY <1>1 DEF Retire, TypeOK
  <2>3. [c \in Buckets |-> retired'[c] = 0]
            = [[c \in Buckets |-> retired[c] = 0] EXCEPT ![b] = FALSE]
    BY <2>2
  <2>4. ~ Contract!Active(decided'[b]) /\ decided'[b] >= decided[b]
    BY <2>1 DEF Active, Contract!Active, TypeOK
  <2>5. Contract!Active(decided'[b]) = FALSE
    BY <2>4 DEF Contract!Active
  <2>6. decided' = [decided EXCEPT ![b] = decided'[b]]
    BY <2>1
  <2> QED BY <2>1, <2>3, <2>4, <2>5, <2>6 DEF Contract!Decide
<1>2. ASSUME NEW p \in Procs, NEW b \in Buckets, Reopen(p, b)
      PROVE  Contract!Decide(b)
  <2>1. /\ plan[p] \in Nat /\ decided[b] <= plan[p] /\ Active(plan[p])
        /\ decided' = [decided EXCEPT ![b] = plan[p]] /\ decided'[b] = plan[p]
        /\ latest' = latest
    BY <1>2 DEF Reopen, OrderInv, TypeOK
  <2>2. retired'[b] = 0 /\ \A c \in Buckets \ {b} : retired'[c] = retired[c]
    BY <1>2 DEF Reopen, TypeOK
  <2>3. [c \in Buckets |-> retired'[c] = 0]
            = [[c \in Buckets |-> retired[c] = 0] EXCEPT ![b] = TRUE]
    BY <2>2
  <2>4. Contract!Active(decided'[b]) /\ decided'[b] >= decided[b]
    BY <2>1 DEF Active, Contract!Active, TypeOK
  <2>5. active' = active
    BY <1>2 DEF Reopen, ShownInv, TypeOK
  <2>6. active = [active EXCEPT ![b] = active[b]]
    BY DEF TypeOK
  <2> QED BY <2>1, <2>3, <2>4, <2>5, <2>6 DEF Contract!Decide
<1>3. ASSUME NEW p \in Procs, ActivateSnapshotVersion(p)
      PROVE  Contract!Show(cur[p]) \/ UNCHANGED Contract!vars
  <2>1. pc[p] = "activate" /\ cur[p] \in Buckets /\ ver[p] \in Nat /\ ver[p] # 0
    BY <1>3 DEF ActivateSnapshotVersion, TypeOK
  <2>2. active[cur[p]] \in Nat /\ latest[cur[p]] \in Nat
    BY <2>1 DEF TypeOK
  <2>3. CASE Admitted(p) /\ ver[p] >= active[cur[p]]
    <3>1. /\ active' = [active EXCEPT ![cur[p]] = ver[p]]
          /\ latest' = [latest EXCEPT ![cur[p]] = ver[p]]
          /\ retired' = retired /\ decided' = decided
      BY <1>3, <2>1, <2>2, <2>3 DEF ActivateSnapshotVersion, Fenced
    <3>2. ver[p] > latest[cur[p]]
      BY <2>1, <2>2, <2>3 DEF VersionInv
    <3>3. latest'[cur[p]] = ver[p]
      BY <2>1, <3>1 DEF TypeOK
    <3>4. retired[cur[p]] = 0
      BY <2>3 DEF Admitted
    <3> QED BY <2>1, <2>2, <3>1, <3>2, <3>3, <3>4 DEF Contract!Show
  <2>4. CASE ~ (Admitted(p) /\ ver[p] >= active[cur[p]])
    <3>1. UNCHANGED redisVars
      BY <1>3, <2>1, <2>2, <2>4 DEF ActivateSnapshotVersion, Fenced
    <3> QED BY <3>1 DEF redisVars, Contract!vars
  <2> QED BY <2>3, <2>4
<1>4. CASE UNCHANGED <<retired, active, latest, decided>>
  BY <1>4 DEF Contract!vars
<1>5. ASSUME ChangeGroup \/ EnqueueGroupChanged \/ LeaseExpires \/ UNCHANGED vars
      PROVE  UNCHANGED <<retired, active, latest, decided>>
  BY <1>5 DEF ChangeGroup, EnqueueGroupChanged, LeaseExpires, vars, redisVars
<1>6. ASSUME NEW p \in Procs,
             \/ Poll(p) \/ Refresh(p) \/ TryAcquireGroupLifecycleLease(p)
             \/ ReadGroup(p) \/ ReleaseGroupLifecycleLease(p)
             \/ SetWatermark(p) \/ AllocateSnapshotVersion(p) \/ Fail(p)
      PROVE  UNCHANGED <<retired, active, latest, decided>>
  BY <1>6 DEF Poll, Refresh, TryAcquireGroupLifecycleLease, ReadGroup,
     ReleaseGroupLifecycleLease, SetWatermark, AllocateSnapshotVersion,
     Fenced, Fail, redisVars
<1>7. ASSUME NEW p \in Procs, NEW b \in Buckets,
             CaptureBucketWriteToken(p, b) \/ LoadAccounts(p, b)
      PROVE  UNCHANGED <<retired, active, latest, decided>>
  BY <1>7 DEF CaptureBucketWriteToken, LoadAccounts, redisVars
<1>8. \A p \in Procs : cur[p] \in Buckets
  BY DEF TypeOK
<1> QED
  BY <1>1, <1>2, <1>3, <1>4, <1>5, <1>6, <1>7, <1>8 DEF Next, Step, Contract!Next

\* The buckets implement their contract: retired buckets show nothing, versions
\* rise across retirements, and lifecycle decisions apply in the group's order.
THEOREM BucketsKeepContract == Spec => ContractKept
<1>1. Init => Contract!Init
  BY DEF Init, Contract!Init
<1> QED BY <1>1, Inductive, ContractStep, PTL DEF Spec, ContractKept, Contract!Spec

=============================================================================

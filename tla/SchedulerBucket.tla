--------------------------- MODULE SchedulerBucket ---------------------------
(***************************************************************************)
(* Retirement and reopening of the scheduler buckets of one group.  Redis  *)
(* keeps for each bucket an epoch, a retirement mark, a version counter    *)
(* and the active version; Lua scripts change them atomically.  A writer   *)
(* holds the epoch it captured before it read the database as a token,     *)
(* which the scripts compare again when it allocates and activates a       *)
(* version.  Whether the group's buckets are retired or reopened is        *)
(* decided under a lease, from a database read inside the lease.           *)
(*                                                                         *)
(* The database's group goes through the states 0, 1, 2, ...; it is active *)
(* in the even ones.  The keys ready and buckets change with the active    *)
(* version in every script and are not kept apart from it.                 *)
(***************************************************************************)
EXTENDS Naturals, FiniteSets

CONSTANTS
    Buckets,           \* the buckets of the group
    Workers,           \* the outbox pollers, one per process
    Refreshers,        \* full rebuilds that recover a group
    Publishers,        \* rebuilds and fallbacks with a captured token
    Rank,              \* the order in which a process treats the buckets
    None,              \* no process
    LeaseTTL,          \* schedulerGroupLifecycleLeaseTTL
    LifecycleTimeout,  \* schedulerGroupLifecycleTimeout plus that of the release
    MaxState,          \* bound: states of the group
    MaxVersion,        \* bound: versions after which no refresh is started
    MaxFaults          \* bound: failed calls, busy locks and crashes

Procs == Workers \union Refreshers \union Publishers

ASSUME BucketAssumption ==
    /\ Buckets # {}
    /\ None \notin Procs
    /\ Rank \in [Buckets -> Nat]
    /\ LeaseTTL \in Nat /\ LifecycleTimeout \in Nat
    /\ MaxState \in Nat /\ MaxVersion \in Nat /\ MaxFaults \in Nat

ASSUME LeaseOutlivesWork == LifecycleTimeout < LeaseTTL

VARIABLES
    group,     \* PostgreSQL: the state of the group
    announced, \* PostgreSQL: the last state whose event is in the outbox
    consumed,  \* Redis: the watermark, events up to this state are consumed
    lease,     \* Redis: owner of the lifecycle lease, or None
    epoch,     \* Redis: epoch of a bucket, 0 for a missing key
    retired,   \* Redis: retirement mark of a bucket, 0 for a missing key
    version,   \* Redis: version counter of a bucket
    active,    \* Redis: active version of a bucket, 0 for a missing key
    pc,        \* control state of each process
    mark,      \* last event of a worker's batch
    plan,      \* the group state a lifecycle decision has read
    todo,      \* buckets a process has still to treat
    tok,       \* tokens a process holds, 0 for none
    cur,       \* the bucket a process rebuilds
    born,      \* history: a bucket's epoch when a process read its accounts, 0 for none
    ver,       \* version a process has allocated, 0 for none
    decided,   \* history: the group state a bucket follows
    latest,    \* history: last version that became active
    shownBorn, \* history: born of the active version
    faults     \* failures so far

redisVars == <<epoch, retired, version, active, decided, latest, shownBorn>>
procVars == <<pc, mark, plan, todo, tok, cur, born, ver>>
vars == <<group, announced, consumed, lease, redisVars, procVars, faults>>

-----------------------------------------------------------------------------
Active(n) == n % 2 = 0

States == {"idle", "lease", "read", "apply", "load", "allocate", "activate", "mark"}

NoTokens == [b \in Buckets |-> 0]
NotRead == [b \in Buckets |-> 0]

Init ==
    /\ group = 0
    /\ announced = 0
    /\ consumed = 0
    /\ lease = None
    /\ epoch = [b \in Buckets |-> 0]
    /\ retired = [b \in Buckets |-> 0]
    /\ version = [b \in Buckets |-> 0]
    /\ active = [b \in Buckets |-> 0]
    /\ pc = [p \in Procs |-> "idle"]
    /\ mark = [p \in Procs |-> 0]
    /\ plan = [p \in Procs |-> 0]
    /\ todo = [p \in Procs |-> {}]
    /\ tok = [p \in Procs |-> NoTokens]
    /\ cur = [p \in Procs |-> CHOOSE b \in Buckets : TRUE]
    /\ born = [p \in Procs |-> NotRead]
    /\ ver = [p \in Procs |-> 0]
    /\ decided = [b \in Buckets |-> 0]
    /\ latest = [b \in Buckets |-> 0]
    /\ shownBorn = [b \in Buckets |-> 0]
    /\ faults = 0

Goto(p, state) == pc' = [pc EXCEPT ![p] = state]

\* Mutant of Forget: the allocated version is kept.
ForgetButVersion(p) ==
    /\ mark' = [mark EXCEPT ![p] = 0]
    /\ plan' = [plan EXCEPT ![p] = 0]
    /\ todo' = [todo EXCEPT ![p] = {}]
    /\ tok' = [tok EXCEPT ![p] = NoTokens]
    /\ born' = [born EXCEPT ![p] = NotRead]
    /\ UNCHANGED <<cur, ver>>

\* A process that ends its work, in success or not, forgets what it holds.
Forget(p) ==
    /\ mark' = [mark EXCEPT ![p] = 0]
    /\ plan' = [plan EXCEPT ![p] = 0]
    /\ todo' = [todo EXCEPT ![p] = {}]
    /\ tok' = [tok EXCEPT ![p] = NoTokens]
    /\ born' = [born EXCEPT ![p] = NotRead]
    /\ ver' = [ver EXCEPT ![p] = 0]
    /\ cur' = cur

Stop(p) == Goto(p, "idle") /\ Forget(p)

\* The first of the buckets that a process has still to treat.
Turn(p, b) == b \in todo[p] /\ \A c \in todo[p] : Rank[b] <= Rank[c]

Fault == faults < MaxFaults /\ faults' = faults + 1

-----------------------------------------------------------------------------
(***************************************************************************)
(* Lifecycle decisions.                                                    *)
(***************************************************************************)
\* An administrator disables, enables, deletes or creates the group.
ChangeGroup ==
    /\ group < MaxState
    /\ group' = group + 1
    /\ UNCHANGED <<announced, consumed, lease, redisVars, procVars, faults>>

\* The event follows the change.  Events of one group are deduplicated, so
\* that one may stand for several changes.
EnqueueGroupChanged ==
    /\ announced < group
    /\ announced' = group
    /\ UNCHANGED <<group, consumed, lease, redisVars, procVars, faults>>

\* A poll finds unconsumed events; one decision serves its whole batch.
Poll(p) ==
    /\ p \in Workers
    /\ pc[p] = "idle"
    /\ consumed < announced
    /\ mark' = [mark EXCEPT ![p] = announced]
    /\ Goto(p, "lease")
    /\ UNCHANGED <<group, announced, consumed, lease, redisVars, plan, todo, tok, cur, born, ver, faults>>

\* A full rebuild that finds a retired bucket of an active group, or a
\* registered one of a group that is not.  What it found may be old by now.
Refresh(p) ==
    /\ p \in Refreshers
    /\ pc[p] = "idle"
    /\ \A b \in Buckets : version[b] < MaxVersion
    /\ Goto(p, "lease")
    /\ UNCHANGED <<group, announced, consumed, lease, redisVars, mark, plan, todo, tok, cur, born, ver, faults>>

\* Mutant of TryAcquireGroupLifecycleLease: a decision that finds the lease
\* taken is left to its owner and counts as made.
LeaveToOwner(p) ==
    /\ pc[p] = "lease"
    /\ lease' = IF lease = None THEN p ELSE lease
    /\ Goto(p, IF lease = None THEN "read" ELSE "mark")
    /\ UNCHANGED <<group, announced, consumed, redisVars, mark, plan, todo, tok, cur, born, ver, faults>>

TryAcquireGroupLifecycleLease(p) ==
    /\ pc[p] = "lease"
    /\ \/ /\ lease = None
          /\ lease' = p
          /\ Goto(p, "read")
          /\ UNCHANGED <<mark, plan, todo, tok, cur, born, ver>>
       \/ /\ lease # None
          /\ lease' = lease
          /\ Stop(p)
    /\ UNCHANGED <<group, announced, consumed, redisVars, faults>>

\* The authoritative state of the group, read under the lease.
ReadGroup(p) ==
    /\ pc[p] = "read"
    /\ plan' = [plan EXCEPT ![p] = group]
    /\ todo' = [todo EXCEPT ![p] = Buckets]
    /\ Goto(p, "apply")
    /\ UNCHANGED <<group, announced, consumed, lease, redisVars, mark, tok, cur, born, ver, faults>>

\* retireBucketScript: the first retirement starts a new epoch; every one
\* takes the active version away.
Retire(p, b) ==
    LET next == IF retired[b] = 0 THEN epoch[b] + 1 ELSE epoch[b]
    IN  /\ pc[p] = "apply" /\ Turn(p, b)
        /\ ~ Active(plan[p])
        /\ epoch' = [epoch EXCEPT ![b] = next]
        /\ retired' = [retired EXCEPT ![b] = IF @ = 0 THEN next ELSE @]
        /\ active' = [active EXCEPT ![b] = 0]
        /\ shownBorn' = [shownBorn EXCEPT ![b] = 0]
        /\ decided' = [decided EXCEPT ![b] = plan[p]]
        /\ todo' = [todo EXCEPT ![p] = @ \ {b}]
        /\ UNCHANGED <<group, announced, consumed, lease, version, latest, pc, mark, plan,
                       tok, cur, born, ver, faults>>

\* reopenBucketScript: the mark is removed and the epoch of the retirement
\* is the token; a bucket that is not retired keeps its active version.
Reopen(p, b) ==
    LET next == IF epoch[b] = 0 THEN 1 ELSE epoch[b]
        shut == retired[b] # 0
    IN  /\ pc[p] = "apply" /\ Turn(p, b)
        /\ Active(plan[p])
        /\ epoch' = [epoch EXCEPT ![b] = next]
        /\ retired' = [retired EXCEPT ![b] = 0]
        /\ active' = [active EXCEPT ![b] = IF shut THEN 0 ELSE @]
        /\ shownBorn' = [shownBorn EXCEPT ![b] = IF shut THEN 0 ELSE @]
        /\ decided' = [decided EXCEPT ![b] = plan[p]]
        /\ tok' = [tok EXCEPT ![p] = [@ EXCEPT ![b] = next]]
        /\ todo' = [todo EXCEPT ![p] = @ \ {b}]
        /\ UNCHANGED <<group, announced, consumed, lease, version, latest, pc, mark, plan,
                       cur, born, ver, faults>>

\* releaseGroupLifecycleLeaseScript compares the owner.  A lost lease is an
\* error; otherwise the reopened buckets are rebuilt with their new tokens.
ReleaseGroupLifecycleLease(p) ==
    /\ pc[p] = "apply" /\ todo[p] = {}
    /\ \/ /\ lease = p
          /\ lease' = None
          /\ Goto(p, IF Active(plan[p]) THEN "load" ELSE "mark")
          /\ todo' = [todo EXCEPT ![p] = IF Active(plan[p]) THEN Buckets ELSE {}]
          /\ UNCHANGED <<mark, plan, tok, cur, born, ver>>
       \/ /\ lease # p
          /\ lease' = lease
          /\ Stop(p)
    /\ UNCHANGED <<group, announced, consumed, redisVars, faults>>

\* The event is consumed when the decision and the rebuild have succeeded.
SetWatermark(p) ==
    /\ pc[p] = "mark"
    /\ consumed' = IF p \in Workers THEN mark[p] ELSE consumed
    /\ Stop(p)
    /\ UNCHANGED <<group, announced, lease, redisVars, faults>>

-----------------------------------------------------------------------------
(***************************************************************************)
(* Publication of a snapshot.                                              *)
(***************************************************************************)
\* captureBucketWriteTokenScript.
CaptureBucketWriteToken(p, b) ==
    LET next == IF epoch[b] = 0 THEN 1 ELSE epoch[b]
    IN  /\ p \in Publishers
        /\ pc[p] = "idle"
        /\ retired[b] = 0
        /\ version[b] < MaxVersion
        /\ epoch' = [epoch EXCEPT ![b] = next]
        /\ tok' = [tok EXCEPT ![p] = [@ EXCEPT ![b] = next]]
        /\ todo' = [todo EXCEPT ![p] = {b}]
        /\ Goto(p, "load")
        /\ UNCHANGED <<group, announced, consumed, lease, retired, version, active, decided,
                       latest, shownBorn, mark, plan, cur, born, ver, faults>>

\* The bucket is done: the next one, or the end of the rebuild.
BucketDone(p, b) ==
    IF todo[p] = {b}
    THEN IF p \in Publishers THEN Stop(p)
         ELSE /\ Goto(p, "mark")
              /\ todo' = [todo EXCEPT ![p] = {}]
              /\ ver' = [ver EXCEPT ![p] = 0]
              /\ UNCHANGED <<mark, plan, tok, cur, born>>
    ELSE /\ Goto(p, "load")
         /\ todo' = [todo EXCEPT ![p] = @ \ {b}]
         /\ ver' = [ver EXCEPT ![p] = 0]
         /\ UNCHANGED <<mark, plan, tok, cur, born>>

\* An error on one bucket: a full rebuild goes on with the next one, a worker
\* ends its batch and will see the event again.
GiveUp(p, b) == IF p \in Refreshers THEN BucketDone(p, b) ELSE Stop(p)

\* Another process may have the bucket's lock.  The lock expires and fallbacks
\* do not take it, so that it need not have.
Busy(p, b) == \E q \in Procs \ {p} : pc[q] \in {"allocate", "activate"} /\ cur[q] = b

\* Under the bucket's lock, the accounts are read or, when a query of this
\* rebuild has read them for several buckets, taken from there.
LoadAccounts(p, b) ==
    /\ pc[p] = "load" /\ Turn(p, b)
    /\ \/ /\ born[p][b] # 0
          /\ born' = born
          /\ cur' = [cur EXCEPT ![p] = b]
          /\ Goto(p, "allocate")
          /\ UNCHANGED <<mark, plan, todo, tok, ver, faults>>
       \/ /\ born[p][b] = 0
          /\ \E shared \in SUBSET {c \in todo[p] \ {b} : born[p][c] = 0} :
                born' = [born EXCEPT ![p] = [c \in Buckets |->
                            IF c \in shared \union {b} THEN epoch[c] ELSE born[p][c]]]
          /\ cur' = [cur EXCEPT ![p] = b]
          /\ Goto(p, "allocate")
          /\ UNCHANGED <<mark, plan, todo, tok, ver, faults>>
       \/ Busy(p, b) /\ Fault /\ GiveUp(p, b)
    /\ UNCHANGED <<group, announced, consumed, lease, redisVars>>

\* Mutant of Admitted: only the retirement mark is looked at.
AdmittedOpen(p) == retired[cur[p]] = 0

\* The check that allocateSnapshotVersionScript and activateSnapshotScript
\* share.
Admitted(p) == retired[cur[p]] = 0 /\ tok[p][cur[p]] = epoch[cur[p]]

Fenced(p) ==
    /\ ~ Admitted(p)
    /\ GiveUp(p, cur[p])
    /\ UNCHANGED redisVars

AllocateSnapshotVersion(p) ==
    /\ pc[p] = "allocate"
    /\ \/ /\ Admitted(p)
          /\ version' = [version EXCEPT ![cur[p]] = @ + 1]
          /\ ver' = [ver EXCEPT ![p] = version[cur[p]] + 1]
          /\ Goto(p, "activate")
          /\ UNCHANGED <<epoch, retired, active, decided, latest, shownBorn,
                         mark, plan, todo, tok, cur, born>>
       \/ Fenced(p)
    /\ UNCHANGED <<group, announced, consumed, lease, faults>>

\* Mutant of ActivateSnapshotVersion: versions are not compared.
ActivateUnordered(p) ==
    LET b == cur[p]
    IN  /\ pc[p] = "activate"
        /\ \/ /\ Admitted(p)
              /\ active' = [active EXCEPT ![b] = ver[p]]
              /\ latest' = [latest EXCEPT ![b] = ver[p]]
              /\ shownBorn' = [shownBorn EXCEPT ![b] = born[p][b]]
              /\ BucketDone(p, b)
              /\ UNCHANGED <<epoch, retired, version, decided>>
           \/ Fenced(p)
        /\ UNCHANGED <<group, announced, consumed, lease, faults>>

\* activateSnapshotScript: a version below the active one is dropped, and
\* the writer is not told.
ActivateSnapshotVersion(p) ==
    LET b == cur[p]
    IN  /\ pc[p] = "activate"
        /\ \/ /\ Admitted(p)
              /\ ver[p] >= active[b]
              /\ active' = [active EXCEPT ![b] = ver[p]]
              /\ latest' = [latest EXCEPT ![b] = ver[p]]
              /\ shownBorn' = [shownBorn EXCEPT ![b] = born[p][b]]
              /\ BucketDone(p, b)
              /\ UNCHANGED <<epoch, retired, version, decided>>
           \/ /\ Admitted(p)
              /\ ver[p] < active[b]
              /\ BucketDone(p, b)
              /\ UNCHANGED redisVars
           \/ Fenced(p)
        /\ UNCHANGED <<group, announced, consumed, lease, faults>>

-----------------------------------------------------------------------------
(***************************************************************************)
(* Failures.                                                               *)
(***************************************************************************)
\* A call fails or times out, or the process dies.  A full rebuild may go on
\* with its next bucket.  The deferred release has a context of its own
\* and may fail too.
Fail(p) ==
    /\ Fault
    /\ pc[p] # "idle"
    /\ \/ Stop(p)
       \/ /\ pc[p] \in {"load", "allocate", "activate"}
          /\ p \in Refreshers
          /\ \E b \in todo[p] :
                /\ IF pc[p] = "load" THEN Turn(p, b) ELSE b = cur[p]
                /\ BucketDone(p, b)
    /\ lease' \in IF lease = p THEN {None, lease} ELSE {lease}
    /\ UNCHANGED <<group, announced, consumed, redisVars>>

Working(p) == pc[p] \in {"read", "apply"}

\* Mutant of LeaseExpires: the TTL does not cover the work.
LeaseExpiresAny ==
    /\ lease # None
    /\ lease' = None
    /\ UNCHANGED <<group, announced, consumed, redisVars, procVars, faults>>

\* The TTL ends a lease whose owner is gone.  It could end the lease of a
\* working owner only if the work were allowed to take as long.
LeaseExpires ==
    /\ lease # None
    /\ Working(lease) => LeaseTTL <= LifecycleTimeout
    /\ lease' = None
    /\ UNCHANGED <<group, announced, consumed, redisVars, procVars, faults>>

-----------------------------------------------------------------------------
Step(p) ==
    \/ TryAcquireGroupLifecycleLease(p)
    \/ ReadGroup(p)
    \/ \E b \in Buckets : Retire(p, b) \/ Reopen(p, b)
    \/ ReleaseGroupLifecycleLease(p)
    \/ SetWatermark(p)
    \/ \E b \in Buckets : LoadAccounts(p, b)
    \/ AllocateSnapshotVersion(p)
    \/ ActivateSnapshotVersion(p)

Next ==
    \/ ChangeGroup
    \/ EnqueueGroupChanged
    \/ \E p \in Procs :
           \/ Poll(p)
           \/ Refresh(p)
           \/ \E b \in Buckets : CaptureBucketWriteToken(p, b)
           \/ Step(p)
           \/ Fail(p)
    \/ LeaseExpires

Spec == Init /\ [][Next]_vars

\* A change is followed by its event, the poll ticker fires again and again, a
\* started goroutine runs on, and Redis expires an abandoned lease.
FairSpec ==
    /\ Spec
    /\ WF_vars(EnqueueGroupChanged)
    /\ \A p \in Procs : WF_vars(Poll(p)) /\ WF_vars(Step(p))
    /\ WF_vars(LeaseExpires)

-----------------------------------------------------------------------------
\* Every variable stays in its range, and exactly the processes between the
\* two checks of their token hold a version.
TypeOK ==
    /\ group \in Nat /\ announced \in Nat /\ consumed \in Nat
    /\ lease \in Procs \union {None}
    /\ epoch \in [Buckets -> Nat]
    /\ retired \in [Buckets -> Nat]
    /\ version \in [Buckets -> Nat]
    /\ active \in [Buckets -> Nat]
    /\ pc \in [Procs -> States]
    /\ mark \in [Procs -> Nat]
    /\ plan \in [Procs -> Nat]
    /\ todo \in [Procs -> SUBSET Buckets]
    /\ tok \in [Procs -> [Buckets -> Nat]]
    /\ cur \in [Procs -> Buckets]
    /\ born \in [Procs -> [Buckets -> Nat]]
    /\ ver \in [Procs -> Nat]
    /\ \A p \in Procs : ver[p] # 0 <=> pc[p] = "activate"
    /\ decided \in [Buckets -> Nat]
    /\ latest \in [Buckets -> Nat]
    /\ shownBorn \in [Buckets -> Nat]
    /\ faults \in Nat

\* The snapshot that a reader finds was read from the database after the
\* bucket's last retirement: no writer that slept through a retirement and a
\* reopening publishes what it had read before.
ShownIsOfThisLife ==
    \A b \in Buckets :
        active[b] # 0 => retired[b] = 0 /\ shownBorn[b] = epoch[b]

\* The buckets keep their contract: nothing is shown while retired, versions
\* only rise, also across retirements, and the decisions of several processes
\* take effect in the order of the group's states.
Contract == INSTANCE BucketContract
    WITH open <- [b \in Buckets |-> retired[b] = 0], shown <- active

ContractKept == Contract!Spec

\* When the group stops changing, its buckets end up retired or open as the
\* group is, and an active group that was changed has its snapshots.
FollowsGroup ==
    <>[](\A b \in Buckets :
            /\ (retired[b] = 0) = Active(group)
            /\ group > 0 /\ Active(group) => active[b] # 0)

=============================================================================

---------------------------- MODULE UsageBilling ----------------------------
(***************************************************************************)
(* Billing of finished requests: the handlers that end a request or that   *)
(* discover a finished video (handler/gateway_handler.go,                  *)
(* openai_gateway_handler.go, grok_media.go, seedance.go), the bounded     *)
(* pool that runs the records (service/usage_record_worker_pool.go), the   *)
(* transaction that charges a request once                                 *)
(* (repository/usage_billing_repo.go), the usage log, and the job that     *)
(* moves old deduplication rows to an archive                              *)
(* (repository/dashboard_aggregation_repo.go).                             *)
(*                                                                         *)
(* A task is one execution of RecordUsage: the end of an ordinary request, *)
(* whose identifier is its own, or a poll of a video job, whose durable    *)
(* identifier all the polls of the job share.  A price stands for the      *)
(* computed cost and, because the fingerprint of a command contains the    *)
(* costs it charges, for the fingerprint.  The key has a quota or a rate   *)
(* limit: the command of a key without either charges nothing.             *)
(*                                                                         *)
(* Left out: how a cost is computed, which counters a charge adds to (they *)
(* change in one transaction), notifications, the age of a deduplication   *)
(* row (the archiver may take any committed one), and the hold operations  *)
(* of batch images, which nothing calls.                                   *)
(***************************************************************************)
EXTENDS Integers, Sequences, FiniteSets

CONSTANTS
    Tasks,           \* ends of requests and polls of videos
    Jobs,            \* durable request identifiers
    JobOf,           \* the identifier a task charges
    Kind,            \* "best_effort", "mandatory", "grok" or "seedance"
    None,
    QueueSize,       \* capacity of the pool's queue
    WorkerCount,     \* workers at the start
    MinWorkers,      \* bounds of the automatic scaling
    MaxWorkers,
    ScaleStep,       \* workers added or removed at a time
    UpPercent,       \* occupation of the queue that adds workers
    DownPercent,     \* occupation of the workers that removes some
    OverflowPolicy,  \* "drop", "sample" or "sync"
    Faults,          \* kinds of failure that may happen
    MaxFaults        \* bound on the number of failures

Kinds == {"best_effort", "mandatory", "grok", "seedance"}
Policies == {"drop", "sample", "sync"}
FaultKinds == {"database", "answer", "log", "redis", "deadline", "crash"}

ASSUME ConstantsAssumption ==
    /\ JobOf \in [Tasks -> Jobs]
    /\ Kind \in [Tasks -> Kinds]
    /\ None \notin Tasks
    /\ QueueSize \in Nat \ {0}
    /\ MinWorkers \in Nat \ {0}
    /\ MaxWorkers \in Nat /\ WorkerCount \in MinWorkers .. MaxWorkers
    /\ ScaleStep \in Nat \ {0}
    /\ UpPercent \in 1 .. 100 /\ DownPercent \in 0 .. 100
    /\ OverflowPolicy \in Policies
    /\ Faults \subseteq FaultKinds
    /\ MaxFaults \in Nat

VARIABLES
    stage,    \* what each task does next
    price,    \* the cost it computed
    ok,       \* FALSE once its billing returned an error
    late,     \* its context has expired (5 s in the pool, 10 s inline)
    queue,    \* tasks waiting in the pool
    inPool,   \* tasks that a worker of the pool runs
    workers,  \* limit on the workers
    stopped,  \* the pool has been stopped
    dedup,    \* committed row of usage_billing_dedup
    owner,    \* task whose open transaction has inserted the row
    archive,  \* row of usage_billing_dedup_archive
    charged,  \* prices charged for each identifier, in order
    log,      \* the usage log's row
    pending,  \* create-time snapshot of a video job, in Redis
    claim,    \* the right to bill a video job is taken, in Redis
    hit,      \* history: tasks that a failure touched
    burnt,    \* history: jobs whose claim a failure kept
    faults    \* failures so far

taskVars == <<stage, price, ok, late>>
poolVars == <<queue, inPool, workers, stopped>>
dbVars == <<dedup, owner, archive, charged>>
redisVars == <<pending, claim>>
history == <<hit, burnt, faults>>
vars == <<taskVars, poolVars, dbVars, log, redisVars, history>>

-----------------------------------------------------------------------------
Prices == {"quoted", "default"}
\* Neither a price nor a log row.
Absent == "absent"
Zero == "zero"

Video(t) == Kind[t] \in {"grok", "seedance"}
VideoJobs == {JobOf[t] : t \in {u \in Tasks : Video(u)}}

\* Stages of the billing transaction, and of a task that runs.
InTransaction == {"insert", "compare", "archive", "effects"}
Running == InTransaction \union {"log", "release"}
Stages == Running \union {"idle", "claim", "submit", "queued", "done", "dropped", "lost"}

Init ==
    /\ stage = [t \in Tasks |-> "idle"]
    /\ price = [t \in Tasks |-> "quoted"]
    /\ ok = [t \in Tasks |-> TRUE]
    /\ late = [t \in Tasks |-> FALSE]
    /\ queue = <<>>
    /\ inPool = {}
    /\ workers = WorkerCount
    /\ stopped = FALSE
    /\ dedup = [j \in Jobs |-> Absent]
    /\ owner = [j \in Jobs |-> None]
    /\ archive = [j \in Jobs |-> Absent]
    /\ charged = [j \in Jobs |-> <<>>]
    /\ log = [j \in Jobs |-> Absent]
    /\ pending = [j \in Jobs |-> "none"]
    /\ claim = [j \in Jobs |-> FALSE]
    /\ hit = {}
    /\ burnt = {}
    /\ faults = 0

\* Submitted, waiting or at work, and holding the claim of its video.
Alive(t) == stage[t] \in Running \union {"submit", "queued"}

Goto(t, s) == stage' = [stage EXCEPT ![t] = s]

Fault(kind) ==
    /\ kind \in Faults
    /\ faults < MaxFaults
    /\ faults' = faults + 1

-----------------------------------------------------------------------------
(***************************************************************************)
(* Handlers.                                                               *)
(***************************************************************************)
\* A video job is accepted: its price is stored, or the store fails twice.
CreateVideo(j) ==
    /\ j \in VideoJobs
    /\ pending[j] = "none"
    /\ \/ pending' = [pending EXCEPT ![j] = "stored"] /\ UNCHANGED faults
       \/ pending' = [pending EXCEPT ![j] = "missing"] /\ Fault("redis")
    /\ UNCHANGED <<taskVars, poolVars, dbVars, log, claim, hit, burnt>>

\* A poll sees the finished video and loads the price.  Without it, a Grok
\* job is priced by default if its status has a duration, and is left alone
\* otherwise; a Seedance job is left alone.
LoadPendingBilling(t) ==
    /\ Video(t)
    /\ stage[t] = "idle"
    /\ pending[JobOf[t]] # "none"
    /\ \/ /\ pending[JobOf[t]] = "stored"
          /\ price' = [price EXCEPT ![t] = "quoted"]
          /\ UNCHANGED faults
       \/ /\ Kind[t] = "grok"
          /\ price' = [price EXCEPT ![t] = "default"]
          /\ \/ pending[JobOf[t]] = "missing" /\ UNCHANGED faults
             \/ pending[JobOf[t]] = "stored" /\ Fault("redis")
    /\ Goto(t, "claim")
    /\ UNCHANGED <<ok, late, poolVars, dbVars, log, redisVars, hit, burnt>>

\* SETNX of the claim; a poll that finds it taken bills nothing.
ClaimVideoBilling(t) ==
    /\ stage[t] = "claim"
    /\ claim' = [claim EXCEPT ![JobOf[t]] = TRUE]
    /\ Goto(t, IF claim[JobOf[t]] THEN "idle" ELSE "submit")
    /\ UNCHANGED <<price, ok, late, poolVars, dbVars, log, pending, history>>

\* An error of the claim counts as already billed, whether or not it was set.
ClaimVideoBillingFails(t) ==
    /\ stage[t] = "claim"
    /\ Fault("redis")
    /\ \/ UNCHANGED <<claim, burnt>>
       \/ /\ ~claim[JobOf[t]]
          /\ claim' = [claim EXCEPT ![JobOf[t]] = TRUE]
          /\ burnt' = burnt \union {JobOf[t]}
    /\ Goto(t, "idle")
    /\ UNCHANGED <<price, ok, late, poolVars, dbVars, log, pending, hit>>

\* An ordinary request ends and its record is to be submitted.
EndRequest(t) ==
    /\ ~Video(t)
    /\ stage[t] = "idle"
    /\ Goto(t, "submit")
    /\ UNCHANGED <<price, ok, late, poolVars, dbVars, log, redisVars, history>>

Enqueue(t) == Goto(t, "queued") /\ queue' = Append(queue, t)
RunInline(t) == Goto(t, "insert") /\ UNCHANGED queue

\* The queue is full: the policy may run the record in the handler or drop
\* it; a dropped record that is mandatory is run in the handler.
Overflow(t) ==
    \/ OverflowPolicy \in {"sync", "sample"} /\ RunInline(t)
    \/ /\ OverflowPolicy \in {"drop", "sample"}
       /\ IF Kind[t] = "best_effort" THEN Goto(t, "dropped") /\ UNCHANGED queue ELSE RunInline(t)

\* A record is submitted; a pool that has stopped takes none, and every
\* kind of record is then run in the handler.
SubmitUsageRecordTask(t) ==
    /\ stage[t] = "submit"
    /\ \/ stopped /\ RunInline(t)
       \/ ~stopped /\ Len(queue) < QueueSize /\ Enqueue(t)
       \/ ~stopped /\ Len(queue) = QueueSize /\ Overflow(t)
    /\ UNCHANGED <<price, ok, late, inPool, workers, stopped, dbVars, log, redisVars, history>>

-----------------------------------------------------------------------------
(***************************************************************************)
(* The pool.                                                               *)
(***************************************************************************)
\* Mutant of ExecuteTask: a stopped pool abandons its queue.
ExecuteTaskUntilStopped ==
    /\ ~stopped /\ queue # <<>>
    /\ Cardinality(inPool) < workers
    /\ Goto(Head(queue), "insert")
    /\ inPool' = inPool \union {Head(queue)}
    /\ queue' = Tail(queue)
    /\ UNCHANGED <<price, ok, late, workers, stopped, dbVars, log, redisVars, history>>

\* A worker takes the oldest record.  A stopped pool still drains its queue.
ExecuteTask ==
    /\ queue # <<>>
    /\ Cardinality(inPool) < workers
    /\ Goto(Head(queue), "insert")
    /\ inPool' = inPool \union {Head(queue)}
    /\ queue' = Tail(queue)
    /\ UNCHANGED <<price, ok, late, workers, stopped, dbVars, log, redisVars, history>>

\* Mutant of ScaledDown: the lower bound is not applied.
ScaledDownUnbounded == workers - ScaleStep

ScaledUp == IF workers + ScaleStep > MaxWorkers THEN MaxWorkers ELSE workers + ScaleStep

ScaledDown == IF workers - ScaleStep < MinWorkers THEN MinWorkers ELSE workers - ScaleStep

QueuePercent == (Len(queue) * 100) \div QueueSize
RunningPercent == (Cardinality(inPool) * 100) \div workers

\* The scaler adds workers to a busy pool and removes them from an idle one.
AutoScaleTick ==
    /\ ~stopped
    /\ \/ /\ QueuePercent >= UpPercent
          /\ workers < MaxWorkers
          /\ workers' = ScaledUp
       \/ /\ QueuePercent < UpPercent \/ workers >= MaxWorkers
          /\ queue = <<>>
          /\ RunningPercent <= DownPercent
          /\ workers > MinWorkers
          /\ workers' = ScaledDown
    /\ UNCHANGED <<taskVars, queue, inPool, stopped, dbVars, log, redisVars, history>>

StopPool ==
    /\ ~stopped
    /\ stopped' = TRUE
    /\ UNCHANGED <<taskVars, queue, inPool, workers, dbVars, log, redisVars, history>>

\* The process that has drained its work ends and another starts.
Restart ==
    /\ stopped
    /\ \A t \in Tasks : stage[t] \in {"idle", "done", "dropped", "lost"}
    /\ stopped' = FALSE
    /\ workers' = WorkerCount
    /\ UNCHANGED <<taskVars, queue, inPool, dbVars, log, redisVars, history>>

-----------------------------------------------------------------------------
(***************************************************************************)
(* One record: usageBillingRepository.Apply, then the usage log, then the  *)
(* release of a video's claim if the billing failed.                       *)
(***************************************************************************)
\* The transaction ends with a result or an error and the log follows.
Result(t, noError) ==
    /\ Goto(t, "log")
    /\ ok' = [ok EXCEPT ![t] = noError]

\* A transaction that is rolled back takes its row with it.
Rollback(t) == owner' = [j \in Jobs |-> IF owner[j] = t THEN None ELSE owner[j]]

\* INSERT ... ON CONFLICT DO NOTHING.  A row that another open transaction
\* has inserted makes the statement wait; a committed one makes it insert
\* nothing.
InsertDedup(t) ==
    LET j == JobOf[t] IN
    /\ stage[t] = "insert"
    /\ owner[j] = None
    /\ IF dedup[j] # Absent
         THEN Goto(t, "compare") /\ UNCHANGED owner
         ELSE Goto(t, "archive") /\ owner' = [owner EXCEPT ![j] = t]
    /\ UNCHANGED <<price, ok, late, poolVars, dedup, archive, charged, log, redisVars, history>>

\* Mutant of SameRequest: the fingerprints are not compared.
SameRequestAny(row, t) == TRUE

SameRequest(row, t) == row = price[t]

\* The row that stopped the insertion is read by another statement: it may
\* have been archived since, which is an error like a different fingerprint.
CompareDedup(t) ==
    LET j == JobOf[t] IN
    /\ stage[t] = "compare"
    /\ Result(t, dedup[j] # Absent /\ SameRequest(dedup[j], t))
    /\ UNCHANGED <<price, late, poolVars, dbVars, log, redisVars, history>>

\* Mutant of CheckArchive: the archive is not looked up.
CheckArchiveSkipped(t) ==
    /\ stage[t] = "archive"
    /\ Goto(t, "effects")
    /\ UNCHANGED <<price, ok, late, poolVars, dbVars, log, redisVars, history>>

\* The archive is looked up while the inserted row is held: an identifier
\* found there was charged, and the transaction is rolled back.
CheckArchive(t) ==
    LET j == JobOf[t] IN
    /\ stage[t] = "archive"
    /\ IF archive[j] = Absent
         THEN Goto(t, "effects") /\ UNCHANGED <<ok, owner>>
         ELSE Result(t, SameRequest(archive[j], t)) /\ Rollback(t)
    /\ UNCHANGED <<price, late, poolVars, dedup, archive, charged, log, redisVars, history>>

\* The transaction commits the row and all the effects of the charge.
Commit(t) ==
    /\ dedup' = [dedup EXCEPT ![JobOf[t]] = price[t]]
    /\ owner' = [owner EXCEPT ![JobOf[t]] = None]
    /\ charged' = [charged EXCEPT ![JobOf[t]] = Append(@, price[t])]
    /\ UNCHANGED archive

ApplyEffects(t) ==
    /\ stage[t] = "effects"
    /\ Commit(t)
    /\ Result(t, TRUE)
    /\ UNCHANGED <<price, late, poolVars, log, redisVars, history>>

\* The commit takes place and its answer does not arrive.
CommitAnswerLost(t) ==
    /\ stage[t] = "effects"
    /\ Fault("answer")
    /\ Commit(t)
    /\ Result(t, FALSE)
    /\ hit' = hit \union {t}
    /\ UNCHANGED <<price, late, poolVars, log, redisVars, burnt>>

\* A statement fails, or the 15 s of the detached context run out.
TransactionFails(t) ==
    /\ stage[t] \in InTransaction
    /\ Fault("database")
    /\ Rollback(t)
    /\ Result(t, FALSE)
    /\ hit' = hit \union {t}
    /\ UNCHANGED <<price, late, poolVars, dedup, archive, charged, log, redisVars, burnt>>

\* The context of the task expires; the billing context is detached from it.
ContextExpires(t) ==
    /\ stage[t] \in Running
    /\ ~late[t]
    /\ Fault("deadline")
    /\ late' = [late EXCEPT ![t] = TRUE]
    /\ UNCHANGED <<stage, price, ok, poolVars, dbVars, log, redisVars, hit, burnt>>

\* The end of a record: an ordinary request is over, a video may be polled
\* again.
Finish(t) ==
    /\ Goto(t, IF Video(t) THEN "idle" ELSE "done")
    /\ ok' = [ok EXCEPT ![t] = TRUE]
    /\ late' = [late EXCEPT ![t] = FALSE]
    /\ inPool' = inPool \ {t}

\* After the log's row, a failed billing of a video goes on to the release.
AfterLog(t) ==
    IF Video(t) /\ ~ok[t]
      THEN Goto(t, "release") /\ UNCHANGED <<ok, late, inPool>>
      ELSE Finish(t)

Logged(t) == IF ok[t] THEN price[t] ELSE Zero

\* INSERT ... ON CONFLICT DO NOTHING of the usage log: the first row stays.
WriteUsageLog(t) ==
    LET j == JobOf[t] IN
    /\ stage[t] = "log"
    /\ log' = [log EXCEPT ![j] = IF @ = Absent THEN Logged(t) ELSE @]
    /\ AfterLog(t)
    /\ UNCHANGED <<price, queue, workers, stopped, dbVars, redisVars, history>>

\* The batch and the synchronous write fail; the record goes on without.
WriteUsageLogFails(t) ==
    /\ stage[t] = "log"
    /\ Fault("log")
    /\ AfterLog(t)
    /\ UNCHANGED <<price, queue, workers, stopped, dbVars, log, redisVars, hit, burnt>>

\* Mutant of ReleaseVideoBilling: the claim is not given back.
ReleaseVideoBillingForgotten(t) ==
    /\ stage[t] = "release"
    /\ Finish(t)
    /\ UNCHANGED <<claim, burnt, faults, price, queue, workers, stopped, dbVars, log, pending, hit>>

\* DEL of the claim, under the context of the task.
ReleaseVideoBilling(t) ==
    LET j == JobOf[t] IN
    /\ stage[t] = "release"
    /\ \/ /\ ~late[t]
          /\ claim' = [claim EXCEPT ![j] = FALSE]
          /\ UNCHANGED <<burnt, faults>>
       \/ /\ IF late[t] THEN UNCHANGED faults ELSE Fault("redis")
          /\ burnt' = burnt \union {j}
          /\ UNCHANGED claim
    /\ Finish(t)
    /\ UNCHANGED <<price, queue, workers, stopped, dbVars, log, pending, hit>>

-----------------------------------------------------------------------------
(***************************************************************************)
(* Other actors.                                                           *)
(***************************************************************************)
\* One statement moves old rows to the archive (ON CONFLICT DO NOTHING).
CleanupUsageBillingDedup(j) ==
    /\ dedup[j] # Absent
    /\ dedup' = [dedup EXCEPT ![j] = Absent]
    /\ archive' = [archive EXCEPT ![j] = IF @ = Absent THEN dedup[j] ELSE @]
    /\ UNCHANGED <<taskVars, poolVars, owner, charged, log, redisVars, history>>

\* Redis lets the snapshot of a video job go (24 h).
PendingExpires(j) ==
    /\ pending[j] = "stored"
    /\ pending' = [pending EXCEPT ![j] = "missing"]
    /\ UNCHANGED <<taskVars, poolVars, dbVars, log, claim, history>>

\* Redis lets a claim go (48 h), long after the seconds that a task lives,
\* unless Redis itself loses its data.
ClaimExpires(j) ==
    /\ claim[j]
    /\ IF \E t \in Tasks : JobOf[t] = j /\ Alive(t) THEN Fault("redis") ELSE UNCHANGED faults
    /\ claim' = [claim EXCEPT ![j] = FALSE]
    /\ burnt' = burnt \ {j}
    /\ UNCHANGED <<taskVars, poolVars, dbVars, log, pending, hit>>

\* The process dies with all its records; open transactions roll back.
Crash ==
    LET dead == {t \in Tasks : stage[t] \notin {"idle", "done", "dropped", "lost"}}
        claimed == {t \in dead : Video(t) /\ stage[t] # "claim"}
    IN
    /\ Fault("crash")
    /\ dead # {}
    /\ stage' = [t \in Tasks |->
                   IF t \notin dead THEN stage[t] ELSE IF Video(t) THEN "idle" ELSE "lost"]
    /\ ok' = [t \in Tasks |-> TRUE]
    /\ late' = [t \in Tasks |-> FALSE]
    /\ queue' = <<>>
    /\ inPool' = {}
    /\ workers' = WorkerCount
    /\ stopped' = FALSE
    /\ owner' = [j \in Jobs |-> None]
    /\ hit' = hit \union dead
    /\ burnt' = burnt \union {JobOf[t] : t \in claimed}
    /\ UNCHANGED <<price, dedup, archive, charged, log, redisVars>>

-----------------------------------------------------------------------------
\* What a task does by itself once it has begun.
TaskStep(t) ==
    \/ ClaimVideoBilling(t)
    \/ SubmitUsageRecordTask(t)
    \/ InsertDedup(t)
    \/ CompareDedup(t)
    \/ CheckArchive(t)
    \/ ApplyEffects(t)
    \/ WriteUsageLog(t)
    \/ ReleaseVideoBilling(t)

TaskFails(t) ==
    \/ ClaimVideoBillingFails(t)
    \/ CommitAnswerLost(t)
    \/ TransactionFails(t)
    \/ ContextExpires(t)
    \/ WriteUsageLogFails(t)

Next ==
    \/ \E t \in Tasks :
         EndRequest(t) \/ LoadPendingBilling(t) \/ TaskStep(t) \/ TaskFails(t)
    \/ \E j \in Jobs : CreateVideo(j) \/ PendingExpires(j) \/ ClaimExpires(j) \/ CleanupUsageBillingDedup(j)
    \/ ExecuteTask
    \/ AutoScaleTick
    \/ StopPool
    \/ Restart
    \/ Crash

Spec == Init /\ [][Next]_vars

\* Goroutines that have begun go on, and a worker takes the records that
\* wait.  Nobody has to end a request or to poll.
FairSpec ==
    /\ Spec
    /\ \A t \in Tasks : WF_vars(TaskStep(t))
    /\ WF_vars(ExecuteTask)

-----------------------------------------------------------------------------
(***************************************************************************)
(* Properties.                                                             *)
(***************************************************************************)
\* The types of the state that the handlers, the pool, the database and
\* Redis keep.
TypeOK ==
    /\ stage \in [Tasks -> Stages]
    /\ price \in [Tasks -> Prices]
    /\ ok \in [Tasks -> BOOLEAN]
    /\ late \in [Tasks -> BOOLEAN]
    /\ queue \in Seq(Tasks)
    /\ inPool \in SUBSET Tasks
    /\ workers \in MinWorkers .. MaxWorkers
    /\ stopped \in BOOLEAN
    /\ dedup \in [Jobs -> Prices \union {Absent}]
    /\ owner \in [Jobs -> Tasks \union {None}]
    /\ archive \in [Jobs -> Prices \union {Absent}]
    /\ charged \in [Jobs -> Seq(Prices)]
    /\ log \in [Jobs -> Prices \union {Absent, Zero}]
    /\ pending \in [Jobs -> {"none", "stored", "missing"}]
    /\ claim \in [Jobs -> BOOLEAN]
    /\ hit \in SUBSET Tasks
    /\ burnt \in SUBSET Jobs
    /\ faults \in Nat

\* "must be applied at most once" (service/usage_billing.go, of a billing
\* command): however polls race, fail, lose the answer of a commit and come
\* back after the row has moved to the archive, an identifier is charged
\* once.
ChargedOnce == \A j \in Jobs : Len(charged[j]) <= 1

\* A usage log that shows a cost shows the cost that was charged: a record
\* whose billing failed is logged at zero, one that was charged before is
\* logged with a cost only if the fingerprints agree.
LogShowsCharge == \A j \in Jobs : log[j] \in Prices => charged[j] = <<log[j]>>

\* A billing that fails in time gives the claim of its video back: a claim
\* that no failure of Redis, of the process or of the task's deadline kept
\* belongs to a task at work or to a job that was charged.
ClaimFreed ==
    \A j \in Jobs :
      claim[j] /\ j \notin burnt =>
        charged[j] # <<>> \/ \E t \in Tasks : JobOf[t] = j /\ Alive(t)

\* "ReleaseGrokVideoBilling clears a claim after a failed durable
\* RecordUsage so a later status/content poll can retry billing"
\* (service/grok_media.go): a claim belongs to a task at work or to a job
\* that was charged.
FailedClaimCleared ==
    \A j \in Jobs :
      claim[j] => charged[j] # <<>> \/ \E t \in Tasks : JobOf[t] = j /\ Alive(t)

\* A mandatory record (a video's among them) is never dropped, whatever the
\* queue, the policy, the scaler and a stop of the pool do: its job is
\* charged, unless the database fails it or the process dies.
MandatoryCharged ==
    \A t \in Tasks :
      (Kind[t] # "best_effort" /\ stage[t] = "submit") ~>
        (charged[JobOf[t]] # <<>> \/ t \in hit)
=============================================================================

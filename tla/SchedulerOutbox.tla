--------------------------- MODULE SchedulerOutbox ---------------------------
(***************************************************************************)
(* How a change of an account in PostgreSQL reaches the scheduler snapshot *)
(* in Redis that account selection reads.  A writer changes an account and *)
(* inserts an account_changed row into scheduler_outbox, in the same       *)
(* transaction or after it; every process polls the rows above a shared    *)
(* watermark and rebuilds the bucket of the account; a periodic full       *)
(* rebuild and the read path's database fallback publish the same bucket.  *)
(* One bucket is modelled; its retirement is the subject of                *)
(* SchedulerBucket.                                                        *)
(*                                                                         *)
(* The state of an account is the number of changes committed to it, from  *)
(* 1; 0 stands for an account or a snapshot that Redis does not hold.      *)
(* Snapshot versions are compared, never shown, so the model keeps the     *)
(* order of the versions that are allocated and not yet activated.         *)
(***************************************************************************)
EXTENDS Naturals, Sequences, SequencesExt

CONSTANTS
    Accounts,    \* the accounts of the bucket
    Writers,     \* goroutines that change accounts
    TxWriters,   \* the writers whose enqueue is part of the transaction
    Workers,     \* the outbox pollers, one per process
    Refreshers,  \* the full rebuild tickers, one per process
    Readers,     \* requests that fall back to the database
    BatchLimit,  \* rows of one poll
    MaxId,       \* bound: outbox ids drawn from the sequence
    Faults,      \* bound: the kinds of failure that may happen
    MaxFaults    \* bound: the number of failures

Tasks == Workers \union Refreshers \union Readers

None == "none"

FaultKinds == {"abort", "enqueue", "handle", "unlock", "watermark", "crash", "expire"}

ASSUME OutboxAssumption ==
    /\ IsFiniteSet(Writers) /\ TxWriters \subseteq Writers
    /\ Accounts # {}
    /\ Writers \cap Tasks = {} /\ None \notin Writers \union Tasks
    /\ Workers \cap (Refreshers \union Readers) = {} /\ Refreshers \cap Readers = {}
    /\ BatchLimit \in Nat \ {0}
    /\ MaxId \in Nat
    /\ Faults \subseteq FaultKinds
    /\ MaxFaults \in Nat

VARIABLES
    db,         \* committed state of each account
    wpc,        \* control state of each writer
    target,     \* the account each writer changes
    copy,       \* account state a writer read to refresh the account keys
    rows,       \* the outbox: id -> row
    nextId,     \* the next value of the id sequence
    watermark,  \* Redis: ids up to this one are consumed
    lock,       \* Redis: is the rebuild lock of the bucket held
    snap,       \* Redis: account states of the active snapshot version
    meta,       \* Redis: the account keys every bucket shares
    order,      \* tasks whose version is allocated and may still win
    pc,         \* control state of each task
    mark,       \* watermark a worker read, then the last id of its batch
    batch,      \* accounts of the events a worker has still to handle
    seen,       \* workers that have rebuilt the bucket in this batch
    load,       \* account states a task has read from the database
    faults,     \* failures so far
    team,       \* history, read by the properties only: see Joins
    late        \* history: ids that became visible behind a poll, see Commit

writerVars == <<db, wpc, target, copy, rows, nextId>>
redisVars == <<watermark, lock, snap, meta, order>>
taskVars == <<pc, mark, batch, seen, load>>
history == <<faults, team, late>>
vars == <<writerVars, redisVars, taskVars, history>>

-----------------------------------------------------------------------------
Absent == [a \in Accounts |-> 0]

\* key: dedup_key is not null; by: the writer whose transaction has not
\* committed yet, or None; old: created_at is beyond the grace period.
Row == [acct : Accounts, key : BOOLEAN, by : Writers \union {None}, old : BOOLEAN]

WriterStates == {"idle", "changed", "queued", "read", "sync"}
TaskStates == {"idle", "list", "get", "set", "lock", "load", "allocate",
               "write", "activate", "unlock", "mark", "cleanup", "lag"}

Committed == {i \in DOMAIN rows : rows[i].by = None}

\* ORDER BY id ASC LIMIT n, over the committed rows above the watermark.
Pending(above) == {i \in Committed : i > above}
Listed(above) ==
    {i \in Pending(above) : Cardinality({j \in Pending(above) : j < i}) < BatchLimit}

\* The ids of a poll in the order in which it returns them.
Ascending(ids) ==
    {s \in [1..Cardinality(ids) -> ids] : \A m, n \in DOMAIN s : m < n => s[m] < s[n]}

Init ==
    /\ db = [a \in Accounts |-> 1]
    /\ wpc = [w \in Writers |-> "idle"]
    /\ target = [w \in Writers |-> CHOOSE a \in Accounts : TRUE]
    /\ copy = [w \in Writers |-> 0]
    /\ rows = << >>
    /\ nextId = 1
    /\ watermark = 0
    /\ lock = FALSE
    /\ snap = Absent
    /\ meta = Absent
    /\ order = << >>
    /\ pc = [t \in Tasks |-> "idle"]
    /\ mark = [k \in Workers |-> 0]
    /\ batch = [k \in Workers |-> << >>]
    /\ seen = {}
    /\ load = [t \in Tasks |-> Absent]
    /\ faults = 0
    /\ team = {}
    /\ late = {}

\* A poller that shares the bucket with nobody but one autocommitting writer.
Sole(actors) ==
    \E w \in Writers \ TxWriters, k \in Workers : actors \subseteq {w, k}

\* Once somebody else joins, an event is lost or a rebuild is skipped, the team
\* is everyone.
Everyone == Writers \union Tasks \union {None}
Joins(x) ==
    team' = IF Sole(team \union {x}) THEN team \union {x} ELSE Everyone

Fault(kind) ==
    /\ kind \in Faults
    /\ faults < MaxFaults
    /\ faults' = faults + 1

-----------------------------------------------------------------------------
(***************************************************************************)
(* Writers.  An open transaction holds the lock of the account row, so the *)
(* changes of one account are serial.                                      *)
(***************************************************************************)
RowFree(a) ==
    \A w \in TxWriters : wpc[w] # "idle" => target[w] # a

\* Bound: no change whose event could not be numbered any more.
Change(w, a) ==
    /\ wpc[w] = "idle"
    /\ RowFree(a)
    /\ nextId + Cardinality({v \in Writers : wpc[v] = "changed"}) <= MaxId
    /\ wpc' = [wpc EXCEPT ![w] = "changed"]
    /\ target' = [target EXCEPT ![w] = a]
    /\ db' = IF w \in TxWriters THEN db ELSE [db EXCEPT ![a] = @ + 1]
    /\ Joins(w)
    /\ UNCHANGED <<copy, rows, nextId, redisVars, taskVars, faults, late>>

\* An insert that meets an uncommitted row with its key waits for it.
KeyFree(a) ==
    ~ \E i \in DOMAIN rows : rows[i].acct = a /\ rows[i].key /\ rows[i].by # None

\* INSERT ... ON CONFLICT (dedup_key) DO NOTHING.  The sequence advances
\* whether the row is inserted or not.
Enqueue(w) ==
    LET a == target[w]
        hit == \E i \in Committed : rows[i].acct = a /\ rows[i].key
        row == [acct |-> a, key |-> TRUE, by |-> w, old |-> FALSE]
    IN  /\ wpc[w] = "changed"
        /\ KeyFree(a)
        /\ rows' = IF hit THEN rows
                   ELSE [i \in DOMAIN rows \union {nextId} |->
                             IF i = nextId THEN row ELSE rows[i]]
        /\ nextId' = nextId + 1
        /\ wpc' = [wpc EXCEPT ![w] = "queued"]
        /\ UNCHANGED <<db, target, copy, redisVars, taskVars, history>>

\* The watermark, or a poll that is under way, is already past this id.
Passed(i) == i <= watermark \/ \E k \in Workers : i <= mark[k]

\* The end of the transaction, or of the autocommitted insert.  The id was
\* drawn by the insert: a later id may have been committed and polled since.
Commit(w) ==
    /\ wpc[w] = "queued"
    /\ late' = late \union {i \in DOMAIN rows : rows[i].by = w /\ Passed(i)}
    /\ rows' = [i \in DOMAIN rows |->
                    IF rows[i].by = w THEN [rows[i] EXCEPT !.by = None] ELSE rows[i]]
    /\ \/ /\ w \in TxWriters
          /\ db' = [db EXCEPT ![target[w]] = @ + 1]
          /\ wpc' = [wpc EXCEPT ![w] = "idle"]
       \/ /\ w \notin TxWriters
          /\ db' = db
          /\ wpc' = [wpc EXCEPT ![w] = "read"]
    /\ UNCHANGED <<target, copy, nextId, redisVars, taskVars, faults, team>>

\* A transaction rolls back: its row is gone and its id stays unused.
Abort(w) ==
    /\ Fault("abort")
    /\ w \in TxWriters /\ wpc[w] # "idle"
    /\ rows' = [i \in {j \in DOMAIN rows : rows[j].by # w} |-> rows[i]]
    /\ wpc' = [wpc EXCEPT ![w] = "idle"]
    /\ UNCHANGED <<db, target, copy, nextId, redisVars, taskVars, team, late>>

\* Outside a transaction a failed enqueue is only logged: the change stays.
EnqueueFails(w) ==
    /\ Fault("enqueue")
    /\ w \notin TxWriters /\ wpc[w] = "changed"
    /\ wpc' = [wpc EXCEPT ![w] = "read"]
    /\ team' = Everyone
    /\ UNCHANGED <<db, target, copy, rows, nextId, redisVars, taskVars, late>>

\* Outside a transaction the writer also refreshes the keys of the account.
SyncRead(w) ==
    /\ wpc[w] = "read"
    /\ copy' = [copy EXCEPT ![w] = db[target[w]]]
    /\ wpc' = [wpc EXCEPT ![w] = "sync"]
    /\ UNCHANGED <<db, target, rows, nextId, redisVars, taskVars, history>>

SyncWrite(w) ==
    /\ wpc[w] = "sync"
    /\ meta' = [meta EXCEPT ![target[w]] = copy[w]]
    /\ copy' = [copy EXCEPT ![w] = 0]
    /\ wpc' = [wpc EXCEPT ![w] = "idle"]
    /\ UNCHANGED <<db, target, rows, nextId, watermark, lock, snap, order,
                   taskVars, history>>

\* created_at is the start of the inserting transaction, committed or not.
Age(i) ==
    /\ ~ rows[i].old
    /\ rows' = [rows EXCEPT ![i].old = TRUE]
    /\ UNCHANGED <<db, wpc, target, copy, nextId, redisVars, taskVars, history>>

-----------------------------------------------------------------------------
(***************************************************************************)
(* Tasks.  A worker polls, handles its batch event by event and moves the  *)
(* watermark; a rebuild of the bucket is the same for every caller, except *)
(* that the fallback of a reader does not take the lock.                   *)
(***************************************************************************)
Goto(t, state) == pc' = [pc EXCEPT ![t] = state]

ReadWatermark(k) ==
    /\ pc[k] = "idle"
    /\ mark' = [mark EXCEPT ![k] = watermark]
    /\ Goto(k, "list")
    /\ Joins(k)
    /\ UNCHANGED <<writerVars, redisVars, batch, seen, load, faults, late>>

\* Mutant of List: the buckets of the previous batch stay marked as rebuilt.
ListKeepsSeen(k) ==
    LET ids == Listed(mark[k])
    IN  /\ pc[k] = "list"
        /\ rows' = [i \in DOMAIN rows |->
                        IF i \in ids THEN [rows[i] EXCEPT !.key = FALSE] ELSE rows[i]]
        /\ \E events \in Ascending(ids) :
             /\ batch' = [batch EXCEPT ![k] = [n \in DOMAIN events |-> rows[events[n]].acct]]
             /\ mark' = [mark EXCEPT ![k] = IF ids = {} THEN 0 ELSE Last(events)]
        /\ seen' = seen
        /\ Goto(k, IF ids = {} THEN "idle" ELSE "get")
        /\ UNCHANGED <<db, wpc, target, copy, nextId, redisVars, load, history>>

\* ListAfterAndReleaseDedup: one statement reads the batch and clears its
\* keys, so that a later change of the same account inserts a new row.
List(k) ==
    LET ids == Listed(mark[k])
    IN  /\ pc[k] = "list"
        /\ rows' = [i \in DOMAIN rows |->
                        IF i \in ids THEN [rows[i] EXCEPT !.key = FALSE] ELSE rows[i]]
        /\ \E events \in Ascending(ids) :
             /\ batch' = [batch EXCEPT ![k] = [n \in DOMAIN events |-> rows[events[n]].acct]]
             /\ mark' = [mark EXCEPT ![k] = IF ids = {} THEN 0 ELSE Last(events)]
        /\ seen' = seen \ {k}
        /\ Goto(k, IF ids = {} THEN "idle" ELSE "get")
        /\ UNCHANGED <<db, wpc, target, copy, nextId, redisVars, load, history>>

\* handleAccountEvent: the account is read, then written to its own keys.
GetAccount(k) ==
    LET a == Head(batch[k])
    IN  /\ pc[k] = "get"
        /\ load' = [load EXCEPT ![k] = [Absent EXCEPT ![a] = db[a]]]
        /\ Goto(k, "set")
        /\ UNCHANGED <<writerVars, redisVars, mark, batch, seen, history>>

\* The event is handled: the next one, or the watermark.
AfterEvent(k) ==
    /\ batch' = [batch EXCEPT ![k] = Tail(@)]
    /\ Goto(k, IF Len(batch[k]) = 1 THEN "mark" ELSE "get")

\* The bucket is rebuilt for the first event of a batch only.
SetAccount(k) ==
    LET a == Head(batch[k])
    IN  /\ pc[k] = "set"
        /\ meta' = [meta EXCEPT ![a] = load[k][a]]
        /\ load' = [load EXCEPT ![k] = Absent]
        /\ \/ /\ k \in seen
              /\ AfterEvent(k)
              /\ seen' = seen
           \/ /\ k \notin seen
              /\ seen' = seen \union {k}
              /\ Goto(k, "lock")
              /\ batch' = batch
        /\ UNCHANGED <<writerVars, watermark, lock, snap, order, mark, history>>

\* Mutant of StartRebuild: the ticker rebuilds a missing snapshot only.
RebuildIfMissing(f) ==
    /\ pc[f] = "idle"
    /\ Goto(f, IF snap = Absent THEN "lock" ELSE "idle")
    /\ Joins(f)
    /\ UNCHANGED <<writerVars, redisVars, mark, batch, seen, load, faults, late>>

\* The ticker of the full rebuild, and the start-up rebuild.
StartRebuild(f) ==
    /\ pc[f] = "idle"
    /\ Goto(f, "lock")
    /\ Joins(f)
    /\ UNCHANGED <<writerVars, redisVars, mark, batch, seen, load, faults, late>>

\* A reader that finds no snapshot, or fails to read it, reads the database
\* itself and publishes what it read.
Miss(r) ==
    /\ pc[r] = "idle"
    /\ \/ snap = Absent /\ UNCHANGED faults
       \/ snap # Absent /\ Fault("handle")
    /\ Goto(r, "load")
    /\ Joins(r)
    /\ UNCHANGED <<writerVars, redisVars, mark, batch, seen, load, late>>

\* What a task does when its rebuild is over, whatever became of it.
AfterRebuild(t) ==
    IF t \in Workers /\ batch[t] # << >>
    THEN AfterEvent(t)
    ELSE Goto(t, "idle") /\ batch' = batch

\* A rebuild that finds the lock taken is skipped, and counts as done.
TryLock(t) ==
    /\ pc[t] = "lock"
    /\ \/ /\ ~ lock
          /\ lock' = TRUE
          /\ Goto(t, "load")
          /\ UNCHANGED <<batch, team>>
       \/ /\ lock
          /\ lock' = lock
          /\ AfterRebuild(t)
          /\ team' = Everyone
    /\ UNCHANGED <<writerVars, watermark, snap, meta, order, mark, seen, load, faults, late>>

LoadAccounts(t) ==
    /\ pc[t] = "load"
    /\ load' = [load EXCEPT ![t] = db]
    /\ Goto(t, "allocate")
    /\ UNCHANGED <<writerVars, redisVars, mark, batch, seen, history>>

\* INCR of the version key: this version is above every earlier one.
AllocateVersion(t) ==
    /\ pc[t] = "allocate"
    /\ order' = Append(order, t)
    /\ Goto(t, "write")
    /\ UNCHANGED <<writerVars, watermark, lock, snap, meta, mark, batch, seen, load, history>>

\* The account keys are overwritten before the version is known to win.
WriteAccounts(t) ==
    /\ pc[t] = "write"
    /\ meta' = load[t]
    /\ Goto(t, "activate")
    /\ UNCHANGED <<writerVars, watermark, lock, snap, order, mark, batch, seen, load, history>>

\* A version below the active one is dropped, and the caller is not told.
Activate(t) ==
    /\ pc[t] = "activate"
    /\ \/ \E n \in DOMAIN order :
            /\ order[n] = t
            /\ snap' = load[t]
            /\ order' = SubSeq(order, n + 1, Len(order))
       \/ /\ t \notin ToSet(order)
          /\ UNCHANGED <<snap, order>>
    /\ load' = [load EXCEPT ![t] = Absent]
    /\ Goto(t, IF t \in Readers THEN "idle" ELSE "unlock")
    /\ UNCHANGED <<writerVars, watermark, lock, meta, mark, batch, seen, history>>

\* DEL of the lock key, whoever set it.
Unlock(t) ==
    /\ pc[t] = "unlock"
    /\ lock' = FALSE
    /\ AfterRebuild(t)
    /\ UNCHANGED <<writerVars, watermark, snap, meta, order, mark, seen, load, history>>

\* Mutant of SetWatermark: the watermark jumps to the newest id of the table.
SetWatermarkNewest(k) ==
    /\ pc[k] = "mark"
    /\ watermark' = nextId - 1
    /\ Goto(k, "cleanup")
    /\ UNCHANGED <<writerVars, lock, snap, meta, order, mark, batch, seen, load, history>>

\* SET of the watermark, unconditional.
SetWatermark(k) ==
    /\ pc[k] = "mark"
    /\ watermark' = mark[k]
    /\ Goto(k, "cleanup")
    /\ UNCHANGED <<writerVars, lock, snap, meta, order, mark, batch, seen, load, history>>

\* Mutant of Cleanup: the age alone decides what is deleted.
CleanupByAge(k) ==
    LET doomed == {i \in Committed : rows[i].old}
    IN  /\ pc[k] = "cleanup"
        /\ \/ rows' = [i \in DOMAIN rows \ doomed |-> rows[i]]
           \/ rows' = rows
        /\ Goto(k, "lag")
        /\ UNCHANGED <<db, wpc, target, copy, nextId, redisVars, mark, batch, seen, load, history>>

\* The worker that gets the advisory lock deletes the consumed rows that
\* are beyond the grace period; another one skips.
Cleanup(k) ==
    LET doomed == {i \in Committed : i <= mark[k] /\ rows[i].old}
    IN  /\ pc[k] = "cleanup"
        /\ \/ rows' = [i \in DOMAIN rows \ doomed |-> rows[i]]
           \/ rows' = rows
        /\ Goto(k, "lag")
        /\ UNCHANGED <<db, wpc, target, copy, nextId, redisVars, mark, batch, seen, load, history>>

\* checkOutboxLag: rows above the watermark may be old or many enough for a
\* full rebuild.  The thresholds are abstracted to a choice.
CheckLag(k) ==
    /\ pc[k] = "lag"
    /\ mark' = [mark EXCEPT ![k] = 0]
    /\ \/ Goto(k, "idle")
       \/ Pending(mark[k]) # {} /\ Goto(k, "lock")
    /\ UNCHANGED <<writerVars, redisVars, batch, seen, load, history>>

-----------------------------------------------------------------------------
(***************************************************************************)
(* Failures.  An error ends the poll or the rebuild: the watermark stays,  *)
(* the keys of the batch stay released, and the deferred unlock runs, with *)
(* the context of the event: it may fail with it and is not retried.  A    *)
(* crash leaves the lock to its TTL as well.                               *)
(***************************************************************************)
Rebuilding(t) ==
    t \notin Readers /\ pc[t] \in {"load", "allocate", "write", "activate", "unlock"}

\* Mutant of Reset: the version of a failed rebuild may still win.
ResetKeepsVersion(t) ==
    /\ Goto(t, "idle")
    /\ order' = order
    /\ mark' = [k \in Workers |-> IF k = t THEN 0 ELSE mark[k]]
    /\ batch' = [k \in Workers |-> IF k = t THEN << >> ELSE batch[k]]
    /\ seen' = seen \ {t}
    /\ load' = [load EXCEPT ![t] = Absent]

Reset(t) ==
    /\ Goto(t, "idle")
    /\ \/ \E n \in DOMAIN order : order[n] = t /\ order' = RemoveAt(order, n)
       \/ t \notin ToSet(order) /\ order' = order
    /\ mark' = [k \in Workers |-> IF k = t THEN 0 ELSE mark[k]]
    /\ batch' = [k \in Workers |-> IF k = t THEN << >> ELSE batch[k]]
    /\ seen' = seen \ {t}
    /\ load' = [load EXCEPT ![t] = Absent]

HandleFails(t) ==
    /\ Fault("handle")
    /\ pc[t] \in {"list", "get", "set", "lock", "load", "allocate", "write", "activate"}
    /\ Reset(t)
    /\ \/ lock' = (lock /\ ~ Rebuilding(t))
       \/ "unlock" \in Faults /\ Rebuilding(t) /\ lock' = lock
    /\ UNCHANGED <<writerVars, watermark, snap, meta, team, late>>

UnlockFails(t) ==
    /\ Fault("unlock")
    /\ pc[t] = "unlock"
    /\ AfterRebuild(t)
    /\ UNCHANGED <<writerVars, redisVars, mark, seen, load, team, late>>

WatermarkFails(k) ==
    /\ Fault("watermark")
    /\ pc[k] = "mark"
    /\ Reset(k)
    /\ UNCHANGED <<writerVars, watermark, lock, snap, meta, team, late>>

Crash(t) ==
    /\ Fault("crash")
    /\ pc[t] # "idle"
    /\ Reset(t)
    /\ UNCHANGED <<writerVars, watermark, lock, snap, meta, team, late>>

\* The TTL of the lock: its holder is gone, or is slower than the TTL.
LockExpires ==
    /\ lock
    /\ ~ \E t \in Tasks : Rebuilding(t)
    /\ lock' = FALSE
    /\ UNCHANGED <<writerVars, watermark, snap, meta, order, taskVars, history>>

LockExpiresEarly ==
    /\ Fault("expire")
    /\ lock
    /\ \E t \in Tasks : Rebuilding(t)
    /\ lock' = FALSE
    /\ UNCHANGED <<writerVars, watermark, snap, meta, order, taskVars, team, late>>

-----------------------------------------------------------------------------
WriterStep(w) ==
    \/ Enqueue(w)
    \/ Commit(w)
    \/ SyncRead(w)
    \/ SyncWrite(w)

RebuildStep(t) ==
    \/ TryLock(t)
    \/ LoadAccounts(t)
    \/ AllocateVersion(t)
    \/ WriteAccounts(t)
    \/ Activate(t)
    \/ Unlock(t)

WorkerStep(k) ==
    \/ ReadWatermark(k)
    \/ List(k)
    \/ GetAccount(k)
    \/ SetAccount(k)
    \/ SetWatermark(k)
    \/ Cleanup(k)
    \/ CheckLag(k)

Next ==
    \/ \E w \in Writers :
           \/ \E a \in Accounts : Change(w, a)
           \/ WriterStep(w)
           \/ Abort(w)
           \/ EnqueueFails(w)
    \/ \E i \in DOMAIN rows : Age(i)
    \/ \E k \in Workers : WorkerStep(k) \/ WatermarkFails(k)
    \/ \E f \in Refreshers : StartRebuild(f)
    \/ \E r \in Readers : Miss(r)
    \/ \E t \in Tasks : RebuildStep(t) \/ HandleFails(t) \/ UnlockFails(t) \/ Crash(t)
    \/ LockExpires
    \/ LockExpiresEarly

Spec == Init /\ [][Next]_vars

\* Goroutines run, the tickers of the poll and of the full rebuild fire again
\* and again, and Redis expires the lock of a dead holder.  Nothing makes a
\* writer start a change, a request miss, or a failure happen.
FairSpec ==
    /\ Spec
    /\ \A w \in Writers : WF_vars(WriterStep(w))
    /\ \A k \in Workers : WF_vars(WorkerStep(k) \/ RebuildStep(k))
    /\ \A f \in Refreshers : WF_vars(StartRebuild(f) \/ RebuildStep(f))
    /\ \A r \in Readers : WF_vars(RebuildStep(r))
    /\ WF_vars(LockExpires)

-----------------------------------------------------------------------------
\* Every variable stays in its range: Redis, a task or a writer never holds a
\* later account state than PostgreSQL, a task's version is allocated at most
\* once at a time, and no task keeps data it has already published.
TypeOK ==
    /\ db \in [Accounts -> Nat \ {0}]
    /\ wpc \in [Writers -> WriterStates]
    /\ target \in [Writers -> Accounts]
    /\ copy \in [Writers -> Nat] /\ \A w \in Writers : copy[w] <= db[target[w]]
    /\ DOMAIN rows \subseteq 1..(nextId - 1)
    /\ \A i \in DOMAIN rows : rows[i] \in Row
    /\ nextId \in 1..(MaxId + 1)
    /\ watermark \in 0..(nextId - 1)
    /\ lock \in BOOLEAN
    /\ snap \in [Accounts -> Nat] /\ \A a \in Accounts : snap[a] <= db[a]
    /\ meta \in [Accounts -> Nat] /\ \A a \in Accounts : meta[a] <= db[a]
    /\ order \in Seq(Tasks) /\ IsInjective(order)
    /\ \A n \in DOMAIN order : pc[order[n]] \in {"write", "activate"}
    /\ pc \in [Tasks -> TaskStates]
    /\ mark \in [Workers -> 0..(nextId - 1)]
    /\ batch \in [Workers -> Seq(Accounts)]
    /\ \A k \in Workers : Len(batch[k]) <= BatchLimit
    /\ seen \subseteq Workers
    /\ load \in [Tasks -> [Accounts -> Nat]]
    /\ \A t \in Tasks, a \in Accounts : load[t][a] <= db[a]
    /\ faults \in 0..MaxFaults
    /\ team \subseteq Everyone
    /\ late \subseteq 1..MaxId

Quiet ==
    /\ \A w \in Writers : wpc[w] = "idle"
    /\ \A t \in Tasks : pc[t] = "idle"
    /\ Pending(watermark) = {}

\* Once the only poller has caught up with the only writer, Redis shows what
\* PostgreSQL holds: no change was swallowed by the deduplication of its event,
\* by a batch that failed or crashed half-way, or by a rebuild that was dropped.
QuietIsFresh == Sole(team) /\ Quiet /\ watermark > 0 => snap = db /\ meta = db

\* Rows whose event no poll has read: reading it releases the key.
Unread == {i \in Committed : rows[i].key}

\* The watermark never passes an unread row, although every worker sets it to
\* the end of its own batch and may set it back.  The one exception is a row
\* that became visible when the watermark or a poll was already past its id:
\* ids are drawn before the commit, and nothing waits for the open ones.
NothingSkipped == \A i \in Unread : i <= watermark => i \in late

\* The clean-up, run by a worker behind its own batch while others poll and
\* writers commit, deletes no event that a poll will still find: what it
\* deletes unread had become visible behind a poll.
CleanupSparesUnread ==
    [][Unread \ DOMAIN rows' \subseteq late]_vars

\* What the comment on the grace period of the clean-up says: it gives the
\* row of a slow transaction, committed after the watermark has passed its
\* id, the time to be consumed before it is deleted.
GraceConsumesLate ==
    \A i \in 1..MaxId :
        i \in Committed /\ ~ rows[i].old ~> i \in Committed /\ ~ rows[i].key

\* When the changes stop, the snapshot and the account keys end up equal to
\* the database, whatever was lost, skipped, deleted unread or overwritten on
\* the way: the full rebuild makes up for it.
Converges == <>[](snap = db /\ meta = db)

=============================================================================

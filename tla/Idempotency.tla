---------------------------- MODULE Idempotency ----------------------------
(***************************************************************************)
(* The idempotency coordinator of the panel API: requests that carry an    *)
(* Idempotency-Key share one row of idempotency_records per (scope, key)   *)
(* and only the request that claims the row runs the operation.            *)
(*                                                                         *)
(* Each request is a process that makes separate round trips to the        *)
(* database: IdempotencyCoordinator.Execute captures time.Now() once, then *)
(* inserts, reads, reclaims, runs the operation and marks the row, and     *)
(* other requests, the lease renewal goroutine, the cleanup service and    *)
(* the clock move between those trips.  A request may crash anywhere, and  *)
(* a database call that reports an error may have been committed.          *)
(*                                                                         *)
(* A row with id 0 is a missing row (the code tests record.ID == 0), and   *)
(* lockedUntil 0 is SQL NULL.                                              *)
(***************************************************************************)
EXTENDS Integers, FiniteSets

CONSTANTS
    Requests,           \* calls of Execute
    Keys,               \* (scope, idempotency key hash) pairs
    KeyOf,              \* the key of each request
    Fingerprints,       \* request fingerprints
    FingerprintOf,      \* the fingerprint of each request
    Bounded,            \* requests with ExecutionTimeout > 0: their lease is renewed
    TTL,                \* life of a record (opts.TTL)
    ProcessingTimeout,  \* cfg.ProcessingTimeout, the lock of a claim
    RetryBackoff,       \* cfg.FailedRetryBackoff
    CleanupBatch,       \* rows one cleanup round may delete
    MaxTime             \* bound on the clock; no expiry is written beyond it

ASSUME RequestAssumption ==
    /\ KeyOf \in [Requests -> Keys]
    /\ FingerprintOf \in [Requests -> Fingerprints]
    /\ Bounded \subseteq Requests
    /\ "none" \notin Fingerprints
    /\ {"none", "executed", "unreadable"} \cap Requests = {}

ASSUME TimeAssumption ==
    /\ TTL \in Nat \ {0}
    /\ ProcessingTimeout \in Nat \ {0}
    /\ ProcessingTimeout <= TTL
    /\ RetryBackoff \in Nat \ {0}
    /\ CleanupBatch \in Nat \ {0}
    /\ MaxTime \in Nat

VARIABLES
    now,        \* the clock all instances share
    rows,       \* idempotency_records, one row per key
    nextID,     \* the table's id sequence
    req,        \* the local state of each request inside Execute
    renewing,   \* requests whose renewal goroutine runs
    reply,      \* what Execute returned: see Replies
    \* history, read by the properties only
    claim,      \* when a request entered, when it claimed its row (-1: never)
                \* and the expiry it last wrote into the row
    effect,     \* requests whose operation succeeded
    overrun,    \* keys on which an operation ran outside its lease
    retaken     \* keys whose unexpired row was taken by a stale reclaim

vars == <<now, rows, nextID, req, renewing, reply, claim, effect, overrun,
          retaken>>

Statuses == {"processing", "succeeded", "failed_retryable"}

Row == [id : Nat, fingerprint : Fingerprints \cup {"none"},
        status : Statuses \cup {"none"}, lockedUntil : Nat, expiresAt : Nat,
        body : Requests \cup {"none", "unreadable"}]

NoRow == [id |-> 0, fingerprint |-> "none", status |-> "none",
          lockedUntil |-> 0, expiresAt |-> 0, body |-> "none"]

\* start is the time.Now() captured on entry, id is existing.ID and then
\* record.ID, from the status handed to TryReclaim, finished the time at which
\* the operation returned.
Local == [pc : {"idle", "create", "get", "reclaimExpired", "reget",
                "reclaimFailed", "execute", "markSucceeded", "markFailed",
                "stopping", "done"},
          start : Nat, id : Nat, from : Statuses \cup {"none"},
          finished : Nat]

At(label) == [pc |-> label, start |-> 0, id |-> 0, from |-> "none",
              finished |-> 0]

\* Execute returns the operation's result or the stored response of an earlier
\* request, named by that request.  "none" is a call that has not returned,
\* that crashed, or that returned one of Execute's errors (store unavailable,
\* conflict, in progress, backoff, the operation's own): no property tells
\* those apart.
Replies == {"none", "executed"} \cup Requests

\* A request that owns its row: its operation is running, or has returned
\* and is not recorded yet.
Executing(p) == req[p].pc \in {"execute", "markSucceeded", "markFailed"}

RowOf(p) == rows[KeyOf[p]]

TypeOK ==
    /\ now \in Nat
    /\ rows \in [Keys -> Row]
    /\ nextID \in Nat \ {0}
    /\ req \in [Requests -> Local]
    /\ renewing \in SUBSET Requests
    /\ reply \in [Requests -> Replies]
    /\ claim \in [Requests -> [entered : Nat, at : Nat \cup {-1}, lease : Nat]]
    /\ effect \in SUBSET Requests
    /\ overrun \in SUBSET Keys
    /\ retaken \in SUBSET Keys

Init ==
    /\ now = 0
    /\ rows = [k \in Keys |-> NoRow]
    /\ nextID = 1
    /\ req = [p \in Requests |-> At("idle")]
    /\ renewing = {}
    /\ reply = [p \in Requests |-> "none"]
    /\ claim = [p \in Requests |-> [entered |-> 0, at |-> -1, lease |-> 0]]
    /\ effect = {}
    /\ overrun = {}
    /\ retaken = {}

-----------------------------------------------------------------------------
(* Steps shared by several actions.                                        *)

\* Execute returns; its local variables are gone.
Return(p, result) ==
    /\ req' = [req EXCEPT ![p] = At("done")]
    /\ renewing' = renewing \ {p}
    /\ reply' = [reply EXCEPT ![p] = result]

\* Execute goes on to its next step.
GoTo(p, label) ==
    /\ req' = [req EXCEPT ![p].pc = label]
    /\ UNCHANGED <<renewing, reply>>

WriteRow(p, row) == rows' = [rows EXCEPT ![KeyOf[p]] = row]

\* Mutant: the record expires with its lock.
InsertedRowShort(p) ==
    [id |-> nextID, fingerprint |-> FingerprintOf[p], status |-> "processing",
     lockedUntil |-> req[p].start + ProcessingTimeout,
     expiresAt |-> req[p].start + ProcessingTimeout, body |-> "none"]

\* Mutant: the lock lies in the past.
InsertedRowPast(p) ==
    [id |-> nextID, fingerprint |-> FingerprintOf[p], status |-> "processing",
     lockedUntil |-> req[p].start - ProcessingTimeout,
     expiresAt |-> req[p].start + TTL, body |-> "none"]

\* The row a claim writes, by insert or by TryReclaim: lockedUntil and
\* expiresAt come from the time captured on entry, not from the time of the
\* write.
InsertedRow(p) ==
    [id |-> nextID, fingerprint |-> FingerprintOf[p], status |-> "processing",
     lockedUntil |-> req[p].start + ProcessingTimeout,
     expiresAt |-> req[p].start + TTL, body |-> "none"]

ReclaimedRow(p) ==
    [RowOf(p) EXCEPT !.status = "processing",
                     !.lockedUntil = req[p].start + ProcessingTimeout,
                     !.expiresAt = req[p].start + TTL]

\* The request owns row id and goes on to run the operation.  A claim that
\* is committed when its own lock has already run out is an overrun.
Claim(p, id) ==
    /\ req' = [req EXCEPT ![p].pc = "execute", ![p].id = id]
    /\ renewing' = renewing \cup ({p} \cap Bounded)
    /\ claim' = [claim EXCEPT ![p] = [entered |-> req[p].start, at |-> now,
                                      lease |-> req[p].start + TTL]]
    /\ overrun' = IF req[p].start + ProcessingTimeout <= now
                    THEN overrun \cup {KeyOf[p]} ELSE overrun
    /\ UNCHANGED <<now, reply, effect>>

-----------------------------------------------------------------------------
(* One request.                                                            *)

Begin(p) ==
    /\ req[p].pc = "idle"
    /\ now + TTL <= MaxTime
    /\ req' = [req EXCEPT ![p].pc = "create", ![p].start = now]
    /\ UNCHANGED <<now, rows, nextID, renewing, reply, claim, effect, overrun, retaken>>

\* INSERT ... ON CONFLICT DO NOTHING.
CreateProcessing(p) ==
    /\ req[p].pc = "create"
    /\ \/ /\ RowOf(p).id = 0
          /\ WriteRow(p, InsertedRow(p))
          /\ nextID' = nextID + 1
          /\ Claim(p, nextID)
          /\ UNCHANGED retaken
       \/ /\ RowOf(p).id # 0
          /\ GoTo(p, "get")
          /\ UNCHANGED <<now, rows, nextID, claim, effect, overrun, retaken>>

\* The insert reports an error; it may nevertheless have been committed.
CreateFails(p) ==
    /\ req[p].pc = "create"
    /\ \/ /\ RowOf(p).id = 0
          /\ WriteRow(p, InsertedRow(p))
          /\ nextID' = nextID + 1
       \/ UNCHANGED <<rows, nextID>>
    /\ Return(p, "none")
    /\ UNCHANGED <<now, claim, effect, overrun, retaken>>

\* The row is gone, or belongs to another payload.
Refuse(p, row) ==
    /\ row.id = 0 \/ row.fingerprint # FingerprintOf[p]
    /\ Return(p, "none")

\* Mutant: the payload is not compared.
MatchesAnyPayload(p, row) == row.id # 0

Matches(p, row) == row.id # 0 /\ row.fingerprint = FingerprintOf[p]

\* Execute turns to TryReclaim with the row it has read.
AttemptReclaim(p, row, label) ==
    /\ req' = [req EXCEPT ![p].pc = label, ![p].id = row.id,
                          ![p].from = row.status]
    /\ UNCHANGED <<renewing, reply>>

\* The answers Execute gives from the status of a row it has read.
Resolve(p, row) ==
    \/ row.status = "succeeded" /\ row.body \in Requests /\ Return(p, row.body)
    \/ row.status = "succeeded" /\ row.body \notin Requests /\ Return(p, "none")
    \/ row.status = "processing" /\ Return(p, "none")
    \/ /\ row.status = "failed_retryable"
       /\ row.lockedUntil > req[p].start
       /\ Return(p, "none")
    \/ /\ row.status = "failed_retryable"
       /\ row.lockedUntil <= req[p].start
       /\ AttemptReclaim(p, row, "reclaimFailed")

GetExisting(p) ==
    /\ req[p].pc = "get"
    /\ \/ Refuse(p, RowOf(p))
       \/ /\ Matches(p, RowOf(p))
          /\ RowOf(p).expiresAt <= req[p].start
          /\ AttemptReclaim(p, RowOf(p), "reclaimExpired")
       \/ /\ Matches(p, RowOf(p))
          /\ RowOf(p).expiresAt > req[p].start
          /\ Resolve(p, RowOf(p))
    /\ UNCHANGED <<now, rows, nextID, claim, effect, overrun, retaken>>

\* The second read, after an expired row could not be reclaimed.
GetLatest(p) ==
    /\ req[p].pc = "reget"
    /\ \/ Refuse(p, RowOf(p))
       \/ Matches(p, RowOf(p)) /\ Resolve(p, RowOf(p))
    /\ UNCHANGED <<now, rows, nextID, claim, effect, overrun, retaken>>

GetFails(p) ==
    /\ req[p].pc \in {"get", "reget"}
    /\ Return(p, "none")
    /\ UNCHANGED <<now, rows, nextID, claim, effect, overrun, retaken>>

\* Mutant: the lock is not tested.
ReclaimableLocked(p) == RowOf(p).id = req[p].id /\ RowOf(p).status = req[p].from

\* Mutant: the status is not tested.
ReclaimableAnyStatus(p) ==
    /\ RowOf(p).id = req[p].id
    /\ RowOf(p).lockedUntil <= req[p].start

\* The WHERE clause of TryReclaim: the row that was read, in the status that
\* was read, with no lock later than the time captured on entry.
Reclaimable(p) ==
    /\ RowOf(p).id = req[p].id
    /\ RowOf(p).status = req[p].from
    /\ RowOf(p).lockedUntil <= req[p].start

\* TryReclaim does not test the expiry again: the row that was read as
\* expired may have been claimed, settled and given a new expiry since.
Retake(p) ==
    retaken' = IF /\ req[p].pc = "reclaimExpired"
                  /\ RowOf(p).expiresAt > req[p].start
                 THEN retaken \cup {KeyOf[p]} ELSE retaken

TryReclaim(p) ==
    /\ req[p].pc \in {"reclaimExpired", "reclaimFailed"}
    /\ \/ /\ Reclaimable(p)
          /\ WriteRow(p, ReclaimedRow(p))
          /\ Claim(p, req[p].id)
          /\ Retake(p)
          /\ UNCHANGED nextID
       \/ /\ ~Reclaimable(p)
          /\ IF req[p].pc = "reclaimExpired" THEN GoTo(p, "reget")
                                             ELSE Return(p, "none")
          /\ UNCHANGED <<now, rows, nextID, claim, effect, overrun, retaken>>

ReclaimFails(p) ==
    /\ req[p].pc \in {"reclaimExpired", "reclaimFailed"}
    /\ \/ Reclaimable(p) /\ WriteRow(p, ReclaimedRow(p)) /\ Retake(p)
       \/ UNCHANGED <<rows, retaken>>
    /\ Return(p, "none")
    /\ UNCHANGED <<now, nextID, claim, effect, overrun>>

\* The operation returns, with its effect or with an error.
Operate(p) ==
    /\ req[p].pc = "execute"
    /\ p \in Bounded => now + TTL <= MaxTime
    /\ \E ok \in BOOLEAN :
         /\ req' = [req EXCEPT
                      ![p].pc = IF ok THEN "markSucceeded" ELSE "markFailed",
                      ![p].finished = now]
         /\ effect' = IF ok THEN effect \cup {p} ELSE effect
    /\ UNCHANGED <<now, rows, nextID, renewing, reply, claim, overrun, retaken>>

\* The expiry the final mark writes: a bounded execution starts a new TTL
\* when the operation returns.
FinalExpiry(p) == TTL + IF p \in Bounded THEN req[p].finished ELSE req[p].start

\* After the mark a bounded execution still waits for its renewal goroutine.
Leave(p, result) ==
    IF p \in Bounded
      THEN /\ req' = [req EXCEPT ![p].pc = "stopping"]
           /\ reply' = [reply EXCEPT ![p] = result]
           /\ UNCHANGED renewing
      ELSE Return(p, result)

\* UPDATE ... WHERE id = $1: no test of the status or of the owner.  A
\* response longer than MaxStoredResponseLen is stored cut off and cannot be
\* decoded again; any other is stored redacted, which leaves it readable.  The
\* store may report an error although the update was committed.
MarkSucceeded(p) ==
    /\ req[p].pc = "markSucceeded"
    /\ IF RowOf(p).id = req[p].id
         THEN /\ \E body \in {p, "unreadable"} :
                   WriteRow(p, [RowOf(p) EXCEPT !.status = "succeeded",
                                                !.body = body,
                                                !.lockedUntil = 0,
                                                !.expiresAt = FinalExpiry(p)])
              /\ claim' = [claim EXCEPT ![p].lease = FinalExpiry(p)]
         ELSE UNCHANGED <<rows, claim>>
    /\ \E result \in {"executed", "none"} : Leave(p, result)
    /\ UNCHANGED <<now, nextID, effect, overrun, retaken>>

MarkFailedRetryable(p) ==
    /\ req[p].pc = "markFailed"
    /\ IF RowOf(p).id = req[p].id
         THEN WriteRow(p, [RowOf(p) EXCEPT
                             !.status = "failed_retryable",
                             !.lockedUntil = req[p].finished + RetryBackoff,
                             !.expiresAt = FinalExpiry(p)])
         ELSE UNCHANGED rows
    /\ Leave(p, "none")
    /\ UNCHANGED <<now, nextID, claim, effect, overrun, retaken>>

\* A mark (or the encoding of the response) that fails without touching the
\* row: the row stays "processing" although nobody owns it any more.
MarkFails(p) ==
    /\ req[p].pc \in {"markSucceeded", "markFailed"}
    /\ Leave(p, "none")
    /\ UNCHANGED <<now, rows, nextID, claim, effect, overrun, retaken>>

\* The WHERE clause of ExtendProcessingLock.
Extendable(p) ==
    /\ RowOf(p).id = req[p].id
    /\ RowOf(p).status = "processing"
    /\ RowOf(p).fingerprint = FingerprintOf[p]

\* One tick of renewProcessingLease: the row is extended, or the goroutine
\* ends because the row is no longer this request's to extend.
Renew(p) ==
    /\ p \in renewing
    /\ \/ /\ Extendable(p)
          /\ now + TTL <= MaxTime
          /\ WriteRow(p, [RowOf(p) EXCEPT !.lockedUntil = now + ProcessingTimeout,
                                          !.expiresAt = now + TTL])
          /\ claim' = [claim EXCEPT ![p].lease =
                                      IF Executing(p) THEN now + TTL ELSE @]
          /\ UNCHANGED renewing
       \/ /\ ~Extendable(p)
          /\ renewing' = renewing \ {p}
          /\ UNCHANGED <<rows, claim>>
    /\ UNCHANGED <<now, nextID, req, reply, effect, overrun, retaken>>

\* The execution deadline cancels the renewal's context.
RenewalDeadline(p) ==
    /\ p \in renewing
    /\ renewing' = renewing \ {p}
    /\ UNCHANGED <<now, rows, nextID, req, reply, claim, effect, overrun, retaken>>

\* stopRenewal: cancel and wait for the goroutine, then return.
StopRenewal(p) ==
    /\ req[p].pc = "stopping"
    /\ Return(p, reply[p])
    /\ UNCHANGED <<now, rows, nextID, claim, effect, overrun, retaken>>

\* The process dies; what it had written to the database stays.
Crash(p) ==
    /\ req[p].pc \notin {"idle", "done"}
    /\ Return(p, "none")
    /\ UNCHANGED <<now, rows, nextID, claim, effect, overrun, retaken>>

-----------------------------------------------------------------------------
(* The cleanup service and the clock.                                      *)

\* Mutant: a row left "processing" is kept.
ExpiredSettled ==
    {k \in Keys : /\ rows[k].id # 0 /\ rows[k].expiresAt <= now
                  /\ rows[k].status # "processing"}

Expired == {k \in Keys : rows[k].id # 0 /\ rows[k].expiresAt <= now}

\* DeleteExpired: the CleanupBatch rows that expired first, whatever their
\* status.
CleanupOnce ==
    /\ Expired # {}
    /\ \E victims \in SUBSET Expired :
         /\ \/ victims = Expired /\ Cardinality(Expired) <= CleanupBatch
            \/ Cardinality(victims) = CleanupBatch
         /\ \A k \in victims, l \in Expired \ victims :
              rows[k].expiresAt <= rows[l].expiresAt
         /\ rows' = [k \in Keys |-> IF k \in victims THEN NoRow ELSE rows[k]]
    /\ UNCHANGED <<now, nextID, req, renewing, reply, claim, effect, overrun, retaken>>

Tick ==
    /\ now < MaxTime
    /\ now' = now + 1
    /\ overrun' = overrun \cup
         {KeyOf[p] : p \in {q \in Requests : /\ Executing(q)
                                            /\ claim[q].lease <= now + 1}}
    /\ UNCHANGED <<rows, nextID, req, renewing, reply, claim, effect, retaken>>

-----------------------------------------------------------------------------
Request(p) ==
    \/ Begin(p)
    \/ CreateProcessing(p) \/ CreateFails(p)
    \/ GetExisting(p) \/ GetLatest(p) \/ GetFails(p)
    \/ TryReclaim(p) \/ ReclaimFails(p)
    \/ Operate(p)
    \/ MarkSucceeded(p) \/ MarkFailedRetryable(p) \/ MarkFails(p)
    \/ Renew(p) \/ RenewalDeadline(p) \/ StopRenewal(p)
    \/ Crash(p)

Next ==
    \/ \E p \in Requests : Request(p)
    \/ CleanupOnce
    \/ Tick

Spec == Init /\ [][Next]_vars

\* The clock advances and the cleanup service's ticker fires; nothing is
\* assumed of the requests.
FairSpec == Spec /\ WF_vars(Tick) /\ WF_vars(CleanupOnce)

-----------------------------------------------------------------------------
(* Properties.                                                             *)

(***************************************************************************)
(* No two requests with the same key are ever inside the operation         *)
(* together, as long as no operation on that key has outlived the lease    *)
(* it wrote: CreateProcessing and TryReclaim hand the row to one request   *)
(* at a time, also across stale reads, failed marks and renewals.          *)
(***************************************************************************)
ExclusiveExecution ==
    \A p, q \in Requests :
        /\ p # q /\ KeyOf[p] = KeyOf[q]
        /\ Executing(p) /\ Executing(q)
        => KeyOf[p] \in overrun

(***************************************************************************)
(* A retry never repeats an operation that took effect: a request that     *)
(* enters Execute after the first one claimed the row can only claim it    *)
(* again once the row's time to live has passed, unless a reclaim made     *)
(* from an outdated read has shortened that time (TryReclaim does not test *)
(* the expiry again).                                                      *)
(***************************************************************************)
RetrySuppressed ==
    \A p \in effect, q \in Requests :
        /\ p # q /\ KeyOf[p] = KeyOf[q]
        /\ claim[q].at # -1 /\ claim[q].entered > claim[p].at
        => claim[q].at >= claim[p].lease \/ KeyOf[p] \in overrun \cup retaken

(***************************************************************************)
(* A replayed response is the response of a request with the same key and  *)
(* the same payload fingerprint whose operation did take effect, however   *)
(* often the row was reclaimed, deleted and inserted again in between.     *)
(***************************************************************************)
ReplayFaithful ==
    \A q \in Requests :
        reply[q] \in Requests =>
            /\ reply[q] \in effect
            /\ KeyOf[reply[q]] = KeyOf[q]
            /\ FingerprintOf[reply[q]] = FingerprintOf[q]

(***************************************************************************)
(* The stale reclaim is the only way to a double effect: on a key whose    *)
(* unexpired row no outdated TryReclaim has taken, two operations that     *)
(* both take effect are a full time to live apart, also when they run      *)
(* concurrently, fail to be marked, crash or meet a failed attempt.        *)
(***************************************************************************)
OnlyRetakenRepeats ==
    \A p, q \in effect :
        p # q /\ KeyOf[p] = KeyOf[q]
        => \/ claim[q].at >= claim[p].lease
           \/ claim[p].at >= claim[q].lease
           \/ KeyOf[p] \in overrun \cup retaken

(***************************************************************************)
(* Two operations with the same key that both take effect are a full time  *)
(* to live apart.                                                          *)
(***************************************************************************)
SingleEffectPerTTL ==
    \A p, q \in effect :
        p # q /\ KeyOf[p] = KeyOf[q]
        => \/ claim[q].at >= claim[p].lease
           \/ claim[p].at >= claim[q].lease
           \/ KeyOf[p] \in overrun

(***************************************************************************)
(* No key stays blocked for ever: whatever crashed, failed or lost its     *)
(* reply, the row expires and the cleanup service deletes it.              *)
(***************************************************************************)
KeyEventuallyFree == \A k \in Keys : []<>(rows[k].id = 0)

=============================================================================

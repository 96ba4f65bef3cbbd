---------------------------- MODULE KeyRateLimit ----------------------------
(***************************************************************************)
(* The spending window of one API key: the counter in the database, its    *)
(* copy in Redis, and the check that admits a request.                     *)
(*                                                                         *)
(* In standard mode the check reads the copy and, on a miss, loads the     *)
(* counter and writes the copy unconditionally; a charge commits in the    *)
(* database and is then added to the copy by a pool of workers behind a    *)
(* bounded queue.  In simple mode the check reads the database and a       *)
(* charge deletes the copy; simple mode is modelled with its switch for    *)
(* key limits on, as it neither checks nor counts without it.  A goroutine *)
(* started by the check resets an expired window; an administrator may     *)
(* reset the counter.                                                      *)
(*                                                                         *)
(* One of the three windows is modelled, the 5h one, and a request costs   *)
(* one unit.  Time is the age of a window's start: every copy of a start   *)
(* ages alike.  Left out: the window starts truncated to the day of the    *)
(* other two windows, the requests-per-minute limit, and the charge        *)
(* without a request id, which never reaches the copy.                     *)
(***************************************************************************)
EXTENDS Naturals, FiniteSets

CONSTANTS Requests,   \* requests of the key that may be in flight together
          Modes,      \* run modes the process may be started in
          Limit,      \* limit of the window
          Window,     \* length of the window
          QueueSize,  \* capacity of the queue of cache writes
          Workers,    \* workers that execute them
          MaxUsage,   \* usages from here on are not told apart
          NoEntry     \* the key has no copy

VARIABLES
    db,        \* the row: usage, and age of the window's start
    cache,     \* the copy in Redis
    loaded,    \* per request: the row it has read and not yet written
    pc,        \* per request: its step
    resetter,  \* per request: the step of the goroutine its check started
    admin,     \* the step of the administrator's reset
    queued,    \* cache writes in the queue
    working,   \* cache writes taken by a worker
    stopping,  \* Stop was called
    mode,      \* run mode of the process
    strict     \* simple mode opened the window of the row (history)

process == <<pc, resetter, admin, queued, working, stopping, mode>>
vars == <<db, cache, loaded, process, strict>>

\* A start that was never set counts as older than any window.
NoStart == Window + 1

\* Of a copy, the history says whether the window it came from is still that
\* of the row, and whether a charge may have escaped it.
Entries == [usage : 0..MaxUsage, age : 0..NoStart, current : BOOLEAN, short : BOOLEAN]

ASSUME ConstantsAssumption ==
    /\ IsFiniteSet(Requests)
    /\ Modes \subseteq {"standard", "simple"}
    /\ Limit \in Nat \ {0} /\ Window \in Nat \ {0}
    /\ QueueSize \in Nat /\ Workers \in Nat
    /\ MaxUsage \in Nat /\ MaxUsage >= Limit + Cardinality(Requests)
    /\ NoEntry \notin Entries

Init ==
    /\ db = [usage |-> 0, age |-> NoStart]
    /\ cache = NoEntry
    /\ loaded = [p \in Requests |-> NoEntry]
    /\ pc = [p \in Requests |-> "idle"]
    /\ resetter = [p \in Requests |-> "none"]
    /\ admin = "idle"
    /\ queued = 0 /\ working = 0
    /\ stopping = FALSE
    /\ mode \in Modes
    /\ strict = (mode = "simple")

-----------------------------------------------------------------------------
(* The row and its copy *)

Plus1(n) == IF n < MaxUsage THEN n + 1 ELSE n

\* Mutant: a window that has just ended still counts.
IsWindowExpiredAfter(e) == e.age > Window

IsWindowExpired(e) == e.age >= Window
Blocks(e) == ~IsWindowExpired(e) /\ e.usage >= Limit

\* A started window that is over begins again with this charge.
Incremented(row) ==
    [usage |-> IF row.age = Window THEN 1 ELSE Plus1(row.usage),
     age   |-> IF IsWindowExpired(row) THEN 0 ELSE row.age]

ResetRow(row) == IF row.age = Window THEN [usage |-> 0, age |-> 0] ELSE row

Outdated(e) == IF e = NoEntry THEN e ELSE [e EXCEPT !.current = FALSE, !.short = FALSE]
Shortened(e) == IF e = NoEntry \/ ~e.current THEN e ELSE [e EXCEPT !.short = TRUE]

\* The row is written; when its window begins again, what was copied from
\* the old one is history.
WriteRow(row, again) ==
    /\ db' = row
    /\ IF again
       THEN /\ cache' = Outdated(cache)
            /\ loaded' = [p \in Requests |-> Outdated(loaded[p])]
            /\ strict' = (mode = "simple")
       ELSE UNCHANGED <<cache, loaded, strict>>

\* updateRateLimitUsageScript on a copy that exists.
UpdateWindow(e) ==
    IF IsWindowExpired(e)
    THEN [usage |-> 1, age |-> 0, current |-> FALSE, short |-> FALSE]
    ELSE [e EXCEPT !.usage = Plus1(@)]

\* A charge has reached the copy, or given up.  A request that loaded the row
\* before some charge and has still to write it may now write too little.
Escapes ==
    loaded' = [p \in Requests |->
        IF loaded[p] # NoEntry /\ loaded[p].usage # db.usage
        THEN Shortened(loaded[p]) ELSE loaded[p]]

UpdateAPIKeyRateLimitUsage ==
    /\ cache' = IF cache = NoEntry THEN cache ELSE UpdateWindow(cache)
    /\ Escapes
UpdateFails == cache' = Shortened(cache) /\ Escapes

Goto(p, step) == pc' = [pc EXCEPT ![p] = step]

-----------------------------------------------------------------------------
(* The check.  A request that is refused ends where it began. *)

\* Mutant: refuses above the limit only.
CheckSimpleModeAbove(p) ==
    /\ mode = "simple" /\ pc[p] = "idle" /\ (IsWindowExpired(db) \/ db.usage <= Limit)
    /\ Goto(p, "admitted")
    /\ UNCHANGED <<db, cache, loaded, resetter, admin, queued, working, stopping, mode, strict>>

\* The row alone decides; an error of the database refuses.
CheckSimpleMode(p) ==
    /\ mode = "simple" /\ pc[p] = "idle" /\ ~Blocks(db)
    /\ Goto(p, "admitted")
    /\ UNCHANGED <<db, cache, loaded, resetter, admin, queued, working, stopping, mode, strict>>

\* evaluateRateLimits: an expired window admits and starts its reset.
Evaluate(p, e) ==
    /\ Goto(p, IF Blocks(e) THEN "idle" ELSE "admitted")
    /\ resetter' = IF IsWindowExpired(e) THEN [resetter EXCEPT ![p] = "reset"] ELSE resetter
    /\ UNCHANGED <<db, admin, queued, working, stopping, mode, strict>>

\* A check of p waits for the goroutine of the last one: a bound.
MayCheck(p) == mode = "standard" /\ pc[p] = "idle" /\ resetter[p] = "none"

CheckHit(p) ==
    /\ MayCheck(p) /\ cache # NoEntry
    /\ Evaluate(p, cache)
    /\ UNCHANGED <<cache, loaded>>

\* No copy, or an error of Redis: load the row.
CheckMiss(p) ==
    /\ MayCheck(p)
    /\ loaded' = [loaded EXCEPT ![p] =
           [usage |-> db.usage, age |-> db.age, current |-> TRUE, short |-> FALSE]]
    /\ Goto(p, "fill")
    /\ UNCHANGED <<db, cache, resetter, admin, queued, working, stopping, mode, strict>>

\* An error of the database as well admits the request.
CheckMissFails(p) ==
    /\ MayCheck(p)
    /\ Goto(p, "admitted")
    /\ UNCHANGED <<db, cache, loaded, resetter, admin, queued, working, stopping, mode, strict>>

\* SetAPIKeyRateLimit, whatever the copy is by now; its error is ignored.
Fill(p) ==
    /\ pc[p] = "fill"
    /\ cache' \in {loaded[p], cache}
    /\ loaded' = [loaded EXCEPT ![p] = NoEntry]
    /\ Evaluate(p, loaded[p])

-----------------------------------------------------------------------------
(* The charge *)

\* The billing transaction commits.
Charge(p) ==
    /\ pc[p] = "admitted"
    /\ WriteRow(Incremented(db), db.age = Window)
    /\ Goto(p, "charged")
    /\ UNCHANGED <<resetter, admin, queued, working, stopping, mode>>

\* The request has no cost, or its usage record is lost.
Abandon(p) ==
    /\ pc[p] = "admitted"
    /\ Goto(p, "idle")
    /\ UNCHANGED <<db, cache, loaded, resetter, admin, queued, working, stopping, mode, strict>>

\* Mutant: enqueues without looking for room.
QueueUpdateBlind(p) ==
    /\ mode = "standard" /\ pc[p] = "charged"
    /\ \/ ~stopping /\ queued' = queued + 1 /\ Goto(p, "idle")
       \/ stopping /\ Goto(p, "sync") /\ UNCHANGED queued
    /\ UNCHANGED <<db, cache, loaded, resetter, admin, working, stopping, mode, strict>>

\* Mutant: drops the update when the queue refuses it.
QueueUpdateDrops(p) ==
    /\ mode = "standard" /\ pc[p] = "charged"
    /\ queued' = IF ~stopping /\ queued < QueueSize THEN queued + 1 ELSE queued
    /\ Goto(p, "idle")
    /\ UNCHANGED <<db, cache, loaded, resetter, admin, working, stopping, mode, strict>>

\* enqueueCacheWrite, or the synchronous fallback when it refuses.
QueueUpdate(p) ==
    /\ mode = "standard" /\ pc[p] = "charged"
    /\ \/ ~stopping /\ queued < QueueSize /\ queued' = queued + 1 /\ Goto(p, "idle")
       \/ (stopping \/ queued = QueueSize) /\ Goto(p, "sync") /\ UNCHANGED queued
    /\ UNCHANGED <<db, cache, loaded, resetter, admin, working, stopping, mode, strict>>

UpdateNow(p) ==
    /\ pc[p] = "sync"
    /\ UpdateAPIKeyRateLimitUsage \/ UpdateFails
    /\ Goto(p, "idle")
    /\ UNCHANGED <<db, resetter, admin, queued, working, stopping, mode, strict>>

Dequeue ==
    /\ queued > 0 /\ working < Workers
    /\ queued' = queued - 1 /\ working' = working + 1
    /\ UNCHANGED <<db, cache, loaded, pc, resetter, admin, stopping, mode, strict>>

WorkerUpdate ==
    /\ working > 0 /\ working' = working - 1
    /\ UpdateAPIKeyRateLimitUsage \/ UpdateFails
    /\ UNCHANGED <<db, pc, resetter, admin, queued, stopping, mode, strict>>

\* In simple mode the charge deletes the copy.
InvalidateCharged(p) ==
    /\ mode = "simple" /\ pc[p] = "charged"
    /\ (cache' = NoEntry /\ Escapes) \/ UpdateFails
    /\ Goto(p, "idle")
    /\ UNCHANGED <<db, resetter, admin, queued, working, stopping, mode, strict>>

-----------------------------------------------------------------------------
(* Resets *)

\* InvalidateAPIKeyRateLimit; its error is only logged.
Invalidate == cache' \in {NoEntry, cache}

\* ResetRateLimitWindows, which may fail; the copy is deleted all the same.
ResetRateLimitWindows(p) ==
    /\ resetter[p] = "reset"
    /\ WriteRow(ResetRow(db), db.age = Window) \/ UNCHANGED <<db, cache, loaded, strict>>
    /\ resetter' = [resetter EXCEPT ![p] = "invalidate"]
    /\ UNCHANGED <<pc, admin, queued, working, stopping, mode>>

InvalidateReset(p) ==
    /\ resetter[p] = "invalidate"
    /\ Invalidate
    /\ resetter' = [resetter EXCEPT ![p] = "none"]
    /\ UNCHANGED <<db, loaded, pc, admin, queued, working, stopping, mode, strict>>

\* AdminResetAPIKeyRateLimitUsage.
AdminReset ==
    /\ admin = "idle"
    /\ WriteRow([usage |-> 0, age |-> NoStart], TRUE)
    /\ admin' = "invalidate"
    /\ UNCHANGED <<pc, resetter, queued, working, stopping, mode>>

AdminInvalidate ==
    /\ admin = "invalidate"
    /\ Invalidate
    /\ admin' = "idle"
    /\ UNCHANGED <<db, loaded, pc, resetter, queued, working, stopping, mode, strict>>

-----------------------------------------------------------------------------
(* The environment *)

\* Redis forgets the copy.
Evict ==
    /\ cache' = NoEntry
    /\ UNCHANGED <<db, loaded, process, strict>>

Older(e) == IF e.age < Window THEN [e EXCEPT !.age = @ + 1] ELSE e

Tick ==
    /\ db' = Older(db)
    /\ cache' = IF cache = NoEntry THEN cache ELSE Older(cache)
    /\ loaded' = [p \in Requests |-> IF loaded[p] = NoEntry THEN NoEntry ELSE Older(loaded[p])]
    /\ UNCHANGED <<process, strict>>

\* BillingCacheService.Stop closes the queue; the workers drain it.
Stop ==
    /\ ~stopping /\ stopping' = TRUE
    /\ UNCHANGED <<db, cache, loaded, pc, resetter, admin, queued, working, mode, strict>>

\* Requests between the commit of their charge and the end of QueueUpdate.
Charged == {p \in Requests : pc[p] \in {"charged", "sync"}}
\* Charges that are in the row and have still to reach the copy.
Outstanding == Cardinality(Charged) + queued + working

\* The process ends, by a crash or after Stop, and is started in some mode.
Restart ==
    /\ cache' = IF Outstanding = 0 THEN cache ELSE Shortened(cache)
    /\ loaded' = [p \in Requests |-> NoEntry]
    /\ pc' = [p \in Requests |-> "idle"]
    /\ resetter' = [p \in Requests |-> "none"]
    /\ admin' = "idle"
    /\ queued' = 0 /\ working' = 0
    /\ stopping' = FALSE
    /\ mode' \in Modes
    /\ strict' = (strict /\ mode' = "simple")
    /\ UNCHANGED db

RequestStep(p) ==
    \/ CheckSimpleMode(p) \/ CheckHit(p) \/ CheckMiss(p) \/ CheckMissFails(p) \/ Fill(p)
    \/ Charge(p) \/ Abandon(p) \/ QueueUpdate(p) \/ UpdateNow(p) \/ InvalidateCharged(p)
    \/ ResetRateLimitWindows(p) \/ InvalidateReset(p)

Next ==
    \/ \E p \in Requests : RequestStep(p)
    \/ Dequeue \/ WorkerUpdate
    \/ AdminReset \/ AdminInvalidate
    \/ Evict \/ Tick \/ Stop \/ Restart

Spec == Init /\ [][Next]_vars

\* Time passes.  Nothing else is assumed.
FairSpec == Spec /\ WF_vars(Tick)

-----------------------------------------------------------------------------
Steps == {"idle", "fill", "admitted", "charged", "sync"}

\* The types; a request holds a loaded row exactly while it has to write it,
\* and the queue and the workers keep their bounds.
TypeOK ==
    /\ db \in [usage : 0..MaxUsage, age : 0..NoStart]
    /\ cache \in Entries \cup {NoEntry}
    /\ loaded \in [Requests -> Entries \cup {NoEntry}]
    /\ pc \in [Requests -> Steps]
    /\ \A p \in Requests : pc[p] = "fill" <=> loaded[p] # NoEntry
    /\ resetter \in [Requests -> {"none", "reset", "invalidate"}]
    /\ admin \in {"idle", "invalidate"}
    /\ queued \in 0..QueueSize /\ working \in 0..Workers
    /\ stopping \in BOOLEAN /\ strict \in BOOLEAN
    /\ mode \in Modes

EffectiveUsage == IF IsWindowExpired(db) THEN 0 ELSE db.usage
Admitted == {p \in Requests : pc[p] = "admitted"}

(***************************************************************************)
(* In simple mode a window is overrun by the requests in flight at most:   *)
(* what the row shows and what admitted requests may still add stay below  *)
(* the limit plus one charge per request that can be in flight, whatever   *)
(* expires, is reset or restarts (checkSimpleModeAPIKeyRateLimits).        *)
(***************************************************************************)
SpendBounded ==
    strict => EffectiveUsage + Cardinality(Admitted) < Limit + Cardinality(Requests)

(***************************************************************************)
(* A copy of the row's window shows every charge but those on their way to *)
(* it, unless an update of Redis failed, a process died with updates, or   *)
(* an update ended between the load and the write of a request that had    *)
(* missed a charge.  So a full or closed queue, the draining of Stop,      *)
(* overlapping loads and a change of mode lose none.                       *)
(***************************************************************************)
NoChargeEscapes ==
    cache # NoEntry /\ cache.current /\ ~cache.short
    => cache.usage + Outstanding >= db.usage

\* What a check would answer now, were Redis and the database up.
Refused ==
    IF mode = "standard" /\ cache # NoEntry THEN Blocks(cache) ELSE Blocks(db)

(***************************************************************************)
(* A key is never refused for ever, although a stale load may bring an old *)
(* usage back after an administrator's reset and the copy outlives the     *)
(* row's window: either the key is admissible again and again, or the      *)
(* administrator resets its counter again and again.                       *)
(***************************************************************************)
AdmittedAgain == []<>~Refused \/ []<><<AdminReset>>_vars

=============================================================================

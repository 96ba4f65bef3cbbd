------------------------------ MODULE AuthCache ------------------------------
(***************************************************************************)
(* The authentication cache of one API key and its invalidation.           *)
(*                                                                         *)
(* Every process keeps a local cache (L1: positive entries, and a separate *)
(* one for "no such key"); all share a Redis entry (L2); the database is   *)
(* the truth.  A lookup that misses L1 joins or leads a single flight that *)
(* reads L2, then the database, and fills the caches.  A change of the key *)
(* that its trigger watches (key, status, deletion, owner, group, IP lists *)
(* and expiry) commits together with a row of the invalidation outbox.     *)
(* After that change and after any other (quota, rate limits, concurrency, *)
(* name, or the creation of a key whose value was used before) the writer  *)
(* invalidates directly, ignoring errors.  A worker of any process claims  *)
(* the row, clears its own L1, deletes the L2 entry and publishes; the row *)
(* is then scheduled again after a safety delay and only the second pass   *)
(* deletes it.                                                             *)
(*                                                                         *)
(* The contents of the key are a version number: each change makes the     *)
(* next one.  In the versions of Missing the key does not exist; Tracked   *)
(* are the versions whose change commits a row.  Left out: the fan-out of  *)
(* a change of a user or a group to its keys.                              *)
(***************************************************************************)
EXTENDS Naturals, Sequences, FiniteSets

CONSTANTS Procs,       \* server processes
          Caching,     \* those configured with a local cache
          Requests,    \* lookups, each made again after it ends
          Workers,     \* outbox workers, one goroutine each
          Writers,     \* administrators' requests that change the key
          ProcOf,      \* the process each of the three runs in
          Missing,     \* versions in which the key does not exist
          Tracked,     \* versions whose change the trigger watches
          MaxVersion,  \* bound on the changes
          Faults,      \* kinds of failures that may happen
          MaxFaults,   \* bound on the number of failures
          None

Actors == Requests \cup Workers \cup Writers
Invalidators == Workers \cup Writers

ASSUME ConstantsAssumption ==
    /\ MaxVersion \in Nat /\ MaxFaults \in Nat
    /\ ProcOf \in [Actors -> Procs]
    /\ Caching \subseteq Procs
    /\ None \notin Nat /\ None \notin Actors
    /\ Requests \cap Invalidators = {} /\ Workers \cap Writers = {}
    /\ Missing \subseteq Nat /\ 0 \notin Missing
    /\ Tracked \subseteq Nat

VARIABLES
    db,         \* the committed version
    row,        \* row[v]: the outbox row of the change to version v
    l2,         \* version in Redis, or None
    l1, neg,    \* per process: version in the positive / negative cache
    flight,     \* per process: the request leading the registered flight
    at, held,   \* per request: its step, and the version it carries
    lead,       \* per request: the leader it waits for
    began,      \* per request: the version committed when its flight began
    pc, event,  \* per invalidator: its step, and the version (and stage)
    msgs,       \* per process: published invalidations not yet handled
    connected,  \* per process: the subscriber is connected
    told,       \* per process: newest version it has invalidated locally
    faults

caches == <<l2, l1, neg>>
lookups == <<flight, at, held, lead, began>>
delivery == <<msgs, connected, told>>
passes == <<pc, event>>
vars == <<db, row, caches, lookups, passes, delivery, faults>>

Versions == 0..MaxVersion
NoRow == [there |-> FALSE, stage |-> 0, by |-> None, delay |-> {}]
NoEvent == [v |-> 0, stage |-> 0]

Rows == [there : BOOLEAN, stage : {0, 1}, by : Workers \cup {None},
         delay : SUBSET Requests]

Init ==
    /\ db = 0
    /\ row = [v \in 1..MaxVersion |-> NoRow]
    /\ l2 = None
    /\ l1 = [p \in Procs |-> None]
    /\ neg = [p \in Procs |-> None]
    /\ flight = [p \in Procs |-> None]
    /\ at = [r \in Requests |-> "idle"]
    /\ held = [r \in Requests |-> None]
    /\ lead = [r \in Requests |-> None]
    /\ began = [r \in Requests |-> 0]
    /\ pc = [k \in Invalidators |-> "idle"]
    /\ event = [k \in Invalidators |-> NoEvent]
    /\ msgs = [p \in Procs |-> <<>>]
    /\ connected = [p \in Procs |-> p \in Caching]
    /\ told = [p \in Procs |-> 0]
    /\ faults = 0

Fault(kind) == kind \in Faults /\ faults < MaxFaults /\ faults' = faults + 1
Well == UNCHANGED faults

-----------------------------------------------------------------------------
(* Lookups *)

\* getAuthCacheL1Entry: the positive cache first, then the negative one.
L1Hit(p) == l1[p] # None \/ neg[p] # None

\* The flight of r is over; those that wait for it take its result.  The
\* registry forgets it only while it is still the registered one.
EndFlight(r) ==
    LET done == {r} \cup {q \in Requests : at[q] = "wait" /\ lead[q] = r}
    IN  /\ at' = [q \in Requests |-> IF q \in done THEN "idle" ELSE at[q]]
        /\ held' = [held EXCEPT ![r] = None]
        /\ lead' = [q \in Requests |-> IF q \in done THEN None ELSE lead[q]]
        /\ flight' = [p \in Procs |-> IF flight[p] = r THEN None ELSE flight[p]]
        /\ row' = [v \in 1..MaxVersion |-> [row[v] EXCEPT !.delay = @ \ {r}]]
        /\ began' = [began EXCEPT ![r] = 0]

Moves(r, to, value) ==
    /\ at' = [at EXCEPT ![r] = to]
    /\ held' = [held EXCEPT ![r] = value]
    /\ UNCHANGED <<row, flight, lead, began>>

\* GetByKey after a miss in L1: lead a new flight ...
Lead(r) ==
    /\ at[r] = "idle" /\ ~L1Hit(ProcOf[r]) /\ flight[ProcOf[r]] = None
    /\ flight' = [flight EXCEPT ![ProcOf[r]] = r]
    /\ at' = [at EXCEPT ![r] = "read"]
    /\ began' = [began EXCEPT ![r] = db]
    /\ UNCHANGED <<db, row, caches, held, lead, passes, delivery, faults>>

\* ... or wait for the one that is registered.
Join(r) ==
    /\ at[r] = "idle" /\ ~L1Hit(ProcOf[r]) /\ flight[ProcOf[r]] # None
    /\ at' = [at EXCEPT ![r] = "wait"]
    /\ lead' = [lead EXCEPT ![r] = flight[ProcOf[r]]]
    /\ UNCHANGED <<db, row, caches, flight, held, began, passes, delivery, faults>>

\* getAuthCacheEntry: the flight looks into L1 once more, then into L2, where
\* an error is a miss.
ReadCaches(r) ==
    /\ at[r] = "read"
    /\ \/ L1Hit(ProcOf[r]) /\ EndFlight(r) /\ Well
       \/ ~L1Hit(ProcOf[r]) /\ l2 # None /\ Moves(r, "copy", l2) /\ Well
       \/ ~L1Hit(ProcOf[r]) /\ l2 = None /\ Moves(r, "load", None) /\ Well
       \/ ~L1Hit(ProcOf[r]) /\ Fault("redis") /\ Moves(r, "load", None)
    /\ UNCHANGED <<db, caches, passes, delivery>>

\* An entry set in a local cache, where there is one.
Set(cache, p, v) == IF p \in Caching THEN [cache EXCEPT ![p] = v] ELSE cache

\* What L2 held goes into L1.
CopyToL1(r) ==
    /\ at[r] = "copy"
    /\ l1' = Set(l1, ProcOf[r], held[r])
    /\ EndFlight(r)
    /\ UNCHANGED <<db, l2, neg, passes, delivery, faults>>

\* lookupAPIKeyForAuth; a failure ends the flight with an error.
Load(r) ==
    /\ at[r] = "load"
    /\ \/ Moves(r, "fill", db) /\ Well
       \/ Fault("database") /\ EndFlight(r)
    /\ UNCHANGED <<db, caches, passes, delivery>>

\* Mutant of FillL1: "no such key" is cached like any other answer.
FillL1Alike(r) ==
    /\ at[r] = "fill"
    /\ l1' = Set(l1, ProcOf[r], held[r])
    /\ Moves(r, "store", held[r])
    /\ UNCHANGED <<db, l2, neg, passes, delivery, faults>>

\* setAuthCacheL1: "no such key" is kept in the negative cache only.
FillL1(r) ==
    /\ at[r] = "fill"
    /\ IF held[r] \in Missing
       THEN /\ neg' = Set(neg, ProcOf[r], held[r])
            /\ EndFlight(r)
            /\ UNCHANGED l1
       ELSE /\ l1' = Set(l1, ProcOf[r], held[r])
            /\ Moves(r, "store", held[r])
            /\ UNCHANGED neg
    /\ UNCHANGED <<db, l2, passes, delivery, faults>>

\* SetAuthCache; its error is ignored.
StoreL2(r) ==
    /\ at[r] = "store"
    /\ \/ l2' = held[r] /\ Well
       \/ Fault("redis") /\ UNCHANGED l2
    /\ EndFlight(r)
    /\ UNCHANGED <<db, l1, neg, passes, delivery>>

L1Expires(p) ==
    /\ \/ l1[p] # None /\ l1' = [l1 EXCEPT ![p] = None] /\ UNCHANGED neg
       \/ neg[p] # None /\ neg' = [neg EXCEPT ![p] = None] /\ UNCHANGED l1
    /\ UNCHANGED <<db, row, l2, lookups, passes, delivery, faults>>

L2Expires ==
    /\ l2 # None /\ l2' = None
    /\ UNCHANGED <<db, row, l1, neg, lookups, passes, delivery, faults>>

-----------------------------------------------------------------------------
(* Invalidation *)

\* Mutant of InvalidateLocal: the flight under way is not forgotten.
InvalidateLocalEntries(p, v) ==
    /\ l1' = [l1 EXCEPT ![p] = None]
    /\ neg' = [neg EXCEPT ![p] = None]
    /\ told' = [told EXCEPT ![p] = IF v > @ THEN v ELSE @]
    /\ UNCHANGED <<l2, flight, at, held, lead, began>>

\* invalidateLocalAuthCache: forget the flight, delete both local entries.
InvalidateLocal(p, v) ==
    /\ flight' = [flight EXCEPT ![p] = None]
    /\ l1' = [l1 EXCEPT ![p] = None]
    /\ neg' = [neg EXCEPT ![p] = None]
    /\ told' = [told EXCEPT ![p] = IF v > @ THEN v ELSE @]
    /\ UNCHANGED <<l2, at, held, lead, began>>

Goes(k, to) ==
    /\ pc' = [pc EXCEPT ![k] = to]
    /\ event' = IF to = "idle" THEN [event EXCEPT ![k] = NoEvent] ELSE event

Starts(k, v, stage) ==
    /\ pc' = [pc EXCEPT ![k] = "local"]
    /\ event' = [event EXCEPT ![k] = [v |-> v, stage |-> stage]]

\* A change commits, with its outbox row if the trigger watches it, and its
\* writer goes on to deleteAuthCache.
Change(a) ==
    /\ pc[a] = "idle" /\ db < MaxVersion
    /\ db' = db + 1
    /\ row' = [row EXCEPT ![db + 1] = [NoRow EXCEPT !.there = db + 1 \in Tracked]]
    /\ Starts(a, db + 1, 0)
    /\ UNCHANGED <<caches, lookups, delivery, faults>>

\* Claim: a row that is due and not claimed.  One of the second stage is due
\* once the safety delay has passed, which is longer than a lookup may take:
\* the lookups that were under way when it was scheduled have ended.
Claim(k, v) ==
    /\ pc[k] = "idle"
    /\ row[v].there /\ row[v].by = None /\ row[v].delay = {}
    /\ row' = [row EXCEPT ![v].by = k]
    /\ Starts(k, v, row[v].stage)
    /\ UNCHANGED <<db, caches, lookups, delivery, faults>>

\* Mutant of LeaseExpires: a claim is never taken over.
LeaseNeverExpires(v) == FALSE /\ UNCHANGED vars

\* The lease of a claim ends: with its worker gone always, else when the
\* worker takes longer than the lease.
LeaseExpires(v) ==
    /\ row[v].there /\ row[v].by # None
    /\ IF event[row[v].by].v = v THEN Fault("slow") ELSE Well
    /\ row' = [row EXCEPT ![v].by = None]
    /\ UNCHANGED <<db, caches, lookups, passes, delivery>>

\* processEvent and deleteAuthCache begin with this process's own cache.
ClearLocal(k) ==
    /\ pc[k] = "local"
    /\ InvalidateLocal(ProcOf[k], event[k].v)
    /\ Goes(k, "delete")
    /\ UNCHANGED <<db, row, msgs, connected, faults>>

\* DeleteAuthCache.  The writer ignores an error, the worker gives up.
DeleteL2(k) ==
    /\ pc[k] = "delete"
    /\ \/ l2' = None /\ Goes(k, "publish") /\ Well
       \/ /\ Fault("redis") /\ UNCHANGED l2
          /\ Goes(k, IF k \in Workers THEN "retry" ELSE "publish")
    /\ UNCHANGED <<db, row, l1, neg, lookups, delivery>>

\* PublishAuthCacheInvalidation reaches the subscribers that are connected.
Publish(k) ==
    /\ pc[k] = "publish"
    /\ \/ /\ msgs' = [p \in Procs |-> IF connected[p] THEN Append(msgs[p], event[k].v)
                                      ELSE msgs[p]]
          /\ Goes(k, IF k \in Workers THEN "ack" ELSE "idle") /\ Well
       \/ /\ Fault("redis") /\ UNCHANGED msgs
          /\ Goes(k, IF k \in Workers THEN "retry" ELSE "idle")
    /\ UNCHANGED <<db, row, caches, lookups, connected, told>>

Owns(k, v) == row[v].there /\ row[v].by = k

\* Mutant of AfterPass: one pass is enough.
AfterPassOnce(v, stage) == NoRow

\* What the row becomes after a successful pass.
AfterPass(v, stage) ==
    IF stage = 0
    THEN [row[v] EXCEPT !.stage = 1, !.by = None,
                        !.delay = {r \in Requests : at[r] \notin {"idle", "wait"}}]
    ELSE NoRow

\* ScheduleSecondPass or DeleteClaimed, each only for the claim's owner (and
\* the former only at stage 0).
Acknowledge(k) ==
    LET v == event[k].v IN
    /\ pc[k] = "ack"
    /\ \/ /\ row' = IF Owns(k, v) /\ (event[k].stage = 0 => row[v].stage = 0)
                     THEN [row EXCEPT ![v] = AfterPass(v, event[k].stage)]
                     ELSE row
          /\ Well
       \/ Fault("database") /\ UNCHANGED row
    /\ Goes(k, "idle")
    /\ UNCHANGED <<db, caches, lookups, delivery>>

\* RetryClaimed: the row is released at the stage it had.
Retry(k) ==
    LET v == event[k].v IN
    /\ pc[k] = "retry"
    /\ \/ row' = (IF Owns(k, v) THEN [row EXCEPT ![v].by = None] ELSE row) /\ Well
       \/ Fault("database") /\ UNCHANGED row
    /\ Goes(k, "idle")
    /\ UNCHANGED <<db, caches, lookups, delivery>>

-----------------------------------------------------------------------------
(* Delivery, and processes that stop *)

\* The subscriber handles a message.
Deliver(p) ==
    /\ connected[p] /\ msgs[p] # <<>>
    /\ msgs' = [msgs EXCEPT ![p] = Tail(@)]
    /\ InvalidateLocal(p, Head(msgs[p]))
    /\ UNCHANGED <<db, row, passes, connected, faults>>

\* The subscription breaks: what was not handled is lost, and what is
\* published meanwhile; nothing is flushed when it is back.
Disconnect(p) ==
    /\ connected[p] /\ Fault("disconnect")
    /\ connected' = [connected EXCEPT ![p] = FALSE]
    /\ msgs' = [msgs EXCEPT ![p] = <<>>]
    /\ UNCHANGED <<db, row, caches, lookups, passes, told>>

Reconnect(p) ==
    /\ p \in Caching /\ ~connected[p]
    /\ connected' = [connected EXCEPT ![p] = TRUE]
    /\ UNCHANGED <<db, row, caches, lookups, passes, msgs, told, faults>>

\* A process ends and starts anew: everything it held in memory is gone, and
\* with it its lookups and the passes it was making.
Crash(p) ==
    LET dead == {r \in Requests : ProcOf[r] = p}
    IN  /\ Fault("crash")
        /\ l1' = [l1 EXCEPT ![p] = None] /\ neg' = [neg EXCEPT ![p] = None]
        /\ flight' = [flight EXCEPT ![p] = None]
        /\ at' = [r \in Requests |-> IF r \in dead THEN "idle" ELSE at[r]]
        /\ held' = [r \in Requests |-> IF r \in dead THEN None ELSE held[r]]
        /\ lead' = [r \in Requests |-> IF r \in dead THEN None ELSE lead[r]]
        /\ row' = [v \in 1..MaxVersion |-> [row[v] EXCEPT !.delay = @ \ dead]]
        /\ began' = [r \in Requests |-> IF r \in dead THEN 0 ELSE began[r]]
        /\ pc' = [k \in Invalidators |-> IF ProcOf[k] = p THEN "idle" ELSE pc[k]]
        /\ event' = [k \in Invalidators |-> IF ProcOf[k] = p THEN NoEvent ELSE event[k]]
        /\ connected' = [connected EXCEPT ![p] = FALSE]
        /\ msgs' = [msgs EXCEPT ![p] = <<>>]
        /\ told' = [told EXCEPT ![p] = 0]
        /\ UNCHANGED <<db, l2>>

-----------------------------------------------------------------------------
LookupStep(r) ==
    \/ ReadCaches(r) \/ CopyToL1(r) \/ Load(r) \/ FillL1(r) \/ StoreL2(r)

PassStep(k) ==
    ClearLocal(k) \/ DeleteL2(k) \/ Publish(k) \/ Acknowledge(k) \/ Retry(k)

Next ==
    \/ \E r \in Requests : Lead(r) \/ Join(r) \/ LookupStep(r)
    \/ \E p \in Procs : L1Expires(p) \/ Deliver(p) \/ Disconnect(p)
                        \/ Reconnect(p) \/ Crash(p)
    \/ L2Expires
    \/ \E a \in Writers : Change(a)
    \/ \E k \in Workers, v \in 1..MaxVersion : Claim(k, v)
    \/ \E v \in 1..MaxVersion : LeaseExpires(v)
    \/ \E k \in Invalidators : PassStep(k)

Spec == Init /\ [][Next]_vars

\* A lookup that has begun ends (its Redis and database calls have budgets),
\* workers poll, a pass that has begun goes on, leases end, subscribers
\* reconnect and handle what they receive, and entries of L1 live 15 s.
\* Nothing is assumed of the L2 entry's 300 s.
Fairness ==
    /\ \A r \in Requests : WF_vars(LookupStep(r))
    /\ \A k \in Invalidators : WF_vars(PassStep(k))
    /\ \A v \in 1..MaxVersion : /\ WF_vars(LeaseExpires(v))
                                /\ SF_vars(\E k \in Workers : Claim(k, v))
    /\ \A p \in Procs : /\ WF_vars(L1Expires(p)) /\ WF_vars(Deliver(p))
                        /\ WF_vars(Reconnect(p))

FairSpec == Spec /\ Fairness

-----------------------------------------------------------------------------
(* Properties *)

\* Every variable stays in its domain.
TypeOK ==
    /\ db \in Versions
    /\ row \in [1..MaxVersion -> Rows]
    /\ l2 \in (Versions \ Missing) \cup {None}
    /\ l1 \in [Procs -> (Versions \ Missing) \cup {None}]
    /\ neg \in [Procs -> (Versions \cap Missing) \cup {None}]
    /\ flight \in [Procs -> Requests \cup {None}]
    /\ at \in [Requests -> {"idle", "wait", "read", "copy", "load",
                            "fill", "store"}]
    /\ held \in [Requests -> Versions \cup {None}]
    /\ lead \in [Requests -> Requests \cup {None}]
    /\ began \in [Requests -> Versions]
    /\ pc \in [Invalidators -> {"idle", "local", "delete", "publish", "ack", "retry"}]
    /\ event \in [Invalidators -> [v : Versions, stage : {0, 1}]]
    /\ msgs \in [Procs -> Seq(1..MaxVersion)]
    /\ connected \in [Procs -> BOOLEAN]
    /\ told \in [Procs -> Versions]
    /\ faults \in 0..MaxFaults

\* Once the outbox row of a change is gone, the shared Redis entry is not
\* older than that change, and no lookup still carries a version older than
\* it that it will write there: the second pass comes after the last filler.
\* A change without a row promises nothing.
RetiredChangeIsClean ==
    \A v \in Tracked \cap 1..db : ~row[v].there =>
        /\ l2 # None => l2 >= v
        /\ \A r \in Requests : at[r] \in {"fill", "store"} => held[r] >= v

\* A lookup that arrives after its process invalidated the key never joins a
\* flight that began before the change ("must not join a read that started
\* before the key or its permissions changed").
JoinsRecentFlight ==
    [][\A r \in Requests : at[r] = "idle" /\ at'[r] = "wait"
           => began[lead'[r]] >= told[ProcOf[r]]]_vars

\* Nothing, or a version that every change with a row has gone into.
Current(entry) == entry = None \/ \A v \in Tracked \cap 1..db : entry >= v

\* When the key is no longer changed, every cache ends up without any version
\* older than the last change with a row (the key's revocation, say), whatever
\* was lost, crashed or raced, and without the expiry of the shared entry.  Of
\* a later change without a row the shared entry may stay stale for its TTL:
\* the direct invalidation may fail, or a lookup under way store the old one.
CachesConverge ==
    <>[](Current(l2) /\ \A p \in Procs : Current(l1[p]) /\ Current(neg[p]))
=============================================================================

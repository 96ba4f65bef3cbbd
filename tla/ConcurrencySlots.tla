-------------------------- MODULE ConcurrencySlots --------------------------
(***************************************************************************)
(* Distributed concurrency slots of one entity (an account, a user or an   *)
(* API key).  Gateway processes share a Redis sorted set of slot members,  *)
(* a sorted set of Live leases and a counter of queued requests.  Each Lua *)
(* script is one atomic step.  The code around the scripts (acquire, wait  *)
(* queue, heartbeat, release on completion or on client disconnect, Live   *)
(* hand-over, clean-up when a process starts) interleaves freely, every    *)
(* call may fail, and a call the client gave up on may still be executed   *)
(* by Redis later.                                                         *)
(*                                                                         *)
(* Time is relative: left[r] is the number of ticks until the member of r  *)
(* is older than the slot TTL, and one tick is one heartbeat interval, so  *)
(* the states are finite without a bound on time.                          *)
(***************************************************************************)
EXTENDS Naturals, FiniteSets

CONSTANTS
    Procs,           \* gateway processes; a restart is another member
    Requests,        \* requests on the entity, each with one slot member
    LiveRequests,    \* the requests that open a Live session
    MaxConcurrency,  \* limit of the entity; 0 means unlimited but tracked
    QueueLimit,      \* places in the wait queue
    SlotTTL,         \* slot TTL in heartbeat intervals
    MaxLate          \* bound: abandoned calls on their way at any time

ASSUME SlotAssumption ==
    /\ IsFiniteSet(Requests)
    /\ LiveRequests \subseteq Requests
    /\ MaxConcurrency \in Nat
    /\ QueueLimit \in Nat \ {0}
    /\ SlotTTL \in Nat \ {0, 1}
    /\ MaxLate \in Nat

VARIABLES
    proc,       \* life cycle of each process
    home,       \* process that serves each request
    pc,         \* control state of each request
    member,     \* members of the slot set, expired ones included
    left,       \* ticks until a member expires
    live,       \* members of the Live lease set
    waitCount,  \* value of the wait counter
    heart,      \* requests whose heartbeat goroutine runs
    due,        \* heartbeats whose ticker has fired
    pending,    \* calls abandoned by the client that Redis may still execute
    lost,       \* history: holders whose slot or Live lease was removed
    under       \* history: queue places the counter has lost since the queue
                \* was last empty

slotVars == <<member, left, live>>
queueVars == <<waitCount, under>>
beatVars == <<heart, due>>
vars == <<proc, home, pc, slotVars, queueVars, beatVars, pending, lost>>

-----------------------------------------------------------------------------
None == "none"

\* new: not started; slots, waits: the two steps of the start-up clean-up.
Lives == {"new", "slots", "waits", "up", "dead"}

Controls == {"idle", "try", "queue", "wait", "leaveHeld", "leaveFailed",
             "running", "releasing", "disconnected", "draining",
             "handover", "handedOver", "abandoning", "live", "closing",
             "over"}

Calls == {"acquire", "refresh", "increment", "decrement", "live"}

TypeOK ==
    /\ proc \in [Procs -> Lives]
    /\ home \in [Requests -> Procs \cup {None}]
    /\ pc \in [Requests -> Controls]
    /\ member \subseteq Requests
    /\ left \in [Requests -> 0..SlotTTL]
    /\ live \subseteq Requests
    /\ waitCount \in 0..QueueLimit
    /\ heart \subseteq Requests
    /\ due \subseteq heart
    /\ pending \subseteq Calls \X Requests
    /\ lost \subseteq Requests
    /\ under \in Nat

Init ==
    /\ proc = [p \in Procs |-> "new"]
    /\ home = [r \in Requests |-> None]
    /\ pc = [r \in Requests |-> "idle"]
    /\ member = {}
    /\ left = [r \in Requests |-> 0]
    /\ live = {}
    /\ waitCount = 0
    /\ heart = {}
    /\ due = {}
    /\ pending = {}
    /\ lost = {}
    /\ under = 0

-----------------------------------------------------------------------------
(* Groups of requests.                                                     *)

At(states) == {r \in Requests : pc[r] \in states}

\* Requests that occupy the upstream.
InFlight == At({"running", "disconnected", "draining", "handover",
                "handedOver", "live"})

\* Requests that entered the wait queue and have not left it.
Queued == At({"wait", "leaveHeld", "leaveFailed"})

\* Some decrement is still on its way.
DecrementPending == \E r \in Requests : <<"decrement", r>> \in pending

Goto(r, state) == pc' = [pc EXCEPT ![r] = state]

-----------------------------------------------------------------------------
(* The scripts, as functions of the Redis state.                           *)

\* Members that survive ZREMRANGEBYSCORE.
Fresh == {r \in member : left[r] > 0}

\* Mutant of HasCapacity: the Live leases are not counted.
HasCapacityRegular == Cardinality(Fresh) < MaxConcurrency

\* acquireScript prunes both sets and compares the sum of what remains.
HasCapacity == Cardinality(Fresh) + Cardinality(live) < MaxConcurrency

\* acquireLiveLeaseScript with replacing = 1 leaves room for the regular
\* slot that the lease replaces and does not prune the regular set.
HasLiveCapacity ==
    \/ MaxConcurrency = 0
    \/ Cardinality(member) + Cardinality(live) < MaxConcurrency + 1

\* Only the members in set stay; left is 0 for what is not a member.
Keep(set) ==
    /\ member' = set
    /\ left' = [r \in Requests |-> IF r \in set THEN left[r] ELSE 0]

Prune == Keep(Fresh)

\* ZADD with the current time, after the pruning.
Stamp(r) ==
    /\ member' = Fresh \cup {r}
    /\ left' = [left EXCEPT ![r] = SlotTTL]

\* Mutant of Refresh: a refresh that recreates a missing member.
RefreshCreates(r) == Stamp(r)

\* refreshSlotScript renews a member and never creates one.
Refresh(r) == IF r \in Fresh THEN Stamp(r) ELSE Prune

\* The client gives up on a call: it never reached Redis, or it is on its
\* way and will still be executed.
Abandon(call, r) ==
    \/ UNCHANGED pending
    \/ /\ Cardinality(pending) < MaxLate
       /\ pending' = pending \cup {<<call, r>>}

\* Mutant of Decrement: DECR without the test.
DecrementAlways == waitCount' = waitCount - 1

\* decrementWaitScript stops at zero.
Decrement == waitCount' = IF waitCount > 0 THEN waitCount - 1 ELSE 0

StartHeartbeat(r) ==
    /\ heart' = heart \cup {r}
    /\ UNCHANGED due

\* stop() and the wait for doneCh.
StopHeartbeat(r) ==
    /\ heart' = heart \ {r}
    /\ due' = due \ {r}

-----------------------------------------------------------------------------
(* Processes.                                                              *)

\* ProvideConcurrencyService reads the active index.  The index is best
\* effort: the entity may be absent, or the clean-up may fail, and the
\* process then starts without it.
Start(p) ==
    /\ proc[p] = "new"
    /\ \E next \in {"slots", "up"} : proc' = [proc EXCEPT ![p] = next]
    /\ UNCHANGED <<home, pc, slotVars, queueVars, beatVars, pending, lost>>

\* startupCleanupSlotScript removes every member that has not the prefix of
\* the starting process, whether or not its owner is alive.
CleanSlots(p) ==
    /\ proc[p] = "slots"
    /\ proc' = [proc EXCEPT ![p] = "waits"]
    /\ Keep({r \in member : home[r] = p})
    /\ lost' = lost \cup {r \in member \cap heart : home[r] # p}
    /\ UNCHANGED <<home, pc, live, queueVars, beatVars, pending>>

\* The wait counter is then deleted by a second call, which may fail.
CleanWaits(p) ==
    /\ proc[p] = "waits"
    /\ proc' = [proc EXCEPT ![p] = "up"]
    /\ \/ /\ waitCount' = 0
          /\ under' = IF Queued = {} /\ ~DecrementPending THEN 0
                                                  ELSE under + waitCount
       \/ UNCHANGED queueVars
    /\ UNCHANGED <<home, pc, slotVars, beatVars, pending, lost>>

\* A process dies with its requests and heartbeats.  What it left in Redis,
\* and the calls it has already sent, stay.
Crash(p) ==
    /\ proc[p] # "dead"
    /\ proc' = [proc EXCEPT ![p] = "dead"]
    /\ LET killed == {r \in Requests : home[r] = p}
       IN  /\ pc' = [r \in Requests |-> IF r \in killed THEN "over" ELSE pc[r]]
           /\ heart' = heart \ killed
           /\ due' = due \ killed
    /\ UNCHANGED <<home, slotVars, queueVars, pending, lost>>

-----------------------------------------------------------------------------
(* Acquiring a slot and waiting for one.                                   *)

Begin(r, p) ==
    /\ pc[r] = "idle"
    /\ proc[p] = "up"
    /\ home' = [home EXCEPT ![r] = p]
    /\ Goto(r, "try")
    /\ UNCHANGED <<proc, slotVars, queueVars, beatVars, pending, lost>>

\* The slot is granted; a request that was queued has still to leave the
\* queue (the deferred DecrementWaitCount).
Acquire(r) ==
    /\ MaxConcurrency > 0
    /\ pc[r] \in {"try", "wait"}
    /\ HasCapacity
    /\ Stamp(r)
    /\ StartHeartbeat(r)
    /\ Goto(r, IF pc[r] = "try" THEN "running" ELSE "leaveHeld")
    /\ UNCHANGED <<proc, home, live, queueVars, pending, lost>>

\* The entity is full: join the queue, or keep waiting.
AcquireFull(r) ==
    /\ MaxConcurrency > 0
    /\ pc[r] \in {"try", "wait"}
    /\ ~HasCapacity
    /\ Prune
    /\ Goto(r, IF pc[r] = "try" THEN "queue" ELSE "wait")
    /\ UNCHANGED <<proc, home, live, queueVars, beatVars, pending, lost>>

\* The call returns an error and the request is given up.
AcquireFails(r) ==
    /\ MaxConcurrency > 0
    /\ pc[r] \in {"try", "wait"}
    /\ Abandon("acquire", r)
    /\ Goto(r, IF pc[r] = "try" THEN "over" ELSE "leaveFailed")
    /\ UNCHANGED <<proc, home, slotVars, queueVars, beatVars, lost>>

\* Without a limit the slot is only tracked, and an error is ignored: the
\* request then runs without heartbeat and with nothing to release.
TrackSlot(r) ==
    /\ MaxConcurrency = 0
    /\ pc[r] = "try"
    /\ Goto(r, "running")
    /\ \/ /\ Stamp(r)
          /\ StartHeartbeat(r)
          /\ UNCHANGED pending
       \/ /\ Abandon("acquire", r)
          /\ UNCHANGED <<member, left, beatVars>>
    /\ UNCHANGED <<proc, home, live, queueVars, lost>>

\* Mutant of IncrementWait: the limit is compared with > instead of >=.
IncrementWaitOver(r) ==
    /\ pc[r] = "queue"
    /\ waitCount <= QueueLimit
    /\ waitCount' = waitCount + 1
    /\ Goto(r, "wait")
    /\ UNCHANGED <<proc, home, slotVars, under, beatVars, pending, lost>>

IncrementWait(r) ==
    /\ pc[r] = "queue"
    /\ waitCount < QueueLimit
    /\ waitCount' = waitCount + 1
    /\ Goto(r, "wait")
    /\ UNCHANGED <<proc, home, slotVars, under, beatVars, pending, lost>>

QueueFull(r) ==
    /\ pc[r] = "queue"
    /\ waitCount >= QueueLimit
    /\ Goto(r, "over")
    /\ UNCHANGED <<proc, home, slotVars, queueVars, beatVars, pending, lost>>

\* An error of the counter lets the request wait (fail open), and the
\* request will decrement like any other.
IncrementFails(r) ==
    /\ pc[r] = "queue"
    /\ Abandon("increment", r)
    /\ under' = under + 1
    /\ Goto(r, "wait")
    /\ UNCHANGED <<proc, home, slotVars, waitCount, beatVars, lost>>

\* The wait timed out or the client has gone.
WaitTimeout(r) ==
    /\ pc[r] = "wait"
    /\ Goto(r, "leaveFailed")
    /\ UNCHANGED <<proc, home, slotVars, queueVars, beatVars, pending, lost>>

AfterQueue(r) == IF pc[r] = "leaveHeld" THEN "running" ELSE "over"

DecrementWait(r) ==
    /\ pc[r] \in {"leaveHeld", "leaveFailed"}
    /\ Decrement
    /\ under' = IF Queued = {r} /\ ~DecrementPending THEN 0 ELSE under
    /\ Goto(r, AfterQueue(r))
    /\ UNCHANGED <<proc, home, slotVars, beatVars, pending, lost>>

DecrementFails(r) ==
    /\ pc[r] \in {"leaveHeld", "leaveFailed"}
    /\ Abandon("decrement", r)
    /\ Goto(r, AfterQueue(r))
    /\ UNCHANGED <<proc, home, slotVars, queueVars, beatVars, lost>>

-----------------------------------------------------------------------------
(* Holding and releasing a slot.                                           *)

Finish(r) ==
    /\ pc[r] = "running"
    /\ Goto(r, "releasing")
    /\ UNCHANGED <<proc, home, slotVars, queueVars, beatVars, pending, lost>>

\* The client disconnects from a stream: the callback of wrapReleaseOnDone
\* releases the slot while the detached upstream read goes on.
Disconnect(r) ==
    /\ pc[r] = "running"
    /\ Goto(r, "disconnected")
    /\ UNCHANGED <<proc, home, slotVars, queueVars, beatVars, pending, lost>>

\* The upstream has been read to its end; a release that is still under way
\* is waited for (sync.Once).
Drained(r) ==
    /\ pc[r] \in {"disconnected", "draining"}
    /\ Goto(r, IF pc[r] = "disconnected" THEN "releasing" ELSE "over")
    /\ UNCHANGED <<proc, home, slotVars, queueVars, beatVars, pending, lost>>

\* What a request does next once its slot is released.
AfterRelease(r) ==
    CASE pc[r] = "releasing" -> "over"
      [] pc[r] = "disconnected" -> "draining"
      [] pc[r] = "handedOver" -> "live"
      [] pc[r] = "abandoning" -> "closing"

\* The release function: stop the heartbeat, wait for it, ZREM.
Release(r) ==
    /\ pc[r] \in {"releasing", "disconnected", "handedOver", "abandoning"}
    /\ StopHeartbeat(r)
    /\ Keep(member \ {r})
    /\ Goto(r, AfterRelease(r))
    /\ UNCHANGED <<proc, home, live, queueVars, pending, lost>>

\* Mutant of ReleaseFails: the heartbeat is only stopped after a ZREM that
\* succeeds.
ReleaseFailsBeating(r) ==
    /\ pc[r] \in {"releasing", "disconnected", "handedOver", "abandoning"}
    /\ Goto(r, AfterRelease(r))
    /\ UNCHANGED <<proc, home, slotVars, queueVars, beatVars, pending, lost>>

\* ZREM fails: the member is left to expire.
ReleaseFails(r) ==
    /\ pc[r] \in {"releasing", "disconnected", "handedOver", "abandoning"}
    /\ StopHeartbeat(r)
    /\ Goto(r, AfterRelease(r))
    /\ UNCHANGED <<proc, home, slotVars, queueVars, pending, lost>>

\* One iteration of the heartbeat that reaches Redis.  A lost lease stops
\* the heartbeat; the request goes on.
Heartbeat(r) ==
    /\ r \in due
    /\ Refresh(r)
    /\ due' = due \ {r}
    /\ heart' = IF r \in Fresh THEN heart ELSE heart \ {r}
    /\ UNCHANGED <<proc, home, pc, live, queueVars, pending, lost>>

\* An iteration whose refresh fails or times out: try again at the next one.
HeartbeatFails(r) ==
    /\ r \in due
    /\ due' = due \ {r}
    /\ Abandon("refresh", r)
    /\ UNCHANGED <<proc, home, pc, slotVars, queueVars, heart, lost>>

-----------------------------------------------------------------------------
(* Live sessions: the lease replaces the regular slot.                     *)

AcquireLiveLease(r) ==
    /\ r \in LiveRequests
    /\ pc[r] = "running"
    /\ \/ /\ HasLiveCapacity
          /\ live' = live \cup {r}
          /\ Goto(r, "handover")
          /\ UNCHANGED pending
       \/ /\ ~HasLiveCapacity
          /\ Goto(r, "releasing")
          /\ UNCHANGED <<live, pending>>
       \/ /\ Abandon("live", r)
          /\ Goto(r, "releasing")
          /\ UNCHANGED live
    /\ UNCHANGED <<proc, home, member, left, queueVars, beatVars, lost>>

\* createUpstreamLiveCall succeeds or fails; the regular slot is released
\* next in either case.
CreateLiveCall(r) ==
    /\ pc[r] = "handover"
    /\ \E next \in {"handedOver", "abandoning"} : Goto(r, next)
    /\ UNCHANGED <<proc, home, slotVars, queueVars, beatVars, pending, lost>>

EndLiveCall(r) ==
    /\ pc[r] = "live"
    /\ Goto(r, "closing")
    /\ UNCHANGED <<proc, home, slotVars, queueVars, beatVars, pending, lost>>

ReleaseLiveLease(r) ==
    /\ pc[r] = "closing"
    /\ \/ live' = live \ {r}
       \/ UNCHANGED live
    /\ Goto(r, "over")
    /\ UNCHANGED <<proc, home, member, left, queueVars, beatVars, pending,
                   lost>>

\* A Live lease that is not refreshed for its TTL is pruned.
LiveLapse(r) ==
    /\ r \in live
    /\ live' = live \ {r}
    /\ lost' = IF r \in InFlight THEN lost \cup {r} ELSE lost
    /\ UNCHANGED <<proc, home, pc, member, left, queueVars, beatVars, pending>>

-----------------------------------------------------------------------------
(* Redis: abandoned calls, time, key expiry.                               *)

\* Redis executes a call whose client has given up.
Late(call, r) ==
    /\ <<call, r>> \in pending
    /\ pending' = pending \ {<<call, r>>}
    /\ \/ /\ call = "acquire"
          /\ IF HasCapacity \/ MaxConcurrency = 0 THEN Stamp(r) ELSE Prune
          /\ UNCHANGED <<live, waitCount>>
       \/ /\ call = "refresh"
          /\ Refresh(r)
          /\ UNCHANGED <<live, waitCount>>
       \/ /\ call = "increment"
          /\ waitCount' = IF waitCount < QueueLimit THEN waitCount + 1
                                                    ELSE waitCount
          /\ UNCHANGED slotVars
       \/ /\ call = "decrement"
          /\ Decrement
          /\ UNCHANGED slotVars
       \/ /\ call = "live"
          /\ live' = IF HasLiveCapacity THEN live \cup {r} ELSE live
          /\ UNCHANGED <<member, left, waitCount>>
    /\ UNCHANGED <<proc, home, pc, under, beatVars, lost>>

\* The counter's TTL is the longest wait time-out, restarted by every
\* increment, so the key expires only when nobody waits any more; a request
\* that has not yet decremented may still be there.
WaitExpire ==
    /\ waitCount > 0
    /\ At({"wait"}) = {}
    /\ waitCount' = 0
    /\ under' = IF Queued = {} /\ ~DecrementPending THEN 0
                                             ELSE under + waitCount
    /\ UNCHANGED <<proc, home, pc, slotVars, beatVars, pending, lost>>

\* cleanupExpiredSlotsScript and the pruning of every load query.
CleanupExpired ==
    /\ Fresh # member
    /\ Prune
    /\ UNCHANGED <<proc, home, pc, live, queueVars, beatVars, pending, lost>>

\* One heartbeat interval passes; every heartbeat has had its turn.
Tick ==
    /\ due = {}
    /\ left' = [r \in Requests |-> IF left[r] > 0 THEN left[r] - 1 ELSE 0]
    /\ due' = heart
    /\ lost' = lost \cup {r \in heart \cap member : left[r] = 1}
    /\ UNCHANGED <<proc, home, pc, member, live, queueVars, heart, pending>>

-----------------------------------------------------------------------------
Serve(r) ==
    \/ Acquire(r) \/ AcquireFull(r) \/ AcquireFails(r) \/ TrackSlot(r)
    \/ IncrementWait(r) \/ QueueFull(r) \/ IncrementFails(r)
    \/ WaitTimeout(r) \/ DecrementWait(r) \/ DecrementFails(r)
    \/ Finish(r) \/ Disconnect(r) \/ Drained(r)
    \/ Release(r) \/ ReleaseFails(r)
    \/ AcquireLiveLease(r) \/ CreateLiveCall(r) \/ EndLiveCall(r)
    \/ ReleaseLiveLease(r)

Next ==
    \/ \E p \in Procs : Start(p) \/ CleanSlots(p) \/ CleanWaits(p) \/ Crash(p)
    \/ \E r \in Requests : \E p \in Procs : Begin(r, p)
    \/ \E r \in Requests : Serve(r)
    \/ \E r \in Requests : Heartbeat(r) \/ HeartbeatFails(r) \/ LiveLapse(r)
    \/ \E r \in Requests : \E call \in Calls : Late(call, r)
    \/ WaitExpire \/ CleanupExpired \/ Tick

Spec == Init /\ [][Next]_vars

(* Fairness.  Go schedules every goroutine, a wait has a time-out, the     *)
(* upstream read and every Redis call have deadlines, and time passes.     *)
(* Nothing is assumed of arrivals, failures, crashes, starting processes   *)
(* and abandoned calls.  A Live lease nobody refreshes lapses.             *)
Fairness ==
    /\ \A r \in Requests : WF_vars(Serve(r))
    /\ \A r \in Requests : WF_vars(Heartbeat(r) \/ HeartbeatFails(r))
    /\ \A r \in Requests : WF_vars(LiveLapse(r) /\ pc[r] = "over")
    /\ WF_vars(Tick)

FairSpec == Spec /\ Fairness

-----------------------------------------------------------------------------
(* Properties.                                                             *)

\* Requests that were granted a slot and have not given it back.
Holding == At({"leaveHeld", "running", "disconnected", "handover",
               "handedOver", "live"})

\* The limit of the entity bounds the requests in progress, over all
\* processes and through the replacement of a slot by a Live lease, whatever
\* fails and however late Redis executes an abandoned call.  Not counted are
\* the holders whose lease was removed (it lapsed after failed refreshes or
\* another process cleaned it up at its start; the code lets them go on) and
\* streams that are drained after their client disconnected.
CapacityRespected ==
    MaxConcurrency > 0 => Cardinality(Holding \ lost) <= MaxConcurrency

\* The wait queue holds at most QueueLimit requests, plus one for every
\* increment that failed open and every count that an expiry or a start-up
\* clean-up deleted under a request that was still queued.
QueueBounded == Cardinality(Queued) <= QueueLimit + under

\* A slot that was released, lapsed or cleaned up is never recreated: only an
\* acquisition adds a member, a refresh that arrives late does not.
ReleasedStaysReleased ==
    [][\A r \in Requests :
          r \notin member /\ r \in member' =>
              \/ pc[r] \in {"try", "wait"}
              \/ <<"acquire", r>> \in pending]_vars

\* Nothing a finished or crashed request left behind occupies the entity for
\* ever: neither a slot whose release failed or whose acquisition was only
\* executed after the client gave up, nor a Live lease.
LeakReclaimed ==
    \A r \in Requests : pc[r] = "over" ~> [](r \notin Fresh \cup live)
=============================================================================

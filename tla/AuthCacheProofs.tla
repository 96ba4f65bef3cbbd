--------------------------- MODULE AuthCacheProofs ---------------------------
(***************************************************************************)
(* Theorems about AuthCache, for every number of processes, lookups,       *)
(* workers, writers, changes and failures.                                 *)
(*                                                                         *)
(* That a retired change is clean is not inductive: a lookup that read the *)
(* database before the change may fill the shared cache after the first    *)
(* pass.  The invariant says that such a lookup is one of those the second *)
(* pass waits for, and that from the second pass on there is none left.    *)
(***************************************************************************)
EXTENDS AuthCache, SequenceTheorems, TLAPS

\* What is on its way concerns changes that have been committed.
Known ==
    /\ \A k \in Invalidators : pc[k] # "idle" => event[k].v \in 1..db
    /\ msgs \in [Procs -> Seq(1..db)]
    /\ told \in [Procs -> 0..db]

\* Only a committed change that the trigger watches has a row.
RowsKnown == \A v \in 1..MaxVersion : row[v].there => v <= db /\ v \in Tracked

\* A lookup carries what the caches may hold.
Carried ==
    \A r \in Requests :
        /\ at[r] \in {"copy", "store"} => held[r] \in Versions \ Missing
        /\ at[r] = "fill" => held[r] \in 0..db

\* A registered flight is led by a lookup of its process, and it began after
\* every change that the process has been told of.
FlightRecent ==
    \A p \in Procs : flight[p] # None =>
        /\ at[flight[p]] \notin {"idle", "wait"}
        /\ ProcOf[flight[p]] = p
        /\ began[flight[p]] >= told[p]

\* A lookup that carries a version older than a watched change finds the row of
\* the change, and the second pass of that row waits for it.
LateFillersDelay ==
    \A r \in Requests, v \in 1..db :
        v \in Tracked /\ at[r] \in {"fill", "store"} /\ held[r] < v =>
            /\ row[v].there
            /\ row[v].stage = 1 => r \in row[v].delay

\* A second pass waits for nobody, and once it has deleted the shared entry
\* no version older than its change comes back.
SecondPass ==
    \A k \in Workers : pc[k] # "idle" /\ event[k].stage = 1 =>
        LET v == event[k].v IN
        /\ v \in Tracked
        /\ row[v].there => row[v].stage = 1 /\ row[v].delay = {}
        /\ pc[k] \in {"publish", "ack"} /\ l2 # None => l2 >= v

\* No version older than a watched change whose row is gone is in the shared
\* cache.
SharedClean ==
    \A v \in 1..db : v \in Tracked /\ ~row[v].there /\ l2 # None => l2 >= v

IInv ==
    /\ TypeOK
    /\ Known
    /\ RowsKnown
    /\ Carried
    /\ LateFillersDelay
    /\ SecondPass
    /\ SharedClean

-----------------------------------------------------------------------------
\* The types of the rows, the lookups and the passes.
RowType == row \in [1..MaxVersion -> Rows]

LookupType ==
    /\ flight \in [Procs -> Requests \cup {None}]
    /\ at \in [Requests -> {"idle", "wait", "read", "copy", "load",
                            "fill", "store"}]
    /\ held \in [Requests -> Versions \cup {None}]
    /\ lead \in [Requests -> Requests \cup {None}]
    /\ began \in [Requests -> Versions]

PassType ==
    /\ pc \in [Invalidators -> {"idle", "local", "delete", "publish", "ack", "retry"}]
    /\ event \in [Invalidators -> [v : Versions, stage : {0, 1}]]

\* A row that waits for fewer lookups is a row.
LEMMA DelayType ==
    ASSUME NEW x \in Rows, NEW S
    PROVE  [x EXCEPT !.delay = @ \ S] \in Rows
<1> DEFINE D == x.delay \ S
<1>1. D \in SUBSET Requests
  BY DEF Rows
<1> HIDE DEF D
<1>2. [x EXCEPT !.delay = D] \in Rows
  BY <1>1 DEF Rows
<1> QED
  BY <1>2 DEF D

\* The end of a lookup keeps the types.
LEMMA EndFlightType ==
    ASSUME TypeOK, NEW r \in Requests, EndFlight(r)
    PROVE  RowType' /\ LookupType'
<1>1. LookupType'
  BY ConstantsAssumption DEF EndFlight, LookupType, TypeOK, Versions
<1>2. ASSUME NEW v \in 1..MaxVersion
      PROVE  [row[v] EXCEPT !.delay = @ \ {r}] \in Rows
  BY DelayType DEF TypeOK
<1>3. RowType'
  BY <1>2 DEF EndFlight, RowType
<1> QED
  BY <1>1, <1>3

\* The death of a process keeps the types.
LEMMA CrashType ==
    ASSUME TypeOK, NEW p \in Procs, Crash(p)
    PROVE  RowType' /\ LookupType' /\ PassType'
<1>1. LookupType'
  BY ConstantsAssumption DEF Crash, LookupType, TypeOK, Versions
<1>2. ASSUME NEW v \in 1..MaxVersion, NEW S
      PROVE  [row[v] EXCEPT !.delay = @ \ S] \in Rows
  BY DelayType DEF TypeOK
<1>3. RowType'
  BY <1>2 DEF Crash, RowType
<1>4. PassType'
  BY ConstantsAssumption DEF Crash, PassType, TypeOK, NoEvent, Versions
<1> QED
  BY <1>1, <1>3, <1>4

\* A lookup that goes on keeps the types.
LEMMA MovesType ==
    ASSUME TypeOK, NEW r \in Requests,
           NEW to \in {"copy", "load", "fill", "store"}, NEW x \in Versions \cup {None},
           Moves(r, to, x)
    PROVE  RowType' /\ LookupType'
  BY DEF Moves, RowType, LookupType, TypeOK

\* A pass that starts keeps the types.
LEMMA StartsType ==
    ASSUME TypeOK, NEW k \in Invalidators, NEW v \in Versions, NEW s \in {0, 1},
           Starts(k, v, s)
    PROVE  PassType'
  BY DEF Starts, PassType, TypeOK

\* A pass that goes on keeps the types.
LEMMA GoesType ==
    ASSUME TypeOK, NEW k \in Invalidators,
           NEW to \in {"idle", "delete", "publish", "ack", "retry"}, Goes(k, to)
    PROVE  PassType'
<1>1. NoEvent \in [v : Versions, stage : {0, 1}]
  BY ConstantsAssumption DEF NoEvent, Versions
<1> QED
  BY <1>1 DEF Goes, PassType, TypeOK

\* The rows of no change and of a new change are rows.
LEMMA NewRowType ==
    /\ NoRow \in Rows
    /\ \A b \in BOOLEAN : [NoRow EXCEPT !.there = b] \in Rows
  BY DEF NoRow, Rows

\* A row with a new value, or with a new claimant, is a row.
LEMMA RowSet ==
    ASSUME RowType, NEW v \in 1..MaxVersion, NEW x \in Rows,
           row' = [row EXCEPT ![v] = x]
    PROVE  RowType'
  BY DEF RowType

\* A row with another claimant is a row.
LEMMA RowBy ==
    ASSUME RowType, NEW v \in 1..MaxVersion, NEW x \in Workers \cup {None},
           row' = [row EXCEPT ![v].by = x]
    PROVE  RowType'
<1> DEFINE R == [row[v] EXCEPT !.by = x]
<1>1. R \in Rows
  BY DEF RowType, Rows
<1>2. row' = [row EXCEPT ![v] = R]
  BY DEF RowType
<1> HIDE DEF R
<1> QED
  BY <1>1, <1>2 DEF RowType

\* A failure is counted up to the bound.
LEMMA FaultsType ==
    ASSUME TypeOK, \/ UNCHANGED faults
                   \/ faults < MaxFaults /\ faults' = faults + 1
    PROVE  faults' \in 0..MaxFaults
  BY ConstantsAssumption DEF TypeOK

\* The rows before and after differ at most in who claims them and whom
\* they wait for.
SameRows ==
    \A v \in 1..MaxVersion : row'[v].there = row[v].there /\ row'[v].stage = row[v].stage

\* The end of a lookup only takes it off the rows that wait for it.
LEMMA EndFlightRow ==
    ASSUME TypeOK, NEW r \in Requests, EndFlight(r)
    PROVE  /\ SameRows
           /\ \A v \in 1..MaxVersion : row'[v].delay = row[v].delay \ {r}
<1> SUFFICES ASSUME NEW v \in 1..MaxVersion
             PROVE  /\ row'[v].there = row[v].there /\ row'[v].stage = row[v].stage
                    /\ row'[v].delay = row[v].delay \ {r}
  BY DEF SameRows
<1>1. row'[v] = [row[v] EXCEPT !.delay = @ \ {r}]
  BY DEF EndFlight
<1>2. row[v] \in Rows
  BY DEF TypeOK
<1> QED
  BY <1>1, <1>2 DEF Rows

\* The death of a process only takes its lookups off the rows.
LEMMA CrashRow ==
    ASSUME TypeOK, NEW p \in Procs, Crash(p)
    PROVE  /\ SameRows
           /\ \A v \in 1..MaxVersion :
                 row'[v].delay = row[v].delay \ {r \in Requests : ProcOf[r] = p}
<1> DEFINE D == {r \in Requests : ProcOf[r] = p}
<1> SUFFICES ASSUME NEW v \in 1..MaxVersion
             PROVE  /\ row'[v].there = row[v].there /\ row'[v].stage = row[v].stage
                    /\ row'[v].delay = row[v].delay \ D
  BY DEF SameRows
<1>1. row'[v] = [row[v] EXCEPT !.delay = @ \ D]
  BY DEF Crash
<1>2. row[v] \in Rows
  BY DEF TypeOK
<1> HIDE DEF D
<1> QED
  BY <1>1, <1>2 DEF Rows

\* A claim changes nothing else of the rows.
LEMMA ByRow ==
    ASSUME TypeOK, NEW v \in 1..MaxVersion, NEW x,
           row' = [row EXCEPT ![v].by = x]
    PROVE  /\ SameRows
           /\ \A w \in 1..MaxVersion : row'[w].delay = row[w].delay
<1> SUFFICES ASSUME NEW w \in 1..MaxVersion
             PROVE  /\ row'[w].there = row[w].there /\ row'[w].stage = row[w].stage
                    /\ row'[w].delay = row[w].delay
  BY DEF SameRows
<1>1. row'[w] = IF w = v THEN [row[w] EXCEPT !.by = x] ELSE row[w]
  BY DEF TypeOK
<1>2. row[w] \in Rows
  BY DEF TypeOK
<1> QED
  BY <1>1, <1>2 DEF Rows

\* A step of a lookup changes the rows only in that its end is waited for.
LEMMA LookupRow ==
    ASSUME TypeOK, NEW r \in Requests, LookupStep(r)
    PROVE  /\ SameRows
           /\ \/ \A v \in 1..MaxVersion : row'[v].delay = row[v].delay
              \/ /\ at'[r] = "idle"
                 /\ \A v \in 1..MaxVersion : row'[v].delay = row[v].delay \ {r}
<1>1. CASE EndFlight(r)
  <2>1. at'[r] = "idle"
    BY <1>1 DEF EndFlight
  <2> QED
    BY <1>1, <2>1, EndFlightRow
<1>2. CASE UNCHANGED row
  <2>1. SameRows
    BY <1>2 DEF SameRows
  <2>2. \A v \in 1..MaxVersion : row'[v].delay = row[v].delay
    BY <1>2
  <2> QED
    BY <2>1, <2>2
<1> QED
  BY <1>1, <1>2 DEF LookupStep, ReadCaches, CopyToL1, Load, FillL1, StoreL2, Moves

\* What acknowledging a pass may do to a row.
Scheduled(k, w) ==
    /\ w = event[k].v /\ event[k].stage = 0
    /\ row[w].there /\ row[w].by = k /\ row[w].stage = 0
    /\ row'[w].there /\ row'[w].stage = 1
    /\ row'[w].delay = {r \in Requests : at[r] \notin {"idle", "wait"}}

Retired(k, w) ==
    /\ w = event[k].v /\ event[k].stage = 1
    /\ row[w].there /\ row[w].by = k
    /\ ~row'[w].there /\ row'[w].stage = 0

\* An acknowledgement schedules the second pass of its row, or retires it.
LEMMA AckRow ==
    ASSUME TypeOK, NEW k \in Invalidators, event[k].v \in 1..MaxVersion,
           Acknowledge(k), NEW w \in 1..MaxVersion
    PROVE  row'[w] = row[w] \/ Scheduled(k, w) \/ Retired(k, w)
<1> DEFINE v == event[k].v
           D == {r \in Requests : at[r] \notin {"idle", "wait"}}
<1>1. row[w] \in Rows /\ v \in 1..MaxVersion
  BY DEF TypeOK
<1>2. CASE w = v /\ row' = [row EXCEPT ![v] = AfterPass(v, event[k].stage)]
           /\ Owns(k, v) /\ (event[k].stage = 0 => row[v].stage = 0)
  <2>1. row'[w] = AfterPass(w, event[k].stage)
    BY <1>2 DEF TypeOK
  <2>2. CASE event[k].stage = 0
    <3>1. row'[w] = [row[w] EXCEPT !.stage = 1, !.by = None, !.delay = D]
      BY <2>1, <2>2 DEF AfterPass
    <3> HIDE DEF D
    <3>2. row'[w].there = row[w].there /\ row'[w].stage = 1 /\ row'[w].delay = D
      BY <1>1, <3>1 DEF Rows
    <3> QED
      BY <1>2, <2>2, <3>2 DEF Owns, Scheduled, D
  <2>3. CASE event[k].stage = 1
    <3>1. row'[w] = NoRow
      BY <2>1, <2>3 DEF AfterPass
    <3> QED
      BY <1>2, <2>3, <3>1 DEF Owns, Retired, NoRow
  <2> QED
    BY <2>2, <2>3 DEF TypeOK
<1>3. CASE UNCHANGED row
  BY <1>3
<1>4. CASE w # v /\ row' = [row EXCEPT ![v] = AfterPass(v, event[k].stage)]
  BY <1>4 DEF TypeOK
<1> QED
  BY <1>2, <1>3, <1>4 DEF Acknowledge

\* Every step keeps the types.
LEMMA TypeStep ==
    TypeOK /\ Known /\ Carried /\ [Next]_vars => TypeOK'
<1> SUFFICES ASSUME TypeOK, Known, Carried, [Next]_vars
             PROVE  TypeOK'
  OBVIOUS
<1>1. ASSUME NEW r \in Requests, Lead(r)
       PROVE  TypeOK'
  BY <1>1, ConstantsAssumption DEF Lead, Actors, Invalidators, Versions,
     TypeOK, caches, lookups, passes, delivery
<1>2. ASSUME NEW r \in Requests, Join(r)
       PROVE  TypeOK'
  BY <1>2, ConstantsAssumption DEF Join, Actors, Invalidators, Versions,
     TypeOK, caches, lookups, passes, delivery
<1>3. ASSUME NEW r \in Requests, ReadCaches(r)
       PROVE  TypeOK'
  <2>1. RowType' /\ LookupType'
    <3>1. CASE EndFlight(r)
      BY <3>1, EndFlightType
    <3>2. CASE Moves(r, "copy", l2)
      BY <3>2, MovesType DEF TypeOK
    <3>3. CASE Moves(r, "load", None)
      BY <3>3, MovesType
    <3> QED
      BY <1>3, <3>1, <3>2, <3>3 DEF ReadCaches
  <2>2. faults' \in 0..MaxFaults
    BY <1>3, FaultsType DEF ReadCaches, Fault, Well
  <2> QED
    BY <1>3, <2>1, <2>2, ConstantsAssumption DEF ReadCaches, Actors,
       Invalidators, Versions, TypeOK, RowType, LookupType, PassType,
       caches, passes, delivery
<1>4. ASSUME NEW r \in Requests, CopyToL1(r)
       PROVE  TypeOK'
  <2>1. RowType' /\ LookupType'
    <3>1. CASE EndFlight(r)
      BY <3>1, EndFlightType
    <3> QED
      BY <1>4, <3>1 DEF CopyToL1
  <2>2. faults' \in 0..MaxFaults
    BY <1>4, FaultsType DEF CopyToL1, Fault, Well
  <2> QED
    BY <1>4, <2>1, <2>2, ConstantsAssumption DEF CopyToL1, Set, Carried,
       Actors, Invalidators, Versions, TypeOK, RowType, LookupType,
       PassType, caches, passes, delivery
<1>5. ASSUME NEW r \in Requests, Load(r)
       PROVE  TypeOK'
  <2>1. RowType' /\ LookupType'
    <3>1. CASE EndFlight(r)
      BY <3>1, EndFlightType
    <3>2. CASE Moves(r, "fill", db)
      BY <3>2, MovesType DEF TypeOK
    <3> QED
      BY <1>5, <3>1, <3>2 DEF Load
  <2>2. faults' \in 0..MaxFaults
    BY <1>5, FaultsType DEF Load, Fault, Well
  <2> QED
    BY <1>5, <2>1, <2>2, ConstantsAssumption DEF Load, Actors,
       Invalidators, Versions, TypeOK, RowType, LookupType, PassType,
       caches, passes, delivery
<1>6. ASSUME NEW r \in Requests, FillL1(r)
       PROVE  TypeOK'
  <2>1. RowType' /\ LookupType'
    <3>1. CASE EndFlight(r)
      BY <3>1, EndFlightType
    <3>2. CASE Moves(r, "store", held[r])
      BY <3>2, MovesType DEF TypeOK
    <3> QED
      BY <1>6, <3>1, <3>2 DEF FillL1
  <2>2. faults' \in 0..MaxFaults
    BY <1>6, FaultsType DEF FillL1, Fault, Well
  <2>3. held[r] \in Versions
    BY <1>6, ConstantsAssumption DEF FillL1, Carried, TypeOK, Versions
  <2>4. /\ l1' \in [Procs -> (Versions \ Missing) \cup {None}]
        /\ neg' \in [Procs -> (Versions \cap Missing) \cup {None}]
    BY <1>6, <2>3 DEF FillL1, Set, TypeOK
  <2> QED
    BY <1>6, <2>1, <2>2, <2>4, ConstantsAssumption DEF FillL1, 
       Actors, Invalidators, TypeOK, RowType, LookupType,
       PassType, caches, passes, delivery
<1>7. ASSUME NEW r \in Requests, StoreL2(r)
       PROVE  TypeOK'
  <2>1. RowType' /\ LookupType'
    <3>1. CASE EndFlight(r)
      BY <3>1, EndFlightType
    <3> QED
      BY <1>7, <3>1 DEF StoreL2
  <2>2. faults' \in 0..MaxFaults
    BY <1>7, FaultsType DEF StoreL2, Fault, Well
  <2> QED
    BY <1>7, <2>1, <2>2, ConstantsAssumption DEF StoreL2, Carried,
       Actors, Invalidators, Versions, TypeOK, RowType, LookupType,
       PassType, caches, passes, delivery
<1>8. ASSUME NEW p \in Procs, L1Expires(p)
       PROVE  TypeOK'
  BY <1>8, ConstantsAssumption DEF L1Expires, Actors, Invalidators,
     Versions, TypeOK, caches, lookups, passes, delivery
<1>9. ASSUME NEW p \in Procs, Deliver(p)
       PROVE  TypeOK'
  BY <1>9, ConstantsAssumption DEF Deliver, InvalidateLocal, Actors,
     Invalidators, Versions, TypeOK, caches, lookups, passes, delivery
<1>10. ASSUME NEW p \in Procs, Disconnect(p)
       PROVE  TypeOK'
  BY <1>10, ConstantsAssumption DEF Disconnect, Fault, Actors,
     Invalidators, Versions, TypeOK, caches, lookups, passes, delivery
<1>11. ASSUME NEW p \in Procs, Reconnect(p)
       PROVE  TypeOK'
  BY <1>11, ConstantsAssumption DEF Reconnect, Actors, Invalidators,
     Versions, TypeOK, caches, lookups, passes, delivery
<1>12. ASSUME NEW p \in Procs, Crash(p)
       PROVE  TypeOK'
  <2>1. RowType' /\ LookupType' /\ PassType'
    BY <1>12, CrashType
  <2> QED
    BY <1>12, <2>1, ConstantsAssumption DEF Crash, Fault, Actors,
       Invalidators, Versions, TypeOK, RowType, LookupType, PassType
<1>13. ASSUME L2Expires
       PROVE  TypeOK'
  BY <1>13, ConstantsAssumption DEF L2Expires, Actors, Invalidators,
     Versions, TypeOK, caches, lookups, passes, delivery
<1>14. ASSUME NEW a \in Writers, Change(a)
       PROVE  TypeOK'
  <2>1. PassType'
    BY <1>14, StartsType, ConstantsAssumption DEF Change, Invalidators, Versions, TypeOK
  <2>2. RowType'
    <3>1. db + 1 \in 1..MaxVersion
      BY <1>14, ConstantsAssumption DEF Change, TypeOK, Versions
    <3>2. (db + 1 \in Tracked) \in BOOLEAN
      OBVIOUS
    <3> QED
      BY <1>14, <3>1, <3>2, NewRowType, RowSet DEF Change, RowType, TypeOK
  <2> QED
    BY <1>14, <2>1, <2>2, ConstantsAssumption
       DEF Change, Versions, TypeOK, RowType, PassType, caches, lookups, delivery
<1>15. ASSUME NEW k \in Workers, NEW v \in 1..MaxVersion, Claim(k, v)
       PROVE  TypeOK'
  <2>1. row[v].stage \in {0, 1} /\ v \in Versions
    BY ConstantsAssumption DEF TypeOK, Rows, Versions
  <2>2. PassType'
    BY <1>15, <2>1, StartsType DEF Claim, Invalidators
  <2>3. RowType'
    BY <1>15, RowBy DEF Claim, RowType, TypeOK
  <2> QED
    BY <1>15, <2>2, <2>3 DEF Claim, TypeOK, RowType, PassType, caches, lookups, delivery
<1>16. ASSUME NEW v \in 1..MaxVersion, LeaseExpires(v)
       PROVE  TypeOK'
  <2>1. RowType'
    BY <1>16, RowBy DEF LeaseExpires, RowType, TypeOK
  <2>2. faults' \in 0..MaxFaults
    BY <1>16, FaultsType DEF LeaseExpires, Fault, Well
  <2> QED
    BY <1>16, <2>1, <2>2 DEF LeaseExpires, RowType, TypeOK, caches, lookups, passes, delivery
<1>17. ASSUME NEW k \in Invalidators, ClearLocal(k)
       PROVE  TypeOK'
  <2>1. PassType'
    BY <1>17, GoesType DEF ClearLocal
  <2>2. event[k].v \in Versions /\ ProcOf[k] \in Procs
    BY ConstantsAssumption DEF TypeOK, Actors, Invalidators
  <2> QED
    BY <1>17, <2>1, <2>2, ConstantsAssumption
       DEF ClearLocal, InvalidateLocal, TypeOK, PassType, Versions
<1>18. ASSUME NEW k \in Invalidators, DeleteL2(k)
       PROVE  TypeOK'
  <2>1. PassType'
    BY <1>18, GoesType DEF DeleteL2
  <2> QED
    BY <1>18, <2>1, ConstantsAssumption
       DEF DeleteL2, Fault, Well, TypeOK, PassType, lookups, delivery
<1>19. ASSUME NEW k \in Invalidators, Publish(k)
       PROVE  TypeOK'
  <2>1. PassType'
    BY <1>19, GoesType DEF Publish
  <2>2. event[k].v \in 1..MaxVersion
    BY <1>19, ConstantsAssumption DEF Publish, Known, TypeOK, Versions
  <2>3. msgs' \in [Procs -> Seq(1..MaxVersion)]
    <3>1. ASSUME NEW p \in Procs
          PROVE  Append(msgs[p], event[k].v) \in Seq(1..MaxVersion)
      BY <2>2 DEF TypeOK
    <3>2. CASE UNCHANGED msgs
      BY <3>2 DEF TypeOK
    <3>3. CASE msgs' = [p \in Procs |-> IF connected[p] THEN Append(msgs[p], event[k].v)
                                         ELSE msgs[p]]
      BY <3>1, <3>3 DEF TypeOK
    <3> QED
      BY <1>19, <3>2, <3>3 DEF Publish
  <2>4. faults' \in 0..MaxFaults
    BY <1>19, FaultsType DEF Publish, Fault, Well
  <2> QED
    BY <1>19, <2>1, <2>3, <2>4 DEF Publish, TypeOK, PassType, caches, lookups
<1>20. ASSUME NEW k \in Invalidators, Acknowledge(k)
       PROVE  TypeOK'
  <2>1. PassType'
    BY <1>20, GoesType DEF Acknowledge
  <2>2. ASSUME NEW v \in 1..MaxVersion, NEW s
        PROVE  AfterPass(v, s) \in Rows
    <3> DEFINE D == {r \in Requests : at[r] \notin {"idle", "wait"}}
    <3>1. D \in SUBSET Requests
      OBVIOUS
    <3> HIDE DEF D
    <3>2. [row[v] EXCEPT !.stage = 1, !.by = None, !.delay = D] \in Rows
      <4>1. row[v] \in Rows
        BY DEF TypeOK
      <4> QED
        BY <3>1, <4>1 DEF Rows
    <3>3. CASE s = 0
      BY <3>2, <3>3 DEF AfterPass, D
    <3>4. CASE s # 0
      BY <3>4, NewRowType DEF AfterPass
    <3> QED
      BY <3>3, <3>4
  <2>3. RowType'
    <3>1. event[k].v \in 1..MaxVersion
      BY <1>20, ConstantsAssumption DEF Acknowledge, Known, TypeOK, Versions
    <3>2. CASE UNCHANGED row
      BY <3>2 DEF RowType, TypeOK
    <3>3. CASE row' = [row EXCEPT ![event[k].v] = AfterPass(event[k].v, event[k].stage)]
      BY <2>2, <3>1, <3>3, RowSet DEF RowType, TypeOK
    <3> QED
      BY <1>20, <3>2, <3>3 DEF Acknowledge
  <2>4. faults' \in 0..MaxFaults
    BY <1>20, FaultsType DEF Acknowledge, Fault, Well
  <2> QED
    BY <1>20, <2>1, <2>3, <2>4 DEF Acknowledge, TypeOK, RowType, PassType, caches, lookups, delivery
<1>21. ASSUME NEW k \in Invalidators, Retry(k)
       PROVE  TypeOK'
  <2>1. PassType'
    BY <1>21, GoesType DEF Retry
  <2>2. RowType'
    <3>1. event[k].v \in 1..MaxVersion
      BY <1>21, ConstantsAssumption DEF Retry, Known, TypeOK, Versions
    <3>2. CASE UNCHANGED row
      BY <3>2 DEF RowType, TypeOK
    <3>3. CASE row' = [row EXCEPT ![event[k].v].by = None]
      BY <3>1, <3>3, RowBy DEF RowType, TypeOK
    <3> QED
      BY <1>21, <3>2, <3>3 DEF Retry
  <2>3. faults' \in 0..MaxFaults
    BY <1>21, FaultsType DEF Retry, Fault, Well
  <2> QED
    BY <1>21, <2>1, <2>2, <2>3 DEF Retry, TypeOK, RowType, PassType, caches, lookups, delivery
<1>22. ASSUME UNCHANGED vars
       PROVE  TypeOK'
  BY <1>22, ConstantsAssumption DEF vars, Actors, Invalidators, Versions,
     TypeOK, caches, lookups, passes, delivery
<1> QED
  BY <1>1, <1>2, <1>3, <1>4, <1>5, <1>6, <1>7, <1>8, <1>9, <1>10, <1>11,
     <1>12, <1>13, <1>14, <1>15, <1>16, <1>17, <1>18, <1>19, <1>20, <1>21,
     <1>22 DEF Next, LookupStep, PassStep

\* Every step keeps Known.
LEMMA KnownStep ==
    TypeOK /\ Known /\ RowsKnown /\ [Next]_vars => Known'
<1> SUFFICES ASSUME TypeOK, Known, RowsKnown, [Next]_vars
             PROVE  Known'
  OBVIOUS
<1> USE ConstantsAssumption DEF Actors, Invalidators, Versions, Rows, NoRow, NoEvent, TypeOK, Known
<1>1. ASSUME NEW r \in Requests, Lead(r)
       PROVE  Known'
  BY <1>1 DEF Lead, caches, lookups, passes, delivery
<1>2. ASSUME NEW r \in Requests, Join(r)
       PROVE  Known'
  BY <1>2 DEF Join, caches, lookups, passes, delivery
<1>3. ASSUME NEW r \in Requests, ReadCaches(r)
       PROVE  Known'
  BY <1>3 DEF ReadCaches, EndFlight, Moves, Fault, Well, caches, lookups,
     passes, delivery
<1>4. ASSUME NEW r \in Requests, CopyToL1(r)
       PROVE  Known'
  BY <1>4 DEF CopyToL1, EndFlight, Set, caches, lookups, passes, delivery
<1>5. ASSUME NEW r \in Requests, Load(r)
       PROVE  Known'
  BY <1>5 DEF Load, EndFlight, Moves, Fault, Well, caches, lookups,
     passes, delivery
<1>6. ASSUME NEW r \in Requests, FillL1(r)
       PROVE  Known'
  BY <1>6 DEF FillL1, EndFlight, Moves, Set, caches, lookups, passes,
     delivery
<1>7. ASSUME NEW r \in Requests, StoreL2(r)
       PROVE  Known'
  BY <1>7 DEF StoreL2, EndFlight, Fault, Well, caches, lookups, passes,
     delivery
<1>8. ASSUME NEW p \in Procs, L1Expires(p)
       PROVE  Known'
  BY <1>8 DEF L1Expires, caches, lookups, passes, delivery
<1>9. ASSUME NEW p \in Procs, Deliver(p)
       PROVE  Known'
  BY <1>9 DEF Deliver, InvalidateLocal, caches, lookups, passes, delivery
<1>10. ASSUME NEW p \in Procs, Disconnect(p)
       PROVE  Known'
  BY <1>10 DEF Disconnect, Fault, caches, lookups, passes, delivery
<1>11. ASSUME NEW p \in Procs, Reconnect(p)
       PROVE  Known'
  BY <1>11 DEF Reconnect, caches, lookups, passes, delivery
<1>12. ASSUME NEW p \in Procs, Crash(p)
       PROVE  Known'
  BY <1>12 DEF Crash, Fault, caches, lookups, passes, delivery
<1>13. ASSUME L2Expires
       PROVE  Known'
  BY <1>13 DEF L2Expires, caches, lookups, passes, delivery
<1>14. ASSUME NEW a \in Writers, Change(a)
       PROVE  Known'
  BY <1>14 DEF Change, Starts, caches, lookups, passes, delivery
<1>15. ASSUME NEW k \in Workers, NEW v \in 1..MaxVersion, Claim(k, v)
       PROVE  Known'
  <2>1. v \in 1..db
    BY <1>15 DEF Claim, RowsKnown
  <2> QED
    BY <1>15, <2>1 DEF Claim, Starts, caches, lookups, passes, delivery
<1>16. ASSUME NEW v \in 1..MaxVersion, LeaseExpires(v)
       PROVE  Known'
  BY <1>16 DEF LeaseExpires, Fault, Well, caches, lookups, passes,
     delivery
<1>17. ASSUME NEW k \in Invalidators, ClearLocal(k)
       PROVE  Known'
  BY <1>17 DEF ClearLocal, InvalidateLocal, Goes, caches, lookups,
     passes, delivery
<1>18. ASSUME NEW k \in Invalidators, DeleteL2(k)
       PROVE  Known'
  BY <1>18 DEF DeleteL2, Goes, Fault, Well, caches, lookups, passes,
     delivery
<1>19. ASSUME NEW k \in Invalidators, Publish(k)
       PROVE  Known'
  <2>1. event[k].v \in 1..db
    BY <1>19 DEF Publish
  <2>2. ASSUME NEW p \in Procs
        PROVE  Append(msgs[p], event[k].v) \in Seq(1..db)
    BY <2>1
  <2>3. msgs' \in [Procs -> Seq(1..db)]
    <3>1. CASE UNCHANGED msgs
      BY <3>1
    <3>2. CASE msgs' = [p \in Procs |-> IF connected[p] THEN Append(msgs[p], event[k].v)
                                         ELSE msgs[p]]
      BY <2>2, <3>2
    <3> QED
      BY <1>19, <3>1, <3>2 DEF Publish
  <2>4. ASSUME NEW j \in Invalidators, pc'[j] # "idle"
        PROVE  event'[j].v \in 1..db
    BY <1>19, <2>4 DEF Publish, Goes
  <2> QED
    BY <1>19, <2>3, <2>4 DEF Publish, caches, lookups
<1>20. ASSUME NEW k \in Invalidators, Acknowledge(k)
       PROVE  Known'
  BY <1>20 DEF Acknowledge, AfterPass, Owns, Goes, Fault, Well, caches,
     lookups, passes, delivery
<1>21. ASSUME NEW k \in Invalidators, Retry(k)
       PROVE  Known'
  BY <1>21 DEF Retry, Owns, Goes, Fault, Well, caches, lookups, passes,
     delivery
<1>22. ASSUME UNCHANGED vars
       PROVE  Known'
  BY <1>22 DEF vars, caches, lookups, passes, delivery
<1> QED
  BY <1>1, <1>2, <1>3, <1>4, <1>5, <1>6, <1>7, <1>8, <1>9, <1>10, <1>11,
     <1>12, <1>13, <1>14, <1>15, <1>16, <1>17, <1>18, <1>19, <1>20, <1>21,
     <1>22 DEF Next, LookupStep, PassStep

\* A row is only written for a change that is committed.
LEMMA RowsKnownStep ==
    TypeOK /\ Known /\ RowsKnown /\ [Next]_vars => RowsKnown'
<1> SUFFICES ASSUME TypeOK, Known, RowsKnown, [Next]_vars
             PROVE  RowsKnown'
  OBVIOUS
<1> USE ConstantsAssumption DEF RowsKnown
<1>1. ASSUME NEW r \in Requests, Lead(r)
       PROVE  RowsKnown'
  BY <1>1 DEF Lead, caches, lookups, passes, delivery
<1>2. ASSUME NEW r \in Requests, Join(r)
       PROVE  RowsKnown'
  BY <1>2 DEF Join, caches, lookups, passes, delivery
<1>3. ASSUME NEW r \in Requests, ReadCaches(r)
       PROVE  RowsKnown'
  <2>1. SameRows
    BY <1>3, LookupRow DEF LookupStep
  <2> QED
    BY <1>3, <2>1 DEF SameRows, ReadCaches
<1>4. ASSUME NEW r \in Requests, CopyToL1(r)
       PROVE  RowsKnown'
  <2>1. SameRows
    BY <1>4, LookupRow DEF LookupStep
  <2> QED
    BY <1>4, <2>1 DEF SameRows, CopyToL1
<1>5. ASSUME NEW r \in Requests, Load(r)
       PROVE  RowsKnown'
  <2>1. SameRows
    BY <1>5, LookupRow DEF LookupStep
  <2> QED
    BY <1>5, <2>1 DEF SameRows, Load
<1>6. ASSUME NEW r \in Requests, FillL1(r)
       PROVE  RowsKnown'
  <2>1. SameRows
    BY <1>6, LookupRow DEF LookupStep
  <2> QED
    BY <1>6, <2>1 DEF SameRows, FillL1
<1>7. ASSUME NEW r \in Requests, StoreL2(r)
       PROVE  RowsKnown'
  <2>1. SameRows
    BY <1>7, LookupRow DEF LookupStep
  <2> QED
    BY <1>7, <2>1 DEF SameRows, StoreL2
<1>8. ASSUME NEW p \in Procs, L1Expires(p)
       PROVE  RowsKnown'
  BY <1>8 DEF L1Expires, caches, lookups, passes, delivery
<1>9. ASSUME NEW p \in Procs, Deliver(p)
       PROVE  RowsKnown'
  BY <1>9 DEF Deliver, InvalidateLocal, caches, lookups, passes, delivery
<1>10. ASSUME NEW p \in Procs, Disconnect(p)
       PROVE  RowsKnown'
  BY <1>10 DEF Disconnect, Fault, caches, lookups, passes, delivery
<1>11. ASSUME NEW p \in Procs, Reconnect(p)
       PROVE  RowsKnown'
  BY <1>11 DEF Reconnect, caches, lookups, passes, delivery
<1>12. ASSUME NEW p \in Procs, Crash(p)
       PROVE  RowsKnown'
  <2>1. SameRows
    BY <1>12, CrashRow
  <2> QED
    BY <1>12, <2>1 DEF SameRows, Crash
<1>13. ASSUME L2Expires
       PROVE  RowsKnown'
  BY <1>13 DEF L2Expires, caches, lookups, passes, delivery
<1>14. ASSUME NEW a \in Writers, Change(a)
       PROVE  RowsKnown'
  <2>1. \A v \in 1..MaxVersion : row'[v] = row[v] \/ v = db + 1
    BY <1>14 DEF Change, TypeOK
  <2>2. db + 1 \in 1..MaxVersion /\ row'[db + 1].there => db + 1 \in Tracked
    BY <1>14 DEF Change, TypeOK, NoRow
  <2>3. db \in Nat /\ db' = db + 1
    BY <1>14 DEF Change, TypeOK, Versions
  <2> QED
    BY <2>1, <2>2, <2>3
<1>15. ASSUME NEW k \in Workers, NEW v \in 1..MaxVersion, Claim(k, v)
       PROVE  RowsKnown'
  <2>1. SameRows
    BY <1>15, ByRow DEF Claim
  <2> QED
    BY <1>15, <2>1 DEF SameRows, Claim
<1>16. ASSUME NEW v \in 1..MaxVersion, LeaseExpires(v)
       PROVE  RowsKnown'
  <2>1. SameRows
    BY <1>16, ByRow DEF LeaseExpires
  <2> QED
    BY <1>16, <2>1 DEF SameRows, LeaseExpires
<1>17. ASSUME NEW k \in Invalidators, ClearLocal(k)
       PROVE  RowsKnown'
  BY <1>17 DEF ClearLocal, InvalidateLocal, Goes, caches, lookups,
     passes, delivery
<1>18. ASSUME NEW k \in Invalidators, DeleteL2(k)
       PROVE  RowsKnown'
  BY <1>18 DEF DeleteL2, Goes, Fault, Well, caches, lookups, passes,
     delivery
<1>19. ASSUME NEW k \in Invalidators, Publish(k)
       PROVE  RowsKnown'
  BY <1>19 DEF Publish, Goes, Fault, Well, caches, lookups, passes,
     delivery
<1>20. ASSUME NEW k \in Invalidators, Acknowledge(k)
       PROVE  RowsKnown'
  <2>1. event[k].v \in 1..MaxVersion
    BY <1>20 DEF Acknowledge, Known, TypeOK, Versions
  <2>2. \A w \in 1..MaxVersion : row'[w].there => row[w].there
    BY <1>20, <2>1, AckRow DEF Scheduled, Retired
  <2> QED
    BY <1>20, <2>2 DEF Acknowledge
<1>21. ASSUME NEW k \in Invalidators, Retry(k)
       PROVE  RowsKnown'
  <2>1. SameRows
    <3>1. event[k].v \in 1..MaxVersion
      BY <1>21, ConstantsAssumption DEF Retry, Known, TypeOK, Versions
    <3>2. CASE UNCHANGED row
      BY <3>2 DEF SameRows
    <3>3. CASE row' = [row EXCEPT ![event[k].v].by = None]
      BY <3>1, <3>3, ByRow
    <3> QED
      BY <1>21, <3>2, <3>3 DEF Retry
  <2> QED
    BY <1>21, <2>1 DEF SameRows, Retry
<1>22. ASSUME UNCHANGED vars
       PROVE  RowsKnown'
  BY <1>22 DEF vars, caches, lookups, passes, delivery
<1> QED
  BY <1>1, <1>2, <1>3, <1>4, <1>5, <1>6, <1>7, <1>8, <1>9, <1>10, <1>11,
     <1>12, <1>13, <1>14, <1>15, <1>16, <1>17, <1>18, <1>19, <1>20, <1>21,
     <1>22 DEF Next, LookupStep, PassStep

\* Every step keeps what the lookups carry.
LEMMA CarriedStep ==
    TypeOK /\ Carried /\ [Next]_vars => Carried'
<1> SUFFICES ASSUME TypeOK, Carried, [Next]_vars
             PROVE  Carried'
  OBVIOUS
<1> USE ConstantsAssumption DEF Actors, Invalidators, Versions, Rows, NoRow, NoEvent, TypeOK, Carried
<1>1. ASSUME NEW r \in Requests, Lead(r)
       PROVE  Carried'
  BY <1>1 DEF Lead, caches, lookups, passes, delivery
<1>2. ASSUME NEW r \in Requests, Join(r)
       PROVE  Carried'
  BY <1>2 DEF Join, caches, lookups, passes, delivery
<1>3. ASSUME NEW r \in Requests, ReadCaches(r)
       PROVE  Carried'
  <2>1. \A q \in Requests \ {r} : held'[q] = held[q] /\ (at'[q] = at[q] \/ at'[q] = "idle")
    BY <1>3 DEF ReadCaches, EndFlight, Moves
  <2>2. at'[r] = "idle" \/ (at'[r] = "copy" /\ held'[r] = l2 /\ l2 # None) \/ at'[r] = "load"
    BY <1>3 DEF ReadCaches, EndFlight, Moves
  <2> QED
    BY <1>3, <2>1, <2>2 DEF ReadCaches
<1>4. ASSUME NEW r \in Requests, CopyToL1(r)
       PROVE  Carried'
  BY <1>4 DEF CopyToL1, EndFlight, Set, caches, lookups, passes, delivery
<1>5. ASSUME NEW r \in Requests, Load(r)
       PROVE  Carried'
  <2>1. \A q \in Requests \ {r} : held'[q] = held[q] /\ (at'[q] = at[q] \/ at'[q] = "idle")
    BY <1>5 DEF Load, EndFlight, Moves
  <2>2. at'[r] = "idle" \/ (at'[r] = "fill" /\ held'[r] = db)
    BY <1>5 DEF Load, EndFlight, Moves
  <2>3. db' = db /\ db \in 0..db
    BY <1>5 DEF Load
  <2>4. at'[r] = "fill" => held'[r] \in 0..db'
    BY <2>2, <2>3
  <2>5. \A q \in Requests \ {r} : at'[q] = "fill" => held'[q] \in 0..db'
    BY <2>1, <2>3
  <2>6. \A q \in Requests : at'[q] \in {"copy", "store"} => held'[q] \in Versions \ Missing
    BY <2>1, <2>2
  <2> QED
    BY <2>4, <2>5, <2>6
<1>6. ASSUME NEW r \in Requests, FillL1(r)
       PROVE  Carried'
  <2>1. \A q \in Requests \ {r} : held'[q] = held[q] /\ (at'[q] = at[q] \/ at'[q] = "idle")
    BY <1>6 DEF FillL1, EndFlight, Moves
  <2>2. at'[r] = "idle" \/ (at'[r] = "store" /\ held'[r] = held[r] /\ held[r] \notin Missing)
    BY <1>6 DEF FillL1, EndFlight, Moves
  <2>3. db' = db /\ held[r] \in 0..db
    BY <1>6 DEF FillL1
  <2>4. at'[r] = "store" => held'[r] \in Versions \ Missing
    BY <2>2, <2>3
  <2> QED
    BY <2>1, <2>2, <2>3, <2>4
<1>7. ASSUME NEW r \in Requests, StoreL2(r)
       PROVE  Carried'
  BY <1>7 DEF StoreL2, EndFlight, Fault, Well, caches, lookups, passes,
     delivery
<1>8. ASSUME NEW p \in Procs, L1Expires(p)
       PROVE  Carried'
  BY <1>8 DEF L1Expires, caches, lookups, passes, delivery
<1>9. ASSUME NEW p \in Procs, Deliver(p)
       PROVE  Carried'
  BY <1>9 DEF Deliver, InvalidateLocal, caches, lookups, passes, delivery
<1>10. ASSUME NEW p \in Procs, Disconnect(p)
       PROVE  Carried'
  BY <1>10 DEF Disconnect, Fault, caches, lookups, passes, delivery
<1>11. ASSUME NEW p \in Procs, Reconnect(p)
       PROVE  Carried'
  BY <1>11 DEF Reconnect, caches, lookups, passes, delivery
<1>12. ASSUME NEW p \in Procs, Crash(p)
       PROVE  Carried'
  BY <1>12 DEF Crash, Fault, caches, lookups, passes, delivery
<1>13. ASSUME L2Expires
       PROVE  Carried'
  BY <1>13 DEF L2Expires, caches, lookups, passes, delivery
<1>14. ASSUME NEW a \in Writers, Change(a)
       PROVE  Carried'
  BY <1>14 DEF Change, Starts, caches, lookups, passes, delivery
<1>15. ASSUME NEW k \in Workers, NEW v \in 1..MaxVersion, Claim(k, v)
       PROVE  Carried'
  BY <1>15 DEF Claim, Starts, caches, lookups, passes, delivery
<1>16. ASSUME NEW v \in 1..MaxVersion, LeaseExpires(v)
       PROVE  Carried'
  BY <1>16 DEF LeaseExpires, Fault, Well, caches, lookups, passes,
     delivery
<1>17. ASSUME NEW k \in Invalidators, ClearLocal(k)
       PROVE  Carried'
  BY <1>17 DEF ClearLocal, InvalidateLocal, Goes, caches, lookups,
     passes, delivery
<1>18. ASSUME NEW k \in Invalidators, DeleteL2(k)
       PROVE  Carried'
  BY <1>18 DEF DeleteL2, Goes, Fault, Well, caches, lookups, passes,
     delivery
<1>19. ASSUME NEW k \in Invalidators, Publish(k)
       PROVE  Carried'
  BY <1>19 DEF Publish, Goes, Fault, Well, caches, lookups, passes,
     delivery
<1>20. ASSUME NEW k \in Invalidators, Acknowledge(k)
       PROVE  Carried'
  BY <1>20 DEF Acknowledge, AfterPass, Owns, Goes, Fault, Well, caches,
     lookups, passes, delivery
<1>21. ASSUME NEW k \in Invalidators, Retry(k)
       PROVE  Carried'
  BY <1>21 DEF Retry, Owns, Goes, Fault, Well, caches, lookups, passes,
     delivery
<1>22. ASSUME UNCHANGED vars
       PROVE  Carried'
  BY <1>22 DEF vars, caches, lookups, passes, delivery
<1> QED
  BY <1>1, <1>2, <1>3, <1>4, <1>5, <1>6, <1>7, <1>8, <1>9, <1>10, <1>11,
     <1>12, <1>13, <1>14, <1>15, <1>16, <1>17, <1>18, <1>19, <1>20, <1>21,
     <1>22 DEF Next, LookupStep, PassStep

\* A new flight knows of every change its process was told of, and a change
\* that is told ends the registered flight.
LEMMA FlightStep ==
    TypeOK /\ Known /\ FlightRecent /\ [Next]_vars => FlightRecent'
<1> SUFFICES ASSUME TypeOK, Known, FlightRecent, [Next]_vars
             PROVE  FlightRecent'
  OBVIOUS
<1> USE ConstantsAssumption DEF Actors, Invalidators, Versions, TypeOK, Known, FlightRecent
<1>1. ASSUME NEW r \in Requests, Lead(r)
       PROVE  FlightRecent'
  BY <1>1 DEF Lead, caches, lookups, passes, delivery
<1>2. ASSUME NEW r \in Requests, Join(r)
       PROVE  FlightRecent'
  BY <1>2 DEF Join, caches, lookups, passes, delivery
<1>3. ASSUME NEW r \in Requests, ReadCaches(r)
       PROVE  FlightRecent'
  BY <1>3 DEF ReadCaches, EndFlight, Moves, Fault, Well, caches, lookups,
     passes, delivery
<1>4. ASSUME NEW r \in Requests, CopyToL1(r)
       PROVE  FlightRecent'
  BY <1>4 DEF CopyToL1, EndFlight, Set, caches, lookups, passes, delivery
<1>5. ASSUME NEW r \in Requests, Load(r)
       PROVE  FlightRecent'
  BY <1>5 DEF Load, EndFlight, Moves, Fault, Well, caches, lookups,
     passes, delivery
<1>6. ASSUME NEW r \in Requests, FillL1(r)
       PROVE  FlightRecent'
  <2>1. CASE EndFlight(r)
    BY <1>6, <2>1 DEF FillL1, EndFlight, delivery
  <2>2. CASE Moves(r, "store", held[r])
    BY <1>6, <2>2 DEF FillL1, Moves, delivery
  <2> QED
    BY <1>6, <2>1, <2>2 DEF FillL1
<1>7. ASSUME NEW r \in Requests, StoreL2(r)
       PROVE  FlightRecent'
  BY <1>7 DEF StoreL2, EndFlight, Fault, Well, caches, lookups, passes,
     delivery
<1>8. ASSUME NEW p \in Procs, L1Expires(p)
       PROVE  FlightRecent'
  BY <1>8 DEF L1Expires, caches, lookups, passes, delivery
<1>9. ASSUME NEW p \in Procs, Deliver(p)
       PROVE  FlightRecent'
  BY <1>9 DEF Deliver, InvalidateLocal, caches, lookups, passes, delivery
<1>10. ASSUME NEW p \in Procs, Disconnect(p)
       PROVE  FlightRecent'
  BY <1>10 DEF Disconnect, Fault, caches, lookups, passes, delivery
<1>11. ASSUME NEW p \in Procs, Reconnect(p)
       PROVE  FlightRecent'
  BY <1>11 DEF Reconnect, caches, lookups, passes, delivery
<1>12. ASSUME NEW p \in Procs, Crash(p)
       PROVE  FlightRecent'
  BY <1>12 DEF Crash, Fault, caches, lookups, passes, delivery
<1>13. ASSUME L2Expires
       PROVE  FlightRecent'
  BY <1>13 DEF L2Expires, caches, lookups, passes, delivery
<1>14. ASSUME NEW a \in Writers, Change(a)
       PROVE  FlightRecent'
  BY <1>14 DEF Change, Starts, caches, lookups, passes, delivery
<1>15. ASSUME NEW k \in Workers, NEW v \in 1..MaxVersion, Claim(k, v)
       PROVE  FlightRecent'
  BY <1>15 DEF Claim, Starts, caches, lookups, passes, delivery
<1>16. ASSUME NEW v \in 1..MaxVersion, LeaseExpires(v)
       PROVE  FlightRecent'
  BY <1>16 DEF LeaseExpires, Fault, Well, caches, lookups, passes,
     delivery
<1>17. ASSUME NEW k \in Invalidators, ClearLocal(k)
       PROVE  FlightRecent'
  BY <1>17 DEF ClearLocal, InvalidateLocal, Goes, caches, lookups,
     passes, delivery
<1>18. ASSUME NEW k \in Invalidators, DeleteL2(k)
       PROVE  FlightRecent'
  BY <1>18 DEF DeleteL2, Goes, Fault, Well, caches, lookups, passes,
     delivery
<1>19. ASSUME NEW k \in Invalidators, Publish(k)
       PROVE  FlightRecent'
  BY <1>19 DEF Publish, Goes, Fault, Well, caches, lookups, passes,
     delivery
<1>20. ASSUME NEW k \in Invalidators, Acknowledge(k)
       PROVE  FlightRecent'
  BY <1>20 DEF Acknowledge, AfterPass, Owns, Goes, Fault, Well, caches,
     lookups, passes, delivery
<1>21. ASSUME NEW k \in Invalidators, Retry(k)
       PROVE  FlightRecent'
  BY <1>21 DEF Retry, Owns, Goes, Fault, Well, caches, lookups, passes,
     delivery
<1>22. ASSUME UNCHANGED vars
       PROVE  FlightRecent'
  BY <1>22 DEF vars, caches, lookups, passes, delivery
<1> QED
  BY <1>1, <1>2, <1>3, <1>4, <1>5, <1>6, <1>7, <1>8, <1>9, <1>10, <1>11,
     <1>12, <1>13, <1>14, <1>15, <1>16, <1>17, <1>18, <1>19, <1>20, <1>21,
     <1>22 DEF Next, LookupStep, PassStep

\* A lookup is late for a change that commits after its read: the row comes
\* with the change, and its second pass waits for every lookup under way.
LEMMA LateStep ==
    IInv /\ [Next]_vars => LateFillersDelay'
<1> SUFFICES ASSUME IInv, [Next]_vars
             PROVE  LateFillersDelay'
  OBVIOUS
<1>1. ASSUME NEW r \in Requests, Lead(r)
       PROVE  LateFillersDelay'
  <2>1. UNCHANGED <<db, row, held>> /\ \A q \in Requests : at'[q] = at[q] \/ at'[q] = "read"
    BY <1>1 DEF Lead, IInv, TypeOK
  <2> QED
    BY <2>1 DEF IInv, LateFillersDelay
<1>2. ASSUME NEW r \in Requests, Join(r)
       PROVE  LateFillersDelay'
  <2>1. UNCHANGED <<db, row, held>> /\ \A q \in Requests : at'[q] = at[q] \/ at'[q] = "wait"
    BY <1>2 DEF Join, IInv, TypeOK
  <2> QED
    BY <2>1 DEF IInv, LateFillersDelay
<1>3. ASSUME NEW r \in Requests, ReadCaches(r)
       PROVE  LateFillersDelay'
  <2>1. SameRows /\ \A v \in 1..MaxVersion, q \in Requests \ {r} :
                          q \in row[v].delay => q \in row'[v].delay
    BY <1>3, LookupRow DEF LookupStep, IInv
  <2>2. \A q \in Requests \ {r} : held'[q] = held[q] /\ (at'[q] = at[q] \/ at'[q] = "idle")
    BY <1>3 DEF ReadCaches, EndFlight, Moves, IInv, TypeOK
  <2>3. db' = db /\ db <= MaxVersion
    BY <1>3, ConstantsAssumption DEF ReadCaches, IInv, TypeOK, Versions
  <2>4. at'[r] \notin {"fill", "store"}
    BY <1>3 DEF ReadCaches, EndFlight, Moves, IInv, TypeOK
  <2> SUFFICES ASSUME NEW q \in Requests, NEW v \in 1..db, v \in Tracked,
                      at'[q] \in {"fill", "store"}, held'[q] < v
               PROVE  row'[v].there /\ (row'[v].stage = 1 => q \in row'[v].delay)
    BY <2>3 DEF LateFillersDelay
  <2>5. v \in 1..MaxVersion
    BY <2>3, ConstantsAssumption DEF IInv, TypeOK, Versions
  <2>6. CASE q # r
    BY <2>1, <2>2, <2>5, <2>6 DEF SameRows, IInv, LateFillersDelay
  <2> QED
    BY <2>4, <2>6
<1>4. ASSUME NEW r \in Requests, CopyToL1(r)
       PROVE  LateFillersDelay'
  <2>1. SameRows /\ \A v \in 1..MaxVersion, q \in Requests \ {r} :
                          q \in row[v].delay => q \in row'[v].delay
    BY <1>4, LookupRow DEF LookupStep, IInv
  <2>2. \A q \in Requests \ {r} : held'[q] = held[q] /\ (at'[q] = at[q] \/ at'[q] = "idle")
    BY <1>4 DEF CopyToL1, EndFlight, Moves, IInv, TypeOK
  <2>3. db' = db /\ db <= MaxVersion
    BY <1>4, ConstantsAssumption DEF CopyToL1, IInv, TypeOK, Versions
  <2>4. at'[r] \notin {"fill", "store"}
    BY <1>4 DEF CopyToL1, EndFlight, Moves, IInv, TypeOK
  <2> SUFFICES ASSUME NEW q \in Requests, NEW v \in 1..db, v \in Tracked,
                      at'[q] \in {"fill", "store"}, held'[q] < v
               PROVE  row'[v].there /\ (row'[v].stage = 1 => q \in row'[v].delay)
    BY <2>3 DEF LateFillersDelay
  <2>5. v \in 1..MaxVersion
    BY <2>3, ConstantsAssumption DEF IInv, TypeOK, Versions
  <2>6. CASE q # r
    BY <2>1, <2>2, <2>5, <2>6 DEF SameRows, IInv, LateFillersDelay
  <2> QED
    BY <2>4, <2>6
<1>5. ASSUME NEW r \in Requests, Load(r)
       PROVE  LateFillersDelay'
  <2>1. SameRows /\ \A v \in 1..MaxVersion, q \in Requests \ {r} :
                          q \in row[v].delay => q \in row'[v].delay
    BY <1>5, LookupRow DEF LookupStep, IInv
  <2>2. \A q \in Requests \ {r} : held'[q] = held[q] /\ (at'[q] = at[q] \/ at'[q] = "idle")
    BY <1>5 DEF Load, EndFlight, Moves, IInv, TypeOK
  <2>3. db' = db /\ db <= MaxVersion
    BY <1>5, ConstantsAssumption DEF Load, IInv, TypeOK, Versions
  <2>4. at'[r] \notin {"fill", "store"} \/ held'[r] = db
    BY <1>5 DEF Load, EndFlight, Moves, IInv, TypeOK
  <2> SUFFICES ASSUME NEW q \in Requests, NEW v \in 1..db, v \in Tracked,
                      at'[q] \in {"fill", "store"}, held'[q] < v
               PROVE  row'[v].there /\ (row'[v].stage = 1 => q \in row'[v].delay)
    BY <2>3 DEF LateFillersDelay
  <2>5. v \in 1..MaxVersion
    BY <2>3, ConstantsAssumption DEF IInv, TypeOK, Versions
  <2>6. CASE q # r
    BY <2>1, <2>2, <2>5, <2>6 DEF SameRows, IInv, LateFillersDelay
  <2>7. CASE q = r
    BY <2>4, <2>7, ConstantsAssumption DEF IInv, TypeOK, Versions
  <2> QED
    BY <2>6, <2>7
<1>6. ASSUME NEW r \in Requests, FillL1(r)
       PROVE  LateFillersDelay'
  <2>1. SameRows /\ \A v \in 1..MaxVersion, q \in Requests \ {r} :
                          q \in row[v].delay => q \in row'[v].delay
    BY <1>6, LookupRow DEF LookupStep, IInv
  <2>2. \A q \in Requests \ {r} : held'[q] = held[q] /\ (at'[q] = at[q] \/ at'[q] = "idle")
    BY <1>6 DEF FillL1, EndFlight, Moves, IInv, TypeOK
  <2>3. db' = db /\ db <= MaxVersion
    BY <1>6, ConstantsAssumption DEF FillL1, IInv, TypeOK, Versions
  <2>4. at'[r] \notin {"fill", "store"}
        \/ (at[r] = "fill" /\ held'[r] = held[r] /\ UNCHANGED row)
    <3>1. CASE EndFlight(r)
      <4>1. at'[r] \notin {"fill", "store"}
        BY <3>1 DEF EndFlight
      <4> QED
        BY <4>1
    <3>2. CASE Moves(r, "store", held[r])
      BY <1>6, <3>2 DEF FillL1, Moves, IInv, TypeOK
    <3> QED
      BY <1>6, <3>1, <3>2 DEF FillL1
  <2> SUFFICES ASSUME NEW q \in Requests, NEW v \in 1..db, v \in Tracked,
                      at'[q] \in {"fill", "store"}, held'[q] < v
               PROVE  row'[v].there /\ (row'[v].stage = 1 => q \in row'[v].delay)
    BY <2>3 DEF LateFillersDelay
  <2>5. v \in 1..MaxVersion
    BY <2>3, ConstantsAssumption DEF IInv, TypeOK, Versions
  <2>6. CASE q # r
    BY <2>1, <2>2, <2>5, <2>6 DEF SameRows, IInv, LateFillersDelay
  <2>7. CASE q = r
    BY <2>4, <2>7 DEF IInv, LateFillersDelay
  <2> QED
    BY <2>6, <2>7
<1>7. ASSUME NEW r \in Requests, StoreL2(r)
       PROVE  LateFillersDelay'
  <2>1. SameRows /\ \A v \in 1..MaxVersion, q \in Requests \ {r} :
                          q \in row[v].delay => q \in row'[v].delay
    BY <1>7, LookupRow DEF LookupStep, IInv
  <2>2. \A q \in Requests \ {r} : held'[q] = held[q] /\ (at'[q] = at[q] \/ at'[q] = "idle")
    BY <1>7 DEF StoreL2, EndFlight, Moves, IInv, TypeOK
  <2>3. db' = db /\ db <= MaxVersion
    BY <1>7, ConstantsAssumption DEF StoreL2, IInv, TypeOK, Versions
  <2>4. at'[r] \notin {"fill", "store"}
    BY <1>7 DEF StoreL2, EndFlight, Moves, IInv, TypeOK
  <2> SUFFICES ASSUME NEW q \in Requests, NEW v \in 1..db, v \in Tracked,
                      at'[q] \in {"fill", "store"}, held'[q] < v
               PROVE  row'[v].there /\ (row'[v].stage = 1 => q \in row'[v].delay)
    BY <2>3 DEF LateFillersDelay
  <2>5. v \in 1..MaxVersion
    BY <2>3, ConstantsAssumption DEF IInv, TypeOK, Versions
  <2>6. CASE q # r
    BY <2>1, <2>2, <2>5, <2>6 DEF SameRows, IInv, LateFillersDelay
  <2> QED
    BY <2>4, <2>6
<1>8. ASSUME NEW p \in Procs, L1Expires(p)
       PROVE  LateFillersDelay'
  <2>1. UNCHANGED <<db, row, at, held>>
    BY <1>8 DEF L1Expires, caches, lookups, passes, delivery
  <2> QED
    BY <2>1 DEF IInv, LateFillersDelay
<1>9. ASSUME NEW p \in Procs, Deliver(p)
       PROVE  LateFillersDelay'
  <2>1. UNCHANGED <<db, row, at, held>>
    BY <1>9 DEF Deliver, InvalidateLocal, caches, lookups, passes, delivery
  <2> QED
    BY <2>1 DEF IInv, LateFillersDelay
<1>10. ASSUME NEW p \in Procs, Disconnect(p)
       PROVE  LateFillersDelay'
  <2>1. UNCHANGED <<db, row, at, held>>
    BY <1>10 DEF Disconnect, Fault, caches, lookups, passes, delivery
  <2> QED
    BY <2>1 DEF IInv, LateFillersDelay
<1>11. ASSUME NEW p \in Procs, Reconnect(p)
       PROVE  LateFillersDelay'
  <2>1. UNCHANGED <<db, row, at, held>>
    BY <1>11 DEF Reconnect, caches, lookups, passes, delivery
  <2> QED
    BY <2>1 DEF IInv, LateFillersDelay
<1>12. ASSUME NEW p \in Procs, Crash(p)
       PROVE  LateFillersDelay'
  <2> DEFINE D == {r \in Requests : ProcOf[r] = p}
  <2>1. SameRows /\ \A v \in 1..MaxVersion : row'[v].delay = row[v].delay \ D
    BY <1>12, CrashRow DEF IInv
  <2>2. db' = db /\ db <= MaxVersion
    BY <1>12, ConstantsAssumption DEF Crash, IInv, TypeOK, Versions
  <2> SUFFICES ASSUME NEW q \in Requests, NEW v \in 1..db, v \in Tracked,
                      at'[q] \in {"fill", "store"}, held'[q] < v
               PROVE  row'[v].there /\ (row'[v].stage = 1 => q \in row'[v].delay)
    BY <2>2 DEF LateFillersDelay
  <2>3. q \notin D /\ at'[q] = at[q] /\ held'[q] = held[q]
    BY <1>12 DEF Crash
  <2>4. v \in 1..MaxVersion
    BY <2>2, ConstantsAssumption DEF IInv, TypeOK, Versions
  <2> HIDE DEF D
  <2> QED
    BY <2>1, <2>3, <2>4 DEF SameRows, IInv, LateFillersDelay
<1>13. ASSUME L2Expires
       PROVE  LateFillersDelay'
  <2>1. UNCHANGED <<db, row, at, held>>
    BY <1>13 DEF L2Expires, caches, lookups, passes, delivery
  <2> QED
    BY <2>1 DEF IInv, LateFillersDelay
<1>14. ASSUME NEW a \in Writers, Change(a)
       PROVE  LateFillersDelay'
  <2>1. db \in 0..MaxVersion /\ db' = db + 1 /\ db + 1 \in 1..MaxVersion /\ UNCHANGED <<at, held>>
    BY <1>14, ConstantsAssumption DEF Change, IInv, TypeOK, Versions, lookups
  <2>2. row' = [row EXCEPT ![db + 1] = [NoRow EXCEPT !.there = db + 1 \in Tracked]]
    BY <1>14 DEF Change
  <2>3. \A w \in 1..MaxVersion : w # db + 1 => row'[w] = row[w]
    BY <2>2 DEF IInv, TypeOK
  <2>4. db + 1 \in Tracked => row'[db + 1].there /\ row'[db + 1].stage = 0
    BY <2>1, <2>2 DEF IInv, TypeOK, NoRow
  <2> QED
    BY <2>1, <2>3, <2>4, ConstantsAssumption DEF IInv, LateFillersDelay
<1>15. ASSUME NEW k \in Workers, NEW v \in 1..MaxVersion, Claim(k, v)
       PROVE  LateFillersDelay'
  <2>1. SameRows /\ \A w \in 1..MaxVersion : row'[w].delay = row[w].delay
    BY <1>15, ByRow DEF Claim, IInv
  <2>2. db' = db /\ db <= MaxVersion /\ UNCHANGED <<at, held>>
    BY <1>15, ConstantsAssumption DEF Claim, IInv, TypeOK, Versions, lookups
  <2> SUFFICES ASSUME NEW q \in Requests, NEW w \in 1..db, w \in Tracked,
                      at[q] \in {"fill", "store"}, held[q] < w
               PROVE  row'[w].there /\ (row'[w].stage = 1 => q \in row'[w].delay)
    BY <2>2 DEF LateFillersDelay
  <2>3. w \in 1..MaxVersion
    BY <2>2, ConstantsAssumption DEF IInv, TypeOK, Versions
  <2> QED
    BY <2>1, <2>3 DEF SameRows, IInv, LateFillersDelay
<1>16. ASSUME NEW v \in 1..MaxVersion, LeaseExpires(v)
       PROVE  LateFillersDelay'
  <2>1. SameRows /\ \A w \in 1..MaxVersion : row'[w].delay = row[w].delay
    BY <1>16, ByRow DEF LeaseExpires, IInv
  <2>2. db' = db /\ db <= MaxVersion /\ UNCHANGED <<at, held>>
    BY <1>16, ConstantsAssumption DEF LeaseExpires, IInv, TypeOK, Versions, lookups
  <2> SUFFICES ASSUME NEW q \in Requests, NEW w \in 1..db, w \in Tracked,
                      at[q] \in {"fill", "store"}, held[q] < w
               PROVE  row'[w].there /\ (row'[w].stage = 1 => q \in row'[w].delay)
    BY <2>2 DEF LateFillersDelay
  <2>3. w \in 1..MaxVersion
    BY <2>2, ConstantsAssumption DEF IInv, TypeOK, Versions
  <2> QED
    BY <2>1, <2>3 DEF SameRows, IInv, LateFillersDelay
<1>17. ASSUME NEW k \in Invalidators, ClearLocal(k)
       PROVE  LateFillersDelay'
  <2>1. UNCHANGED <<db, row, at, held>>
    BY <1>17 DEF ClearLocal, InvalidateLocal, Goes, caches, lookups, passes, delivery
  <2> QED
    BY <2>1 DEF IInv, LateFillersDelay
<1>18. ASSUME NEW k \in Invalidators, DeleteL2(k)
       PROVE  LateFillersDelay'
  <2>1. UNCHANGED <<db, row, at, held>>
    BY <1>18 DEF DeleteL2, Goes, Fault, Well, caches, lookups, passes, delivery
  <2> QED
    BY <2>1 DEF IInv, LateFillersDelay
<1>19. ASSUME NEW k \in Invalidators, Publish(k)
       PROVE  LateFillersDelay'
  <2>1. UNCHANGED <<db, row, at, held>>
    BY <1>19 DEF Publish, Goes, Fault, Well, caches, lookups, passes, delivery
  <2> QED
    BY <2>1 DEF IInv, LateFillersDelay
<1>20. ASSUME NEW k \in Invalidators, Acknowledge(k)
       PROVE  LateFillersDelay'
  <2>1. event[k].v \in 1..db /\ event[k].v \in 1..MaxVersion
    BY <1>20, ConstantsAssumption DEF Acknowledge, IInv, Known, TypeOK, Versions
  <2>2. db' = db /\ db <= MaxVersion /\ UNCHANGED <<at, held>>
    BY <1>20, ConstantsAssumption DEF Acknowledge, IInv, TypeOK, Versions, lookups
  <2> SUFFICES ASSUME NEW q \in Requests, NEW w \in 1..db, w \in Tracked,
                      at[q] \in {"fill", "store"}, held[q] < w
               PROVE  row'[w].there /\ (row'[w].stage = 1 => q \in row'[w].delay)
    BY <2>2 DEF LateFillersDelay
  <2>3. w \in 1..MaxVersion
    BY <2>2, ConstantsAssumption DEF IInv, TypeOK, Versions
  <2>4. CASE row'[w] = row[w]
    BY <2>4 DEF IInv, LateFillersDelay
  <2>5. CASE Scheduled(k, w)
    BY <2>5 DEF Scheduled
  <2>6. CASE Retired(k, w)
    <3>1. k \in Workers
      BY <2>6, <2>3, ConstantsAssumption DEF Retired, IInv, TypeOK, Rows, Actors, Invalidators
    <3>2. row[w].delay = {} /\ row[w].stage = 1
      BY <1>20, <2>6, <3>1 DEF Retired, Acknowledge, IInv, SecondPass
    <3> QED
      BY <3>2 DEF IInv, LateFillersDelay
  <2> QED
    BY <1>20, <2>1, <2>3, <2>4, <2>5, <2>6, AckRow DEF IInv
<1>21. ASSUME NEW k \in Invalidators, Retry(k)
       PROVE  LateFillersDelay'
  <2>1. SameRows /\ \A w \in 1..MaxVersion : row'[w].delay = row[w].delay
    <3>1. event[k].v \in 1..MaxVersion
      BY <1>21, ConstantsAssumption DEF Retry, IInv, Known, TypeOK, Versions
    <3>2. CASE UNCHANGED row
      BY <3>2 DEF SameRows
    <3>3. CASE row' = [row EXCEPT ![event[k].v].by = None]
      BY <3>1, <3>3, ByRow DEF IInv
    <3> QED
      BY <1>21, <3>2, <3>3 DEF Retry
  <2>2. db' = db /\ db <= MaxVersion /\ UNCHANGED <<at, held>>
    BY <1>21, ConstantsAssumption DEF Retry, IInv, TypeOK, Versions, lookups
  <2> SUFFICES ASSUME NEW q \in Requests, NEW w \in 1..db, w \in Tracked,
                      at[q] \in {"fill", "store"}, held[q] < w
               PROVE  row'[w].there /\ (row'[w].stage = 1 => q \in row'[w].delay)
    BY <2>2 DEF LateFillersDelay
  <2>3. w \in 1..MaxVersion
    BY <2>2, ConstantsAssumption DEF IInv, TypeOK, Versions
  <2> QED
    BY <2>1, <2>3 DEF SameRows, IInv, LateFillersDelay
<1>22. ASSUME UNCHANGED vars
       PROVE  LateFillersDelay'
  <2>1. UNCHANGED <<db, row, at, held>>
    BY <1>22 DEF vars, caches, lookups, passes, delivery
  <2> QED
    BY <2>1 DEF IInv, LateFillersDelay
<1> QED
  BY <1>1, <1>2, <1>3, <1>4, <1>5, <1>6, <1>7, <1>8, <1>9, <1>10, <1>11,
     <1>12, <1>13, <1>14, <1>15, <1>16, <1>17, <1>18, <1>19, <1>20, <1>21,
     <1>22 DEF Next, LookupStep, PassStep

\* After the second pass has deleted the entry no older one comes back.
LEMMA SecondPassStep ==
    IInv /\ [Next]_vars => SecondPass'
<1> SUFFICES ASSUME IInv, [Next]_vars
             PROVE  SecondPass'
  OBVIOUS
<1>1. ASSUME NEW r \in Requests, Lead(r)
       PROVE  SecondPass'
  <2> SUFFICES ASSUME NEW j \in Workers, pc'[j] # "idle", event'[j].stage = 1
               PROVE  /\ event'[j].v \in Tracked
                      /\ row'[event'[j].v].there
                           => row'[event'[j].v].stage = 1 /\ row'[event'[j].v].delay = {}
                      /\ pc'[j] \in {"publish", "ack"} /\ l2' # None => l2' >= event'[j].v
    BY DEF SecondPass
  <2>1. UNCHANGED <<pc, event>> /\ j \in Invalidators
    BY <1>1 DEF Lead, passes, Invalidators
  <2>2. event[j].v \in 1..MaxVersion /\ event[j].v \in 1..db
    BY <2>1, ConstantsAssumption DEF IInv, Known, TypeOK, Versions
  <2>3. UNCHANGED row
    BY <1>1 DEF Lead
  <2>4. l2' = None \/ l2' = l2
    BY <1>1 DEF Lead, caches
  <2> QED
    BY <2>1, <2>2, <2>3, <2>4 DEF SameRows, IInv, SecondPass
<1>2. ASSUME NEW r \in Requests, Join(r)
       PROVE  SecondPass'
  <2> SUFFICES ASSUME NEW j \in Workers, pc'[j] # "idle", event'[j].stage = 1
               PROVE  /\ event'[j].v \in Tracked
                      /\ row'[event'[j].v].there
                           => row'[event'[j].v].stage = 1 /\ row'[event'[j].v].delay = {}
                      /\ pc'[j] \in {"publish", "ack"} /\ l2' # None => l2' >= event'[j].v
    BY DEF SecondPass
  <2>1. UNCHANGED <<pc, event>> /\ j \in Invalidators
    BY <1>2 DEF Join, passes, Invalidators
  <2>2. event[j].v \in 1..MaxVersion /\ event[j].v \in 1..db
    BY <2>1, ConstantsAssumption DEF IInv, Known, TypeOK, Versions
  <2>3. UNCHANGED row
    BY <1>2 DEF Join
  <2>4. l2' = None \/ l2' = l2
    BY <1>2 DEF Join, caches
  <2> QED
    BY <2>1, <2>2, <2>3, <2>4 DEF SameRows, IInv, SecondPass
<1>3. ASSUME NEW r \in Requests, ReadCaches(r)
       PROVE  SecondPass'
  <2> SUFFICES ASSUME NEW j \in Workers, pc'[j] # "idle", event'[j].stage = 1
               PROVE  /\ event'[j].v \in Tracked
                      /\ row'[event'[j].v].there
                           => row'[event'[j].v].stage = 1 /\ row'[event'[j].v].delay = {}
                      /\ pc'[j] \in {"publish", "ack"} /\ l2' # None => l2' >= event'[j].v
    BY DEF SecondPass
  <2>1. UNCHANGED <<pc, event>> /\ j \in Invalidators
    BY <1>3 DEF ReadCaches, passes, Invalidators
  <2>2. event[j].v \in 1..MaxVersion /\ event[j].v \in 1..db
    BY <2>1, ConstantsAssumption DEF IInv, Known, TypeOK, Versions
  <2>3. SameRows /\ \A v \in 1..MaxVersion : row'[v].delay \subseteq row[v].delay
    BY <1>3, LookupRow DEF LookupStep, IInv
  <2>4. l2' = None \/ l2' = l2
    BY <1>3 DEF ReadCaches, caches
  <2> QED
    BY <2>1, <2>2, <2>3, <2>4 DEF SameRows, IInv, SecondPass
<1>4. ASSUME NEW r \in Requests, CopyToL1(r)
       PROVE  SecondPass'
  <2> SUFFICES ASSUME NEW j \in Workers, pc'[j] # "idle", event'[j].stage = 1
               PROVE  /\ event'[j].v \in Tracked
                      /\ row'[event'[j].v].there
                           => row'[event'[j].v].stage = 1 /\ row'[event'[j].v].delay = {}
                      /\ pc'[j] \in {"publish", "ack"} /\ l2' # None => l2' >= event'[j].v
    BY DEF SecondPass
  <2>1. UNCHANGED <<pc, event>> /\ j \in Invalidators
    BY <1>4 DEF CopyToL1, passes, Invalidators
  <2>2. event[j].v \in 1..MaxVersion /\ event[j].v \in 1..db
    BY <2>1, ConstantsAssumption DEF IInv, Known, TypeOK, Versions
  <2>3. SameRows /\ \A v \in 1..MaxVersion : row'[v].delay \subseteq row[v].delay
    BY <1>4, LookupRow DEF LookupStep, IInv
  <2>4. l2' = None \/ l2' = l2
    BY <1>4 DEF CopyToL1, caches
  <2> QED
    BY <2>1, <2>2, <2>3, <2>4 DEF SameRows, IInv, SecondPass
<1>5. ASSUME NEW r \in Requests, Load(r)
       PROVE  SecondPass'
  <2> SUFFICES ASSUME NEW j \in Workers, pc'[j] # "idle", event'[j].stage = 1
               PROVE  /\ event'[j].v \in Tracked
                      /\ row'[event'[j].v].there
                           => row'[event'[j].v].stage = 1 /\ row'[event'[j].v].delay = {}
                      /\ pc'[j] \in {"publish", "ack"} /\ l2' # None => l2' >= event'[j].v
    BY DEF SecondPass
  <2>1. UNCHANGED <<pc, event>> /\ j \in Invalidators
    BY <1>5 DEF Load, passes, Invalidators
  <2>2. event[j].v \in 1..MaxVersion /\ event[j].v \in 1..db
    BY <2>1, ConstantsAssumption DEF IInv, Known, TypeOK, Versions
  <2>3. SameRows /\ \A v \in 1..MaxVersion : row'[v].delay \subseteq row[v].delay
    BY <1>5, LookupRow DEF LookupStep, IInv
  <2>4. l2' = None \/ l2' = l2
    BY <1>5 DEF Load, caches
  <2> QED
    BY <2>1, <2>2, <2>3, <2>4 DEF SameRows, IInv, SecondPass
<1>6. ASSUME NEW r \in Requests, FillL1(r)
       PROVE  SecondPass'
  <2> SUFFICES ASSUME NEW j \in Workers, pc'[j] # "idle", event'[j].stage = 1
               PROVE  /\ event'[j].v \in Tracked
                      /\ row'[event'[j].v].there
                           => row'[event'[j].v].stage = 1 /\ row'[event'[j].v].delay = {}
                      /\ pc'[j] \in {"publish", "ack"} /\ l2' # None => l2' >= event'[j].v
    BY DEF SecondPass
  <2>1. UNCHANGED <<pc, event>> /\ j \in Invalidators
    BY <1>6 DEF FillL1, passes, Invalidators
  <2>2. event[j].v \in 1..MaxVersion /\ event[j].v \in 1..db
    BY <2>1, ConstantsAssumption DEF IInv, Known, TypeOK, Versions
  <2>3. SameRows /\ \A v \in 1..MaxVersion : row'[v].delay \subseteq row[v].delay
    BY <1>6, LookupRow DEF LookupStep, IInv
  <2>4. l2' = None \/ l2' = l2
    BY <1>6 DEF FillL1, caches
  <2> QED
    BY <2>1, <2>2, <2>3, <2>4 DEF SameRows, IInv, SecondPass
<1>7. ASSUME NEW r \in Requests, StoreL2(r)
       PROVE  SecondPass'
  <2> SUFFICES ASSUME NEW j \in Workers, pc'[j] # "idle", event'[j].stage = 1
               PROVE  /\ event'[j].v \in Tracked
                      /\ row'[event'[j].v].there
                           => row'[event'[j].v].stage = 1 /\ row'[event'[j].v].delay = {}
                      /\ pc'[j] \in {"publish", "ack"} /\ l2' # None => l2' >= event'[j].v
    BY DEF SecondPass
  <2>1. UNCHANGED <<pc, event>> /\ j \in Invalidators
    BY <1>7 DEF StoreL2, passes, Invalidators
  <2>2. event[j].v \in 1..MaxVersion /\ event[j].v \in 1..db
    BY <2>1, ConstantsAssumption DEF IInv, Known, TypeOK, Versions
  <2>3. SameRows /\ \A v \in 1..MaxVersion : row'[v].delay \subseteq row[v].delay
    BY <1>7, LookupRow DEF LookupStep, IInv
  <2>4. l2' = l2 \/ pc[j] \notin {"publish", "ack"} \/ l2' >= event[j].v
    <3>1. CASE l2' = held[r]
      <4>1. held[r] \in Nat /\ event[j].v \in Nat
        BY <1>7, <2>2, ConstantsAssumption DEF StoreL2, IInv, Carried, TypeOK, Versions
      <4>2. ~(held[r] < event[j].v)
        BY <1>7, <2>1, <2>2 DEF StoreL2, IInv, LateFillersDelay, SecondPass
      <4> QED
        BY <3>1, <4>1, <4>2
    <3> QED
      BY <1>7, <3>1 DEF StoreL2
  <2> QED
    BY <2>1, <2>2, <2>3, <2>4 DEF SameRows, IInv, SecondPass
<1>8. ASSUME NEW p \in Procs, L1Expires(p)
       PROVE  SecondPass'
  <2> SUFFICES ASSUME NEW j \in Workers, pc'[j] # "idle", event'[j].stage = 1
               PROVE  /\ event'[j].v \in Tracked
                      /\ row'[event'[j].v].there
                           => row'[event'[j].v].stage = 1 /\ row'[event'[j].v].delay = {}
                      /\ pc'[j] \in {"publish", "ack"} /\ l2' # None => l2' >= event'[j].v
    BY DEF SecondPass
  <2>1. UNCHANGED <<pc, event>> /\ j \in Invalidators
    BY <1>8 DEF L1Expires, passes, Invalidators
  <2>2. event[j].v \in 1..MaxVersion /\ event[j].v \in 1..db
    BY <2>1, ConstantsAssumption DEF IInv, Known, TypeOK, Versions
  <2>3. UNCHANGED row
    BY <1>8 DEF L1Expires
  <2>4. l2' = None \/ l2' = l2
    BY <1>8 DEF L1Expires, caches
  <2> QED
    BY <2>1, <2>2, <2>3, <2>4 DEF SameRows, IInv, SecondPass
<1>9. ASSUME NEW p \in Procs, Deliver(p)
       PROVE  SecondPass'
  <2> SUFFICES ASSUME NEW j \in Workers, pc'[j] # "idle", event'[j].stage = 1
               PROVE  /\ event'[j].v \in Tracked
                      /\ row'[event'[j].v].there
                           => row'[event'[j].v].stage = 1 /\ row'[event'[j].v].delay = {}
                      /\ pc'[j] \in {"publish", "ack"} /\ l2' # None => l2' >= event'[j].v
    BY DEF SecondPass
  <2>1. UNCHANGED <<pc, event>> /\ j \in Invalidators
    BY <1>9 DEF Deliver, passes, Invalidators
  <2>2. event[j].v \in 1..MaxVersion /\ event[j].v \in 1..db
    BY <2>1, ConstantsAssumption DEF IInv, Known, TypeOK, Versions
  <2>3. UNCHANGED row
    BY <1>9 DEF Deliver
  <2>4. l2' = None \/ l2' = l2
    BY <1>9 DEF Deliver, InvalidateLocal, caches
  <2> QED
    BY <2>1, <2>2, <2>3, <2>4 DEF SameRows, IInv, SecondPass
<1>10. ASSUME NEW p \in Procs, Disconnect(p)
       PROVE  SecondPass'
  <2> SUFFICES ASSUME NEW j \in Workers, pc'[j] # "idle", event'[j].stage = 1
               PROVE  /\ event'[j].v \in Tracked
                      /\ row'[event'[j].v].there
                           => row'[event'[j].v].stage = 1 /\ row'[event'[j].v].delay = {}
                      /\ pc'[j] \in {"publish", "ack"} /\ l2' # None => l2' >= event'[j].v
    BY DEF SecondPass
  <2>1. UNCHANGED <<pc, event>> /\ j \in Invalidators
    BY <1>10 DEF Disconnect, passes, Invalidators
  <2>2. event[j].v \in 1..MaxVersion /\ event[j].v \in 1..db
    BY <2>1, ConstantsAssumption DEF IInv, Known, TypeOK, Versions
  <2>3. UNCHANGED row
    BY <1>10 DEF Disconnect
  <2>4. l2' = None \/ l2' = l2
    BY <1>10 DEF Disconnect, caches
  <2> QED
    BY <2>1, <2>2, <2>3, <2>4 DEF SameRows, IInv, SecondPass
<1>11. ASSUME NEW p \in Procs, Reconnect(p)
       PROVE  SecondPass'
  <2> SUFFICES ASSUME NEW j \in Workers, pc'[j] # "idle", event'[j].stage = 1
               PROVE  /\ event'[j].v \in Tracked
                      /\ row'[event'[j].v].there
                           => row'[event'[j].v].stage = 1 /\ row'[event'[j].v].delay = {}
                      /\ pc'[j] \in {"publish", "ack"} /\ l2' # None => l2' >= event'[j].v
    BY DEF SecondPass
  <2>1. UNCHANGED <<pc, event>> /\ j \in Invalidators
    BY <1>11 DEF Reconnect, passes, Invalidators
  <2>2. event[j].v \in 1..MaxVersion /\ event[j].v \in 1..db
    BY <2>1, ConstantsAssumption DEF IInv, Known, TypeOK, Versions
  <2>3. UNCHANGED row
    BY <1>11 DEF Reconnect
  <2>4. l2' = None \/ l2' = l2
    BY <1>11 DEF Reconnect, caches
  <2> QED
    BY <2>1, <2>2, <2>3, <2>4 DEF SameRows, IInv, SecondPass
<1>12. ASSUME NEW p \in Procs, Crash(p)
       PROVE  SecondPass'
  <2> SUFFICES ASSUME NEW j \in Workers, pc'[j] # "idle", event'[j].stage = 1
               PROVE  /\ event'[j].v \in Tracked
                      /\ row'[event'[j].v].there
                           => row'[event'[j].v].stage = 1 /\ row'[event'[j].v].delay = {}
                      /\ pc'[j] \in {"publish", "ack"} /\ l2' # None => l2' >= event'[j].v
    BY DEF SecondPass
  <2>1. pc'[j] = pc[j] /\ event'[j] = event[j] /\ j \in Invalidators
    BY <1>12 DEF Crash, Invalidators
  <2>2. event[j].v \in 1..MaxVersion /\ event[j].v \in 1..db
    BY <2>1, ConstantsAssumption DEF IInv, Known, TypeOK, Versions
  <2>3. SameRows /\ \A v \in 1..MaxVersion : row'[v].delay \subseteq row[v].delay
    BY <1>12, CrashRow DEF IInv
  <2>4. l2' = l2
    BY <1>12 DEF Crash
  <2> QED
    BY <2>1, <2>2, <2>3, <2>4 DEF SameRows, IInv, SecondPass
<1>13. ASSUME L2Expires
       PROVE  SecondPass'
  <2> SUFFICES ASSUME NEW j \in Workers, pc'[j] # "idle", event'[j].stage = 1
               PROVE  /\ event'[j].v \in Tracked
                      /\ row'[event'[j].v].there
                           => row'[event'[j].v].stage = 1 /\ row'[event'[j].v].delay = {}
                      /\ pc'[j] \in {"publish", "ack"} /\ l2' # None => l2' >= event'[j].v
    BY DEF SecondPass
  <2>1. UNCHANGED <<pc, event>> /\ j \in Invalidators
    BY <1>13 DEF L2Expires, passes, Invalidators
  <2>2. event[j].v \in 1..MaxVersion /\ event[j].v \in 1..db
    BY <2>1, ConstantsAssumption DEF IInv, Known, TypeOK, Versions
  <2>3. UNCHANGED row
    BY <1>13 DEF L2Expires
  <2>4. l2' = None \/ l2' = l2
    BY <1>13 DEF L2Expires, caches
  <2> QED
    BY <2>1, <2>2, <2>3, <2>4 DEF SameRows, IInv, SecondPass
<1>14. ASSUME NEW a \in Writers, Change(a)
       PROVE  SecondPass'
  <2> SUFFICES ASSUME NEW j \in Workers, pc'[j] # "idle", event'[j].stage = 1
               PROVE  /\ event'[j].v \in Tracked
                      /\ row'[event'[j].v].there
                           => row'[event'[j].v].stage = 1 /\ row'[event'[j].v].delay = {}
                      /\ pc'[j] \in {"publish", "ack"} /\ l2' # None => l2' >= event'[j].v
    BY DEF SecondPass
  <2>1. pc'[j] = pc[j] /\ event'[j] = event[j] /\ j \in Invalidators /\ l2' = l2
    BY <1>14, ConstantsAssumption DEF Change, Starts, Invalidators, caches, IInv, TypeOK
  <2>2. event[j].v \in 1..MaxVersion /\ event[j].v \in 1..db
    BY <2>1, ConstantsAssumption DEF IInv, Known, TypeOK, Versions
  <2>3. row'[event[j].v] = row[event[j].v]
    <3>1. event[j].v # db + 1
      BY <2>2, ConstantsAssumption DEF IInv, TypeOK, Versions
    <3> QED
      BY <1>14, <2>2, <3>1 DEF Change, IInv, TypeOK
  <2> QED
    BY <2>1, <2>2, <2>3 DEF IInv, SecondPass
<1>15. ASSUME NEW k \in Workers, NEW v \in 1..MaxVersion, Claim(k, v)
       PROVE  SecondPass'
  <2> SUFFICES ASSUME NEW j \in Workers, pc'[j] # "idle", event'[j].stage = 1
               PROVE  /\ event'[j].v \in Tracked
                      /\ row'[event'[j].v].there
                           => row'[event'[j].v].stage = 1 /\ row'[event'[j].v].delay = {}
                      /\ pc'[j] \in {"publish", "ack"} /\ l2' # None => l2' >= event'[j].v
    BY DEF SecondPass
  <2>1. SameRows /\ \A w \in 1..MaxVersion : row'[w].delay = row[w].delay
    BY <1>15, ByRow DEF Claim, IInv
  <2>2. l2' = l2
    BY <1>15 DEF Claim, caches
  <2>3. CASE j = k
    <3>1. pc'[k] = "local" /\ event'[k].v = v /\ row[v].stage = 1 /\ row[v].delay = {}
      BY <1>15, <2>3 DEF Claim, Starts, IInv, TypeOK, Invalidators
    <3>2. v \in Tracked
      BY <1>15 DEF Claim, IInv, RowsKnown
    <3> QED
      BY <2>1, <2>3, <3>1, <3>2 DEF SameRows
  <2>4. CASE j # k
    <3>1. pc'[j] = pc[j] /\ event'[j] = event[j] /\ j \in Invalidators
      BY <1>15, <2>4 DEF Claim, Starts, IInv, TypeOK, Invalidators
    <3>2. event[j].v \in 1..MaxVersion
      BY <3>1, ConstantsAssumption DEF IInv, Known, TypeOK, Versions
    <3> QED
      BY <2>1, <2>2, <3>1, <3>2 DEF SameRows, IInv, SecondPass
  <2> QED
    BY <2>3, <2>4
<1>16. ASSUME NEW v \in 1..MaxVersion, LeaseExpires(v)
       PROVE  SecondPass'
  <2> SUFFICES ASSUME NEW j \in Workers, pc'[j] # "idle", event'[j].stage = 1
               PROVE  /\ event'[j].v \in Tracked
                      /\ row'[event'[j].v].there
                           => row'[event'[j].v].stage = 1 /\ row'[event'[j].v].delay = {}
                      /\ pc'[j] \in {"publish", "ack"} /\ l2' # None => l2' >= event'[j].v
    BY DEF SecondPass
  <2>1. UNCHANGED <<pc, event>> /\ j \in Invalidators
    BY <1>16 DEF LeaseExpires, passes, Invalidators
  <2>2. event[j].v \in 1..MaxVersion /\ event[j].v \in 1..db
    BY <2>1, ConstantsAssumption DEF IInv, Known, TypeOK, Versions
  <2>3. SameRows /\ \A w \in 1..MaxVersion : row'[w].delay = row[w].delay
    BY <1>16, ByRow DEF LeaseExpires, IInv
  <2>4. l2' = None \/ l2' = l2
    BY <1>16 DEF LeaseExpires, caches
  <2> QED
    BY <2>1, <2>2, <2>3, <2>4 DEF SameRows, IInv, SecondPass
<1>17. ASSUME NEW k \in Invalidators, ClearLocal(k)
       PROVE  SecondPass'
  <2> SUFFICES ASSUME NEW j \in Workers, pc'[j] # "idle", event'[j].stage = 1
               PROVE  /\ event'[j].v \in Tracked
                      /\ row'[event'[j].v].there
                           => row'[event'[j].v].stage = 1 /\ row'[event'[j].v].delay = {}
                      /\ pc'[j] \in {"publish", "ack"} /\ l2' # None => l2' >= event'[j].v
    BY DEF SecondPass
  <2>1. pc[j] # "idle" /\ event'[j] = event[j] /\ j \in Invalidators
        /\ (pc'[j] = pc[j] \/ pc'[j] = "delete")
    BY <1>17 DEF ClearLocal, Goes, IInv, TypeOK, Invalidators
  <2>2. event[j].v \in 1..MaxVersion /\ event[j].v \in 1..db
    BY <2>1, ConstantsAssumption DEF IInv, Known, TypeOK, Versions
  <2>3. UNCHANGED row
    BY <1>17 DEF ClearLocal
  <2>4. l2' = None \/ l2' = l2
    BY <1>17 DEF ClearLocal, caches, InvalidateLocal
  <2> QED
    BY <2>1, <2>2, <2>3, <2>4 DEF SameRows, IInv, SecondPass
<1>18. ASSUME NEW k \in Invalidators, DeleteL2(k)
       PROVE  SecondPass'
  <2> SUFFICES ASSUME NEW j \in Workers, pc'[j] # "idle", event'[j].stage = 1
               PROVE  /\ event'[j].v \in Tracked
                      /\ row'[event'[j].v].there
                           => row'[event'[j].v].stage = 1 /\ row'[event'[j].v].delay = {}
                      /\ pc'[j] \in {"publish", "ack"} /\ l2' # None => l2' >= event'[j].v
    BY DEF SecondPass
  <2>1. pc[j] # "idle" /\ event'[j] = event[j] /\ j \in Invalidators
        /\ (pc'[j] = pc[j] \/ pc'[j] = "retry" \/ l2' = None)
    BY <1>18 DEF DeleteL2, Goes, IInv, TypeOK, Invalidators
  <2>2. event[j].v \in 1..MaxVersion /\ event[j].v \in 1..db
    BY <2>1, ConstantsAssumption DEF IInv, Known, TypeOK, Versions
  <2>3. UNCHANGED row
    BY <1>18 DEF DeleteL2
  <2>4. l2' = None \/ l2' = l2
    BY <1>18 DEF DeleteL2, caches
  <2> QED
    BY <2>1, <2>2, <2>3, <2>4 DEF SameRows, IInv, SecondPass
<1>19. ASSUME NEW k \in Invalidators, Publish(k)
       PROVE  SecondPass'
  <2> SUFFICES ASSUME NEW j \in Workers, pc'[j] # "idle", event'[j].stage = 1
               PROVE  /\ event'[j].v \in Tracked
                      /\ row'[event'[j].v].there
                           => row'[event'[j].v].stage = 1 /\ row'[event'[j].v].delay = {}
                      /\ pc'[j] \in {"publish", "ack"} /\ l2' # None => l2' >= event'[j].v
    BY DEF SecondPass
  <2>1. pc[j] # "idle" /\ event'[j] = event[j] /\ j \in Invalidators
        /\ (pc'[j] = pc[j] \/ pc'[j] = "retry" \/ pc[j] = "publish")
    BY <1>19 DEF Publish, Goes, IInv, TypeOK, Invalidators
  <2>2. event[j].v \in 1..MaxVersion /\ event[j].v \in 1..db
    BY <2>1, ConstantsAssumption DEF IInv, Known, TypeOK, Versions
  <2>3. UNCHANGED row
    BY <1>19 DEF Publish
  <2>4. l2' = None \/ l2' = l2
    BY <1>19 DEF Publish, caches
  <2> QED
    BY <2>1, <2>2, <2>3, <2>4 DEF SameRows, IInv, SecondPass
<1>20. ASSUME NEW k \in Invalidators, Acknowledge(k)
       PROVE  SecondPass'
  <2> SUFFICES ASSUME NEW j \in Workers, pc'[j] # "idle", event'[j].stage = 1
               PROVE  /\ event'[j].v \in Tracked
                      /\ row'[event'[j].v].there
                           => row'[event'[j].v].stage = 1 /\ row'[event'[j].v].delay = {}
                      /\ pc'[j] \in {"publish", "ack"} /\ l2' # None => l2' >= event'[j].v
    BY DEF SecondPass
  <2>1. pc[j] # "idle" /\ event'[j] = event[j] /\ j \in Invalidators
        /\ (pc'[j] = pc[j] \/ FALSE)
    BY <1>20 DEF Acknowledge, Goes, IInv, TypeOK, Invalidators
  <2>2. event[j].v \in 1..MaxVersion /\ event[j].v \in 1..db
    BY <2>1, ConstantsAssumption DEF IInv, Known, TypeOK, Versions
  <2>3. row'[event[j].v] = row[event[j].v] \/ ~row'[event[j].v].there
        \/ Scheduled(k, event[j].v)
    <3>1. event[k].v \in 1..MaxVersion
      BY <1>20, ConstantsAssumption DEF Acknowledge, IInv, Known, TypeOK, Versions
    <3> QED
      BY <1>20, <2>2, <3>1, AckRow DEF IInv, Retired
  <2>4. l2' = None \/ l2' = l2
    BY <1>20 DEF Acknowledge, caches
  <2>5. ~Scheduled(k, event[j].v)
    BY <2>1 DEF Scheduled, IInv, SecondPass
  <2> QED
    BY <2>1, <2>2, <2>3, <2>4, <2>5 DEF IInv, SecondPass
<1>21. ASSUME NEW k \in Invalidators, Retry(k)
       PROVE  SecondPass'
  <2> SUFFICES ASSUME NEW j \in Workers, pc'[j] # "idle", event'[j].stage = 1
               PROVE  /\ event'[j].v \in Tracked
                      /\ row'[event'[j].v].there
                           => row'[event'[j].v].stage = 1 /\ row'[event'[j].v].delay = {}
                      /\ pc'[j] \in {"publish", "ack"} /\ l2' # None => l2' >= event'[j].v
    BY DEF SecondPass
  <2>1. pc[j] # "idle" /\ event'[j] = event[j] /\ j \in Invalidators
        /\ (pc'[j] = pc[j] \/ FALSE)
    BY <1>21 DEF Retry, Goes, IInv, TypeOK, Invalidators
  <2>2. event[j].v \in 1..MaxVersion /\ event[j].v \in 1..db
    BY <2>1, ConstantsAssumption DEF IInv, Known, TypeOK, Versions
  <2>3. SameRows /\ \A w \in 1..MaxVersion : row'[w].delay = row[w].delay
    <3>1. event[k].v \in 1..MaxVersion
      BY <1>21, ConstantsAssumption DEF Retry, IInv, Known, TypeOK, Versions
    <3>2. CASE UNCHANGED row
      BY <3>2 DEF SameRows
    <3>3. CASE row' = [row EXCEPT ![event[k].v].by = None]
      BY <3>1, <3>3, ByRow DEF IInv
    <3> QED
      BY <1>21, <3>2, <3>3 DEF Retry
  <2>4. l2' = None \/ l2' = l2
    BY <1>21 DEF Retry, caches
  <2> QED
    BY <2>1, <2>2, <2>3, <2>4 DEF SameRows, IInv, SecondPass
<1>22. ASSUME UNCHANGED vars
       PROVE  SecondPass'
  <2> SUFFICES ASSUME NEW j \in Workers, pc'[j] # "idle", event'[j].stage = 1
               PROVE  /\ event'[j].v \in Tracked
                      /\ row'[event'[j].v].there
                           => row'[event'[j].v].stage = 1 /\ row'[event'[j].v].delay = {}
                      /\ pc'[j] \in {"publish", "ack"} /\ l2' # None => l2' >= event'[j].v
    BY DEF SecondPass
  <2>1. UNCHANGED <<pc, event>> /\ j \in Invalidators
    BY <1>22 DEF vars, passes, Invalidators
  <2>2. event[j].v \in 1..MaxVersion /\ event[j].v \in 1..db
    BY <2>1, ConstantsAssumption DEF IInv, Known, TypeOK, Versions
  <2>3. UNCHANGED row
    BY <1>22 DEF vars
  <2>4. l2' = None \/ l2' = l2
    BY <1>22 DEF vars, caches
  <2> QED
    BY <2>1, <2>2, <2>3, <2>4 DEF SameRows, IInv, SecondPass
<1> QED
  BY <1>1, <1>2, <1>3, <1>4, <1>5, <1>6, <1>7, <1>8, <1>9, <1>10, <1>11,
     <1>12, <1>13, <1>14, <1>15, <1>16, <1>17, <1>18, <1>19, <1>20, <1>21,
     <1>22 DEF Next, LookupStep, PassStep

\* A row is only retired after its second pass.
LEMMA SharedStep ==
    IInv /\ [Next]_vars => SharedClean'
<1> SUFFICES ASSUME IInv, [Next]_vars
             PROVE  SharedClean'
  OBVIOUS
<1>1. ASSUME NEW r \in Requests, Lead(r)
       PROVE  SharedClean'
  <2>1. UNCHANGED row
    BY <1>1 DEF Lead
  <2>2. db' = db /\ (l2' = None \/ l2' = l2)
    BY <1>1 DEF Lead, caches
  <2>3. \A w \in 1..db : w \in 1..MaxVersion
    BY ConstantsAssumption DEF IInv, TypeOK, Versions
  <2> QED
    BY <2>1, <2>2, <2>3 DEF SameRows, IInv, SharedClean
<1>2. ASSUME NEW r \in Requests, Join(r)
       PROVE  SharedClean'
  <2>1. UNCHANGED row
    BY <1>2 DEF Join
  <2>2. db' = db /\ (l2' = None \/ l2' = l2)
    BY <1>2 DEF Join, caches
  <2>3. \A w \in 1..db : w \in 1..MaxVersion
    BY ConstantsAssumption DEF IInv, TypeOK, Versions
  <2> QED
    BY <2>1, <2>2, <2>3 DEF SameRows, IInv, SharedClean
<1>3. ASSUME NEW r \in Requests, ReadCaches(r)
       PROVE  SharedClean'
  <2>1. SameRows
    BY <1>3, LookupRow DEF LookupStep, IInv
  <2>2. db' = db /\ (l2' = None \/ l2' = l2)
    BY <1>3 DEF ReadCaches, caches
  <2>3. \A w \in 1..db : w \in 1..MaxVersion
    BY ConstantsAssumption DEF IInv, TypeOK, Versions
  <2> QED
    BY <2>1, <2>2, <2>3 DEF SameRows, IInv, SharedClean
<1>4. ASSUME NEW r \in Requests, CopyToL1(r)
       PROVE  SharedClean'
  <2>1. SameRows
    BY <1>4, LookupRow DEF LookupStep, IInv
  <2>2. db' = db /\ (l2' = None \/ l2' = l2)
    BY <1>4 DEF CopyToL1, caches
  <2>3. \A w \in 1..db : w \in 1..MaxVersion
    BY ConstantsAssumption DEF IInv, TypeOK, Versions
  <2> QED
    BY <2>1, <2>2, <2>3 DEF SameRows, IInv, SharedClean
<1>5. ASSUME NEW r \in Requests, Load(r)
       PROVE  SharedClean'
  <2>1. SameRows
    BY <1>5, LookupRow DEF LookupStep, IInv
  <2>2. db' = db /\ (l2' = None \/ l2' = l2)
    BY <1>5 DEF Load, caches
  <2>3. \A w \in 1..db : w \in 1..MaxVersion
    BY ConstantsAssumption DEF IInv, TypeOK, Versions
  <2> QED
    BY <2>1, <2>2, <2>3 DEF SameRows, IInv, SharedClean
<1>6. ASSUME NEW r \in Requests, FillL1(r)
       PROVE  SharedClean'
  <2>1. SameRows
    BY <1>6, LookupRow DEF LookupStep, IInv
  <2>2. db' = db /\ (l2' = None \/ l2' = l2)
    BY <1>6 DEF FillL1, caches
  <2>3. \A w \in 1..db : w \in 1..MaxVersion
    BY ConstantsAssumption DEF IInv, TypeOK, Versions
  <2> QED
    BY <2>1, <2>2, <2>3 DEF SameRows, IInv, SharedClean
<1>7. ASSUME NEW r \in Requests, StoreL2(r)
       PROVE  SharedClean'
  <2>1. SameRows
    BY <1>7, LookupRow DEF LookupStep, IInv
  <2>2. db' = db
    BY <1>7 DEF StoreL2
  <2>3. ASSUME NEW v \in 1..db, v \in Tracked, ~row[v].there, l2' # None
        PROVE  l2' >= v
    <3>1. CASE l2' = held[r]
      <4>1. held[r] \in Nat
        BY <1>7, ConstantsAssumption DEF StoreL2, IInv, Carried, TypeOK, Versions
      <4>2. ~(held[r] < v)
        BY <1>7, <2>3 DEF StoreL2, IInv, LateFillersDelay
      <4> QED
        BY <3>1, <4>1, <4>2
    <3>2. CASE l2' = l2
      BY <2>3, <3>2 DEF IInv, SharedClean
    <3> QED
      BY <1>7, <3>1, <3>2 DEF StoreL2
  <2>4. \A v \in 1..db : v \in 1..MaxVersion
    BY ConstantsAssumption DEF IInv, TypeOK, Versions
  <2> QED
    BY <2>1, <2>2, <2>3, <2>4 DEF SameRows, SharedClean
<1>8. ASSUME NEW p \in Procs, L1Expires(p)
       PROVE  SharedClean'
  <2>1. UNCHANGED row
    BY <1>8 DEF L1Expires
  <2>2. db' = db /\ (l2' = None \/ l2' = l2)
    BY <1>8 DEF L1Expires, caches
  <2>3. \A w \in 1..db : w \in 1..MaxVersion
    BY ConstantsAssumption DEF IInv, TypeOK, Versions
  <2> QED
    BY <2>1, <2>2, <2>3 DEF SameRows, IInv, SharedClean
<1>9. ASSUME NEW p \in Procs, Deliver(p)
       PROVE  SharedClean'
  <2>1. UNCHANGED row
    BY <1>9 DEF Deliver
  <2>2. db' = db /\ (l2' = None \/ l2' = l2)
    BY <1>9 DEF Deliver, caches, InvalidateLocal
  <2>3. \A w \in 1..db : w \in 1..MaxVersion
    BY ConstantsAssumption DEF IInv, TypeOK, Versions
  <2> QED
    BY <2>1, <2>2, <2>3 DEF SameRows, IInv, SharedClean
<1>10. ASSUME NEW p \in Procs, Disconnect(p)
       PROVE  SharedClean'
  <2>1. UNCHANGED row
    BY <1>10 DEF Disconnect
  <2>2. db' = db /\ (l2' = None \/ l2' = l2)
    BY <1>10 DEF Disconnect, caches
  <2>3. \A w \in 1..db : w \in 1..MaxVersion
    BY ConstantsAssumption DEF IInv, TypeOK, Versions
  <2> QED
    BY <2>1, <2>2, <2>3 DEF SameRows, IInv, SharedClean
<1>11. ASSUME NEW p \in Procs, Reconnect(p)
       PROVE  SharedClean'
  <2>1. UNCHANGED row
    BY <1>11 DEF Reconnect
  <2>2. db' = db /\ (l2' = None \/ l2' = l2)
    BY <1>11 DEF Reconnect, caches
  <2>3. \A w \in 1..db : w \in 1..MaxVersion
    BY ConstantsAssumption DEF IInv, TypeOK, Versions
  <2> QED
    BY <2>1, <2>2, <2>3 DEF SameRows, IInv, SharedClean
<1>12. ASSUME NEW p \in Procs, Crash(p)
       PROVE  SharedClean'
  <2>1. SameRows
    BY <1>12, CrashRow DEF IInv
  <2>2. db' = db /\ (l2' = None \/ l2' = l2)
    BY <1>12 DEF Crash, caches
  <2>3. \A w \in 1..db : w \in 1..MaxVersion
    BY ConstantsAssumption DEF IInv, TypeOK, Versions
  <2> QED
    BY <2>1, <2>2, <2>3 DEF SameRows, IInv, SharedClean
<1>13. ASSUME L2Expires
       PROVE  SharedClean'
  <2>1. UNCHANGED row
    BY <1>13 DEF L2Expires
  <2>2. db' = db /\ (l2' = None \/ l2' = l2)
    BY <1>13 DEF L2Expires, caches
  <2>3. \A w \in 1..db : w \in 1..MaxVersion
    BY ConstantsAssumption DEF IInv, TypeOK, Versions
  <2> QED
    BY <2>1, <2>2, <2>3 DEF SameRows, IInv, SharedClean
<1>14. ASSUME NEW a \in Writers, Change(a)
       PROVE  SharedClean'
  <2>1. db \in 0..MaxVersion /\ db' = db + 1 /\ db + 1 \in 1..MaxVersion /\ UNCHANGED l2
    BY <1>14, ConstantsAssumption DEF Change, IInv, TypeOK, Versions, caches
  <2>2. row' = [row EXCEPT ![db + 1] = [NoRow EXCEPT !.there = db + 1 \in Tracked]]
    BY <1>14 DEF Change
  <2>3. \A w \in 1..MaxVersion : w # db + 1 => row'[w] = row[w]
    BY <2>2 DEF IInv, TypeOK
  <2>4. db + 1 \in Tracked => row'[db + 1].there /\ row'[db + 1].stage = 0
    BY <2>1, <2>2 DEF IInv, TypeOK, NoRow
  <2> QED
    BY <2>1, <2>3, <2>4, ConstantsAssumption DEF IInv, SharedClean
<1>15. ASSUME NEW k \in Workers, NEW v \in 1..MaxVersion, Claim(k, v)
       PROVE  SharedClean'
  <2>1. SameRows
    BY <1>15, ByRow DEF Claim, IInv
  <2>2. db' = db /\ (l2' = None \/ l2' = l2)
    BY <1>15 DEF Claim, caches
  <2>3. \A w \in 1..db : w \in 1..MaxVersion
    BY ConstantsAssumption DEF IInv, TypeOK, Versions
  <2> QED
    BY <2>1, <2>2, <2>3 DEF SameRows, IInv, SharedClean
<1>16. ASSUME NEW v \in 1..MaxVersion, LeaseExpires(v)
       PROVE  SharedClean'
  <2>1. SameRows
    BY <1>16, ByRow DEF LeaseExpires, IInv
  <2>2. db' = db /\ (l2' = None \/ l2' = l2)
    BY <1>16 DEF LeaseExpires, caches
  <2>3. \A w \in 1..db : w \in 1..MaxVersion
    BY ConstantsAssumption DEF IInv, TypeOK, Versions
  <2> QED
    BY <2>1, <2>2, <2>3 DEF SameRows, IInv, SharedClean
<1>17. ASSUME NEW k \in Invalidators, ClearLocal(k)
       PROVE  SharedClean'
  <2>1. UNCHANGED row
    BY <1>17 DEF ClearLocal
  <2>2. db' = db /\ (l2' = None \/ l2' = l2)
    BY <1>17 DEF ClearLocal, caches, InvalidateLocal
  <2>3. \A w \in 1..db : w \in 1..MaxVersion
    BY ConstantsAssumption DEF IInv, TypeOK, Versions
  <2> QED
    BY <2>1, <2>2, <2>3 DEF SameRows, IInv, SharedClean
<1>18. ASSUME NEW k \in Invalidators, DeleteL2(k)
       PROVE  SharedClean'
  <2>1. UNCHANGED row
    BY <1>18 DEF DeleteL2
  <2>2. db' = db /\ (l2' = None \/ l2' = l2)
    BY <1>18 DEF DeleteL2, caches
  <2>3. \A w \in 1..db : w \in 1..MaxVersion
    BY ConstantsAssumption DEF IInv, TypeOK, Versions
  <2> QED
    BY <2>1, <2>2, <2>3 DEF SameRows, IInv, SharedClean
<1>19. ASSUME NEW k \in Invalidators, Publish(k)
       PROVE  SharedClean'
  <2>1. UNCHANGED row
    BY <1>19 DEF Publish
  <2>2. db' = db /\ (l2' = None \/ l2' = l2)
    BY <1>19 DEF Publish, caches
  <2>3. \A w \in 1..db : w \in 1..MaxVersion
    BY ConstantsAssumption DEF IInv, TypeOK, Versions
  <2> QED
    BY <2>1, <2>2, <2>3 DEF SameRows, IInv, SharedClean
<1>20. ASSUME NEW k \in Invalidators, Acknowledge(k)
       PROVE  SharedClean'
  <2>1. event[k].v \in 1..db /\ event[k].v \in 1..MaxVersion
    BY <1>20, ConstantsAssumption DEF Acknowledge, IInv, Known, TypeOK, Versions
  <2>2. UNCHANGED <<db, l2>>
    BY <1>20 DEF Acknowledge, caches
  <2>3. ASSUME NEW w \in 1..db, w \in Tracked, ~row'[w].there, l2 # None
        PROVE  l2 >= w
    <3>1. w \in 1..MaxVersion
      BY ConstantsAssumption DEF IInv, TypeOK, Versions
    <3>2. CASE row'[w] = row[w]
      BY <2>3, <3>2 DEF IInv, SharedClean
    <3>3. CASE Scheduled(k, w)
      BY <2>3, <3>3 DEF Scheduled
    <3>4. CASE Retired(k, w)
      <4>1. k \in Workers
        BY <3>1, <3>4, ConstantsAssumption DEF Retired, IInv, TypeOK, Rows, Actors, Invalidators
      <4> QED
        BY <1>20, <2>3, <3>4, <4>1 DEF Retired, Acknowledge, IInv, SecondPass
    <3> QED
      BY <1>20, <2>1, <3>1, <3>2, <3>3, <3>4, AckRow DEF IInv
  <2> QED
    BY <2>2, <2>3 DEF SharedClean
<1>21. ASSUME NEW k \in Invalidators, Retry(k)
       PROVE  SharedClean'
  <2>1. SameRows
    <3>1. event[k].v \in 1..MaxVersion
      BY <1>21, ConstantsAssumption DEF Retry, IInv, Known, TypeOK, Versions
    <3>2. CASE UNCHANGED row
      BY <3>2 DEF SameRows
    <3>3. CASE row' = [row EXCEPT ![event[k].v].by = None]
      BY <3>1, <3>3, ByRow DEF IInv
    <3> QED
      BY <1>21, <3>2, <3>3 DEF Retry
  <2>2. db' = db /\ (l2' = None \/ l2' = l2)
    BY <1>21 DEF Retry, caches
  <2>3. \A w \in 1..db : w \in 1..MaxVersion
    BY ConstantsAssumption DEF IInv, TypeOK, Versions
  <2> QED
    BY <2>1, <2>2, <2>3 DEF SameRows, IInv, SharedClean
<1>22. ASSUME UNCHANGED vars
       PROVE  SharedClean'
  <2>1. UNCHANGED row
    BY <1>22 DEF vars
  <2>2. db' = db /\ (l2' = None \/ l2' = l2)
    BY <1>22 DEF vars, caches
  <2>3. \A w \in 1..db : w \in 1..MaxVersion
    BY ConstantsAssumption DEF IInv, TypeOK, Versions
  <2> QED
    BY <2>1, <2>2, <2>3 DEF SameRows, IInv, SharedClean
<1> QED
  BY <1>1, <1>2, <1>3, <1>4, <1>5, <1>6, <1>7, <1>8, <1>9, <1>10, <1>11,
     <1>12, <1>13, <1>14, <1>15, <1>16, <1>17, <1>18, <1>19, <1>20, <1>21,
     <1>22 DEF Next, LookupStep, PassStep

\* The initial states satisfy the invariants.
LEMMA InitHolds == Init => IInv /\ FlightRecent
  BY ConstantsAssumption
     DEF Init, IInv, TypeOK, Known, RowsKnown, Carried, LateFillersDelay, SecondPass,
         SharedClean, FlightRecent, Actors, Invalidators, Versions, Rows, NoRow, NoEvent

\* Every step keeps the invariant.
LEMMA Inductive == IInv /\ [Next]_vars => IInv'
  BY TypeStep, KnownStep, RowsKnownStep, CarriedStep, LateStep, SecondPassStep, SharedStep DEF IInv

\* The invariant holds throughout.
LEMMA Invariant == Spec => []IInv
  BY InitHolds, Inductive, PTL DEF Spec

\* Every variable stays in its domain: the shared cache never holds "no such
\* key", and no negative entry is about a version in which the key exists.
THEOREM TypeCorrect == Spec => []TypeOK
<1>1. IInv => TypeOK
  BY DEF IInv
<1> QED
  BY <1>1, Invariant, PTL

\* When the outbox row of a change the trigger watches is gone, no older version
\* is in the shared cache and no lookup will write one.
THEOREM RetiredClean == Spec => []RetiredChangeIsClean
<1>1. IInv => RetiredChangeIsClean
  <2> SUFFICES ASSUME IInv
               PROVE  RetiredChangeIsClean
    OBVIOUS
  <2> USE ConstantsAssumption DEF IInv, TypeOK, Carried, Versions
  <2>1. ASSUME NEW v \in 1..db, v \in Tracked, ~row[v].there, NEW r \in Requests, at[r] \in {"fill", "store"}
        PROVE  held[r] >= v
    BY <2>1 DEF LateFillersDelay
  <2> QED
    BY <2>1 DEF RetiredChangeIsClean, SharedClean
<1> QED
  BY <1>1, Invariant, PTL

\* A lookup never joins a flight that began before a change its process has
\* been told of.
THEOREM JoinsRecent == Spec => JoinsRecentFlight
<1> DEFINE Good == IInv /\ FlightRecent
<1>1. Init => Good
  BY InitHolds
<1>2. Good /\ [Next]_vars => Good'
  BY Inductive, FlightStep DEF IInv
<1>3. Good /\ [Next]_vars
      => [\A r \in Requests : at[r] = "idle" /\ at'[r] = "wait"
            => began[lead'[r]] >= told[ProcOf[r]]]_vars
  <2> SUFFICES ASSUME Good, Next, NEW r \in Requests, at[r] = "idle", at'[r] = "wait"
               PROVE  began[lead'[r]] >= told[ProcOf[r]]
    OBVIOUS
  <2>1. Join(r)
    <3>1. ASSUME NEW q \in Requests, Join(q)
          PROVE  Join(r)
      <4>1. q = r
        BY <3>1 DEF Join, IInv, TypeOK
      <4> QED
        BY <3>1, <4>1
    <3>2. ASSUME NEW q \in Requests, Lead(q)
          PROVE  FALSE
      BY <3>2 DEF Lead, IInv, TypeOK
    <3>3. ASSUME NEW q \in Requests, LookupStep(q)
          PROVE  FALSE
      <4>1. EndFlight(q) => at'[r] = "idle"
        BY DEF EndFlight
      <4>2. ASSUME NEW to \in {"copy", "load", "fill", "store"}, NEW x, Moves(q, to, x)
            PROVE  FALSE
        BY <4>2 DEF Moves, IInv, TypeOK
      <4> QED
        BY <3>3, <4>1, <4>2 DEF LookupStep, ReadCaches, CopyToL1, Load, FillL1, StoreL2
    <3>4. ASSUME NEW p \in Procs, Crash(p)
          PROVE  FALSE
      BY <3>4 DEF Crash
    <3>5. at' = at \/ (\E q \in Requests : Lead(q) \/ Join(q) \/ LookupStep(q))
          \/ \E p \in Procs : Crash(p)
      BY DEF Next, PassStep, L1Expires, Deliver, Disconnect, Reconnect, L2Expires, Change,
             Claim, LeaseExpires, ClearLocal, DeleteL2, Publish, Acknowledge, Retry,
             InvalidateLocal, lookups
    <3> QED
      BY <3>1, <3>2, <3>3, <3>4, <3>5
  <2> QED
    BY <2>1, ConstantsAssumption DEF Join, FlightRecent, Actors, IInv, TypeOK
<1> QED
  BY <1>1, <1>2, <1>3, PTL DEF Spec, JoinsRecentFlight
=============================================================================

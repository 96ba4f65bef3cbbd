------------------------- MODULE KeyRateLimitProofs -------------------------
(***************************************************************************)
(* Theorems about KeyRateLimit, for any requests, limit, window, queue and *)
(* workers.                                                                *)
(*                                                                         *)
(* The bound on the spending is inductive once no check of standard mode   *)
(* survives into simple mode.  That no charge escapes the copy rests on    *)
(* the same fact about the rows that requests have loaded and not yet      *)
(* written.                                                                *)
(***************************************************************************)
EXTENDS KeyRateLimit, FiniteSetTheorems, TLAPS

Copies == Entries \cup {NoEntry}

\* The type invariant, by kind of state.
RowType == db \in [usage : 0..MaxUsage, age : 0..NoStart]
CopyType == cache \in Copies /\ loaded \in [Requests -> Copies]
PcType == pc \in [Requests -> Steps] /\ mode \in Modes
HoldsLoaded == \A p \in Requests : pc[p] = "fill" <=> loaded[p] # NoEntry
RestType ==
    /\ resetter \in [Requests -> {"none", "reset", "invalidate"}]
    /\ admin \in {"idle", "invalidate"}
    /\ queued \in 0..QueueSize /\ working \in 0..Workers
    /\ stopping \in BOOLEAN /\ strict \in BOOLEAN

\* A copy of the row's window that no charge has escaped.
Live(e) == e # NoEntry /\ e.current /\ ~e.short

\* It shows every charge but the outstanding ones.
Covers(e) == Live(e) => e.usage + Outstanding >= db.usage

CopyCovers == Covers(cache)
LoadedCovers == \A p \in Requests : Covers(loaded[p])

\* The row's window is bounded in simple mode only, where no request is
\* about to decide on a row it loaded.
SimpleReads ==
    /\ strict => mode = "simple"
    /\ mode = "simple" => \A p \in Requests : pc[p] # "fill"

\* A row whose window has no start shows no usage.
UnsetIsEmpty == db.age = NoStart => db.usage = 0

IInv ==
    TypeOK /\ SimpleReads /\ UnsetIsEmpty /\ SpendBounded /\ CopyCovers /\ LoadedCovers

-----------------------------------------------------------------------------
\* TypeOK is the conjunction of its parts.
LEMMA TypeParts == TypeOK <=> RowType /\ CopyType /\ PcType /\ HoldsLoaded /\ RestType
BY DEF TypeOK, RowType, CopyType, PcType, HoldsLoaded, RestType, Copies

\* The capped successor.
LEMMA Plus1Facts ==
    ASSUME NEW n \in 0..MaxUsage
    PROVE  /\ Plus1(n) \in 0..MaxUsage
           /\ n <= Plus1(n) /\ Plus1(n) <= n + 1
           /\ Plus1(n) = n + 1 \/ Plus1(n) = MaxUsage
BY ConstantsAssumption DEF Plus1

\* What the charge makes of the row.
LEMMA IncrementedFacts ==
    ASSUME NEW r \in [usage : 0..MaxUsage, age : 0..NoStart]
    PROVE  /\ Incremented(r) \in [usage : 0..MaxUsage, age : 0..NoStart]
           /\ r.age = Window => Incremented(r).usage = 1 /\ Incremented(r).age = 0
           /\ r.age # Window => Incremented(r).usage = Plus1(r.usage)
           /\ r.age < Window => Incremented(r).age = r.age
<1>1. r.usage \in 0..MaxUsage /\ r.age \in 0..NoStart
  OBVIOUS
<1>2. Plus1(r.usage) \in 0..MaxUsage
  BY <1>1, Plus1Facts
<1>3. 1 \in 0..MaxUsage /\ 0 \in 0..NoStart /\ Cardinality(Requests) \in Nat
  BY ConstantsAssumption, FS_CardinalityType DEF NoStart
<1> QED
  BY <1>1, <1>2, <1>3, ConstantsAssumption DEF Incremented, IsWindowExpired, NoStart

\* What the reset makes of the row.
LEMMA ResetFacts ==
    ASSUME NEW r \in [usage : 0..MaxUsage, age : 0..NoStart]
    PROVE  /\ ResetRow(r) \in [usage : 0..MaxUsage, age : 0..NoStart]
           /\ r.age # Window => ResetRow(r) = r
           /\ r.age = Window => ResetRow(r).usage = 0 /\ ResetRow(r).age = 0
BY ConstantsAssumption DEF ResetRow, NoStart

\* A copy whose window began again is no longer live.
LEMMA OutdatedFacts ==
    ASSUME NEW e \in Copies
    PROVE  /\ Outdated(e) \in Copies
           /\ Outdated(e) = NoEntry <=> e = NoEntry
           /\ ~Live(Outdated(e))
<1>1. CASE e = NoEntry
  BY <1>1 DEF Outdated, Copies, Live
<1>2. CASE e \in Entries
  <2>1. e # NoEntry
    BY <1>2, ConstantsAssumption
  <2>2. Outdated(e) = [e EXCEPT !.current = FALSE, !.short = FALSE]
    BY <2>1 DEF Outdated
  <2>3. Outdated(e) \in Entries /\ ~Outdated(e).current
    BY <1>2, <2>2 DEF Entries
  <2> QED
    BY <2>1, <2>3, ConstantsAssumption DEF Copies, Live
<1> QED
  BY <1>1, <1>2 DEF Copies

\* Nor is one that a charge may have escaped.
LEMMA ShortenedFacts ==
    ASSUME NEW e \in Copies
    PROVE  /\ Shortened(e) \in Copies
           /\ Shortened(e) = NoEntry <=> e = NoEntry
           /\ ~Live(Shortened(e))
<1>1. CASE e = NoEntry \/ ~e.current
  BY <1>1 DEF Shortened, Live
<1>2. CASE e # NoEntry /\ e.current
  <2>1. e \in Entries
    BY <1>2 DEF Copies
  <2>2. Shortened(e) = [e EXCEPT !.short = TRUE]
    BY <1>2 DEF Shortened
  <2>3. Shortened(e) \in Entries /\ Shortened(e).short
    BY <2>1, <2>2 DEF Entries
  <2> QED
    BY <1>2, <2>3, ConstantsAssumption DEF Copies, Live
<1> QED
  BY <1>1, <1>2

\* The script adds the charge to a live copy.
LEMMA UpdateFacts ==
    ASSUME NEW e \in Entries
    PROVE  /\ UpdateWindow(e) \in Entries
           /\ Live(UpdateWindow(e)) => Live(e) /\ UpdateWindow(e).usage = Plus1(e.usage)
<1>1. e.usage \in 0..MaxUsage /\ e.age \in 0..NoStart /\ e # NoEntry
  BY ConstantsAssumption DEF Entries
<1>2. Plus1(e.usage) \in 0..MaxUsage
  BY <1>1, Plus1Facts
<1>3. CASE IsWindowExpired(e)
  <2>1. 1 \in 0..MaxUsage /\ 0 \in 0..NoStart
    BY ConstantsAssumption, FS_CardinalityType DEF NoStart
  <2> QED
    BY <1>3, <2>1 DEF UpdateWindow, Entries, Live
<1>4. CASE ~IsWindowExpired(e)
  <2>1. UpdateWindow(e) = [e EXCEPT !.usage = Plus1(e.usage)]
    BY <1>4 DEF UpdateWindow
  <2>2. UpdateWindow(e) \in Entries
    BY <1>2, <2>1 DEF Entries
  <2>3. /\ UpdateWindow(e).usage = Plus1(e.usage)
        /\ UpdateWindow(e).current = e.current /\ UpdateWindow(e).short = e.short
    BY <2>1 DEF Entries
  <2> QED
    BY <1>1, <2>2, <2>3 DEF Live
<1> QED
  BY <1>3, <1>4

\* Time changes the age alone.
LEMMA OlderFacts ==
    /\ \A e \in Entries : /\ Older(e) \in Entries
                          /\ Live(Older(e)) => Live(e)
                          /\ Older(e).usage = e.usage
    /\ \A r \in [usage : 0..MaxUsage, age : 0..NoStart] :
          /\ Older(r) \in [usage : 0..MaxUsage, age : 0..NoStart]
          /\ Older(r).usage = r.usage
          /\ Older(r).age >= Window \/ (r.age < Window /\ Older(r).age = r.age + 1)
<1>1. ASSUME NEW e \in Entries
      PROVE  /\ Older(e) \in Entries
             /\ Live(Older(e)) => Live(e)
             /\ Older(e).usage = e.usage
  <2>1. e.age \in 0..NoStart /\ (e.age < Window => e.age + 1 \in 0..NoStart)
    BY ConstantsAssumption DEF Entries, NoStart
  <2>2. CASE e.age < Window
    <3>1. Older(e) = [e EXCEPT !.age = e.age + 1]
      BY <2>2 DEF Older
    <3> QED
      BY <2>1, <2>2, <3>1, ConstantsAssumption DEF Entries, Live
  <2>3. CASE ~(e.age < Window)
    BY <2>3 DEF Older
  <2> QED
    BY <2>2, <2>3
<1>2. ASSUME NEW r \in [usage : 0..MaxUsage, age : 0..NoStart]
      PROVE  /\ Older(r) \in [usage : 0..MaxUsage, age : 0..NoStart]
             /\ Older(r).usage = r.usage
             /\ Older(r).age >= Window \/ (r.age < Window /\ Older(r).age = r.age + 1)
  BY ConstantsAssumption DEF Older, NoStart
<1> QED
  BY <1>1, <1>2

\* Sets of requests are finite, and counted one by one.
LEMMA Counting ==
    /\ Cardinality(Requests) \in Nat
    /\ \A S \in SUBSET Requests :
          /\ Cardinality(S) \in Nat /\ Cardinality(S) <= Cardinality(Requests)
          /\ \A p \in Requests : p \notin S => Cardinality(S \cup {p}) = Cardinality(S) + 1
          /\ \A p \in S : Cardinality(S \ {p}) = Cardinality(S) - 1
<1>1. ASSUME NEW S \in SUBSET Requests
      PROVE  /\ IsFiniteSet(S) /\ Cardinality(S) \in Nat
             /\ Cardinality(S) <= Cardinality(Requests)
  BY FS_Subset, FS_CardinalityType, ConstantsAssumption
<1>2. ASSUME NEW S \in SUBSET Requests, NEW p \in Requests, p \notin S
      PROVE  Cardinality(S \cup {p}) = Cardinality(S) + 1
  BY <1>1, <1>2, FS_AddElement
<1>3. ASSUME NEW S \in SUBSET Requests, NEW p \in S
      PROVE  Cardinality(S \ {p}) = Cardinality(S) - 1
  BY <1>1, <1>3, FS_RemoveElement
<1>4. Cardinality(Requests) \in Nat
  BY FS_CardinalityType, ConstantsAssumption
<1> QED
  BY <1>1, <1>2, <1>3, <1>4

\* Outstanding charges are a number.
LEMMA OutstandingType ==
    TypeOK => Outstanding \in Nat /\ Cardinality(Charged) \in Nat
<1>1. Charged \in SUBSET Requests
  BY DEF Charged
<1> QED
  BY <1>1, Counting, ConstantsAssumption DEF TypeOK, Outstanding

\* Every step keeps the types.
LEMMA TypeStep ==
    TypeOK /\ [Next]_vars => TypeOK'
<1> SUFFICES ASSUME TypeOK, [Next]_vars
             PROVE  TypeOK'
  OBVIOUS
<1>1. ASSUME NEW p \in Requests, CheckSimpleMode(p)
       PROVE  TypeOK'
  <2> RowType /\ CopyType /\ PcType /\ HoldsLoaded /\ RestType
    BY TypeParts
  <2>1. RowType'
    BY <1>1 DEF CheckSimpleMode, RowType
  <2>2. CopyType'
    BY <1>1 DEF CheckSimpleMode, CopyType, Copies
  <2>3. PcType'
    BY <1>1, ConstantsAssumption DEF CheckSimpleMode, Goto, PcType, Steps
  <2>4. HoldsLoaded'
    BY <1>1 DEF CheckSimpleMode, Goto, HoldsLoaded, CopyType, PcType
  <2>5. RestType'
    BY <1>1, ConstantsAssumption DEF CheckSimpleMode, RestType
  <2> QED
    BY <2>1, <2>2, <2>3, <2>4, <2>5 DEF TypeOK, RowType, CopyType, PcType,
       HoldsLoaded, RestType, Copies
<1>2. ASSUME NEW p \in Requests, CheckHit(p)
       PROVE  TypeOK'
  <2> RowType /\ CopyType /\ PcType /\ HoldsLoaded /\ RestType
    BY TypeParts
  <2>1. RowType'
    BY <1>2 DEF CheckHit, Evaluate, RowType
  <2>2. CopyType'
    BY <1>2 DEF CheckHit, CopyType, Copies
  <2>3. PcType'
    BY <1>2, ConstantsAssumption DEF CheckHit, Evaluate, Goto, PcType, Steps
  <2>4. HoldsLoaded'
    BY <1>2 DEF CheckHit, Evaluate, MayCheck, Goto, HoldsLoaded, CopyType, PcType
  <2>5. RestType'
    BY <1>2, ConstantsAssumption DEF CheckHit, Evaluate, RestType
  <2> QED
    BY <2>1, <2>2, <2>3, <2>4, <2>5 DEF TypeOK, RowType, CopyType, PcType,
       HoldsLoaded, RestType, Copies
<1>3. ASSUME NEW p \in Requests, CheckMiss(p)
       PROVE  TypeOK'
  <2> RowType /\ CopyType /\ PcType /\ HoldsLoaded /\ RestType
    BY TypeParts
  <2>1. RowType'
    BY <1>3 DEF CheckMiss, RowType
  <2>2. CopyType'
    BY <1>3 DEF CheckMiss, CopyType, RowType, Copies, Entries
  <2>3. PcType'
    BY <1>3, ConstantsAssumption DEF CheckMiss, Goto, PcType, Steps
  <2>4. HoldsLoaded'
    <3>1. [usage |-> db.usage, age |-> db.age, current |-> TRUE, short |-> FALSE] \in Entries
      BY DEF RowType, Entries
    <3>2. loaded'[p] # NoEntry
      BY <1>3, <3>1, ConstantsAssumption DEF CheckMiss, CopyType
    <3> QED
      BY <1>3, <3>2 DEF CheckMiss, Goto, HoldsLoaded, CopyType, PcType
  <2>5. RestType'
    BY <1>3, ConstantsAssumption DEF CheckMiss, RestType
  <2> QED
    BY <2>1, <2>2, <2>3, <2>4, <2>5 DEF TypeOK, RowType, CopyType, PcType,
       HoldsLoaded, RestType, Copies
<1>4. ASSUME NEW p \in Requests, CheckMissFails(p)
       PROVE  TypeOK'
  <2> RowType /\ CopyType /\ PcType /\ HoldsLoaded /\ RestType
    BY TypeParts
  <2>1. RowType'
    BY <1>4 DEF CheckMissFails, RowType
  <2>2. CopyType'
    BY <1>4 DEF CheckMissFails, CopyType, Copies
  <2>3. PcType'
    BY <1>4, ConstantsAssumption DEF CheckMissFails, Goto, PcType, Steps
  <2>4. HoldsLoaded'
    BY <1>4 DEF CheckMissFails, MayCheck, Goto, HoldsLoaded, CopyType, PcType
  <2>5. RestType'
    BY <1>4, ConstantsAssumption DEF CheckMissFails, RestType
  <2> QED
    BY <2>1, <2>2, <2>3, <2>4, <2>5 DEF TypeOK, RowType, CopyType, PcType,
       HoldsLoaded, RestType, Copies
<1>5. ASSUME NEW p \in Requests, Fill(p)
       PROVE  TypeOK'
  <2> RowType /\ CopyType /\ PcType /\ HoldsLoaded /\ RestType
    BY TypeParts
  <2>1. RowType'
    BY <1>5 DEF Fill, Evaluate, RowType
  <2>2. CopyType'
    BY <1>5 DEF Fill, CopyType, Copies
  <2>3. PcType'
    BY <1>5, ConstantsAssumption DEF Fill, Evaluate, Goto, PcType, Steps
  <2>4. HoldsLoaded'
    BY <1>5 DEF Fill, Evaluate, Goto, HoldsLoaded, CopyType, PcType
  <2>5. RestType'
    BY <1>5, ConstantsAssumption DEF Fill, Evaluate, RestType
  <2> QED
    BY <2>1, <2>2, <2>3, <2>4, <2>5 DEF TypeOK, RowType, CopyType, PcType,
       HoldsLoaded, RestType, Copies
<1>6. ASSUME NEW p \in Requests, Charge(p)
       PROVE  TypeOK'
  <2> RowType /\ CopyType /\ PcType /\ HoldsLoaded /\ RestType
    BY TypeParts
  <2>1. RowType'
    BY <1>6, IncrementedFacts DEF Charge, WriteRow, RowType
  <2>2. CopyType'
    BY <1>6, OutdatedFacts DEF Charge, WriteRow, CopyType
  <2>3. PcType'
    BY <1>6, ConstantsAssumption DEF Charge, Goto, PcType, Steps
  <2>4. HoldsLoaded'
    BY <1>6, OutdatedFacts DEF Charge, WriteRow, Goto, HoldsLoaded, CopyType,
       PcType
  <2>5. RestType'
    BY <1>6, ConstantsAssumption DEF Charge, WriteRow, RestType
  <2> QED
    BY <2>1, <2>2, <2>3, <2>4, <2>5 DEF TypeOK, RowType, CopyType, PcType,
       HoldsLoaded, RestType, Copies
<1>7. ASSUME NEW p \in Requests, Abandon(p)
       PROVE  TypeOK'
  <2> RowType /\ CopyType /\ PcType /\ HoldsLoaded /\ RestType
    BY TypeParts
  <2>1. RowType'
    BY <1>7 DEF Abandon, RowType
  <2>2. CopyType'
    BY <1>7 DEF Abandon, CopyType, Copies
  <2>3. PcType'
    BY <1>7, ConstantsAssumption DEF Abandon, Goto, PcType, Steps
  <2>4. HoldsLoaded'
    BY <1>7 DEF Abandon, Goto, HoldsLoaded, CopyType, PcType
  <2>5. RestType'
    BY <1>7, ConstantsAssumption DEF Abandon, RestType
  <2> QED
    BY <2>1, <2>2, <2>3, <2>4, <2>5 DEF TypeOK, RowType, CopyType, PcType,
       HoldsLoaded, RestType, Copies
<1>8. ASSUME NEW p \in Requests, QueueUpdate(p)
       PROVE  TypeOK'
  <2> RowType /\ CopyType /\ PcType /\ HoldsLoaded /\ RestType
    BY TypeParts
  <2>1. RowType'
    BY <1>8 DEF QueueUpdate, RowType
  <2>2. CopyType'
    BY <1>8 DEF QueueUpdate, CopyType, Copies
  <2>3. PcType'
    BY <1>8, ConstantsAssumption DEF QueueUpdate, Goto, PcType, Steps
  <2>4. HoldsLoaded'
    BY <1>8 DEF QueueUpdate, Goto, HoldsLoaded, CopyType, PcType
  <2>5. RestType'
    BY <1>8, ConstantsAssumption DEF QueueUpdate, RestType
  <2> QED
    BY <2>1, <2>2, <2>3, <2>4, <2>5 DEF TypeOK, RowType, CopyType, PcType,
       HoldsLoaded, RestType, Copies
<1>9. ASSUME NEW p \in Requests, UpdateNow(p)
       PROVE  TypeOK'
  <2> RowType /\ CopyType /\ PcType /\ HoldsLoaded /\ RestType
    BY TypeParts
  <2>1. RowType'
    BY <1>9 DEF UpdateNow, RowType
  <2>2. CopyType'
    <3>1. cache' \in Copies
      BY <1>9, UpdateFacts, ShortenedFacts DEF UpdateNow, UpdateAPIKeyRateLimitUsage, UpdateFails, Escapes, CopyType, Copies
    <3>2. loaded' \in [Requests -> Copies]
      BY <1>9, ShortenedFacts DEF UpdateNow, UpdateAPIKeyRateLimitUsage, UpdateFails, Escapes, CopyType
    <3> QED
      BY <3>1, <3>2 DEF CopyType
  <2>3. PcType'
    BY <1>9, ConstantsAssumption DEF UpdateNow, Goto, PcType, Steps
  <2>4. HoldsLoaded'
    <3>1. \A q \in Requests : loaded'[q] = NoEntry <=> loaded[q] = NoEntry
      BY <1>9, ShortenedFacts DEF UpdateNow, UpdateAPIKeyRateLimitUsage, UpdateFails, Escapes, CopyType
    <3> QED
      BY <1>9, <3>1 DEF UpdateNow, Goto, HoldsLoaded, PcType
  <2>5. RestType'
    BY <1>9, ConstantsAssumption DEF UpdateNow, RestType
  <2> QED
    BY <2>1, <2>2, <2>3, <2>4, <2>5 DEF TypeOK, RowType, CopyType, PcType,
       HoldsLoaded, RestType, Copies
<1>10. ASSUME NEW p \in Requests, InvalidateCharged(p)
       PROVE  TypeOK'
  <2> RowType /\ CopyType /\ PcType /\ HoldsLoaded /\ RestType
    BY TypeParts
  <2>1. RowType'
    BY <1>10 DEF InvalidateCharged, RowType
  <2>2. CopyType'
    <3>1. cache' \in Copies
      BY <1>10, UpdateFacts, ShortenedFacts DEF InvalidateCharged, UpdateFails, Escapes, CopyType, Copies
    <3>2. loaded' \in [Requests -> Copies]
      BY <1>10, ShortenedFacts DEF InvalidateCharged, UpdateFails, Escapes, CopyType
    <3> QED
      BY <3>1, <3>2 DEF CopyType
  <2>3. PcType'
    BY <1>10, ConstantsAssumption DEF InvalidateCharged, Goto, PcType, Steps
  <2>4. HoldsLoaded'
    <3>1. \A q \in Requests : loaded'[q] = NoEntry <=> loaded[q] = NoEntry
      BY <1>10, ShortenedFacts DEF InvalidateCharged, UpdateFails, Escapes, CopyType
    <3> QED
      BY <1>10, <3>1 DEF InvalidateCharged, Goto, HoldsLoaded, PcType
  <2>5. RestType'
    BY <1>10, ConstantsAssumption DEF InvalidateCharged, RestType
  <2> QED
    BY <2>1, <2>2, <2>3, <2>4, <2>5 DEF TypeOK, RowType, CopyType, PcType,
       HoldsLoaded, RestType, Copies
<1>11. ASSUME NEW p \in Requests, ResetRateLimitWindows(p)
       PROVE  TypeOK'
  <2> RowType /\ CopyType /\ PcType /\ HoldsLoaded /\ RestType
    BY TypeParts
  <2>1. RowType'
    BY <1>11, ResetFacts DEF ResetRateLimitWindows, WriteRow, RowType
  <2>2. CopyType'
    BY <1>11, OutdatedFacts DEF ResetRateLimitWindows, WriteRow, CopyType
  <2>3. PcType'
    BY <1>11, ConstantsAssumption DEF ResetRateLimitWindows, Goto, PcType, Steps
  <2>4. HoldsLoaded'
    BY <1>11, OutdatedFacts DEF ResetRateLimitWindows, WriteRow, Goto,
       HoldsLoaded, CopyType, PcType
  <2>5. RestType'
    BY <1>11, ConstantsAssumption DEF ResetRateLimitWindows, WriteRow, RestType
  <2> QED
    BY <2>1, <2>2, <2>3, <2>4, <2>5 DEF TypeOK, RowType, CopyType, PcType,
       HoldsLoaded, RestType, Copies
<1>12. ASSUME NEW p \in Requests, InvalidateReset(p)
       PROVE  TypeOK'
  <2> RowType /\ CopyType /\ PcType /\ HoldsLoaded /\ RestType
    BY TypeParts
  <2>1. RowType'
    BY <1>12 DEF InvalidateReset, RowType
  <2>2. CopyType'
    BY <1>12 DEF InvalidateReset, Invalidate, CopyType, Copies
  <2>3. PcType'
    BY <1>12, ConstantsAssumption DEF InvalidateReset, Goto, PcType, Steps
  <2>4. HoldsLoaded'
    BY <1>12 DEF InvalidateReset, Goto, HoldsLoaded, CopyType, PcType
  <2>5. RestType'
    BY <1>12, ConstantsAssumption DEF InvalidateReset, RestType
  <2> QED
    BY <2>1, <2>2, <2>3, <2>4, <2>5 DEF TypeOK, RowType, CopyType, PcType,
       HoldsLoaded, RestType, Copies
<1>13. ASSUME Dequeue
       PROVE  TypeOK'
  <2> RowType /\ CopyType /\ PcType /\ HoldsLoaded /\ RestType
    BY TypeParts
  <2>1. RowType'
    BY <1>13 DEF Dequeue, RowType
  <2>2. CopyType'
    BY <1>13 DEF Dequeue, CopyType, Copies
  <2>3. PcType'
    BY <1>13, ConstantsAssumption DEF Dequeue, Goto, PcType, Steps
  <2>4. HoldsLoaded'
    BY <1>13 DEF Dequeue, Goto, HoldsLoaded, CopyType, PcType
  <2>5. RestType'
    BY <1>13, ConstantsAssumption DEF Dequeue, RestType
  <2> QED
    BY <2>1, <2>2, <2>3, <2>4, <2>5 DEF TypeOK, RowType, CopyType, PcType,
       HoldsLoaded, RestType, Copies
<1>14. ASSUME WorkerUpdate
       PROVE  TypeOK'
  <2> RowType /\ CopyType /\ PcType /\ HoldsLoaded /\ RestType
    BY TypeParts
  <2>1. RowType'
    BY <1>14 DEF WorkerUpdate, RowType
  <2>2. CopyType'
    <3>1. cache' \in Copies
      BY <1>14, UpdateFacts, ShortenedFacts DEF WorkerUpdate, UpdateAPIKeyRateLimitUsage, UpdateFails, Escapes, CopyType, Copies
    <3>2. loaded' \in [Requests -> Copies]
      BY <1>14, ShortenedFacts DEF WorkerUpdate, UpdateAPIKeyRateLimitUsage, UpdateFails, Escapes, CopyType
    <3> QED
      BY <3>1, <3>2 DEF CopyType
  <2>3. PcType'
    BY <1>14, ConstantsAssumption DEF WorkerUpdate, Goto, PcType, Steps
  <2>4. HoldsLoaded'
    <3>1. \A q \in Requests : loaded'[q] = NoEntry <=> loaded[q] = NoEntry
      BY <1>14, ShortenedFacts DEF WorkerUpdate, UpdateAPIKeyRateLimitUsage, UpdateFails, Escapes, CopyType
    <3> QED
      BY <1>14, <3>1 DEF WorkerUpdate, Goto, HoldsLoaded, PcType
  <2>5. RestType'
    BY <1>14, ConstantsAssumption DEF WorkerUpdate, RestType
  <2> QED
    BY <2>1, <2>2, <2>3, <2>4, <2>5 DEF TypeOK, RowType, CopyType, PcType,
       HoldsLoaded, RestType, Copies
<1>15. ASSUME AdminReset
       PROVE  TypeOK'
  <2> RowType /\ CopyType /\ PcType /\ HoldsLoaded /\ RestType
    BY TypeParts
  <2>1. RowType'
    BY <1>15, ConstantsAssumption DEF AdminReset, WriteRow, RowType, NoStart
  <2>2. CopyType'
    BY <1>15, OutdatedFacts DEF AdminReset, WriteRow, CopyType
  <2>3. PcType'
    BY <1>15, ConstantsAssumption DEF AdminReset, Goto, PcType, Steps
  <2>4. HoldsLoaded'
    BY <1>15, OutdatedFacts DEF AdminReset, WriteRow, Goto, HoldsLoaded, CopyType,
       PcType
  <2>5. RestType'
    BY <1>15, ConstantsAssumption DEF AdminReset, WriteRow, RestType
  <2> QED
    BY <2>1, <2>2, <2>3, <2>4, <2>5 DEF TypeOK, RowType, CopyType, PcType,
       HoldsLoaded, RestType, Copies
<1>16. ASSUME AdminInvalidate
       PROVE  TypeOK'
  <2> RowType /\ CopyType /\ PcType /\ HoldsLoaded /\ RestType
    BY TypeParts
  <2>1. RowType'
    BY <1>16 DEF AdminInvalidate, RowType
  <2>2. CopyType'
    BY <1>16 DEF AdminInvalidate, Invalidate, CopyType, Copies
  <2>3. PcType'
    BY <1>16, ConstantsAssumption DEF AdminInvalidate, Goto, PcType, Steps
  <2>4. HoldsLoaded'
    BY <1>16 DEF AdminInvalidate, Goto, HoldsLoaded, CopyType, PcType
  <2>5. RestType'
    BY <1>16, ConstantsAssumption DEF AdminInvalidate, RestType
  <2> QED
    BY <2>1, <2>2, <2>3, <2>4, <2>5 DEF TypeOK, RowType, CopyType, PcType,
       HoldsLoaded, RestType, Copies
<1>17. ASSUME Evict
       PROVE  TypeOK'
  <2> RowType /\ CopyType /\ PcType /\ HoldsLoaded /\ RestType
    BY TypeParts
  <2>1. RowType'
    BY <1>17 DEF Evict, process, RowType
  <2>2. CopyType'
    BY <1>17 DEF Evict, process, CopyType, Copies
  <2>3. PcType'
    BY <1>17, ConstantsAssumption DEF Evict, process, Goto, PcType, Steps
  <2>4. HoldsLoaded'
    BY <1>17 DEF Evict, process, Goto, HoldsLoaded, CopyType, PcType
  <2>5. RestType'
    BY <1>17, ConstantsAssumption DEF Evict, process, RestType
  <2> QED
    BY <2>1, <2>2, <2>3, <2>4, <2>5 DEF TypeOK, RowType, CopyType, PcType,
       HoldsLoaded, RestType, Copies
<1>18. ASSUME Tick
       PROVE  TypeOK'
  <2> RowType /\ CopyType /\ PcType /\ HoldsLoaded /\ RestType
    BY TypeParts
  <2>1. RowType'
    BY <1>18, OlderFacts DEF Tick, RowType
  <2>2. CopyType'
    BY <1>18, OlderFacts DEF Tick, CopyType, Copies
  <2>3. PcType'
    BY <1>18, ConstantsAssumption DEF Tick, process, Goto, PcType, Steps
  <2>4. HoldsLoaded'
    BY <1>18, OlderFacts, ConstantsAssumption DEF Tick, process, HoldsLoaded,
       CopyType, Copies
  <2>5. RestType'
    BY <1>18, ConstantsAssumption DEF Tick, process, RestType
  <2> QED
    BY <2>1, <2>2, <2>3, <2>4, <2>5 DEF TypeOK, RowType, CopyType, PcType,
       HoldsLoaded, RestType, Copies
<1>19. ASSUME Stop
       PROVE  TypeOK'
  <2> RowType /\ CopyType /\ PcType /\ HoldsLoaded /\ RestType
    BY TypeParts
  <2>1. RowType'
    BY <1>19 DEF Stop, RowType
  <2>2. CopyType'
    BY <1>19 DEF Stop, CopyType, Copies
  <2>3. PcType'
    BY <1>19, ConstantsAssumption DEF Stop, Goto, PcType, Steps
  <2>4. HoldsLoaded'
    BY <1>19 DEF Stop, Goto, HoldsLoaded, CopyType, PcType
  <2>5. RestType'
    BY <1>19, ConstantsAssumption DEF Stop, RestType
  <2> QED
    BY <2>1, <2>2, <2>3, <2>4, <2>5 DEF TypeOK, RowType, CopyType, PcType,
       HoldsLoaded, RestType, Copies
<1>20. ASSUME Restart
       PROVE  TypeOK'
  <2> RowType /\ CopyType /\ PcType /\ HoldsLoaded /\ RestType
    BY TypeParts
  <2>1. RowType'
    BY <1>20 DEF Restart, RowType
  <2>2. CopyType'
    BY <1>20, ShortenedFacts DEF Restart, CopyType, Copies
  <2>3. PcType'
    BY <1>20, ConstantsAssumption DEF Restart, Goto, PcType, Steps
  <2>4. HoldsLoaded'
    BY <1>20 DEF Restart, HoldsLoaded
  <2>5. RestType'
    <3>1. strict' \in BOOLEAN
      BY <1>20, Zenon DEF Restart
    <3>2. stopping' \in BOOLEAN /\ admin' \in {"idle", "invalidate"}
      BY <1>20 DEF Restart
    <3> QED
      BY <1>20, <3>1, <3>2, ConstantsAssumption DEF Restart, RestType
  <2> QED
    BY <2>1, <2>2, <2>3, <2>4, <2>5 DEF TypeOK, RowType, CopyType, PcType,
       HoldsLoaded, RestType, Copies
<1>21. ASSUME UNCHANGED vars
       PROVE  TypeOK'
  <2> RowType /\ CopyType /\ PcType /\ HoldsLoaded /\ RestType
    BY TypeParts
  <2>1. RowType'
    BY <1>21 DEF vars, process, RowType
  <2>2. CopyType'
    BY <1>21 DEF vars, process, CopyType, Copies
  <2>3. PcType'
    BY <1>21, ConstantsAssumption DEF vars, process, Goto, PcType, Steps
  <2>4. HoldsLoaded'
    BY <1>21 DEF vars, process, Goto, HoldsLoaded, CopyType, PcType
  <2>5. RestType'
    BY <1>21, ConstantsAssumption DEF vars, process, RestType
  <2> QED
    BY <2>1, <2>2, <2>3, <2>4, <2>5 DEF TypeOK, RowType, CopyType, PcType,
       HoldsLoaded, RestType, Copies
<1> QED
  BY <1>1, <1>2, <1>3, <1>4, <1>5, <1>6, <1>7, <1>8, <1>9, <1>10, <1>11, <1>12,
     <1>13, <1>14, <1>15, <1>16, <1>17, <1>18, <1>19, <1>20, <1>21 DEF Next,
     RequestStep

\* No check of standard mode survives into simple mode.
LEMMA SimpleReadsStep ==
    TypeOK /\ SimpleReads /\ [Next]_vars => SimpleReads'
<1> SUFFICES ASSUME TypeOK, SimpleReads, [Next]_vars
             PROVE  SimpleReads'
  OBVIOUS
<1>1. ASSUME NEW p \in Requests, CheckSimpleMode(p)
       PROVE  SimpleReads'
  BY <1>1 DEF CheckSimpleMode, Goto, SimpleReads, TypeOK
<1>2. ASSUME NEW p \in Requests, CheckHit(p)
       PROVE  SimpleReads'
  BY <1>2 DEF CheckHit, Evaluate, MayCheck, Goto, SimpleReads, TypeOK
<1>3. ASSUME NEW p \in Requests, CheckMiss(p)
       PROVE  SimpleReads'
  BY <1>3 DEF CheckMiss, MayCheck, Goto, SimpleReads, TypeOK
<1>4. ASSUME NEW p \in Requests, CheckMissFails(p)
       PROVE  SimpleReads'
  BY <1>4 DEF CheckMissFails, MayCheck, Goto, SimpleReads, TypeOK
<1>5. ASSUME NEW p \in Requests, Fill(p)
       PROVE  SimpleReads'
  BY <1>5 DEF Fill, Evaluate, Goto, SimpleReads, TypeOK
<1>6. ASSUME NEW p \in Requests, Charge(p)
       PROVE  SimpleReads'
  BY <1>6 DEF Charge, WriteRow, Goto, SimpleReads, TypeOK
<1>7. ASSUME NEW p \in Requests, Abandon(p)
       PROVE  SimpleReads'
  BY <1>7 DEF Abandon, Goto, SimpleReads, TypeOK
<1>8. ASSUME NEW p \in Requests, QueueUpdate(p)
       PROVE  SimpleReads'
  BY <1>8 DEF QueueUpdate, Goto, SimpleReads, TypeOK
<1>9. ASSUME NEW p \in Requests, UpdateNow(p)
       PROVE  SimpleReads'
  BY <1>9 DEF UpdateNow, Goto, SimpleReads, TypeOK
<1>10. ASSUME NEW p \in Requests, InvalidateCharged(p)
       PROVE  SimpleReads'
  BY <1>10 DEF InvalidateCharged, Goto, SimpleReads, TypeOK
<1>11. ASSUME NEW p \in Requests, ResetRateLimitWindows(p)
       PROVE  SimpleReads'
  BY <1>11 DEF ResetRateLimitWindows, WriteRow, Goto, SimpleReads, TypeOK
<1>12. ASSUME NEW p \in Requests, InvalidateReset(p)
       PROVE  SimpleReads'
  BY <1>12 DEF InvalidateReset, Goto, SimpleReads, TypeOK
<1>13. ASSUME Dequeue
       PROVE  SimpleReads'
  BY <1>13 DEF Dequeue, Goto, SimpleReads, TypeOK
<1>14. ASSUME WorkerUpdate
       PROVE  SimpleReads'
  BY <1>14 DEF WorkerUpdate, Goto, SimpleReads, TypeOK
<1>15. ASSUME AdminReset
       PROVE  SimpleReads'
  BY <1>15 DEF AdminReset, WriteRow, Goto, SimpleReads, TypeOK
<1>16. ASSUME AdminInvalidate
       PROVE  SimpleReads'
  BY <1>16 DEF AdminInvalidate, Goto, SimpleReads, TypeOK
<1>17. ASSUME Evict
       PROVE  SimpleReads'
  BY <1>17 DEF Evict, process, Goto, SimpleReads, TypeOK
<1>18. ASSUME Tick
       PROVE  SimpleReads'
  BY <1>18 DEF Tick, process, Goto, SimpleReads, TypeOK
<1>19. ASSUME Stop
       PROVE  SimpleReads'
  BY <1>19 DEF Stop, Goto, SimpleReads, TypeOK
<1>20. ASSUME Restart
       PROVE  SimpleReads'
  BY <1>20 DEF Restart, Goto, SimpleReads, TypeOK
<1>21. ASSUME UNCHANGED vars
       PROVE  SimpleReads'
  BY <1>21 DEF vars, process, Goto, SimpleReads, TypeOK
<1> QED
  BY <1>1, <1>2, <1>3, <1>4, <1>5, <1>6, <1>7, <1>8, <1>9, <1>10, <1>11, <1>12,
     <1>13, <1>14, <1>15, <1>16, <1>17, <1>18, <1>19, <1>20, <1>21 DEF Next,
     RequestStep

\* A window without a start has no usage.
LEMMA UnsetStep ==
    TypeOK /\ UnsetIsEmpty /\ [Next]_vars => UnsetIsEmpty'
<1> SUFFICES ASSUME TypeOK, UnsetIsEmpty, [Next]_vars
             PROVE  UnsetIsEmpty'
  OBVIOUS
<1>1. ASSUME NEW p \in Requests, CheckSimpleMode(p)
       PROVE  UnsetIsEmpty'
  BY <1>1 DEF CheckSimpleMode, UnsetIsEmpty
<1>2. ASSUME NEW p \in Requests, CheckHit(p)
       PROVE  UnsetIsEmpty'
  BY <1>2 DEF CheckHit, Evaluate, UnsetIsEmpty
<1>3. ASSUME NEW p \in Requests, CheckMiss(p)
       PROVE  UnsetIsEmpty'
  BY <1>3 DEF CheckMiss, UnsetIsEmpty
<1>4. ASSUME NEW p \in Requests, CheckMissFails(p)
       PROVE  UnsetIsEmpty'
  BY <1>4 DEF CheckMissFails, UnsetIsEmpty
<1>5. ASSUME NEW p \in Requests, Fill(p)
       PROVE  UnsetIsEmpty'
  BY <1>5 DEF Fill, Evaluate, UnsetIsEmpty
<1>6. ASSUME NEW p \in Requests, Charge(p)
       PROVE  UnsetIsEmpty'
  <2>1. db \in [usage : 0..MaxUsage, age : 0..NoStart] /\ db' = Incremented(db)
    BY <1>6 DEF Charge, WriteRow, TypeOK
  <2>2. db'.age # NoStart
    BY <2>1, ConstantsAssumption DEF Incremented, IsWindowExpired, NoStart
  <2> QED
    BY <2>2 DEF UnsetIsEmpty
<1>7. ASSUME NEW p \in Requests, Abandon(p)
       PROVE  UnsetIsEmpty'
  BY <1>7 DEF Abandon, UnsetIsEmpty
<1>8. ASSUME NEW p \in Requests, QueueUpdate(p)
       PROVE  UnsetIsEmpty'
  BY <1>8 DEF QueueUpdate, UnsetIsEmpty
<1>9. ASSUME NEW p \in Requests, UpdateNow(p)
       PROVE  UnsetIsEmpty'
  BY <1>9 DEF UpdateNow, UnsetIsEmpty
<1>10. ASSUME NEW p \in Requests, InvalidateCharged(p)
       PROVE  UnsetIsEmpty'
  BY <1>10 DEF InvalidateCharged, UnsetIsEmpty
<1>11. ASSUME NEW p \in Requests, ResetRateLimitWindows(p)
       PROVE  UnsetIsEmpty'
  BY <1>11, ConstantsAssumption DEF ResetRateLimitWindows, WriteRow, ResetRow, UnsetIsEmpty, NoStart
<1>12. ASSUME NEW p \in Requests, InvalidateReset(p)
       PROVE  UnsetIsEmpty'
  BY <1>12 DEF InvalidateReset, UnsetIsEmpty
<1>13. ASSUME Dequeue
       PROVE  UnsetIsEmpty'
  BY <1>13 DEF Dequeue, UnsetIsEmpty
<1>14. ASSUME WorkerUpdate
       PROVE  UnsetIsEmpty'
  BY <1>14 DEF WorkerUpdate, UnsetIsEmpty
<1>15. ASSUME AdminReset
       PROVE  UnsetIsEmpty'
  BY <1>15 DEF AdminReset, WriteRow, UnsetIsEmpty
<1>16. ASSUME AdminInvalidate
       PROVE  UnsetIsEmpty'
  BY <1>16 DEF AdminInvalidate, UnsetIsEmpty
<1>17. ASSUME Evict
       PROVE  UnsetIsEmpty'
  BY <1>17 DEF Evict, process, UnsetIsEmpty
<1>18. ASSUME Tick
       PROVE  UnsetIsEmpty'
  BY <1>18, ConstantsAssumption DEF Tick, Older, UnsetIsEmpty, TypeOK, NoStart
<1>19. ASSUME Stop
       PROVE  UnsetIsEmpty'
  BY <1>19 DEF Stop, UnsetIsEmpty
<1>20. ASSUME Restart
       PROVE  UnsetIsEmpty'
  BY <1>20 DEF Restart, UnsetIsEmpty
<1>21. ASSUME UNCHANGED vars
       PROVE  UnsetIsEmpty'
  BY <1>21 DEF vars, process, UnsetIsEmpty
<1> QED
  BY <1>1, <1>2, <1>3, <1>4, <1>5, <1>6, <1>7, <1>8, <1>9, <1>10, <1>11, <1>12,
     <1>13, <1>14, <1>15, <1>16, <1>17, <1>18, <1>19, <1>20, <1>21 DEF Next,
     RequestStep

\* In simple mode only the requests in flight overrun the window.
LEMMA SpendBoundedStep ==
    TypeOK /\ SimpleReads /\ UnsetIsEmpty /\ SpendBounded /\ [Next]_vars => SpendBounded'
<1> SUFFICES ASSUME TypeOK, SimpleReads, UnsetIsEmpty, SpendBounded, [Next]_vars
             PROVE  SpendBounded'
  OBVIOUS
<1>1. ASSUME NEW p \in Requests, CheckSimpleMode(p)
       PROVE  SpendBounded'
  <2> SUFFICES ASSUME strict'
               PROVE  EffectiveUsage' + Cardinality(Admitted') < Limit + Cardinality(Requests)
    BY DEF SpendBounded
  <2>1. /\ Admitted \in SUBSET Requests /\ Admitted' \in SUBSET Requests
        /\ Cardinality(Admitted) \in Nat /\ Cardinality(Admitted') \in Nat
        /\ Cardinality(Admitted') <= Cardinality(Requests)
        /\ Cardinality(Requests) \in Nat
    BY Counting DEF Admitted
  <2>2. EffectiveUsage \in Nat /\ Limit \in Nat \ {0}
    BY ConstantsAssumption DEF TypeOK, EffectiveUsage, IsWindowExpired
  <2>3. EffectiveUsage' = EffectiveUsage /\ EffectiveUsage < Limit
    BY <1>1, ConstantsAssumption DEF CheckSimpleMode, EffectiveUsage, Blocks, TypeOK, IsWindowExpired
  <2> QED
    BY <2>1, <2>2, <2>3
<1>2. ASSUME NEW p \in Requests, CheckHit(p)
       PROVE  SpendBounded'
  BY <1>2 DEF CheckHit, Evaluate, MayCheck, SimpleReads, SpendBounded
<1>3. ASSUME NEW p \in Requests, CheckMiss(p)
       PROVE  SpendBounded'
  BY <1>3 DEF CheckMiss, MayCheck, SimpleReads, SpendBounded
<1>4. ASSUME NEW p \in Requests, CheckMissFails(p)
       PROVE  SpendBounded'
  BY <1>4 DEF CheckMissFails, MayCheck, SimpleReads, SpendBounded
<1>5. ASSUME NEW p \in Requests, Fill(p)
       PROVE  SpendBounded'
  BY <1>5 DEF Fill, Evaluate, SimpleReads, SpendBounded
<1>6. ASSUME NEW p \in Requests, Charge(p)
       PROVE  SpendBounded'
  <2> SUFFICES ASSUME strict'
               PROVE  EffectiveUsage' + Cardinality(Admitted') < Limit + Cardinality(Requests)
    BY DEF SpendBounded
  <2>1. /\ Admitted \in SUBSET Requests /\ Admitted' \in SUBSET Requests
        /\ Cardinality(Admitted) \in Nat /\ Cardinality(Admitted') \in Nat
        /\ Cardinality(Admitted') <= Cardinality(Requests)
        /\ Cardinality(Requests) \in Nat
    BY Counting DEF Admitted
  <2>2. EffectiveUsage \in Nat /\ Limit \in Nat \ {0}
    BY ConstantsAssumption DEF TypeOK, EffectiveUsage, IsWindowExpired
  <2>3. Admitted' = Admitted \ {p} /\ p \in Admitted
    BY <1>6 DEF Charge, Goto, Admitted, TypeOK
  <2>4. Cardinality(Admitted') = Cardinality(Admitted) - 1
    BY <2>1, <2>3, Counting
  <2>5. db \in [usage : 0..MaxUsage, age : 0..NoStart] /\ db' = Incremented(db)
    BY <1>6 DEF Charge, WriteRow, TypeOK
  <2>6. CASE IsWindowExpired(db)
    <3>1. EffectiveUsage' \in 0..1
      <4>1. CASE db.age = Window
        BY <2>5, <4>1, IncrementedFacts, ConstantsAssumption DEF EffectiveUsage, IsWindowExpired
      <4>2. CASE db.age # Window
        <5>1. db.usage = 0
          BY <2>5, <2>6, <4>2, ConstantsAssumption DEF UnsetIsEmpty, IsWindowExpired, NoStart
        <5>2. db'.usage \in 0..1
          BY <2>5, <4>2, <5>1, IncrementedFacts, Plus1Facts
        <5> QED
          BY <5>2 DEF EffectiveUsage
      <4> QED
        BY <4>1, <4>2
    <3>2. Cardinality(Admitted) <= Cardinality(Requests)
      BY <2>1, Counting
    <3> QED
      BY <2>1, <2>2, <2>4, <3>1, <3>2
  <2>7. CASE ~IsWindowExpired(db)
    <3>1. db.age < Window /\ db.usage \in 0..MaxUsage
      BY <2>5, <2>7, ConstantsAssumption DEF IsWindowExpired, NoStart
    <3>2. EffectiveUsage = db.usage /\ EffectiveUsage' = Plus1(db.usage)
      BY <2>5, <2>7, <3>1, IncrementedFacts, ConstantsAssumption DEF EffectiveUsage, IsWindowExpired, NoStart
    <3>3. EffectiveUsage' <= EffectiveUsage + 1 /\ EffectiveUsage' \in Nat
      BY <3>1, <3>2, Plus1Facts
    <3>4. strict
      <4>1. db.age # Window
        BY <2>5, <3>1, ConstantsAssumption
      <4>2. strict' = strict
        BY <1>6, <4>1 DEF Charge, WriteRow
      <4> QED
        BY <4>2, Zenon
    <3> QED
      BY <2>1, <2>2, <2>4, <3>3, <3>4 DEF SpendBounded
  <2> QED
    BY <2>6, <2>7
<1>7. ASSUME NEW p \in Requests, Abandon(p)
       PROVE  SpendBounded'
  <2> SUFFICES ASSUME strict'
               PROVE  EffectiveUsage' + Cardinality(Admitted') < Limit + Cardinality(Requests)
    BY DEF SpendBounded
  <2>1. /\ Admitted \in SUBSET Requests /\ Admitted' \in SUBSET Requests
        /\ Cardinality(Admitted) \in Nat /\ Cardinality(Admitted') \in Nat
        /\ Cardinality(Admitted') <= Cardinality(Requests)
        /\ Cardinality(Requests) \in Nat
    BY Counting DEF Admitted
  <2>2. EffectiveUsage \in Nat /\ Limit \in Nat \ {0}
    BY ConstantsAssumption DEF TypeOK, EffectiveUsage, IsWindowExpired
  <2>3. Admitted' = Admitted \ {p} /\ p \in Admitted
    BY <1>7 DEF Abandon, Goto, Admitted, TypeOK
  <2>4. Cardinality(Admitted') = Cardinality(Admitted) - 1
    BY <2>1, <2>3, Counting
  <2>5. EffectiveUsage' = EffectiveUsage /\ strict
    BY <1>7 DEF Abandon, EffectiveUsage
  <2> QED
    BY <2>1, <2>2, <2>4, <2>5 DEF SpendBounded
<1>8. ASSUME NEW p \in Requests, QueueUpdate(p)
       PROVE  SpendBounded'
  <2>1. Admitted' = Admitted /\ EffectiveUsage' = EffectiveUsage /\ strict' = strict
    BY <1>8 DEF QueueUpdate, Goto, Admitted, EffectiveUsage, TypeOK
  <2> QED
    BY <2>1 DEF SpendBounded
<1>9. ASSUME NEW p \in Requests, UpdateNow(p)
       PROVE  SpendBounded'
  <2>1. Admitted' = Admitted /\ EffectiveUsage' = EffectiveUsage /\ strict' = strict
    BY <1>9 DEF UpdateNow, Goto, Admitted, EffectiveUsage, TypeOK
  <2> QED
    BY <2>1 DEF SpendBounded
<1>10. ASSUME NEW p \in Requests, InvalidateCharged(p)
       PROVE  SpendBounded'
  <2>1. Admitted' = Admitted /\ EffectiveUsage' = EffectiveUsage /\ strict' = strict
    BY <1>10 DEF InvalidateCharged, Goto, Admitted, EffectiveUsage, TypeOK
  <2> QED
    BY <2>1 DEF SpendBounded
<1>11. ASSUME NEW p \in Requests, ResetRateLimitWindows(p)
       PROVE  SpendBounded'
  <2> SUFFICES ASSUME strict'
               PROVE  EffectiveUsage' + Cardinality(Admitted') < Limit + Cardinality(Requests)
    BY DEF SpendBounded
  <2>1. /\ Admitted \in SUBSET Requests /\ Admitted' \in SUBSET Requests
        /\ Cardinality(Admitted) \in Nat /\ Cardinality(Admitted') \in Nat
        /\ Cardinality(Admitted') <= Cardinality(Requests)
        /\ Cardinality(Requests) \in Nat
    BY Counting DEF Admitted
  <2>2. EffectiveUsage \in Nat /\ Limit \in Nat \ {0}
    BY ConstantsAssumption DEF TypeOK, EffectiveUsage, IsWindowExpired
  <2>3. db \in [usage : 0..MaxUsage, age : 0..NoStart] /\ Admitted' = Admitted
    BY <1>11 DEF ResetRateLimitWindows, Admitted, TypeOK
  <2>4. CASE db' = ResetRow(db) /\ db.age = Window
    <3>1. EffectiveUsage' = 0
      BY <2>3, <2>4, ResetFacts DEF EffectiveUsage
    <3> QED
      BY <2>1, <2>2, <3>1
  <2>5. CASE ~(db' = ResetRow(db) /\ db.age = Window)
    <3>1. db' = db /\ strict
      BY <1>11, <2>3, <2>5, ResetFacts DEF ResetRateLimitWindows, WriteRow
    <3> QED
      BY <2>3, <3>1 DEF SpendBounded, EffectiveUsage
  <2> QED
    BY <2>4, <2>5
<1>12. ASSUME NEW p \in Requests, InvalidateReset(p)
       PROVE  SpendBounded'
  <2>1. Admitted' = Admitted /\ EffectiveUsage' = EffectiveUsage /\ strict' = strict
    BY <1>12 DEF InvalidateReset, Goto, Admitted, EffectiveUsage, TypeOK
  <2> QED
    BY <2>1 DEF SpendBounded
<1>13. ASSUME Dequeue
       PROVE  SpendBounded'
  <2>1. Admitted' = Admitted /\ EffectiveUsage' = EffectiveUsage /\ strict' = strict
    BY <1>13 DEF Dequeue, Goto, Admitted, EffectiveUsage, TypeOK
  <2> QED
    BY <2>1 DEF SpendBounded
<1>14. ASSUME WorkerUpdate
       PROVE  SpendBounded'
  <2>1. Admitted' = Admitted /\ EffectiveUsage' = EffectiveUsage /\ strict' = strict
    BY <1>14 DEF WorkerUpdate, Goto, Admitted, EffectiveUsage, TypeOK
  <2> QED
    BY <2>1 DEF SpendBounded
<1>15. ASSUME AdminReset
       PROVE  SpendBounded'
  <2> SUFFICES ASSUME strict'
               PROVE  EffectiveUsage' + Cardinality(Admitted') < Limit + Cardinality(Requests)
    BY DEF SpendBounded
  <2>1. /\ Admitted \in SUBSET Requests /\ Admitted' \in SUBSET Requests
        /\ Cardinality(Admitted) \in Nat /\ Cardinality(Admitted') \in Nat
        /\ Cardinality(Admitted') <= Cardinality(Requests)
        /\ Cardinality(Requests) \in Nat
    BY Counting DEF Admitted
  <2>2. EffectiveUsage \in Nat /\ Limit \in Nat \ {0}
    BY ConstantsAssumption DEF TypeOK, EffectiveUsage, IsWindowExpired
  <2>3. EffectiveUsage' = 0
    BY <1>15, ConstantsAssumption DEF AdminReset, WriteRow, EffectiveUsage, IsWindowExpired, NoStart
  <2> QED
    BY <2>1, <2>2, <2>3
<1>16. ASSUME AdminInvalidate
       PROVE  SpendBounded'
  <2>1. Admitted' = Admitted /\ EffectiveUsage' = EffectiveUsage /\ strict' = strict
    BY <1>16 DEF AdminInvalidate, Goto, Admitted, EffectiveUsage, TypeOK
  <2> QED
    BY <2>1 DEF SpendBounded
<1>17. ASSUME Evict
       PROVE  SpendBounded'
  <2>1. Admitted' = Admitted /\ EffectiveUsage' = EffectiveUsage /\ strict' = strict
    BY <1>17 DEF Evict, process, Goto, Admitted, EffectiveUsage, TypeOK
  <2> QED
    BY <2>1 DEF SpendBounded
<1>18. ASSUME Tick
       PROVE  SpendBounded'
  <2> SUFFICES ASSUME strict'
               PROVE  EffectiveUsage' + Cardinality(Admitted') < Limit + Cardinality(Requests)
    BY DEF SpendBounded
  <2>1. /\ Admitted \in SUBSET Requests /\ Admitted' \in SUBSET Requests
        /\ Cardinality(Admitted) \in Nat /\ Cardinality(Admitted') \in Nat
        /\ Cardinality(Admitted') <= Cardinality(Requests)
        /\ Cardinality(Requests) \in Nat
    BY Counting DEF Admitted
  <2>2. EffectiveUsage \in Nat /\ Limit \in Nat \ {0}
    BY ConstantsAssumption DEF TypeOK, EffectiveUsage, IsWindowExpired
  <2>3. db \in [usage : 0..MaxUsage, age : 0..NoStart] /\ db' = Older(db)
    BY <1>18 DEF Tick, TypeOK
  <2>4. EffectiveUsage' <= EffectiveUsage /\ EffectiveUsage' \in Nat
    BY <2>3, OlderFacts, ConstantsAssumption DEF EffectiveUsage, IsWindowExpired, NoStart
  <2>5. Admitted' = Admitted /\ strict
    BY <1>18 DEF Tick, process, Admitted
  <2> QED
    BY <2>1, <2>2, <2>4, <2>5 DEF SpendBounded
<1>19. ASSUME Stop
       PROVE  SpendBounded'
  <2>1. Admitted' = Admitted /\ EffectiveUsage' = EffectiveUsage /\ strict' = strict
    BY <1>19 DEF Stop, Goto, Admitted, EffectiveUsage, TypeOK
  <2> QED
    BY <2>1 DEF SpendBounded
<1>20. ASSUME Restart
       PROVE  SpendBounded'
  <2> SUFFICES ASSUME strict'
               PROVE  EffectiveUsage' + Cardinality(Admitted') < Limit + Cardinality(Requests)
    BY DEF SpendBounded
  <2>1. /\ Admitted \in SUBSET Requests /\ Admitted' \in SUBSET Requests
        /\ Cardinality(Admitted) \in Nat /\ Cardinality(Admitted') \in Nat
        /\ Cardinality(Admitted') <= Cardinality(Requests)
        /\ Cardinality(Requests) \in Nat
    BY Counting DEF Admitted
  <2>2. EffectiveUsage \in Nat /\ Limit \in Nat \ {0}
    BY ConstantsAssumption DEF TypeOK, EffectiveUsage, IsWindowExpired
  <2>3. strict /\ EffectiveUsage' = EffectiveUsage /\ Admitted' = {}
    BY <1>20 DEF Restart, EffectiveUsage, Admitted
  <2>4. Cardinality(Admitted') = 0
    BY <2>3, FS_EmptySet
  <2> QED
    BY <2>1, <2>2, <2>3, <2>4 DEF SpendBounded
<1>21. ASSUME UNCHANGED vars
       PROVE  SpendBounded'
  <2>1. Admitted' = Admitted /\ EffectiveUsage' = EffectiveUsage /\ strict' = strict
    BY <1>21 DEF vars, process, Goto, Admitted, EffectiveUsage, TypeOK
  <2> QED
    BY <2>1 DEF SpendBounded
<1> QED
  BY <1>1, <1>2, <1>3, <1>4, <1>5, <1>6, <1>7, <1>8, <1>9, <1>10, <1>11, <1>12,
     <1>13, <1>14, <1>15, <1>16, <1>17, <1>18, <1>19, <1>20, <1>21 DEF Next,
     RequestStep

\* A live copy, in Redis or about to be written, shows every charge but the
\* outstanding ones.
LEMMA CoversStep ==
    TypeOK /\ CopyCovers /\ LoadedCovers /\ [Next]_vars => (CopyCovers /\ LoadedCovers)'
<1> SUFFICES ASSUME TypeOK, CopyCovers, LoadedCovers, [Next]_vars
             PROVE  (CopyCovers /\ LoadedCovers)'
  OBVIOUS
<1>1. ASSUME NEW p \in Requests, CheckSimpleMode(p)
       PROVE  (CopyCovers /\ LoadedCovers)'
  <2>1. /\ cache \in Copies /\ loaded \in [Requests -> Copies]
        /\ db \in [usage : 0..MaxUsage, age : 0..NoStart] /\ db.usage \in 0..MaxUsage
        /\ pc \in [Requests -> Steps] /\ queued \in Nat /\ working \in Nat
    BY ConstantsAssumption DEF TypeOK, Copies
  <2>2. /\ Charged \in SUBSET Requests /\ Charged' \in SUBSET Requests
        /\ Cardinality(Charged) \in Nat /\ Cardinality(Charged') \in Nat
    BY Counting DEF Charged
  <2>3. Outstanding' = Outstanding /\ Outstanding \in Nat
    <3>1. Charged' = Charged
      BY <1>1, <2>1 DEF CheckSimpleMode, Goto, Charged
    <3> QED
      BY <1>1, <2>1, <2>2, <3>1 DEF CheckSimpleMode, Outstanding
  <2>4. UNCHANGED <<db, cache, loaded>>
    BY <1>1 DEF CheckSimpleMode
  <2> QED
    BY <2>3, <2>4 DEF CopyCovers, LoadedCovers, Covers, Live
<1>2. ASSUME NEW p \in Requests, CheckHit(p)
       PROVE  (CopyCovers /\ LoadedCovers)'
  <2>1. /\ cache \in Copies /\ loaded \in [Requests -> Copies]
        /\ db \in [usage : 0..MaxUsage, age : 0..NoStart] /\ db.usage \in 0..MaxUsage
        /\ pc \in [Requests -> Steps] /\ queued \in Nat /\ working \in Nat
    BY ConstantsAssumption DEF TypeOK, Copies
  <2>2. /\ Charged \in SUBSET Requests /\ Charged' \in SUBSET Requests
        /\ Cardinality(Charged) \in Nat /\ Cardinality(Charged') \in Nat
    BY Counting DEF Charged
  <2>3. Outstanding' = Outstanding /\ Outstanding \in Nat
    <3>1. Charged' = Charged
      BY <1>2, <2>1 DEF CheckHit, Evaluate, MayCheck, Goto, Charged
    <3> QED
      BY <1>2, <2>1, <2>2, <3>1 DEF CheckHit, Evaluate, Outstanding
  <2>4. UNCHANGED <<db, cache, loaded>>
    BY <1>2 DEF CheckHit, Evaluate
  <2> QED
    BY <2>3, <2>4 DEF CopyCovers, LoadedCovers, Covers, Live
<1>3. ASSUME NEW p \in Requests, CheckMiss(p)
       PROVE  (CopyCovers /\ LoadedCovers)'
  <2>1. /\ cache \in Copies /\ loaded \in [Requests -> Copies]
        /\ db \in [usage : 0..MaxUsage, age : 0..NoStart] /\ db.usage \in 0..MaxUsage
        /\ pc \in [Requests -> Steps] /\ queued \in Nat /\ working \in Nat
    BY ConstantsAssumption DEF TypeOK, Copies
  <2>2. /\ Charged \in SUBSET Requests /\ Charged' \in SUBSET Requests
        /\ Cardinality(Charged) \in Nat /\ Cardinality(Charged') \in Nat
    BY Counting DEF Charged
  <2>3. Outstanding' = Outstanding /\ Outstanding \in Nat
    <3>1. Charged' = Charged
      BY <1>3, <2>1 DEF CheckMiss, MayCheck, Goto, Charged
    <3> QED
      BY <1>3, <2>1, <2>2, <3>1 DEF CheckMiss, Outstanding
  <2>4. CopyCovers'
    BY <1>3, <2>3 DEF CheckMiss, CopyCovers, Covers, Live
  <2>5. LoadedCovers'
    <3>1. SUFFICES ASSUME NEW q \in Requests, Live(loaded'[q])
                   PROVE  loaded'[q].usage + Outstanding' >= db'.usage
      BY DEF LoadedCovers, Covers, Live
    <3>2. CASE q = p
      <4>1. loaded'[q].usage = db.usage /\ db' = db
        BY <1>3, <2>1, <3>2 DEF CheckMiss
      <4> QED
        BY <2>1, <2>3, <4>1
    <3>3. CASE q # p
      <4>1. loaded'[q] = loaded[q] /\ db' = db
        BY <1>3, <2>1, <3>3 DEF CheckMiss
      <4> QED
        BY <2>3, <3>1, <4>1 DEF LoadedCovers, Covers
    <3> QED
      BY <3>2, <3>3
  <2> QED
    BY <2>4, <2>5
<1>4. ASSUME NEW p \in Requests, CheckMissFails(p)
       PROVE  (CopyCovers /\ LoadedCovers)'
  <2>1. /\ cache \in Copies /\ loaded \in [Requests -> Copies]
        /\ db \in [usage : 0..MaxUsage, age : 0..NoStart] /\ db.usage \in 0..MaxUsage
        /\ pc \in [Requests -> Steps] /\ queued \in Nat /\ working \in Nat
    BY ConstantsAssumption DEF TypeOK, Copies
  <2>2. /\ Charged \in SUBSET Requests /\ Charged' \in SUBSET Requests
        /\ Cardinality(Charged) \in Nat /\ Cardinality(Charged') \in Nat
    BY Counting DEF Charged
  <2>3. Outstanding' = Outstanding /\ Outstanding \in Nat
    <3>1. Charged' = Charged
      BY <1>4, <2>1 DEF CheckMissFails, MayCheck, Goto, Charged
    <3> QED
      BY <1>4, <2>1, <2>2, <3>1 DEF CheckMissFails, Outstanding
  <2>4. UNCHANGED <<db, cache, loaded>>
    BY <1>4 DEF CheckMissFails
  <2> QED
    BY <2>3, <2>4 DEF CopyCovers, LoadedCovers, Covers, Live
<1>5. ASSUME NEW p \in Requests, Fill(p)
       PROVE  (CopyCovers /\ LoadedCovers)'
  <2>1. /\ cache \in Copies /\ loaded \in [Requests -> Copies]
        /\ db \in [usage : 0..MaxUsage, age : 0..NoStart] /\ db.usage \in 0..MaxUsage
        /\ pc \in [Requests -> Steps] /\ queued \in Nat /\ working \in Nat
    BY ConstantsAssumption DEF TypeOK, Copies
  <2>2. /\ Charged \in SUBSET Requests /\ Charged' \in SUBSET Requests
        /\ Cardinality(Charged) \in Nat /\ Cardinality(Charged') \in Nat
    BY Counting DEF Charged
  <2>3. Outstanding' = Outstanding /\ Outstanding \in Nat
    <3>1. Charged' = Charged
      BY <1>5, <2>1 DEF Fill, Evaluate, Goto, Charged
    <3> QED
      BY <1>5, <2>1, <2>2, <3>1 DEF Fill, Evaluate, Outstanding
  <2>4. db' = db /\ cache' \in {loaded[p], cache}
    BY <1>5 DEF Fill, Evaluate
  <2>5. CopyCovers'
    BY <2>3, <2>4 DEF CopyCovers, LoadedCovers, Covers, Live
  <2>6. LoadedCovers'
    <3>1. SUFFICES ASSUME NEW q \in Requests, Live(loaded'[q])
                   PROVE  loaded'[q].usage + Outstanding' >= db'.usage
      BY DEF LoadedCovers, Covers, Live
    <3>2. loaded'[q] = loaded[q]
      BY <1>5, <2>1, <3>1 DEF Fill, Live
    <3> QED
      BY <2>3, <2>4, <3>1, <3>2 DEF LoadedCovers, Covers
  <2> QED
    BY <2>5, <2>6
<1>6. ASSUME NEW p \in Requests, Charge(p)
       PROVE  (CopyCovers /\ LoadedCovers)'
  <2>1. /\ cache \in Copies /\ loaded \in [Requests -> Copies]
        /\ db \in [usage : 0..MaxUsage, age : 0..NoStart] /\ db.usage \in 0..MaxUsage
        /\ pc \in [Requests -> Steps] /\ queued \in Nat /\ working \in Nat
    BY ConstantsAssumption DEF TypeOK, Copies
  <2>2. /\ Charged \in SUBSET Requests /\ Charged' \in SUBSET Requests
        /\ Cardinality(Charged) \in Nat /\ Cardinality(Charged') \in Nat
    BY Counting DEF Charged
  <2>3. Outstanding' = Outstanding + 1 /\ Outstanding \in Nat
    <3>1. Charged' = Charged \cup {p} /\ p \notin Charged
      BY <1>6, <2>1 DEF Charge, Goto, Charged
    <3>2. Cardinality(Charged') = Cardinality(Charged) + 1
      BY <2>2, <3>1, Counting
    <3> QED
      BY <1>6, <2>1, <2>2, <3>2 DEF Charge, Outstanding
  <2>4. CASE db.age = Window
    <3>1. ~Live(cache') /\ \A q \in Requests : ~Live(loaded'[q])
      BY <1>6, <2>1, <2>4, OutdatedFacts DEF Charge, WriteRow
    <3> QED
      BY <3>1 DEF CopyCovers, LoadedCovers, Covers, Live
  <2>5. CASE db.age # Window
    <3>1. cache' = cache /\ loaded' = loaded /\ db'.usage = Plus1(db.usage)
      BY <1>6, <2>1, <2>5, IncrementedFacts DEF Charge, WriteRow
    <3>2. db'.usage \in Nat /\ db'.usage <= db.usage + 1
      BY <2>1, <3>1, Plus1Facts
    <3>3. ASSUME NEW e \in Copies, Live(e), e.usage + Outstanding >= db.usage
          PROVE  e.usage + Outstanding' >= db'.usage
      <4>1. e.usage \in Nat
        BY <3>3, ConstantsAssumption DEF Live, Copies, Entries
      <4> QED
        BY <2>1, <2>3, <3>2, <3>3, <4>1
    <3>4. CopyCovers'
      BY <2>1, <3>1, <3>3 DEF CopyCovers, Covers, Live
    <3>5. LoadedCovers'
      BY <2>1, <3>1, <3>3 DEF LoadedCovers, Covers, Live
    <3> QED
      BY <3>4, <3>5
  <2> QED
    BY <2>4, <2>5
<1>7. ASSUME NEW p \in Requests, Abandon(p)
       PROVE  (CopyCovers /\ LoadedCovers)'
  <2>1. /\ cache \in Copies /\ loaded \in [Requests -> Copies]
        /\ db \in [usage : 0..MaxUsage, age : 0..NoStart] /\ db.usage \in 0..MaxUsage
        /\ pc \in [Requests -> Steps] /\ queued \in Nat /\ working \in Nat
    BY ConstantsAssumption DEF TypeOK, Copies
  <2>2. /\ Charged \in SUBSET Requests /\ Charged' \in SUBSET Requests
        /\ Cardinality(Charged) \in Nat /\ Cardinality(Charged') \in Nat
    BY Counting DEF Charged
  <2>3. Outstanding' = Outstanding /\ Outstanding \in Nat
    <3>1. Charged' = Charged
      BY <1>7, <2>1 DEF Abandon, Goto, Charged
    <3> QED
      BY <1>7, <2>1, <2>2, <3>1 DEF Abandon, Outstanding
  <2>4. UNCHANGED <<db, cache, loaded>>
    BY <1>7 DEF Abandon
  <2> QED
    BY <2>3, <2>4 DEF CopyCovers, LoadedCovers, Covers, Live
<1>8. ASSUME NEW p \in Requests, QueueUpdate(p)
       PROVE  (CopyCovers /\ LoadedCovers)'
  <2>1. /\ cache \in Copies /\ loaded \in [Requests -> Copies]
        /\ db \in [usage : 0..MaxUsage, age : 0..NoStart] /\ db.usage \in 0..MaxUsage
        /\ pc \in [Requests -> Steps] /\ queued \in Nat /\ working \in Nat
    BY ConstantsAssumption DEF TypeOK, Copies
  <2>2. /\ Charged \in SUBSET Requests /\ Charged' \in SUBSET Requests
        /\ Cardinality(Charged) \in Nat /\ Cardinality(Charged') \in Nat
    BY Counting DEF Charged
  <2>3. Outstanding' = Outstanding /\ Outstanding \in Nat
    <3>1. CASE queued' = queued + 1 /\ Goto(p, "idle")
      <4>1. Charged' = Charged \ {p} /\ p \in Charged
        BY <1>8, <2>1, <3>1 DEF QueueUpdate, Goto, Charged
      <4>2. Cardinality(Charged') = Cardinality(Charged) - 1
        BY <2>2, <4>1, Counting
      <4> QED
        BY <1>8, <2>1, <2>2, <3>1, <4>2 DEF QueueUpdate, Outstanding
    <3>2. CASE queued' = queued /\ Goto(p, "sync")
      <4>1. Charged' = Charged
        BY <1>8, <2>1, <3>2 DEF QueueUpdate, Goto, Charged
      <4> QED
        BY <1>8, <2>1, <2>2, <3>2, <4>1 DEF QueueUpdate, Outstanding
    <3> QED
      BY <1>8, <3>1, <3>2 DEF QueueUpdate
  <2>4. UNCHANGED <<db, cache, loaded>>
    BY <1>8 DEF QueueUpdate
  <2> QED
    BY <2>3, <2>4 DEF CopyCovers, LoadedCovers, Covers, Live
<1>9. ASSUME NEW p \in Requests, UpdateNow(p)
       PROVE  (CopyCovers /\ LoadedCovers)'
  <2>1. /\ cache \in Copies /\ loaded \in [Requests -> Copies]
        /\ db \in [usage : 0..MaxUsage, age : 0..NoStart] /\ db.usage \in 0..MaxUsage
        /\ pc \in [Requests -> Steps] /\ queued \in Nat /\ working \in Nat
    BY ConstantsAssumption DEF TypeOK, Copies
  <2>2. /\ Charged \in SUBSET Requests /\ Charged' \in SUBSET Requests
        /\ Cardinality(Charged) \in Nat /\ Cardinality(Charged') \in Nat
    BY Counting DEF Charged
  <2>3. Outstanding' = Outstanding - 1 /\ Outstanding \in Nat /\ Outstanding' \in Nat
    <3>1. Charged' = Charged \ {p} /\ p \in Charged
      BY <1>9, <2>1 DEF UpdateNow, Goto, Charged
    <3>2. Cardinality(Charged') = Cardinality(Charged) - 1
      BY <2>2, <3>1, Counting
    <3> QED
      BY <1>9, <2>1, <2>2, <3>2 DEF UpdateNow, Outstanding
  <2>4. CopyCovers'
    <3>1. db' = db
      BY <1>9 DEF UpdateNow
    <3>2. CASE cache' = Shortened(cache) \/ cache' = NoEntry
      <4>1. ~Live(cache')
        BY <2>1, <3>2, ShortenedFacts DEF Live
      <4> QED
        BY <4>1 DEF CopyCovers, Covers, Live
    <3>3. CASE cache # NoEntry /\ cache' = UpdateWindow(cache)
      <4>1. cache \in Entries /\ cache.usage \in 0..MaxUsage
        BY <2>1, <3>3 DEF Copies, Entries
      <4>2. SUFFICES ASSUME Live(cache')
                     PROVE  cache'.usage + Outstanding' >= db'.usage
        BY DEF CopyCovers, Covers, Live
      <4>3. Live(cache) /\ cache'.usage = Plus1(cache.usage)
        BY <3>3, <4>1, <4>2, UpdateFacts
      <4>4. cache.usage + Outstanding >= db.usage
        BY <4>3 DEF CopyCovers, Covers
      <4>5. cache'.usage = cache.usage + 1 \/ cache'.usage = MaxUsage
        BY <4>1, <4>3, Plus1Facts
      <4> QED
        BY <2>1, <2>3, <3>1, <4>1, <4>4, <4>5, ConstantsAssumption
    <3> QED
      BY <1>9, <3>2, <3>3 DEF UpdateNow, UpdateAPIKeyRateLimitUsage, UpdateFails
  <2>5. LoadedCovers'
    <3>1. SUFFICES ASSUME NEW q \in Requests, Live(loaded'[q])
                   PROVE  loaded'[q].usage + Outstanding' >= db'.usage
      BY DEF LoadedCovers, Covers, Live
    <3>2. /\ db' = db /\ loaded[q] \in Copies
          /\ loaded'[q] = IF loaded[q] # NoEntry /\ loaded[q].usage # db.usage
                          THEN Shortened(loaded[q]) ELSE loaded[q]
      BY <1>9, <2>1 DEF UpdateNow, UpdateAPIKeyRateLimitUsage, UpdateFails, Escapes
    <3>3. loaded'[q] = loaded[q] /\ loaded[q].usage = db.usage
      BY <3>1, <3>2, ShortenedFacts DEF Live
    <3> QED
      BY <2>1, <2>3, <3>2, <3>3
  <2> QED
    BY <2>4, <2>5
<1>10. ASSUME NEW p \in Requests, InvalidateCharged(p)
       PROVE  (CopyCovers /\ LoadedCovers)'
  <2>1. /\ cache \in Copies /\ loaded \in [Requests -> Copies]
        /\ db \in [usage : 0..MaxUsage, age : 0..NoStart] /\ db.usage \in 0..MaxUsage
        /\ pc \in [Requests -> Steps] /\ queued \in Nat /\ working \in Nat
    BY ConstantsAssumption DEF TypeOK, Copies
  <2>2. /\ Charged \in SUBSET Requests /\ Charged' \in SUBSET Requests
        /\ Cardinality(Charged) \in Nat /\ Cardinality(Charged') \in Nat
    BY Counting DEF Charged
  <2>3. Outstanding' = Outstanding - 1 /\ Outstanding \in Nat /\ Outstanding' \in Nat
    <3>1. Charged' = Charged \ {p} /\ p \in Charged
      BY <1>10, <2>1 DEF InvalidateCharged, Goto, Charged
    <3>2. Cardinality(Charged') = Cardinality(Charged) - 1
      BY <2>2, <3>1, Counting
    <3> QED
      BY <1>10, <2>1, <2>2, <3>2 DEF InvalidateCharged, Outstanding
  <2>4. CopyCovers'
    <3>1. cache' = NoEntry \/ cache' = Shortened(cache)
      BY <1>10 DEF InvalidateCharged, UpdateFails
    <3>2. ~Live(cache')
      BY <2>1, <3>1, ShortenedFacts DEF Live
    <3> QED
      BY <3>2 DEF CopyCovers, Covers, Live
  <2>5. LoadedCovers'
    <3>1. SUFFICES ASSUME NEW q \in Requests, Live(loaded'[q])
                   PROVE  loaded'[q].usage + Outstanding' >= db'.usage
      BY DEF LoadedCovers, Covers, Live
    <3>2. /\ db' = db /\ loaded[q] \in Copies
          /\ loaded'[q] = IF loaded[q] # NoEntry /\ loaded[q].usage # db.usage
                          THEN Shortened(loaded[q]) ELSE loaded[q]
      BY <1>10, <2>1 DEF InvalidateCharged, UpdateFails, Escapes
    <3>3. loaded'[q] = loaded[q] /\ loaded[q].usage = db.usage
      BY <3>1, <3>2, ShortenedFacts DEF Live
    <3> QED
      BY <2>1, <2>3, <3>2, <3>3
  <2> QED
    BY <2>4, <2>5
<1>11. ASSUME NEW p \in Requests, ResetRateLimitWindows(p)
       PROVE  (CopyCovers /\ LoadedCovers)'
  <2>1. /\ cache \in Copies /\ loaded \in [Requests -> Copies]
        /\ db \in [usage : 0..MaxUsage, age : 0..NoStart] /\ db.usage \in 0..MaxUsage
        /\ pc \in [Requests -> Steps] /\ queued \in Nat /\ working \in Nat
    BY ConstantsAssumption DEF TypeOK, Copies
  <2>2. /\ Charged \in SUBSET Requests /\ Charged' \in SUBSET Requests
        /\ Cardinality(Charged) \in Nat /\ Cardinality(Charged') \in Nat
    BY Counting DEF Charged
  <2>3. Outstanding' = Outstanding /\ Outstanding \in Nat
    <3>1. Charged' = Charged
      BY <1>11, <2>1 DEF ResetRateLimitWindows, Goto, Charged
    <3> QED
      BY <1>11, <2>1, <2>2, <3>1 DEF ResetRateLimitWindows, Outstanding
  <2>4. CASE WriteRow(ResetRow(db), TRUE)
    <3>1. ~Live(cache') /\ \A q \in Requests : ~Live(loaded'[q])
      BY <2>1, <2>4, OutdatedFacts DEF WriteRow
    <3> QED
      BY <3>1 DEF CopyCovers, LoadedCovers, Covers, Live
  <2>5. CASE UNCHANGED <<db, cache, loaded>>
    BY <2>3, <2>5 DEF CopyCovers, LoadedCovers, Covers, Live
  <2> QED
    BY <1>11, <2>1, <2>4, <2>5, ResetFacts DEF ResetRateLimitWindows, WriteRow
<1>12. ASSUME NEW p \in Requests, InvalidateReset(p)
       PROVE  (CopyCovers /\ LoadedCovers)'
  <2>1. /\ cache \in Copies /\ loaded \in [Requests -> Copies]
        /\ db \in [usage : 0..MaxUsage, age : 0..NoStart] /\ db.usage \in 0..MaxUsage
        /\ pc \in [Requests -> Steps] /\ queued \in Nat /\ working \in Nat
    BY ConstantsAssumption DEF TypeOK, Copies
  <2>2. /\ Charged \in SUBSET Requests /\ Charged' \in SUBSET Requests
        /\ Cardinality(Charged) \in Nat /\ Cardinality(Charged') \in Nat
    BY Counting DEF Charged
  <2>3. Outstanding' = Outstanding /\ Outstanding \in Nat
    <3>1. Charged' = Charged
      BY <1>12, <2>1 DEF InvalidateReset, Goto, Charged
    <3> QED
      BY <1>12, <2>1, <2>2, <3>1 DEF InvalidateReset, Outstanding
  <2>4. UNCHANGED <<db, loaded>> /\ cache' \in {NoEntry, cache}
    BY <1>12 DEF InvalidateReset, Invalidate
  <2> QED
    BY <2>3, <2>4 DEF CopyCovers, LoadedCovers, Covers, Live
<1>13. ASSUME Dequeue
       PROVE  (CopyCovers /\ LoadedCovers)'
  <2>1. /\ cache \in Copies /\ loaded \in [Requests -> Copies]
        /\ db \in [usage : 0..MaxUsage, age : 0..NoStart] /\ db.usage \in 0..MaxUsage
        /\ pc \in [Requests -> Steps] /\ queued \in Nat /\ working \in Nat
    BY ConstantsAssumption DEF TypeOK, Copies
  <2>2. /\ Charged \in SUBSET Requests /\ Charged' \in SUBSET Requests
        /\ Cardinality(Charged) \in Nat /\ Cardinality(Charged') \in Nat
    BY Counting DEF Charged
  <2>3. Outstanding' = Outstanding /\ Outstanding \in Nat
    <3>1. Charged' = Charged
      BY <1>13 DEF Dequeue, Charged
    <3> QED
      BY <1>13, <2>1, <2>2, <3>1 DEF Dequeue, Outstanding
  <2>4. UNCHANGED <<db, cache, loaded>>
    BY <1>13 DEF Dequeue
  <2> QED
    BY <2>3, <2>4 DEF CopyCovers, LoadedCovers, Covers, Live
<1>14. ASSUME WorkerUpdate
       PROVE  (CopyCovers /\ LoadedCovers)'
  <2>1. /\ cache \in Copies /\ loaded \in [Requests -> Copies]
        /\ db \in [usage : 0..MaxUsage, age : 0..NoStart] /\ db.usage \in 0..MaxUsage
        /\ pc \in [Requests -> Steps] /\ queued \in Nat /\ working \in Nat
    BY ConstantsAssumption DEF TypeOK, Copies
  <2>2. /\ Charged \in SUBSET Requests /\ Charged' \in SUBSET Requests
        /\ Cardinality(Charged) \in Nat /\ Cardinality(Charged') \in Nat
    BY Counting DEF Charged
  <2>3. Outstanding' = Outstanding - 1 /\ Outstanding \in Nat /\ Outstanding' \in Nat
    <3>1. Charged' = Charged
      BY <1>14 DEF WorkerUpdate, Charged
    <3> QED
      BY <1>14, <2>1, <2>2, <3>1 DEF WorkerUpdate, Outstanding
  <2>4. CopyCovers'
    <3>1. db' = db
      BY <1>14 DEF WorkerUpdate
    <3>2. CASE cache' = Shortened(cache) \/ cache' = NoEntry
      <4>1. ~Live(cache')
        BY <2>1, <3>2, ShortenedFacts DEF Live
      <4> QED
        BY <4>1 DEF CopyCovers, Covers, Live
    <3>3. CASE cache # NoEntry /\ cache' = UpdateWindow(cache)
      <4>1. cache \in Entries /\ cache.usage \in 0..MaxUsage
        BY <2>1, <3>3 DEF Copies, Entries
      <4>2. SUFFICES ASSUME Live(cache')
                     PROVE  cache'.usage + Outstanding' >= db'.usage
        BY DEF CopyCovers, Covers, Live
      <4>3. Live(cache) /\ cache'.usage = Plus1(cache.usage)
        BY <3>3, <4>1, <4>2, UpdateFacts
      <4>4. cache.usage + Outstanding >= db.usage
        BY <4>3 DEF CopyCovers, Covers
      <4>5. cache'.usage = cache.usage + 1 \/ cache'.usage = MaxUsage
        BY <4>1, <4>3, Plus1Facts
      <4> QED
        BY <2>1, <2>3, <3>1, <4>1, <4>4, <4>5, ConstantsAssumption
    <3> QED
      BY <1>14, <3>2, <3>3 DEF WorkerUpdate, UpdateAPIKeyRateLimitUsage, UpdateFails
  <2>5. LoadedCovers'
    <3>1. SUFFICES ASSUME NEW q \in Requests, Live(loaded'[q])
                   PROVE  loaded'[q].usage + Outstanding' >= db'.usage
      BY DEF LoadedCovers, Covers, Live
    <3>2. /\ db' = db /\ loaded[q] \in Copies
          /\ loaded'[q] = IF loaded[q] # NoEntry /\ loaded[q].usage # db.usage
                          THEN Shortened(loaded[q]) ELSE loaded[q]
      BY <1>14, <2>1 DEF WorkerUpdate, UpdateAPIKeyRateLimitUsage, UpdateFails, Escapes
    <3>3. loaded'[q] = loaded[q] /\ loaded[q].usage = db.usage
      BY <3>1, <3>2, ShortenedFacts DEF Live
    <3> QED
      BY <2>1, <2>3, <3>2, <3>3
  <2> QED
    BY <2>4, <2>5
<1>15. ASSUME AdminReset
       PROVE  (CopyCovers /\ LoadedCovers)'
  <2>1. /\ cache \in Copies /\ loaded \in [Requests -> Copies]
        /\ db \in [usage : 0..MaxUsage, age : 0..NoStart] /\ db.usage \in 0..MaxUsage
        /\ pc \in [Requests -> Steps] /\ queued \in Nat /\ working \in Nat
    BY ConstantsAssumption DEF TypeOK, Copies
  <2>2. /\ Charged \in SUBSET Requests /\ Charged' \in SUBSET Requests
        /\ Cardinality(Charged) \in Nat /\ Cardinality(Charged') \in Nat
    BY Counting DEF Charged
  <2>3. Outstanding' = Outstanding /\ Outstanding \in Nat
    <3>1. Charged' = Charged
      BY <1>15, <2>1 DEF AdminReset, Goto, Charged
    <3> QED
      BY <1>15, <2>1, <2>2, <3>1 DEF AdminReset, Outstanding
  <2>4. ~Live(cache') /\ \A q \in Requests : ~Live(loaded'[q])
    BY <1>15, <2>1, OutdatedFacts DEF AdminReset, WriteRow
  <2> QED
    BY <2>4 DEF CopyCovers, LoadedCovers, Covers, Live
<1>16. ASSUME AdminInvalidate
       PROVE  (CopyCovers /\ LoadedCovers)'
  <2>1. /\ cache \in Copies /\ loaded \in [Requests -> Copies]
        /\ db \in [usage : 0..MaxUsage, age : 0..NoStart] /\ db.usage \in 0..MaxUsage
        /\ pc \in [Requests -> Steps] /\ queued \in Nat /\ working \in Nat
    BY ConstantsAssumption DEF TypeOK, Copies
  <2>2. /\ Charged \in SUBSET Requests /\ Charged' \in SUBSET Requests
        /\ Cardinality(Charged) \in Nat /\ Cardinality(Charged') \in Nat
    BY Counting DEF Charged
  <2>3. Outstanding' = Outstanding /\ Outstanding \in Nat
    <3>1. Charged' = Charged
      BY <1>16, <2>1 DEF AdminInvalidate, Goto, Charged
    <3> QED
      BY <1>16, <2>1, <2>2, <3>1 DEF AdminInvalidate, Outstanding
  <2>4. UNCHANGED <<db, loaded>> /\ cache' \in {NoEntry, cache}
    BY <1>16 DEF AdminInvalidate, Invalidate
  <2> QED
    BY <2>3, <2>4 DEF CopyCovers, LoadedCovers, Covers, Live
<1>17. ASSUME Evict
       PROVE  (CopyCovers /\ LoadedCovers)'
  <2>1. /\ cache \in Copies /\ loaded \in [Requests -> Copies]
        /\ db \in [usage : 0..MaxUsage, age : 0..NoStart] /\ db.usage \in 0..MaxUsage
        /\ pc \in [Requests -> Steps] /\ queued \in Nat /\ working \in Nat
    BY ConstantsAssumption DEF TypeOK, Copies
  <2>2. /\ Charged \in SUBSET Requests /\ Charged' \in SUBSET Requests
        /\ Cardinality(Charged) \in Nat /\ Cardinality(Charged') \in Nat
    BY Counting DEF Charged
  <2>3. Outstanding' = Outstanding /\ Outstanding \in Nat
    <3>1. Charged' = Charged
      BY <1>17, <2>1 DEF Evict, process, Goto, Charged
    <3> QED
      BY <1>17, <2>1, <2>2, <3>1 DEF Evict, process, Outstanding
  <2>4. UNCHANGED <<db, loaded>> /\ cache' \in {NoEntry, cache}
    BY <1>17 DEF Evict, process
  <2> QED
    BY <2>3, <2>4 DEF CopyCovers, LoadedCovers, Covers, Live
<1>18. ASSUME Tick
       PROVE  (CopyCovers /\ LoadedCovers)'
  <2>1. /\ cache \in Copies /\ loaded \in [Requests -> Copies]
        /\ db \in [usage : 0..MaxUsage, age : 0..NoStart] /\ db.usage \in 0..MaxUsage
        /\ pc \in [Requests -> Steps] /\ queued \in Nat /\ working \in Nat
    BY ConstantsAssumption DEF TypeOK, Copies
  <2>2. /\ Charged \in SUBSET Requests /\ Charged' \in SUBSET Requests
        /\ Cardinality(Charged) \in Nat /\ Cardinality(Charged') \in Nat
    BY Counting DEF Charged
  <2>3. Outstanding' = Outstanding /\ Outstanding \in Nat
    <3>1. Charged' = Charged
      BY <1>18, <2>1 DEF Tick, process, Goto, Charged
    <3> QED
      BY <1>18, <2>1, <2>2, <3>1 DEF Tick, process, Outstanding
  <2>4. db'.usage = db.usage
    BY <1>18, <2>1, OlderFacts DEF Tick
  <2>5. CopyCovers'
    <3>1. cache \in Entries => cache' = Older(cache)
      BY <1>18, ConstantsAssumption DEF Tick
    <3>2. cache \notin Entries => cache' = NoEntry
      BY <1>18, <2>1 DEF Tick, Copies
    <3> QED
      BY <2>3, <2>4, <3>1, <3>2, OlderFacts DEF CopyCovers, Covers, Live
  <2>6. LoadedCovers'
    <3>1. SUFFICES ASSUME NEW q \in Requests, Live(loaded'[q])
                   PROVE  loaded'[q].usage + Outstanding' >= db'.usage
      BY DEF LoadedCovers, Covers, Live
    <3>2. loaded[q] \in Entries /\ loaded'[q] = Older(loaded[q])
      BY <1>18, <2>1, <3>1 DEF Tick, Copies, Live
    <3> QED
      BY <2>3, <2>4, <3>1, <3>2, OlderFacts DEF LoadedCovers, Covers
  <2> QED
    BY <2>5, <2>6
<1>19. ASSUME Stop
       PROVE  (CopyCovers /\ LoadedCovers)'
  <2>1. /\ cache \in Copies /\ loaded \in [Requests -> Copies]
        /\ db \in [usage : 0..MaxUsage, age : 0..NoStart] /\ db.usage \in 0..MaxUsage
        /\ pc \in [Requests -> Steps] /\ queued \in Nat /\ working \in Nat
    BY ConstantsAssumption DEF TypeOK, Copies
  <2>2. /\ Charged \in SUBSET Requests /\ Charged' \in SUBSET Requests
        /\ Cardinality(Charged) \in Nat /\ Cardinality(Charged') \in Nat
    BY Counting DEF Charged
  <2>3. Outstanding' = Outstanding /\ Outstanding \in Nat
    <3>1. Charged' = Charged
      BY <1>19, <2>1 DEF Stop, Goto, Charged
    <3> QED
      BY <1>19, <2>1, <2>2, <3>1 DEF Stop, Outstanding
  <2>4. UNCHANGED <<db, cache, loaded>>
    BY <1>19 DEF Stop
  <2> QED
    BY <2>3, <2>4 DEF CopyCovers, LoadedCovers, Covers, Live
<1>20. ASSUME Restart
       PROVE  (CopyCovers /\ LoadedCovers)'
  <2>1. /\ cache \in Copies /\ loaded \in [Requests -> Copies]
        /\ db \in [usage : 0..MaxUsage, age : 0..NoStart] /\ db.usage \in 0..MaxUsage
        /\ pc \in [Requests -> Steps] /\ queued \in Nat /\ working \in Nat
    BY ConstantsAssumption DEF TypeOK, Copies
  <2>2. /\ Charged \in SUBSET Requests /\ Charged' \in SUBSET Requests
        /\ Cardinality(Charged) \in Nat /\ Cardinality(Charged') \in Nat
    BY Counting DEF Charged
  <2>3. Outstanding' = 0 /\ Outstanding \in Nat
    <3>1. Charged' = {}
      BY <1>20 DEF Restart, Charged
    <3>2. Cardinality(Charged') = 0
      BY <3>1, FS_EmptySet
    <3> QED
      BY <1>20, <2>1, <2>2, <3>2 DEF Restart, Outstanding
  <2>4. CopyCovers'
    <3>1. CASE Outstanding = 0
      <4>1. cache' = cache /\ db' = db
        BY <1>20, <3>1 DEF Restart
      <4> QED
        BY <2>3, <3>1, <4>1 DEF CopyCovers, Covers, Live
    <3>2. CASE Outstanding # 0
      <4>1. ~Live(cache')
        BY <1>20, <2>1, <3>2, ShortenedFacts DEF Restart
      <4> QED
        BY <4>1 DEF CopyCovers, Covers, Live
    <3> QED
      BY <3>1, <3>2
  <2>5. LoadedCovers'
    BY <1>20 DEF Restart, LoadedCovers, Covers, Live
  <2> QED
    BY <2>4, <2>5
<1>21. ASSUME UNCHANGED vars
       PROVE  (CopyCovers /\ LoadedCovers)'
  <2>1. /\ cache \in Copies /\ loaded \in [Requests -> Copies]
        /\ db \in [usage : 0..MaxUsage, age : 0..NoStart] /\ db.usage \in 0..MaxUsage
        /\ pc \in [Requests -> Steps] /\ queued \in Nat /\ working \in Nat
    BY ConstantsAssumption DEF TypeOK, Copies
  <2>2. /\ Charged \in SUBSET Requests /\ Charged' \in SUBSET Requests
        /\ Cardinality(Charged) \in Nat /\ Cardinality(Charged') \in Nat
    BY Counting DEF Charged
  <2>3. Outstanding' = Outstanding /\ Outstanding \in Nat
    <3>1. Charged' = Charged
      BY <1>21, <2>1 DEF vars, process, Goto, Charged
    <3> QED
      BY <1>21, <2>1, <2>2, <3>1 DEF vars, process, Outstanding
  <2>4. UNCHANGED <<db, cache, loaded>>
    BY <1>21 DEF vars, process
  <2> QED
    BY <2>3, <2>4 DEF CopyCovers, LoadedCovers, Covers, Live
<1> QED
  BY <1>1, <1>2, <1>3, <1>4, <1>5, <1>6, <1>7, <1>8, <1>9, <1>10, <1>11, <1>12,
     <1>13, <1>14, <1>15, <1>16, <1>17, <1>18, <1>19, <1>20, <1>21 DEF Next,
     RequestStep

-----------------------------------------------------------------------------
\* The invariant holds when the process is started for the first time.
LEMMA InitHolds == Init => IInv
<1> SUFFICES ASSUME Init
             PROVE  IInv
  OBVIOUS
<1>1. TypeOK
  <2>1. strict \in BOOLEAN
    BY Zenon DEF Init
  <2>2. cache = NoEntry /\ loaded = [p \in Requests |-> NoEntry]
    BY DEF Init
  <2>3. db \in [usage : 0..MaxUsage, age : 0..NoStart]
    BY ConstantsAssumption DEF Init, NoStart
  <2>4. queued \in 0..QueueSize /\ working \in 0..Workers /\ mode \in Modes
    BY ConstantsAssumption DEF Init
  <2> QED
    BY <2>1, <2>2, <2>3, <2>4 DEF Init, TypeOK, Steps
<1>2. SimpleReads /\ UnsetIsEmpty
  BY DEF Init, SimpleReads, UnsetIsEmpty
<1>3. Admitted = {} /\ EffectiveUsage = 0
  BY DEF Init, Admitted, EffectiveUsage
<1>4. SpendBounded
  BY <1>3, FS_EmptySet, Counting, ConstantsAssumption DEF SpendBounded
<1>5. CopyCovers /\ LoadedCovers
  BY DEF Init, CopyCovers, LoadedCovers, Covers, Live
<1> QED
  BY <1>1, <1>2, <1>4, <1>5 DEF IInv

\* Every step keeps it.
LEMMA Inductive == IInv /\ [Next]_vars => IInv'
<1> SUFFICES ASSUME IInv, [Next]_vars
             PROVE  IInv'
  OBVIOUS
<1>1. TypeOK /\ SimpleReads /\ UnsetIsEmpty /\ SpendBounded /\ CopyCovers /\ LoadedCovers
  BY DEF IInv
<1>2. TypeOK' /\ SimpleReads' /\ UnsetIsEmpty'
  BY <1>1, TypeStep, SimpleReadsStep, UnsetStep
<1>3. SpendBounded' /\ CopyCovers' /\ LoadedCovers'
  BY <1>1, SpendBoundedStep, CoversStep
<1> QED
  BY <1>2, <1>3 DEF IInv

\* So it holds in every state the program reaches.
LEMMA Invariant == Spec => []IInv
BY InitHolds, Inductive, PTL DEF Spec

(***************************************************************************)
(* The types hold for any requests, limit, window, queue and workers: the  *)
(* queue of cache writes keeps its capacity, and a request holds a loaded  *)
(* row exactly between its load and its write.                             *)
(***************************************************************************)
THEOREM TypeCorrect == Spec => []TypeOK
<1>1. IInv => TypeOK
  BY DEF IInv
<1> QED
  BY <1>1, Invariant, PTL

(***************************************************************************)
(* In simple mode the window is overrun by at most one charge for each     *)
(* request that can be in flight, for any limit and any number of          *)
(* requests, through expiries, resets and restarts.                        *)
(***************************************************************************)
THEOREM SimpleModeBound == Spec => []SpendBounded
<1>1. IInv => SpendBounded
  BY DEF IInv
<1> QED
  BY <1>1, Invariant, PTL

(***************************************************************************)
(* In any mode, a copy of the row's window lacks only charges on their way *)
(* to it, unless an update failed, a process died with updates, or an      *)
(* update overtook the write of a request that had missed a charge.        *)
(***************************************************************************)
THEOREM NoneEscapes == Spec => []NoChargeEscapes
<1>1. IInv => NoChargeEscapes
  BY DEF IInv, CopyCovers, Covers, Live, NoChargeEscapes
<1> QED
  BY <1>1, Invariant, PTL

=============================================================================

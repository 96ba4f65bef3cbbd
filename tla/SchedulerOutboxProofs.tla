------------------------ MODULE SchedulerOutboxProofs ------------------------
(***************************************************************************)
(* The outbox of the scheduler for every set of accounts, writers, pollers *)
(* and rebuilds and every batch size: type correctness; nothing skipped or *)
(* deleted unread while ids become visible in the order they were drawn,   *)
(* which one writer guarantees; and a fresh snapshot whenever a poller     *)
(* that shares the bucket with one autocommitting writer has caught up.    *)
(***************************************************************************)
EXTENDS SchedulerOutbox, FiniteSetTheorems, SequenceTheorems, TLAPS

\* Removing one element of a sequence shifts the ones behind it.
LEMMA Removed ==
  ASSUME NEW S, NEW s \in Seq(S), NEW n \in DOMAIN s
  PROVE  /\ RemoveAt(s, n) \in Seq(S)
         /\ DOMAIN RemoveAt(s, n) = 1..(Len(s) - 1)
         /\ \A i \in 1..(Len(s) - 1) : RemoveAt(s, n)[i] = IF i < n THEN s[i] ELSE s[i + 1]
<1> DEFINE front == SubSeq(s, 1, n - 1)
           back == SubSeq(s, n + 1, Len(s))
<1>1. Len(s) \in Nat /\ DOMAIN s = 1..Len(s) /\ n \in 1..Len(s)
      /\ \A i \in 1..Len(s) : s[i] \in S
  BY LenProperties, ElementOfSeq
<1>2. /\ front \in Seq(S) /\ Len(front) = n - 1
      /\ \A i \in 1..(n - 1) : front[i] = s[i]
  <2>1. \A i \in 1..(n - 1) : s[i] \in S
    BY <1>1
  <2>2. /\ front \in Seq(S)
        /\ Len(front) = IF 1 <= n - 1 THEN (n - 1) - 1 + 1 ELSE 0
        /\ \A i \in 1..((n - 1) - 1 + 1) : front[i] = s[1 + i - 1]
    BY <2>1, <1>1, SubSeqProperties
  <2> QED
    BY <2>2, <1>1
<1>3. /\ back \in Seq(S) /\ Len(back) = Len(s) - n
      /\ \A i \in 1..(Len(s) - n) : back[i] = s[n + i]
  <2>1. \A i \in (n + 1)..Len(s) : s[i] \in S
    BY <1>1
  <2>2. /\ back \in Seq(S)
        /\ Len(back) = IF n + 1 <= Len(s) THEN Len(s) - (n + 1) + 1 ELSE 0
        /\ \A i \in 1..(Len(s) - (n + 1) + 1) : back[i] = s[(n + 1) + i - 1]
    BY <2>1, <1>1, SubSeqProperties
  <2> QED
    BY <2>2, <1>1
<1> HIDE DEF front, back
<1>4. /\ front \o back \in Seq(S)
      /\ Len(front \o back) = Len(front) + Len(back)
      /\ \A i \in 1..(Len(front) + Len(back)) :
           (front \o back)[i] = IF i <= Len(front) THEN front[i] ELSE back[i - Len(front)]
  BY <1>2, <1>3, ConcatProperties
<1>5. DOMAIN (front \o back) = 1..Len(front \o back)
  BY <1>4, LenProperties
<1>6. RemoveAt(s, n) = front \o back
  BY DEF RemoveAt, front, back
<1>7. \A i \in 1..(Len(s) - 1) : (front \o back)[i] = IF i < n THEN s[i] ELSE s[i + 1]
  <2> TAKE i \in 1..(Len(s) - 1)
  <2>1. ASSUME i < n PROVE (front \o back)[i] = s[i]
    BY <2>1, <1>1, <1>2, <1>3, <1>4
  <2>2. ASSUME ~ (i < n) PROVE (front \o back)[i] = s[i + 1]
    <3>1. i - (n - 1) \in 1..(Len(s) - n) /\ n + (i - (n - 1)) = i + 1
      BY <2>2, <1>1
    <3>2. (front \o back)[i] = back[i - (n - 1)]
      <4>1. Len(front) = n - 1 /\ Len(back) = Len(s) - n /\ n \in Nat /\ Len(s) \in Nat
        BY <1>1, <1>2, <1>3
      <4>2. i \in 1..(Len(front) + Len(back)) /\ ~ (i <= Len(front))
        BY <2>2, <4>1
      <4>3. (front \o back)[i] = back[i - Len(front)]
        BY <1>4, <4>2
      <4> QED
        BY <4>1, <4>3
    <3> QED
      BY <3>1, <3>2, <1>3
  <2> QED
    BY <2>1, <2>2
<1>8. Len(front \o back) = Len(s) - 1
  BY <1>1, <1>2, <1>3, <1>4
<1> QED
  BY <1>4, <1>5, <1>6, <1>7, <1>8

\* The end of a sequence.
LEMMA Suffix ==
  ASSUME NEW S, NEW s \in Seq(S), NEW n \in DOMAIN s
  PROVE  /\ SubSeq(s, n + 1, Len(s)) \in Seq(S)
         /\ DOMAIN SubSeq(s, n + 1, Len(s)) = 1..(Len(s) - n)
         /\ \A i \in 1..(Len(s) - n) : SubSeq(s, n + 1, Len(s))[i] = s[n + i]
<1> DEFINE back == SubSeq(s, n + 1, Len(s))
<1>1. Len(s) \in Nat /\ DOMAIN s = 1..Len(s) /\ n \in 1..Len(s)
      /\ \A i \in 1..Len(s) : s[i] \in S
  BY LenProperties, ElementOfSeq
<1>2. \A i \in (n + 1)..Len(s) : s[i] \in S
  BY <1>1
<1>3. /\ back \in Seq(S)
      /\ Len(back) = IF n + 1 <= Len(s) THEN Len(s) - (n + 1) + 1 ELSE 0
      /\ \A i \in 1..(Len(s) - (n + 1) + 1) : back[i] = s[(n + 1) + i - 1]
  BY <1>2, <1>1, SubSeqProperties
<1> HIDE DEF back
<1>4. DOMAIN back = 1..Len(back)
  BY <1>3, LenProperties
<1>5. Len(back) = Len(s) - n
  BY <1>1, <1>3
<1>6. back \in Seq(S) /\ DOMAIN back = 1..(Len(s) - n)
  BY <1>3, <1>4, <1>5
<1>7. \A i \in 1..(Len(s) - n) : back[i] = s[n + i]
  <2> TAKE i \in 1..(Len(s) - n)
  <2>1. i \in 1..(Len(s) - (n + 1) + 1) /\ (n + 1) + i - 1 = n + i
    BY <1>1
  <2> QED
    BY <1>3, <2>1
<1> QED
  BY <1>6, <1>7 DEF back

\* Equal intervals from 1 have equal ends.
LEMMA SameInterval ==
  ASSUME NEW m \in Nat, NEW n \in Nat, 1..m = 1..n
  PROVE  m = n
<1>1. (m # 0 => m \in 1..m) /\ (n # 0 => n \in 1..n)
  OBVIOUS
<1>2. (m # 0 => m \in 1..n) /\ (n # 0 => n \in 1..m)
  BY <1>1, Zenon
<1>3. (m # 0 => m <= n) /\ (n # 0 => n <= m)
  BY <1>2
<1> QED
  BY <1>3

\* Every finite set of ids is listed to its end, the largest one.
LEMMA AscendingFacts ==
  ASSUME NEW ids \in SUBSET Nat, IsFiniteSet(ids), NEW s \in Ascending(ids)
  PROVE  /\ Cardinality(ids) \in Nat
         /\ s \in [1..Cardinality(ids) -> ids]
         /\ s \in Seq(ids) /\ Len(s) = Cardinality(ids)
         /\ ids # {} => /\ Len(s) \in DOMAIN s /\ s[Len(s)] \in ids
                        /\ \A i \in ids : i <= s[Len(s)]
         /\ ids = {} => s = << >>
<1> DEFINE c == Cardinality(ids)
<1>1. c \in Nat /\ (c = 0 <=> ids = {})
  BY FS_CardinalityType, FS_EmptySet
<1>2. s \in [1..c -> ids] /\ \A m, n \in 1..c : m < n => s[m] < s[n]
  BY DEF Ascending
<1> HIDE DEF c
<1>3. \A m, n \in 1..c : s[m] = s[n] => m = n
  <2> TAKE m, n \in 1..c
  <2>1. s[m] \in Nat /\ s[n] \in Nat
    BY <1>2
  <2>2. m \in Nat /\ n \in Nat
    BY <1>1
  <2> QED
    BY <1>2, <2>1, <2>2
<1>4. s \in Injection(1..c, ids)
  BY <1>2, <1>3 DEF Injection, IsInjective
<1>5. IsFiniteSet(1..c) /\ Cardinality(1..c) = c
  <2>1. IsFiniteSet(1..c) /\ Cardinality(1..c) = IF 1 > c THEN 0 ELSE c - 1 + 1
    BY <1>1, FS_Interval
  <2> QED
    BY <2>1, <1>1
<1>6. s \in Surjection(1..c, ids)
  <2>1. Cardinality(1..c) = Cardinality(ids)
    BY <1>5 DEF c
  <2> QED
    BY <1>4, <2>1, FS_Injection
<1>7. s \in Seq(ids) /\ Len(s) = c
  <2>1. s \in Seq(ids)
    BY <1>1, <1>2, SeqDef
  <2>2. Len(s) \in Nat /\ DOMAIN s = 1..Len(s)
    BY <2>1, LenProperties
  <2>3. 1..Len(s) = 1..c
    BY <1>2, <2>2
  <2> QED
    BY <2>1, <2>2, <2>3, <1>1, SameInterval
<1>8. ASSUME ids # {}
      PROVE  c \in 1..c /\ s[c] \in ids /\ \A i \in ids : i <= s[c]
  <2> c \in Nat /\ c # 0
    BY <1>1, <1>8
  <2>1. c \in 1..c
    OBVIOUS
  <2>2. s[c] \in ids
    BY <1>2, <2>1
  <2>3. ASSUME NEW i \in ids PROVE i <= s[c]
    <3>1. PICK m \in 1..c : s[m] = i
      BY <1>6 DEF Surjection
    <3>2. m = c \/ m < c
      BY <1>1
    <3>3. i \in Nat /\ s[c] \in Nat /\ (m < c => i < s[c])
      BY <3>1, <1>2, <2>1, <2>2
    <3> QED
      BY <3>1, <3>2, <3>3
  <2> QED
    BY <2>1, <2>2, <2>3
<1>9. ASSUME ids = {} PROVE s = << >>
  BY <1>1, <1>7, <1>9, EmptySeq
<1> QED
  BY <1>1, <1>2, <1>7, <1>8, <1>9 DEF c

\* What the rows and the sequence of their ids have to be for a poll.
RowsType ==
    /\ nextId \in 1..(MaxId + 1)
    /\ DOMAIN rows \subseteq 1..(nextId - 1)
    /\ \A i \in DOMAIN rows : rows[i] \in Row

\* A poll reads finitely many rows.
LEMMA PendingFinite ==
  ASSUME RowsType, NEW x
  PROVE  /\ Pending(x) \subseteq DOMAIN rows
         /\ Pending(x) \subseteq Nat
         /\ \A S \in SUBSET Pending(x) : IsFiniteSet(S) /\ Cardinality(S) \in Nat
<1>1. nextId \in Nat /\ DOMAIN rows \subseteq Nat
  BY OutboxAssumption DEF RowsType
<1>2. IsFiniteSet(1..(nextId - 1))
  BY <1>1, FS_Interval
<1>3. Pending(x) \subseteq DOMAIN rows
  BY DEF Pending, Committed
<1>4. \A S \in SUBSET Pending(x) : IsFiniteSet(S)
  BY <1>2, <1>3, FS_Subset DEF RowsType
<1> QED
  BY <1>1, <1>3, <1>4, FS_CardinalityType

\* A poll reads the rows of the lowest ids: whatever is committed below one
\* that it reads, it reads as well.
LEMMA ListedClosed ==
  ASSUME RowsType, NEW x, NEW i \in Pending(x), NEW j \in Listed(x), i <= j
  PROVE  i \in Listed(x)
<1> DEFINE below(n) == {m \in Pending(x) : m < n}
<1>1. i \in Nat /\ j \in Pending(x) /\ j \in Nat /\ Pending(x) \subseteq Nat
  BY PendingFinite DEF Listed
<1>2. below(i) \subseteq below(j)
  BY <1>1
<1>3. /\ IsFiniteSet(below(j))
      /\ Cardinality(below(i)) \in Nat /\ Cardinality(below(j)) \in Nat
  BY PendingFinite
<1>4. Cardinality(below(i)) <= Cardinality(below(j))
  BY <1>2, <1>3, FS_Subset
<1>5. Cardinality(below(j)) < BatchLimit
  BY DEF Listed
<1>6. Cardinality(below(i)) < BatchLimit
  BY <1>3, <1>4, <1>5, OutboxAssumption
<1> QED
  BY <1>6 DEF Listed

\* A poll reads at most BatchLimit rows.
LEMMA ListedBound ==
  ASSUME RowsType, NEW x, NEW s \in Ascending(Listed(x))
  PROVE  Cardinality(Listed(x)) <= BatchLimit
<1> DEFINE ids == Listed(x)
           c == Cardinality(ids)
<1>1. ids \subseteq Pending(x) /\ ids \in SUBSET Nat /\ IsFiniteSet(ids)
  <2>1. ids \subseteq Pending(x)
    BY DEF Listed
  <2> QED
    BY <2>1, PendingFinite
<1>2. /\ c \in Nat /\ s \in [1..c -> ids] /\ Len(s) = c
      /\ ids # {} => c \in 1..c /\ s[c] \in ids
  BY <1>1, AscendingFacts
<1>3. CASE ids = {}
  BY <1>3, FS_EmptySet, OutboxAssumption
<1>4. CASE ids # {}
  <2> DEFINE below == {m \in Pending(x) : m < s[c]}
  <2>1. IsFiniteSet(below) /\ Cardinality(below) \in Nat
    BY PendingFinite
  <2>2. Cardinality(below) < BatchLimit
    BY <1>2, <1>4 DEF Listed
  <2>3. c \in Nat \ {0}
    BY <1>2, <1>4
  <2> DEFINE f == [m \in 1..(c - 1) |-> s[m]]
  <2>4. \A m, n \in 1..c : m < n => s[m] < s[n]
    BY DEF Ascending
  <2>5. \A m \in 1..(c - 1) : m \in 1..c /\ m < c
    BY <2>3
  <2>6. f \in [1..(c - 1) -> below]
    <3>1. \A m \in 1..(c - 1) : s[m] \in below
      BY <1>1, <1>2, <1>4, <2>4, <2>5
    <3> QED
      BY <3>1
  <2>7. \A m, n \in 1..(c - 1) : f[m] = f[n] => m = n
    <3> TAKE m, n \in 1..(c - 1)
    <3>1. s[m] \in Nat /\ s[n] \in Nat /\ m \in Nat /\ n \in Nat
      BY <1>1, <1>2, <2>5
    <3>2. (m < n => s[m] < s[n]) /\ (n < m => s[n] < s[m])
      BY <2>4, <2>5
    <3>3. f[m] = s[m] /\ f[n] = s[n]
      OBVIOUS
    <3> QED
      BY <3>1, <3>2, <3>3
  <2>8. f \in Injection(1..(c - 1), below)
    BY <2>6, <2>7 DEF Injection, IsInjective
  <2>9. Cardinality(1..(c - 1)) <= Cardinality(below)
    <3> HIDE DEF f, below
    <3> QED
      BY <2>1, <2>8, FS_Injection
  <2>10. Cardinality(1..(c - 1)) = c - 1
    <3>1. Cardinality(1..(c - 1)) = IF 1 > c - 1 THEN 0 ELSE (c - 1) - 1 + 1
      BY <2>3, FS_Interval
    <3> QED
      BY <3>1, <2>3
  <2> HIDE DEF c, below
  <2> QED
    BY <2>1, <2>2, <2>3, <2>9, <2>10, OutboxAssumption DEF c
<1> QED
  BY <1>3, <1>4

-----------------------------------------------------------------------------
(***************************************************************************)
(* The type invariant, in parts, and what it needs to be inductive: a      *)
(* change keeps an id in reserve for its event, only a writer outside a    *)
(* transaction holds a copy, and a worker that handles events has events.  *)
(***************************************************************************)
WriterType ==
    /\ db \in [Accounts -> Nat \ {0}]
    /\ wpc \in [Writers -> WriterStates]
    /\ target \in [Writers -> Accounts]
    /\ copy \in [Writers -> Nat] /\ \A w \in Writers : copy[w] <= db[target[w]]

RedisType ==
    /\ watermark \in 0..(nextId - 1)
    /\ lock \in BOOLEAN
    /\ snap \in [Accounts -> Nat] /\ \A a \in Accounts : snap[a] <= db[a]
    /\ meta \in [Accounts -> Nat] /\ \A a \in Accounts : meta[a] <= db[a]

OrderType ==
    /\ order \in Seq(Tasks) /\ IsInjective(order)
    /\ \A n \in DOMAIN order : pc[order[n]] \in {"write", "activate"}

BatchType ==
    /\ mark \in [Workers -> 0..(nextId - 1)]
    /\ batch \in [Workers -> Seq(Accounts)]
    /\ \A k \in Workers : Len(batch[k]) <= BatchLimit
    /\ seen \subseteq Workers

LoadType ==
    /\ load \in [Tasks -> [Accounts -> Nat]]
    /\ \A t \in Tasks, a \in Accounts : load[t][a] <= db[a]

PcType == pc \in [Tasks -> TaskStates]

RestType == faults \in 0..MaxFaults /\ team \subseteq Everyone

LateType == late \subseteq 1..MaxId

\* The type invariant by variables, since no step touches them all.
LEMMA TypeParts ==
  TypeOK <=> /\ WriterType /\ RowsType /\ RedisType /\ OrderType
             /\ PcType /\ BatchType /\ LoadType /\ RestType /\ LateType
  BY DEF TypeOK, WriterType, RowsType, RedisType, OrderType, PcType, BatchType,
         LoadType, RestType, LateType

Changed == {w \in Writers : wpc[w] = "changed"}

NumberInv == nextId + Cardinality(Changed) <= MaxId + 1

CopyInv ==
    /\ \A w \in Writers : wpc[w] # "sync" => copy[w] = 0
    /\ \A w \in TxWriters : wpc[w] \in {"idle", "changed", "queued"}

BatchInv ==
    \A k \in Workers :
        /\ pc[k] \in {"get", "set"} => batch[k] # << >>
        /\ pc[k] \in {"idle", "list", "mark", "cleanup", "lag"} => batch[k] = << >>

TInv == TypeOK /\ NumberInv /\ CopyInv /\ BatchInv

-----------------------------------------------------------------------------
(***************************************************************************)
(* What a step of a writer and a step of a task leave alone.               *)
(***************************************************************************)
WriterAct(w) ==
    \/ \E a \in Accounts : Change(w, a)
    \/ Enqueue(w) \/ Commit(w) \/ SyncRead(w) \/ SyncWrite(w)
    \/ Abort(w) \/ EnqueueFails(w)

WorkerAct(k) ==
    \/ ReadWatermark(k) \/ List(k) \/ GetAccount(k) \/ SetAccount(k)
    \/ SetWatermark(k) \/ Cleanup(k) \/ CheckLag(k) \/ WatermarkFails(k)

RebuildAct(t) ==
    \/ TryLock(t) \/ LoadAccounts(t) \/ AllocateVersion(t) \/ WriteAccounts(t)
    \/ Activate(t) \/ Unlock(t) \/ HandleFails(t) \/ UnlockFails(t) \/ Crash(t)

Expiry == LockExpires \/ LockExpiresEarly

\* A step by the actor that takes it.
LEMMA Cases ==
  ASSUME [Next]_vars
  PROVE  \/ \E w \in Writers : WriterAct(w)
         \/ \E i \in DOMAIN rows : Age(i)
         \/ \E k \in Workers : WorkerAct(k)
         \/ \E f \in Refreshers : StartRebuild(f)
         \/ \E r \in Readers : Miss(r)
         \/ \E t \in Tasks : RebuildAct(t)
         \/ Expiry
         \/ UNCHANGED vars
  BY DEF Next, WriterStep, RebuildStep, WorkerStep, WriterAct, WorkerAct,
         RebuildAct, Expiry

WriterFrame(w) ==
    /\ UNCHANGED <<watermark, lock, snap, order, pc, mark, batch, seen, load>>
    /\ DOMAIN wpc' = DOMAIN wpc
    /\ \A v \in Writers \ {w} :
         wpc'[v] = wpc[v] /\ target'[v] = target[v] /\ copy'[v] = copy[v]

\* A step of a writer touches neither the tasks nor another writer.
LEMMA WriterFrames ==
  ASSUME TypeOK, NEW w \in Writers, WriterAct(w)
  PROVE  WriterFrame(w)
<1> USE DEF WriterFrame, redisVars, taskVars, TypeOK
<1>1. ASSUME NEW a \in Accounts, Change(w, a) PROVE WriterFrame(w)
  BY <1>1 DEF Change
<1>2. CASE Enqueue(w)
  BY <1>2 DEF Enqueue
<1>3. CASE Commit(w)
  BY <1>3 DEF Commit
<1>4. CASE SyncRead(w)
  BY <1>4 DEF SyncRead
<1>5. CASE SyncWrite(w)
  BY <1>5 DEF SyncWrite
<1>6. CASE Abort(w)
  BY <1>6 DEF Abort
<1>7. CASE EnqueueFails(w)
  BY <1>7 DEF EnqueueFails
<1> QED
  BY <1>1, <1>2, <1>3, <1>4, <1>5, <1>6, <1>7 DEF WriterAct

\* A step of a task, or of the lock's TTL, leaves the writers alone.
TaskFrame ==
    UNCHANGED <<db, wpc, target, copy, nextId>>

\* What the pollers and rebuilds leave alone.
LEMMA TaskFrames ==
  ASSUME [Next]_vars
  PROVE  \/ \E w \in Writers : WriterAct(w)
         \/ \E i \in DOMAIN rows : Age(i)
         \/ TaskFrame
<1> USE DEF TaskFrame, writerVars
<1>1. ASSUME NEW k \in Workers, WorkerAct(k) PROVE TaskFrame
  BY <1>1 DEF WorkerAct, ReadWatermark, List, GetAccount, SetAccount, SetWatermark,
              Cleanup, CheckLag, WatermarkFails
<1>2. ASSUME NEW f \in Refreshers, StartRebuild(f) PROVE TaskFrame
  BY <1>2 DEF StartRebuild
<1>3. ASSUME NEW r \in Readers, Miss(r) PROVE TaskFrame
  BY <1>3 DEF Miss
<1>4. ASSUME NEW t \in Tasks, RebuildAct(t) PROVE TaskFrame
  BY <1>4 DEF RebuildAct, TryLock, LoadAccounts, AllocateVersion, WriteAccounts,
              Activate, Unlock, HandleFails, UnlockFails, Crash
<1>5. CASE Expiry
  BY <1>5 DEF Expiry, LockExpires, LockExpiresEarly
<1>6. CASE UNCHANGED vars
  BY <1>6 DEF vars
<1> QED
  BY Cases, <1>1, <1>2, <1>3, <1>4, <1>5, <1>6

\* Who touches the outbox table.
LEMMA RowsFrames ==
  ASSUME [Next]_vars
  PROVE  \/ \E w \in Writers : WriterAct(w)
         \/ \E i \in DOMAIN rows : Age(i)
         \/ \E k \in Workers : List(k) \/ Cleanup(k)
         \/ rows' = rows
<1>1. ASSUME NEW k \in Workers, WorkerAct(k), ~ List(k), ~ Cleanup(k) PROVE rows' = rows
  BY <1>1 DEF WorkerAct, ReadWatermark, GetAccount, SetAccount, SetWatermark,
              CheckLag, WatermarkFails, writerVars
<1>2. ASSUME NEW f \in Refreshers, StartRebuild(f) PROVE rows' = rows
  BY <1>2 DEF StartRebuild, writerVars
<1>3. ASSUME NEW r \in Readers, Miss(r) PROVE rows' = rows
  BY <1>3 DEF Miss, writerVars
<1>4. ASSUME NEW t \in Tasks, RebuildAct(t) PROVE rows' = rows
  BY <1>4 DEF RebuildAct, TryLock, LoadAccounts, AllocateVersion, WriteAccounts,
              Activate, Unlock, HandleFails, UnlockFails, Crash, writerVars
<1>5. CASE Expiry
  BY <1>5 DEF Expiry, LockExpires, LockExpiresEarly, writerVars
<1>6. CASE UNCHANGED vars
  BY <1>6 DEF vars, writerVars
<1> QED
  BY Cases, <1>1, <1>2, <1>3, <1>4, <1>5, <1>6

\* The writers' part of the type invariant.
LEMMA WriterTypeStep ==
  TInv /\ [Next]_vars => WriterType' /\ CopyInv'
<1> SUFFICES ASSUME TInv, [Next]_vars PROVE WriterType' /\ CopyInv'
  OBVIOUS
<1> USE DEF WriterType, CopyInv
<1>1. WriterType /\ CopyInv /\ TypeOK /\ TxWriters \subseteq Writers
  BY TypeParts, OutboxAssumption DEF TInv
<1>2. ASSUME NEW w \in Writers, NEW a \in Accounts, Change(w, a)
      PROVE  WriterType' /\ CopyInv'
  BY <1>1, <1>2 DEF Change, WriterStates
<1>3. ASSUME NEW w \in Writers, Enqueue(w) PROVE WriterType' /\ CopyInv'
  BY <1>1, <1>3 DEF Enqueue, WriterStates
<1>4. ASSUME NEW w \in Writers, Commit(w) PROVE WriterType' /\ CopyInv'
  BY <1>1, <1>4 DEF Commit, WriterStates
<1>5. ASSUME NEW w \in Writers, SyncRead(w) PROVE WriterType' /\ CopyInv'
  BY <1>1, <1>5 DEF SyncRead, WriterStates
<1>6. ASSUME NEW w \in Writers, SyncWrite(w) PROVE WriterType' /\ CopyInv'
  BY <1>1, <1>6 DEF SyncWrite, WriterStates
<1>7. ASSUME NEW w \in Writers, Abort(w) PROVE WriterType' /\ CopyInv'
  BY <1>1, <1>7 DEF Abort, WriterStates
<1>8. ASSUME NEW w \in Writers, EnqueueFails(w) PROVE WriterType' /\ CopyInv'
  BY <1>1, <1>8 DEF EnqueueFails, WriterStates
<1>9. ASSUME NEW i \in DOMAIN rows, Age(i) PROVE WriterType' /\ CopyInv'
  BY <1>1, <1>9 DEF Age
<1>10. CASE TaskFrame
  BY <1>1, <1>10 DEF TaskFrame
<1> QED
  BY <1>2, <1>3, <1>4, <1>5, <1>6, <1>7, <1>8, <1>9, <1>10, TaskFrames DEF WriterAct

\* The state of an account never goes back.
LEMMA DbGrows ==
  ASSUME TInv, [Next]_vars
  PROVE  \A a \in Accounts : db[a] \in Nat /\ db'[a] \in Nat /\ db[a] <= db'[a]
<1> DEFINE Goal == \A a \in Accounts : db[a] \in Nat /\ db'[a] \in Nat /\ db[a] <= db'[a]
<1>1. WriterType /\ WriterType'
  BY WriterTypeStep, TypeParts DEF TInv
<1>2. ASSUME NEW w \in Writers, NEW a \in Accounts, Change(w, a) PROVE Goal
  BY <1>1, <1>2 DEF Change, WriterType
<1>3. ASSUME NEW w \in Writers, Commit(w) PROVE Goal
  BY <1>1, <1>3 DEF Commit, WriterType
<1>4. ASSUME db' = db PROVE Goal
  BY <1>1, <1>4 DEF WriterType
<1>5. ASSUME NEW w \in Writers, WriterAct(w), \A a \in Accounts : ~ Change(w, a), ~ Commit(w)
      PROVE  db' = db
  BY <1>5 DEF WriterAct, Enqueue, SyncRead, SyncWrite, Abort, EnqueueFails
<1>6. ASSUME NEW i \in DOMAIN rows, Age(i) PROVE db' = db
  BY <1>6 DEF Age
<1>7. ASSUME TaskFrame PROVE db' = db
  BY <1>7 DEF TaskFrame
<1> HIDE DEF Goal
<1>8. ASSUME NEW w \in Writers, WriterAct(w) PROVE Goal
  BY <1>2, <1>3, <1>4, <1>5, <1>8
<1>9. Goal
  BY <1>4, <1>6, <1>7, <1>8, TaskFrames
<1> QED
  BY <1>9 DEF Goal

\* The ids that are left suffice for the changes that are under way.
LEMMA NumberStep ==
  TInv /\ [Next]_vars => NumberInv' /\ nextId' \in 1..(MaxId + 1) /\ nextId <= nextId'
<1> SUFFICES ASSUME TInv, [Next]_vars
             PROVE  NumberInv' /\ nextId' \in 1..(MaxId + 1) /\ nextId <= nextId'
  OBVIOUS
<1> DEFINE Goal == NumberInv' /\ nextId' \in 1..(MaxId + 1) /\ nextId <= nextId'
<1>1. /\ TypeOK /\ NumberInv /\ nextId \in Nat /\ nextId \in 1..(MaxId + 1)
      /\ MaxId \in Nat /\ wpc \in [Writers -> WriterStates]
  BY OutboxAssumption DEF TInv, TypeOK
<1>2. IsFiniteSet(Changed) /\ Cardinality(Changed) \in Nat
  BY OutboxAssumption, FS_Subset, FS_CardinalityType DEF Changed
<1>3. ASSUME NEW w \in Writers, NEW a \in Accounts, Change(w, a) PROVE Goal
  <2>1. Changed' = Changed \cup {w} /\ w \notin Changed
    BY <1>1, <1>3 DEF Change, Changed
  <2>2. Cardinality(Changed') = Cardinality(Changed) + 1
    BY <2>1, <1>2, FS_AddElement
  <2>3. nextId + Cardinality(Changed) <= MaxId /\ nextId' = nextId
    BY <1>3 DEF Change, Changed
  <2> QED
    BY <1>1, <1>2, <2>2, <2>3 DEF NumberInv
<1>4. ASSUME NEW w \in Writers, Enqueue(w) PROVE Goal
  <2>1. Changed' = Changed \ {w} /\ w \in Changed
    BY <1>1, <1>4 DEF Enqueue, Changed
  <2>2. Cardinality(Changed') = Cardinality(Changed) - 1 /\ Cardinality(Changed') \in Nat
    BY <2>1, <1>2, FS_RemoveElement, FS_CardinalityType
  <2>3. nextId' = nextId + 1
    BY <1>4 DEF Enqueue
  <2> QED
    BY <1>1, <1>2, <2>2, <2>3 DEF NumberInv
<1>5. ASSUME nextId' = nextId, Changed' \subseteq Changed PROVE Goal
  <2>1. Cardinality(Changed') <= Cardinality(Changed) /\ Cardinality(Changed') \in Nat
    BY <1>5, <1>2, FS_Subset, FS_CardinalityType
  <2> QED
    BY <1>1, <1>2, <1>5, <2>1 DEF NumberInv
<1>6. ASSUME NEW w \in Writers, WriterAct(w), \A a \in Accounts : ~ Change(w, a), ~ Enqueue(w)
      PROVE  nextId' = nextId /\ Changed' \subseteq Changed
  BY <1>1, <1>6 DEF WriterAct, Commit, SyncRead, SyncWrite, Abort, EnqueueFails, Changed
<1>7. ASSUME NEW i \in DOMAIN rows, Age(i) PROVE nextId' = nextId /\ Changed' \subseteq Changed
  BY <1>7 DEF Age, Changed
<1>8. ASSUME TaskFrame PROVE nextId' = nextId /\ Changed' \subseteq Changed
  BY <1>8 DEF TaskFrame, Changed
<1> HIDE DEF Goal
<1>9. Goal
  BY <1>3, <1>4, <1>5, <1>6, <1>7, <1>8, TaskFrames
<1> QED
  BY <1>9 DEF Goal

\* The outbox keeps its form.
LEMMA RowsStep ==
  TInv /\ [Next]_vars => RowsType'
<1> SUFFICES ASSUME TInv, [Next]_vars PROVE RowsType'
  OBVIOUS
<1>1. TypeOK /\ RowsType /\ WriterType
  BY TypeParts DEF TInv
<1>2. nextId' \in 1..(MaxId + 1) /\ nextId <= nextId' /\ nextId \in Nat /\ nextId' \in Nat
  BY NumberStep, OutboxAssumption DEF TInv, TypeOK
<1>3. ASSUME DOMAIN rows' \subseteq DOMAIN rows, \A i \in DOMAIN rows' : rows'[i] \in Row
      PROVE  RowsType'
  BY <1>1, <1>2, <1>3 DEF RowsType
<1>4. ASSUME NEW w \in Writers, Enqueue(w) PROVE RowsType'
  <2> DEFINE row == [acct |-> target[w], key |-> TRUE, by |-> w, old |-> FALSE]
  <2>1. /\ nextId' = nextId + 1
        /\ \/ rows' = rows
           \/ rows' = [i \in DOMAIN rows \union {nextId} |->
                           IF i = nextId THEN row ELSE rows[i]]
    BY <1>4 DEF Enqueue
  <2>2. row \in Row
    BY <1>1 DEF Row, WriterType
  <2>3. DOMAIN rows' \subseteq DOMAIN rows \cup {nextId}
    BY <2>1
  <2>4. \A i \in DOMAIN rows' : rows'[i] \in Row
    BY <1>1, <2>1, <2>2 DEF RowsType
  <2>5. DOMAIN rows' \subseteq 1..(nextId' - 1)
    BY <1>1, <1>2, <2>1, <2>3 DEF RowsType
  <2> QED
    BY <1>2, <2>4, <2>5 DEF RowsType
<1>5. ASSUME NEW w \in Writers, Commit(w)
      PROVE  DOMAIN rows' \subseteq DOMAIN rows /\ \A i \in DOMAIN rows' : rows'[i] \in Row
  BY <1>1, <1>5 DEF Commit, RowsType, Row
<1>6. ASSUME NEW w \in Writers, Abort(w)
      PROVE  DOMAIN rows' \subseteq DOMAIN rows /\ \A i \in DOMAIN rows' : rows'[i] \in Row
  BY <1>1, <1>6 DEF Abort, RowsType
<1>7. ASSUME NEW i \in DOMAIN rows, Age(i)
      PROVE  DOMAIN rows' \subseteq DOMAIN rows /\ \A j \in DOMAIN rows' : rows'[j] \in Row
  BY <1>1, <1>7 DEF Age, RowsType, Row
<1>8. ASSUME NEW k \in Workers, List(k)
      PROVE  DOMAIN rows' \subseteq DOMAIN rows /\ \A i \in DOMAIN rows' : rows'[i] \in Row
  BY <1>1, <1>8 DEF List, RowsType, Row
<1>9. ASSUME NEW k \in Workers, Cleanup(k)
      PROVE  DOMAIN rows' \subseteq DOMAIN rows /\ \A i \in DOMAIN rows' : rows'[i] \in Row
  BY <1>1, <1>9 DEF Cleanup, RowsType
<1>10. ASSUME rows' = rows
       PROVE  DOMAIN rows' \subseteq DOMAIN rows /\ \A i \in DOMAIN rows' : rows'[i] \in Row
  BY <1>1, <1>10 DEF RowsType
<1>11. ASSUME NEW w \in Writers, WriterAct(w), ~ Enqueue(w), ~ Commit(w), ~ Abort(w)
       PROVE  rows' = rows
  BY <1>11 DEF WriterAct, Change, SyncRead, SyncWrite, EnqueueFails
<1> QED
  BY <1>3, <1>4, <1>5, <1>6, <1>7, <1>8, <1>9, <1>10, <1>11, RowsFrames

-----------------------------------------------------------------------------
(***************************************************************************)
(* The effects of the operators that several actions share.                *)
(***************************************************************************)
\* An event is handled: the worker goes on with the rest of its batch.
LEMMA AfterEventFacts ==
  ASSUME TypeOK, NEW k \in Workers, batch[k] # << >>, AfterEvent(k)
  PROVE  /\ pc' = [pc EXCEPT ![k] = pc'[k]]
         /\ batch' \in [Workers -> Seq(Accounts)]
         /\ \A j \in Workers : Len(batch'[j]) <= BatchLimit
         /\ \A j \in Workers \ {k} : batch'[j] = batch[j]
         /\ batch'[k] = Tail(batch[k])
         /\ \/ pc'[k] = "mark" /\ batch'[k] = << >>
            \/ pc'[k] = "get" /\ batch'[k] # << >>
<1>1. /\ batch' = [batch EXCEPT ![k] = Tail(@)]
      /\ pc' = [pc EXCEPT ![k] = IF Len(batch[k]) = 1 THEN "mark" ELSE "get"]
  BY DEF AfterEvent, Goto
<1>2. /\ batch[k] \in Seq(Accounts) /\ k \in Tasks /\ pc \in [Tasks -> TaskStates]
      /\ batch \in [Workers -> Seq(Accounts)]
      /\ \A j \in Workers : Len(batch[j]) <= BatchLimit
  BY DEF TypeOK, Tasks
<1>3. /\ Tail(batch[k]) \in Seq(Accounts) /\ Len(Tail(batch[k])) = Len(batch[k]) - 1
      /\ Len(batch[k]) \in Nat /\ Len(batch[k]) # 0
  BY <1>2, HeadTailProperties, LenProperties, EmptySeq
<1>4. Len(Tail(batch[k])) <= BatchLimit
  <2>1. Len(batch[k]) <= BatchLimit
    BY <1>2
  <2> QED
    BY <2>1, <1>3, OutboxAssumption
<1>5. Len(batch[k]) = 1 <=> Tail(batch[k]) = << >>
  <2>1. Len(Tail(batch[k])) = 0 <=> Tail(batch[k]) = << >>
    BY <1>3, EmptySeq
  <2> QED
    BY <2>1, <1>3
<1>6. /\ batch' \in [Workers -> Seq(Accounts)]
      /\ batch'[k] = Tail(batch[k])
      /\ \A j \in Workers \ {k} : batch'[j] = batch[j]
  BY <1>1, <1>2, <1>3
<1>7. \A j \in Workers : Len(batch'[j]) <= BatchLimit
  BY <1>2, <1>4, <1>6
<1>8. /\ pc' = [pc EXCEPT ![k] = pc'[k]]
      /\ pc'[k] = IF Len(batch[k]) = 1 THEN "mark" ELSE "get"
  BY <1>1, <1>2
<1> QED
  BY <1>5, <1>6, <1>7, <1>8

\* A rebuild is over, whatever became of it.
LEMMA AfterRebuildFacts ==
  ASSUME TypeOK, NEW t \in Tasks, AfterRebuild(t)
  PROVE  /\ pc' = [pc EXCEPT ![t] = pc'[t]]
         /\ pc'[t] \in {"idle", "get", "mark"}
         /\ batch' \in [Workers -> Seq(Accounts)]
         /\ \A j \in Workers : Len(batch'[j]) <= BatchLimit
         /\ \A j \in Workers \ {t} : batch'[j] = batch[j]
         /\ t \in Workers => /\ pc'[t] = "idle" <=> batch[t] = << >>
                             /\ pc'[t] = "get" => batch'[t] # << >>
                             /\ pc'[t] \in {"idle", "mark"} => batch'[t] = << >>
<1>1. CASE t \in Workers /\ batch[t] # << >>
  BY <1>1, AfterEventFacts DEF AfterRebuild
<1>2. CASE ~ (t \in Workers /\ batch[t] # << >>)
  BY <1>2 DEF AfterRebuild, Goto, TypeOK
<1> QED
  BY <1>1, <1>2

\* A task gives up: its version can no longer win.
LEMMA ResetFacts ==
  ASSUME TypeOK, NEW t \in Tasks, Reset(t)
  PROVE  /\ pc' = [pc EXCEPT ![t] = "idle"]
         /\ order' \in Seq(Tasks) /\ IsInjective(order')
         /\ \A n \in DOMAIN order' : order'[n] # t /\ \E m \in DOMAIN order : order'[n] = order[m]
         /\ mark' = [k \in Workers |-> IF k = t THEN 0 ELSE mark[k]]
         /\ batch' = [k \in Workers |-> IF k = t THEN << >> ELSE batch[k]]
         /\ seen' = seen \ {t}
         /\ load' = [load EXCEPT ![t] = Absent]
<1> DEFINE Goal == /\ order' \in Seq(Tasks) /\ IsInjective(order')
                   /\ \A n \in DOMAIN order' :
                        order'[n] # t /\ \E m \in DOMAIN order : order'[n] = order[m]
<1>1. /\ order \in Seq(Tasks) /\ Len(order) \in Nat /\ DOMAIN order = 1..Len(order)
      /\ \A m, n \in 1..Len(order) : order[m] = order[n] => m = n
  BY LenProperties DEF TypeOK, IsInjective
<1>2. ASSUME NEW n \in DOMAIN order, order[n] = t, order' = RemoveAt(order, n) PROVE Goal
  <2>1. /\ order' \in Seq(Tasks)
        /\ DOMAIN order' = 1..(Len(order) - 1)
        /\ \A i \in 1..(Len(order) - 1) :
             order'[i] = IF i < n THEN order[i] ELSE order[i + 1]
    BY <1>1, <1>2, Removed
  <2> DEFINE old(i) == IF i < n THEN i ELSE i + 1
  <2>2. \A i \in 1..(Len(order) - 1) : /\ old(i) \in 1..Len(order) /\ old(i) # n
                                       /\ order'[i] = order[old(i)]
    BY <1>1, <2>1
  <2>3. \A i, j \in 1..(Len(order) - 1) : old(i) = old(j) => i = j
    BY <1>1
  <2> HIDE DEF old
  <2>4. IsInjective(order')
    BY <1>1, <2>1, <2>2, <2>3 DEF IsInjective
  <2>5. \A i \in DOMAIN order' : order'[i] # t /\ \E m \in DOMAIN order : order'[i] = order[m]
    BY <1>1, <1>2, <2>1, <2>2
  <2> QED
    BY <2>1, <2>4, <2>5
<1>3. ASSUME t \notin ToSet(order), order' = order PROVE Goal
  BY <1>1, <1>3 DEF IsInjective, ToSet
<1>4. Goal
  BY <1>2, <1>3 DEF Reset
<1> QED
  BY <1>4 DEF Reset, Goto

\* A poll returns at most BatchLimit events, the last one with the largest id.
LEMMA ListFacts ==
  ASSUME TypeOK, NEW k \in Workers, List(k)
  PROVE  /\ Listed(mark[k]) \subseteq Pending(mark[k])
         /\ Listed(mark[k]) \subseteq DOMAIN rows
         /\ pc' = [pc EXCEPT ![k] = IF Listed(mark[k]) = {} THEN "idle" ELSE "get"]
         /\ batch' \in [Workers -> Seq(Accounts)]
         /\ \A j \in Workers : Len(batch'[j]) <= BatchLimit
         /\ \A j \in Workers \ {k} : batch'[j] = batch[j] /\ mark'[j] = mark[j]
         /\ batch'[k] = << >> <=> Listed(mark[k]) = {}
         /\ mark' \in [Workers -> 0..(nextId - 1)]
         /\ Listed(mark[k]) = {} => mark'[k] = 0
         /\ Listed(mark[k]) # {} => /\ mark'[k] \in Listed(mark[k])
                                    /\ \A i \in Listed(mark[k]) : i <= mark'[k]
<1> DEFINE ids == Listed(mark[k])
<1>1. RowsType /\ BatchType /\ PcType /\ k \in Tasks
  BY TypeParts DEF Tasks
<1>2. /\ ids \subseteq Pending(mark[k]) /\ ids \subseteq DOMAIN rows
      /\ ids \in SUBSET Nat /\ IsFiniteSet(ids)
  <2>1. ids \subseteq Pending(mark[k])
    BY DEF Listed
  <2> QED
    BY <2>1, <1>1, PendingFinite
<1>3. PICK s \in Ascending(ids) :
        /\ batch' = [batch EXCEPT ![k] = [n \in DOMAIN s |-> rows[s[n]].acct]]
        /\ mark' = [mark EXCEPT ![k] = IF ids = {} THEN 0 ELSE s[Len(s)]]
  BY DEF List, Last
<1> HIDE DEF ids
<1>4. /\ Cardinality(ids) \in Nat
      /\ s \in [1..Cardinality(ids) -> ids]
      /\ s \in Seq(ids) /\ Len(s) = Cardinality(ids)
      /\ ids # {} => /\ Len(s) \in DOMAIN s /\ s[Len(s)] \in ids
                     /\ \A i \in ids : i <= s[Len(s)]
      /\ ids = {} => s = << >>
  BY <1>2, <1>3, AscendingFacts
<1>5. Cardinality(ids) <= BatchLimit
  BY <1>1, <1>3, ListedBound DEF ids
<1> DEFINE c == Cardinality(ids)
           b == [n \in 1..c |-> rows[s[n]].acct]
<1>6. DOMAIN s = 1..c /\ c \in Nat
  BY <1>4
<1>7. b \in [1..c -> Accounts]
  BY <1>1, <1>2, <1>4 DEF RowsType, Row
<1> HIDE DEF c, b
<1>8. b \in Seq(Accounts)
  BY <1>6, <1>7, SeqDef
<1>9. Len(b) = c
  <2>1. Len(b) \in Nat /\ DOMAIN b = 1..Len(b)
    BY <1>8, LenProperties
  <2>2. DOMAIN b = 1..c
    BY <1>7
  <2> QED
    BY <2>1, <2>2, <1>6, SameInterval
<1>10. batch' = [batch EXCEPT ![k] = b]
  BY <1>3, <1>6 DEF b
<1>11. b = << >> <=> ids = {}
  <2>1. c = 0 <=> ids = {}
    BY <1>2, FS_EmptySet DEF c
  <2>2. b = << >> <=> Len(b) = 0
    BY <1>8, EmptySeq
  <2> QED
    BY <2>1, <2>2, <1>9
<1>12. /\ batch' \in [Workers -> Seq(Accounts)] /\ batch'[k] = b
       /\ \A j \in Workers \ {k} : batch'[j] = batch[j]
  BY <1>1, <1>8, <1>10 DEF BatchType
<1>13. \A j \in Workers : Len(batch'[j]) <= BatchLimit
  BY <1>1, <1>5, <1>9, <1>12 DEF BatchType, c
<1>14. ids # {} => s[Len(s)] \in 0..(nextId - 1)
  <2>1. nextId \in Nat /\ DOMAIN rows \subseteq 1..(nextId - 1)
    BY <1>1, OutboxAssumption DEF RowsType
  <2> QED
    BY <2>1, <1>2, <1>4
<1>15. 0 \in 0..(nextId - 1)
  BY <1>1, OutboxAssumption DEF RowsType
<1>16. /\ mark' \in [Workers -> 0..(nextId - 1)]
       /\ mark'[k] = IF ids = {} THEN 0 ELSE s[Len(s)]
       /\ \A j \in Workers \ {k} : mark'[j] = mark[j]
  BY <1>1, <1>3, <1>14, <1>15 DEF BatchType
<1>17. pc' = [pc EXCEPT ![k] = IF ids = {} THEN "idle" ELSE "get"]
  BY DEF List, Goto, ids
<1> QED
  BY <1>2, <1>4, <1>11, <1>12, <1>13, <1>16, <1>17 DEF ids

-----------------------------------------------------------------------------
\* The workers' part of the type invariant.
LEMMA BatchStep ==
  TInv /\ [Next]_vars => PcType' /\ BatchType' /\ BatchInv'
<1> SUFFICES ASSUME TInv, [Next]_vars PROVE PcType' /\ BatchType' /\ BatchInv'
  OBVIOUS
<1> DEFINE Goal == PcType' /\ BatchType' /\ BatchInv'
<1> HIDE DEF Goal
<1>1. /\ TypeOK /\ PcType /\ BatchType /\ BatchInv /\ RedisType /\ RowsType
      /\ Workers \subseteq Tasks /\ Refreshers \subseteq Tasks /\ Readers \subseteq Tasks
      /\ Workers \cap Refreshers = {} /\ Workers \cap Readers = {}
  BY TypeParts, OutboxAssumption DEF TInv, Tasks
<1>2. /\ nextId \in Nat /\ nextId' \in Nat /\ nextId <= nextId' /\ nextId >= 1
      /\ 0..(nextId - 1) \subseteq 0..(nextId' - 1)
  BY NumberStep, OutboxAssumption DEF TInv, TypeOK
<1>3. ASSUME UNCHANGED <<pc, mark, batch, seen>> PROVE Goal
  BY <1>1, <1>2, <1>3 DEF Goal, PcType, BatchType, BatchInv
<1>4. ASSUME NEW w \in Writers, WriterAct(w) PROVE Goal
  BY <1>1, <1>3, <1>4, WriterFrames DEF WriterFrame
<1>5. ASSUME NEW i \in DOMAIN rows, Age(i) PROVE Goal
  BY <1>3, <1>5 DEF Age, taskVars
<1>6. CASE Expiry
  BY <1>3, <1>6 DEF Expiry, LockExpires, LockExpiresEarly, taskVars, Goal
<1>7. CASE UNCHANGED vars
  BY <1>3, <1>7 DEF vars, taskVars, Goal
<1>8. ASSUME NEW t \in Tasks, NEW state \in TaskStates, pc' = [pc EXCEPT ![t] = state],
             mark' \in [Workers -> 0..(nextId' - 1)], batch' = batch, seen' \subseteq Workers,
             t \in Workers => /\ state \in {"get", "set"} => batch[t] # << >>
                              /\ state \in {"idle", "list", "mark", "cleanup", "lag"} =>
                                   batch[t] = << >>
      PROVE  Goal
  <2>1. PcType' /\ BatchType'
    BY <1>1, <1>8 DEF PcType, BatchType
  <2>2. \A k \in Workers : pc'[k] = IF k = t THEN state ELSE pc[k]
    BY <1>1, <1>8 DEF PcType
  <2>3. BatchInv'
    BY <1>1, <1>8, <2>2 DEF BatchInv
  <2> QED
    BY <2>1, <2>3 DEF Goal
<1>9. ASSUME NEW t \in Tasks, Reset(t), nextId' = nextId PROVE Goal
  <2>1. /\ pc' = [pc EXCEPT ![t] = "idle"]
        /\ mark' = [k \in Workers |-> IF k = t THEN 0 ELSE mark[k]]
        /\ batch' = [k \in Workers |-> IF k = t THEN << >> ELSE batch[k]]
        /\ seen' = seen \ {t}
    BY <1>1, <1>9, ResetFacts
  <2>2. PcType'
    BY <1>1, <2>1 DEF PcType, TaskStates
  <2>3. << >> \in Seq(Accounts) /\ Len(<< >>) <= BatchLimit
    BY EmptySeq, OutboxAssumption
  <2>4. BatchType'
    BY <1>1, <1>2, <2>1, <2>3 DEF BatchType
  <2>5. BatchInv'
    BY <1>1, <2>1 DEF BatchInv, PcType
  <2> QED
    BY <2>2, <2>4, <2>5 DEF Goal
<1>10. ASSUME NEW t \in Tasks, AfterRebuild(t), mark' = mark, seen' = seen, nextId' = nextId
       PROVE  Goal
  <2>1. /\ pc' = [pc EXCEPT ![t] = pc'[t]]
        /\ pc'[t] \in {"idle", "get", "mark"}
        /\ batch' \in [Workers -> Seq(Accounts)]
        /\ \A j \in Workers : Len(batch'[j]) <= BatchLimit
        /\ \A j \in Workers \ {t} : batch'[j] = batch[j]
        /\ t \in Workers => /\ pc'[t] = "get" => batch'[t] # << >>
                            /\ pc'[t] \in {"idle", "mark"} => batch'[t] = << >>
    BY <1>1, <1>10, AfterRebuildFacts
  <2>2. PcType'
    BY <1>1, <2>1 DEF PcType, TaskStates
  <2>3. BatchType'
    BY <1>1, <1>2, <1>10, <2>1 DEF BatchType
  <2>4. \A k \in Workers \ {t} : pc'[k] = pc[k]
    BY <1>1, <2>1 DEF PcType
  <2>5. BatchInv'
    BY <1>1, <2>1, <2>4 DEF BatchInv
  <2> QED
    BY <2>2, <2>3, <2>5 DEF Goal
<1>11. mark \in [Workers -> 0..(nextId' - 1)] /\ seen \subseteq Workers
  BY <1>1, <1>2 DEF BatchType
<1>12. ASSUME NEW k \in Workers, WorkerAct(k) PROVE Goal
  <2>1. /\ k \in Tasks /\ nextId' = nextId
        /\ \A x \in 0..(nextId - 1) : [mark EXCEPT ![k] = x] \in [Workers -> 0..(nextId' - 1)]
        /\ watermark \in 0..(nextId - 1) /\ 0 \in 0..(nextId - 1)
    <3>1. nextId' = nextId
      BY <1>12 DEF WorkerAct, ReadWatermark, List, GetAccount, SetAccount, SetWatermark,
                   Cleanup, CheckLag, WatermarkFails, writerVars
    <3> QED
      BY <1>1, <1>2, <3>1 DEF BatchType, RedisType
  <2>2. CASE ReadWatermark(k)
    <3>1. batch[k] = << >>
      BY <1>1, <2>2 DEF ReadWatermark, BatchInv
    <3>2. /\ pc' = [pc EXCEPT ![k] = "list"] /\ mark' = [mark EXCEPT ![k] = watermark]
          /\ batch' = batch /\ seen' = seen
      BY <2>2 DEF ReadWatermark, Goto
    <3>3. mark' \in [Workers -> 0..(nextId' - 1)]
      BY <2>1, <3>2
    <3> QED
      BY <1>8, <1>11, <2>1, <3>1, <3>2, <3>3 DEF TaskStates
  <2>3. CASE List(k)
    <3>1. /\ pc' = [pc EXCEPT ![k] = IF Listed(mark[k]) = {} THEN "idle" ELSE "get"]
          /\ batch' \in [Workers -> Seq(Accounts)]
          /\ \A j \in Workers : Len(batch'[j]) <= BatchLimit
          /\ \A j \in Workers \ {k} : batch'[j] = batch[j]
          /\ batch'[k] = << >> <=> Listed(mark[k]) = {}
          /\ mark' \in [Workers -> 0..(nextId - 1)]
      BY <1>1, <2>3, ListFacts
    <3>2. seen' \subseteq Workers
      BY <1>11, <2>3 DEF List
    <3>3. PcType' /\ BatchType'
      BY <1>1, <2>1, <3>1, <3>2 DEF PcType, BatchType, TaskStates
    <3>4. BatchInv'
      BY <1>1, <2>1, <3>1 DEF BatchInv, PcType
    <3> QED
      BY <3>3, <3>4 DEF Goal
  <2>4. CASE GetAccount(k)
    <3>1. batch[k] # << >>
      BY <1>1, <2>4 DEF GetAccount, BatchInv
    <3> QED
      BY <1>8, <1>11, <2>1, <2>4, <3>1 DEF GetAccount, Goto, TaskStates
  <2>5. CASE SetAccount(k)
    <3>1. batch[k] # << >>
      BY <1>1, <2>5 DEF SetAccount, BatchInv
    <3>2. ASSUME AfterEvent(k), seen' = seen, mark' = mark PROVE Goal
      BY <1>10, <2>1, <3>1, <3>2 DEF AfterRebuild
    <3>3. ASSUME seen' = seen \union {k}, Goto(k, "lock"), batch' = batch, mark' = mark PROVE Goal
      BY <1>8, <1>11, <2>1, <3>1, <3>3 DEF Goto, TaskStates
    <3> QED
      BY <2>5, <3>2, <3>3 DEF SetAccount
  <2>6. CASE SetWatermark(k)
    <3>1. batch[k] = << >>
      BY <1>1, <2>6 DEF SetWatermark, BatchInv
    <3> QED
      BY <1>8, <1>11, <2>1, <2>6, <3>1 DEF SetWatermark, Goto, TaskStates
  <2>7. CASE Cleanup(k)
    <3>1. batch[k] = << >>
      BY <1>1, <2>7 DEF Cleanup, BatchInv
    <3> QED
      BY <1>8, <1>11, <2>1, <2>7, <3>1 DEF Cleanup, Goto, TaskStates
  <2>8. CASE CheckLag(k)
    <3>1. batch[k] = << >>
      BY <1>1, <2>8 DEF CheckLag, BatchInv
    <3>2. /\ pc' = [pc EXCEPT ![k] = "idle"] \/ pc' = [pc EXCEPT ![k] = "lock"]
          /\ mark' = [mark EXCEPT ![k] = 0] /\ batch' = batch /\ seen' = seen
      BY <2>8 DEF CheckLag, Goto
    <3>3. mark' \in [Workers -> 0..(nextId' - 1)]
      BY <2>1, <3>2
    <3> QED
      BY <1>8, <1>11, <2>1, <3>1, <3>2, <3>3 DEF TaskStates
  <2>9. CASE WatermarkFails(k)
    BY <1>9, <2>1, <2>9 DEF WatermarkFails
  <2> QED
    BY <1>12, <2>2, <2>3, <2>4, <2>5, <2>6, <2>7, <2>8, <2>9 DEF WorkerAct, Goal
<1>13. ASSUME NEW f \in Refreshers, StartRebuild(f) PROVE Goal
  BY <1>1, <1>8, <1>11, <1>13 DEF StartRebuild, Goto, TaskStates
<1>14. ASSUME NEW r \in Readers, Miss(r) PROVE Goal
  BY <1>1, <1>8, <1>11, <1>14 DEF Miss, Goto, TaskStates
<1>15. ASSUME NEW t \in Tasks, RebuildAct(t) PROVE Goal
  <2>1. nextId' = nextId
    BY <1>15 DEF RebuildAct, TryLock, LoadAccounts, AllocateVersion, WriteAccounts,
                 Activate, Unlock, HandleFails, UnlockFails, Crash, writerVars
  <2>2. CASE TryLock(t)
    <3>1. ASSUME Goto(t, "load"), batch' = batch PROVE Goal
      BY <1>8, <1>11, <2>2, <3>1 DEF TryLock, Goto, TaskStates
    <3>2. ASSUME AfterRebuild(t) PROVE Goal
      BY <1>10, <2>1, <2>2, <3>2 DEF TryLock
    <3> QED
      BY <2>2, <3>1, <3>2 DEF TryLock
  <2>3. CASE LoadAccounts(t)
    BY <1>8, <1>11, <2>3 DEF LoadAccounts, Goto, TaskStates
  <2>4. CASE AllocateVersion(t)
    BY <1>8, <1>11, <2>4 DEF AllocateVersion, Goto, TaskStates
  <2>5. CASE WriteAccounts(t)
    BY <1>8, <1>11, <2>5 DEF WriteAccounts, Goto, TaskStates
  <2>6. CASE Activate(t)
    <3>1. /\ pc' = [pc EXCEPT ![t] = IF t \in Readers THEN "idle" ELSE "unlock"]
          /\ UNCHANGED <<mark, batch, seen>>
      BY <2>6 DEF Activate, Goto
    <3>2. t \in Readers => t \notin Workers
      BY <1>1
    <3> QED
      BY <1>8, <1>11, <3>1, <3>2 DEF TaskStates
  <2>7. CASE Unlock(t)
    BY <1>10, <2>1, <2>7 DEF Unlock
  <2>8. CASE HandleFails(t)
    BY <1>9, <2>1, <2>8 DEF HandleFails
  <2>9. CASE UnlockFails(t)
    BY <1>10, <2>1, <2>9 DEF UnlockFails
  <2>10. CASE Crash(t)
    BY <1>9, <2>1, <2>10 DEF Crash
  <2> QED
    BY <1>15, <2>2, <2>3, <2>4, <2>5, <2>6, <2>7, <2>8, <2>9, <2>10 DEF RebuildAct, Goal
<1>16. Goal
  BY Cases, <1>4, <1>5, <1>6, <1>7, <1>12, <1>13, <1>14, <1>15 DEF Goal
<1> QED
  BY <1>16 DEF Goal

\* What a task has read is at most what the database holds.
LEMMA LoadStep ==
  TInv /\ [Next]_vars => LoadType'
<1> SUFFICES ASSUME TInv, [Next]_vars PROVE LoadType'
  OBVIOUS
<1>1. /\ TypeOK /\ LoadType /\ WriterType /\ BatchType /\ BatchInv
      /\ Workers \subseteq Tasks
  BY TypeParts DEF TInv, Tasks
<1>2. \A a \in Accounts : db[a] \in Nat /\ db'[a] \in Nat /\ db[a] <= db'[a]
  BY DbGrows
<1>3. ASSUME load' \in [Tasks -> [Accounts -> Nat]],
             \A t \in Tasks, a \in Accounts :
                 load'[t][a] = load[t][a] \/ load'[t][a] = 0 \/ load'[t][a] = db[a]
      PROVE  LoadType'
  <2> SUFFICES ASSUME NEW t \in Tasks, NEW a \in Accounts PROVE load'[t][a] <= db'[a]
    BY <1>3 DEF LoadType
  <2>1. load[t][a] \in Nat /\ load[t][a] <= db[a]
    BY <1>1 DEF LoadType
  <2> QED
    BY <1>2, <1>3, <2>1
<1>4. ASSUME load' = load PROVE LoadType'
  BY <1>1, <1>3, <1>4 DEF LoadType
<1>5. Absent \in [Accounts -> Nat] /\ \A a \in Accounts : Absent[a] = 0
  BY DEF Absent
<1>6. ASSUME NEW t \in Tasks, load' = [load EXCEPT ![t] = Absent] PROVE LoadType'
  BY <1>1, <1>3, <1>5, <1>6 DEF LoadType
<1>7. ASSUME NEW w \in Writers, WriterAct(w) PROVE load' = load
  BY <1>1, <1>7, WriterFrames DEF WriterFrame
<1>8. ASSUME NEW i \in DOMAIN rows, Age(i) PROVE load' = load
  BY <1>8 DEF Age, taskVars
<1>9. ASSUME NEW k \in Workers, WorkerAct(k) PROVE LoadType'
  <2>1. CASE GetAccount(k)
    <3>1. batch[k] \in Seq(Accounts) /\ batch[k] # << >>
      BY <1>1, <2>1 DEF GetAccount, BatchInv, BatchType
    <3>2. Head(batch[k]) \in Accounts
      BY <3>1, HeadTailProperties
    <3>3. load' = [load EXCEPT ![k] = [Absent EXCEPT ![Head(batch[k])] = db[Head(batch[k])]]]
      BY <2>1 DEF GetAccount
    <3>4. [Absent EXCEPT ![Head(batch[k])] = db[Head(batch[k])]] \in [Accounts -> Nat]
      BY <1>2, <1>5, <3>2
    <3> QED
      BY <1>1, <1>3, <1>5, <3>2, <3>3, <3>4 DEF LoadType
  <2>2. CASE SetAccount(k)
    BY <1>1, <1>6, <2>2 DEF SetAccount
  <2>3. CASE WatermarkFails(k)
    BY <1>1, <1>6, <2>3 DEF WatermarkFails, Reset
  <2>4. ASSUME ReadWatermark(k) \/ List(k) \/ SetWatermark(k) \/ Cleanup(k) \/ CheckLag(k)
        PROVE  load' = load
    BY <2>4 DEF ReadWatermark, List, SetWatermark, Cleanup, CheckLag
  <2> QED
    BY <1>4, <1>9, <2>1, <2>2, <2>3, <2>4 DEF WorkerAct
<1>10. ASSUME NEW f \in Refreshers, StartRebuild(f) PROVE load' = load
  BY <1>10 DEF StartRebuild
<1>11. ASSUME NEW r \in Readers, Miss(r) PROVE load' = load
  BY <1>11 DEF Miss
<1>12. ASSUME NEW t \in Tasks, RebuildAct(t) PROVE LoadType'
  <2>1. CASE LoadAccounts(t)
    <3>1. db \in [Accounts -> Nat] /\ load' = [load EXCEPT ![t] = db]
      BY <1>1, <2>1 DEF LoadAccounts, WriterType
    <3> QED
      BY <1>1, <1>3, <3>1 DEF LoadType
  <2>2. CASE Activate(t)
    BY <1>6, <2>2 DEF Activate
  <2>3. CASE HandleFails(t) \/ Crash(t)
    BY <1>6, <2>3 DEF HandleFails, Crash, Reset
  <2>4. ASSUME TryLock(t) \/ AllocateVersion(t) \/ WriteAccounts(t) \/ Unlock(t) \/ UnlockFails(t)
        PROVE  load' = load
    BY <2>4 DEF TryLock, AllocateVersion, WriteAccounts, Unlock, UnlockFails
  <2> QED
    BY <1>4, <1>12, <2>1, <2>2, <2>3, <2>4 DEF RebuildAct
<1>13. ASSUME Expiry PROVE load' = load
  BY <1>13 DEF Expiry, LockExpires, LockExpiresEarly, taskVars
<1>14. ASSUME UNCHANGED vars PROVE load' = load
  BY <1>14 DEF vars, taskVars
<1> QED
  BY Cases, <1>4, <1>7, <1>8, <1>9, <1>10, <1>11, <1>12, <1>13, <1>14

\* Redis never shows a later state than the database.
LEMMA RedisStep ==
  TInv /\ [Next]_vars => RedisType'
<1> SUFFICES ASSUME TInv, [Next]_vars PROVE RedisType'
  OBVIOUS
<1>1. /\ TypeOK /\ RedisType /\ LoadType /\ WriterType /\ BatchType /\ BatchInv
      /\ Workers \subseteq Tasks
  BY TypeParts DEF TInv, Tasks
<1>2. \A a \in Accounts : db[a] \in Nat /\ db'[a] \in Nat /\ db[a] <= db'[a]
  BY DbGrows
<1>3. /\ nextId \in Nat /\ nextId' \in Nat /\ 0..(nextId - 1) \subseteq 0..(nextId' - 1)
  BY NumberStep, OutboxAssumption DEF TInv, TypeOK
<1> DEFINE Shown(f) == f \in [Accounts -> Nat] /\ \A a \in Accounts : f[a] <= db[a]
<1>4. Shown(snap) /\ Shown(meta) /\ \A t \in Tasks : Shown(load[t])
  BY <1>1 DEF RedisType, LoadType
<1>5. ASSUME watermark' \in 0..(nextId - 1), lock' \in BOOLEAN, Shown(snap'), Shown(meta')
      PROVE  RedisType'
  <2>1. \A a \in Accounts : /\ snap'[a] \in Nat /\ snap'[a] <= db[a]
                            /\ meta'[a] \in Nat /\ meta'[a] <= db[a]
    BY <1>5
  <2>2. \A a \in Accounts : snap'[a] <= db'[a] /\ meta'[a] <= db'[a]
    BY <1>2, <2>1
  <2> QED
    BY <1>3, <1>5, <2>2 DEF RedisType
<1>6. ASSUME NEW a \in Accounts, NEW n \in Nat, n <= db[a], meta' = [meta EXCEPT ![a] = n]
      PROVE  Shown(meta')
  BY <1>4, <1>6
<1> HIDE DEF Shown
<1>7. watermark \in 0..(nextId - 1) /\ lock \in BOOLEAN
  BY <1>1 DEF RedisType
<1>8. ASSUME UNCHANGED redisVars PROVE RedisType'
  BY <1>4, <1>5, <1>7, <1>8 DEF redisVars
<1>9. ASSUME NEW w \in Writers, WriterAct(w) PROVE RedisType'
  <2>1. UNCHANGED <<watermark, lock, snap>>
    BY <1>1, <1>9, WriterFrames DEF WriterFrame
  <2>2. CASE SyncWrite(w)
    <3>1. meta' = [meta EXCEPT ![target[w]] = copy[w]]
      BY <2>2 DEF SyncWrite
    <3>2. target[w] \in Accounts /\ copy[w] \in Nat /\ copy[w] <= db[target[w]]
      BY <1>1 DEF WriterType
    <3> QED
      BY <1>4, <1>5, <1>6, <1>7, <2>1, <3>1, <3>2
  <2>3. ASSUME ~ SyncWrite(w) PROVE meta' = meta
    BY <1>9, <2>3 DEF WriterAct, Change, Enqueue, Commit, SyncRead, Abort, EnqueueFails,
                      redisVars
  <2> QED
    BY <1>4, <1>5, <1>7, <2>1, <2>2, <2>3
<1>10. ASSUME NEW i \in DOMAIN rows, Age(i) PROVE UNCHANGED redisVars
  BY <1>10 DEF Age
<1>11. ASSUME NEW k \in Workers, WorkerAct(k) PROVE RedisType'
  <2>1. CASE SetAccount(k)
    <3>1. batch[k] \in Seq(Accounts) /\ batch[k] # << >>
      BY <1>1, <2>1 DEF SetAccount, BatchInv, BatchType
    <3>2. Head(batch[k]) \in Accounts
      BY <3>1, HeadTailProperties
    <3>3. /\ meta' = [meta EXCEPT ![Head(batch[k])] = load[k][Head(batch[k])]]
          /\ UNCHANGED <<watermark, lock, snap>>
      BY <2>1 DEF SetAccount
    <3>4. load[k][Head(batch[k])] \in Nat /\ load[k][Head(batch[k])] <= db[Head(batch[k])]
      BY <1>1, <3>2 DEF LoadType
    <3> QED
      BY <1>4, <1>5, <1>6, <1>7, <3>2, <3>3, <3>4
  <2>2. CASE SetWatermark(k)
    <3>1. mark[k] \in 0..(nextId - 1)
      BY <1>1 DEF BatchType
    <3>2. watermark' = mark[k] /\ UNCHANGED <<lock, snap, meta>>
      BY <2>2 DEF SetWatermark
    <3> QED
      BY <1>4, <1>5, <1>7, <3>1, <3>2
  <2>3. CASE WatermarkFails(k)
    BY <1>4, <1>5, <1>7, <2>3 DEF WatermarkFails
  <2>4. ASSUME ReadWatermark(k) \/ List(k) \/ GetAccount(k) \/ Cleanup(k) \/ CheckLag(k)
        PROVE  UNCHANGED redisVars
    BY <2>4 DEF ReadWatermark, List, GetAccount, Cleanup, CheckLag
  <2> QED
    BY <1>8, <1>11, <2>1, <2>2, <2>3, <2>4 DEF WorkerAct
<1>12. ASSUME NEW f \in Refreshers, StartRebuild(f) PROVE UNCHANGED redisVars
  BY <1>12 DEF StartRebuild
<1>13. ASSUME NEW r \in Readers, Miss(r) PROVE UNCHANGED redisVars
  BY <1>13 DEF Miss
<1>14. ASSUME NEW t \in Tasks, RebuildAct(t) PROVE RedisType'
  <2>1. watermark' = watermark
    BY <1>14 DEF RebuildAct, TryLock, LoadAccounts, AllocateVersion, WriteAccounts,
                 Activate, Unlock, HandleFails, UnlockFails, Crash, redisVars
  <2>2. lock' \in BOOLEAN
    BY <1>7, <1>14 DEF RebuildAct, TryLock, LoadAccounts, AllocateVersion, WriteAccounts,
                 Activate, Unlock, HandleFails, UnlockFails, Crash, redisVars
  <2>3. snap' = snap \/ snap' = load[t]
    BY <1>14 DEF RebuildAct, TryLock, LoadAccounts, AllocateVersion, WriteAccounts,
                 Activate, Unlock, HandleFails, UnlockFails, Crash, redisVars
  <2>4. meta' = meta \/ meta' = load[t]
    BY <1>14 DEF RebuildAct, TryLock, LoadAccounts, AllocateVersion, WriteAccounts,
                 Activate, Unlock, HandleFails, UnlockFails, Crash, redisVars
  <2> QED
    BY <1>4, <1>5, <1>7, <2>1, <2>2, <2>3, <2>4
<1>15. CASE Expiry
  BY <1>4, <1>5, <1>7, <1>15 DEF Expiry, LockExpires, LockExpiresEarly
<1>16. ASSUME UNCHANGED vars PROVE UNCHANGED redisVars
  BY <1>16 DEF vars
<1> QED
  BY Cases, <1>8, <1>9, <1>10, <1>11, <1>12, <1>13, <1>14, <1>15, <1>16

\* A step of a task moves no other task.
LEMMA OthersStay ==
  ASSUME TypeOK, NEW t \in Tasks,
         (t \in Workers /\ WorkerAct(t)) \/ StartRebuild(t) \/ Miss(t) \/ RebuildAct(t)
  PROVE  \A u \in Tasks \ {t} : pc'[u] = pc[u]
<1> DEFINE Goal == \A u \in Tasks \ {t} : pc'[u] = pc[u]
<1>1. pc \in [Tasks -> TaskStates]
  BY DEF TypeOK
<1>2. ASSUME NEW state, Goto(t, state) PROVE Goal
  BY <1>1, <1>2 DEF Goto
<1>3. ASSUME AfterEvent(t) PROVE Goal
  BY <1>2, <1>3 DEF AfterEvent
<1>4. ASSUME AfterRebuild(t) PROVE Goal
  BY <1>2, <1>3, <1>4 DEF AfterRebuild
<1>5. ASSUME Reset(t) PROVE Goal
  BY <1>2, <1>5 DEF Reset
<1>6. ASSUME WorkerAct(t) PROVE Goal
  <2> HIDE DEF Goal
  <2> QED
    BY <1>2, <1>3, <1>5, <1>6
       DEF WorkerAct, ReadWatermark, List, GetAccount, SetAccount, SetWatermark, Cleanup,
           CheckLag, WatermarkFails
<1>7. ASSUME StartRebuild(t) \/ Miss(t) PROVE Goal
  BY <1>2, <1>7 DEF StartRebuild, Miss
<1>8. ASSUME RebuildAct(t) PROVE Goal
  <2> HIDE DEF Goal
  <2> QED
    BY <1>2, <1>4, <1>5, <1>8
       DEF RebuildAct, TryLock, LoadAccounts, AllocateVersion, WriteAccounts, Activate,
           Unlock, HandleFails, UnlockFails, Crash
<1> QED
  BY <1>6, <1>7, <1>8

\* The versions that may still win belong to different tasks about to publish.
LEMMA OrderStep ==
  TInv /\ [Next]_vars => OrderType'
<1> SUFFICES ASSUME TInv, [Next]_vars PROVE OrderType'
  OBVIOUS
<1>1. /\ TypeOK /\ OrderType /\ PcType
      /\ Workers \subseteq Tasks /\ Refreshers \subseteq Tasks /\ Readers \subseteq Tasks
  BY TypeParts DEF TInv, Tasks
<1>2. /\ order \in Seq(Tasks) /\ Len(order) \in Nat /\ DOMAIN order = 1..Len(order)
      /\ \A m, n \in 1..Len(order) : order[m] = order[n] => m = n
      /\ \A n \in 1..Len(order) : order[n] \in Tasks /\ pc[order[n]] \in {"write", "activate"}
  BY <1>1, LenProperties, ElementOfSeq DEF OrderType, IsInjective
<1>3. ASSUME order' = order, pc' = pc PROVE OrderType'
  BY <1>1, <1>3 DEF OrderType
<1>4. ASSUME NEW t \in Tasks, \A u \in Tasks \ {t} : pc'[u] = pc[u], order' = order,
             pc[t] \notin {"write", "activate"} \/ pc'[t] \in {"write", "activate"}
      PROVE  OrderType'
  <2>1. \A n \in DOMAIN order' : pc'[order'[n]] \in {"write", "activate"}
    BY <1>2, <1>4
  <2> QED
    BY <1>1, <1>4, <2>1 DEF OrderType
<1>5. ASSUME NEW t \in Tasks, Reset(t) PROVE OrderType'
  <2>1. /\ pc' = [pc EXCEPT ![t] = "idle"]
        /\ order' \in Seq(Tasks) /\ IsInjective(order')
        /\ \A n \in DOMAIN order' : order'[n] # t /\ \E m \in DOMAIN order : order'[n] = order[m]
    BY <1>1, <1>5, ResetFacts
  <2>2. \A n \in DOMAIN order' : pc'[order'[n]] \in {"write", "activate"}
    BY <1>1, <1>2, <2>1 DEF PcType
  <2> QED
    BY <2>1, <2>2 DEF OrderType
<1>6. ASSUME NEW w \in Writers, WriterAct(w) PROVE order' = order /\ pc' = pc
  BY <1>1, <1>6, WriterFrames DEF WriterFrame
<1>7. ASSUME NEW i \in DOMAIN rows, Age(i) PROVE order' = order /\ pc' = pc
  BY <1>7 DEF Age, redisVars, taskVars
<1>8. ASSUME NEW k \in Workers, WorkerAct(k) PROVE OrderType'
  <2>1. CASE WatermarkFails(k)
    BY <1>1, <1>5, <2>1 DEF WatermarkFails
  <2>2. CASE ~ WatermarkFails(k)
    <3>1. order' = order /\ pc[k] \notin {"write", "activate"}
      BY <1>8, <2>2 DEF WorkerAct, ReadWatermark, List, GetAccount, SetAccount, SetWatermark,
                        Cleanup, CheckLag, redisVars
    <3>2. \A u \in Tasks \ {k} : pc'[u] = pc[u]
      BY <1>1, <1>8, OthersStay
    <3> QED
      BY <1>1, <1>4, <3>1, <3>2
  <2> QED
    BY <2>1, <2>2
<1>9. ASSUME NEW t \in Tasks, StartRebuild(t) \/ Miss(t) PROVE OrderType'
  <2>1. order' = order /\ pc[t] \notin {"write", "activate"}
    BY <1>9 DEF StartRebuild, Miss, redisVars
  <2>2. \A u \in Tasks \ {t} : pc'[u] = pc[u]
    BY <1>1, <1>9, OthersStay
  <2> QED
    BY <1>4, <2>1, <2>2
<1>10. ASSUME NEW t \in Tasks, RebuildAct(t) PROVE OrderType'
  <2>1. \A u \in Tasks \ {t} : pc'[u] = pc[u]
    BY <1>1, <1>10, OthersStay
  <2>2. CASE AllocateVersion(t)
    <3>1. order' = Append(order, t) /\ pc' = [pc EXCEPT ![t] = "write"] /\ pc[t] = "allocate"
      BY <2>2 DEF AllocateVersion, Goto
    <3>2. /\ order' \in Seq(Tasks) /\ Len(order') = Len(order) + 1
          /\ \A i \in 1..Len(order) : order'[i] = order[i]
          /\ order'[Len(order) + 1] = t
      BY <1>2, <3>1, AppendProperties
    <3>3. DOMAIN order' = 1..(Len(order) + 1)
      BY <3>2, LenProperties
    <3>4. \A i \in 1..(Len(order) + 1) : i \in 1..Len(order) \/ i = Len(order) + 1
      BY <1>2
    <3>5. \A i \in 1..Len(order) : order'[i] # t /\ order'[i] \in Tasks
      BY <1>2, <3>1, <3>2
    <3>6. \A m, n \in 1..(Len(order) + 1) : order'[m] = order'[n] => m = n
      BY <1>2, <3>2, <3>4, <3>5
    <3>7. \A n \in 1..(Len(order) + 1) : pc'[order'[n]] \in {"write", "activate"}
      BY <1>1, <1>2, <3>1, <3>2, <3>4, <3>5 DEF PcType
    <3> QED
      BY <3>2, <3>3, <3>6, <3>7 DEF OrderType, IsInjective
  <2>3. CASE Activate(t)
    <3>1. ASSUME NEW n \in DOMAIN order, order[n] = t,
                 order' = SubSeq(order, n + 1, Len(order))
          PROVE  OrderType'
      <4>1. /\ order' \in Seq(Tasks)
            /\ DOMAIN order' = 1..(Len(order) - n)
            /\ \A i \in 1..(Len(order) - n) : order'[i] = order[n + i]
        BY <1>2, <3>1, Suffix
      <4>2. \A i \in 1..(Len(order) - n) : n + i \in 1..Len(order) /\ n + i # n
        BY <1>2, <3>1
      <4>3. \A i \in 1..(Len(order) - n) : order'[i] \in Tasks \ {t}
        BY <1>2, <3>1, <4>1, <4>2
      <4>4. \A i, j \in 1..(Len(order) - n) : order'[i] = order'[j] => i = j
        <5> TAKE i, j \in 1..(Len(order) - n)
        <5>1. order'[i] = order'[j] => n + i = n + j
          BY <1>2, <4>1, <4>2
        <5> QED
          BY <5>1, <1>2, <3>1
      <4>5. \A i \in 1..(Len(order) - n) : pc'[order'[i]] \in {"write", "activate"}
        BY <1>2, <2>1, <4>1, <4>2, <4>3
      <4> QED
        BY <4>1, <4>4, <4>5 DEF OrderType, IsInjective
    <3>2. ASSUME t \notin ToSet(order), order' = order PROVE OrderType'
      <4>1. \A n \in DOMAIN order : order[n] \in Tasks \ {t}
        BY <1>2, <3>2 DEF ToSet
      <4>2. \A n \in DOMAIN order' : pc'[order'[n]] \in {"write", "activate"}
        BY <1>2, <2>1, <3>2, <4>1
      <4> QED
        BY <1>1, <3>2, <4>2 DEF OrderType
    <3> QED
      BY <2>3, <3>1, <3>2 DEF Activate
  <2>4. CASE HandleFails(t) \/ Crash(t)
    BY <1>5, <2>4 DEF HandleFails, Crash
  <2>5. CASE WriteAccounts(t)
    <3>1. order' = order /\ pc' = [pc EXCEPT ![t] = "activate"]
      BY <2>5 DEF WriteAccounts, Goto
    <3> QED
      BY <1>1, <1>4, <2>1, <3>1 DEF PcType
  <2>6. CASE TryLock(t) \/ LoadAccounts(t) \/ Unlock(t) \/ UnlockFails(t)
    <3>1. order' = order /\ pc[t] \notin {"write", "activate"}
      BY <2>6 DEF TryLock, LoadAccounts, Unlock, UnlockFails, redisVars
    <3> QED
      BY <1>4, <2>1, <3>1
  <2> QED
    BY <1>10, <2>2, <2>3, <2>4, <2>5, <2>6 DEF RebuildAct
<1>11. ASSUME Expiry PROVE order' = order /\ pc' = pc
  BY <1>11 DEF Expiry, LockExpires, LockExpiresEarly, taskVars
<1>12. ASSUME UNCHANGED vars PROVE order' = order /\ pc' = pc
  BY <1>12 DEF vars, redisVars, taskVars
<1> QED
  BY Cases, <1>1, <1>3, <1>6, <1>7, <1>8, <1>9, <1>10, <1>11, <1>12

\* The bounds of the model, and the members of the team.
LEMMA RestStep ==
  TInv /\ [Next]_vars => RestType'
<1> SUFFICES ASSUME TInv, [Next]_vars PROVE RestType'
  OBVIOUS
<1>1. faults \in 0..MaxFaults /\ team \subseteq Everyone /\ MaxFaults \in Nat
  BY OutboxAssumption DEF TInv, TypeOK
<1>2. ASSUME NEW kind, Fault(kind) PROVE faults' \in 0..MaxFaults
  BY <1>1, <1>2 DEF Fault
<1>3. ASSUME NEW x \in Writers \union Tasks, Joins(x) PROVE team' \subseteq Everyone
  BY <1>1, <1>3 DEF Joins, Everyone
<1>4. Workers \subseteq Tasks /\ Refreshers \subseteq Tasks /\ Readers \subseteq Tasks
  BY DEF Tasks
<1> DEFINE Old == faults' = faults /\ team' = team
<1>5. ASSUME faults' = faults \/ faults' \in 0..MaxFaults,
             team' = team \/ team' \subseteq Everyone PROVE RestType'
  BY <1>1, <1>5 DEF RestType
<1>6. ASSUME NEW w \in Writers, WriterAct(w) PROVE RestType'
  BY <1>2, <1>3, <1>5, <1>6
     DEF WriterAct, Change, Enqueue, Commit, SyncRead, SyncWrite, Abort, EnqueueFails, history
<1>7. ASSUME NEW i \in DOMAIN rows, Age(i) PROVE RestType'
  BY <1>5, <1>7 DEF Age, history
<1>8. ASSUME NEW k \in Workers, WorkerAct(k) PROVE RestType'
  BY <1>2, <1>3, <1>4, <1>5, <1>8
     DEF WorkerAct, ReadWatermark, List, GetAccount, SetAccount, SetWatermark, Cleanup,
         CheckLag, WatermarkFails, history
<1>9. ASSUME NEW f \in Refreshers, StartRebuild(f) PROVE RestType'
  BY <1>3, <1>4, <1>5, <1>9 DEF StartRebuild
<1>10. ASSUME NEW r \in Readers, Miss(r) PROVE RestType'
  BY <1>2, <1>3, <1>4, <1>5, <1>10 DEF Miss
<1>11. ASSUME NEW t \in Tasks, RebuildAct(t) PROVE RestType'
  BY <1>2, <1>5, <1>11
     DEF RebuildAct, TryLock, LoadAccounts, AllocateVersion, WriteAccounts, Activate,
         Unlock, HandleFails, UnlockFails, Crash, history
<1>12. CASE Expiry
  BY <1>2, <1>5, <1>12 DEF Expiry, LockExpires, LockExpiresEarly, history
<1>13. CASE UNCHANGED vars
  BY <1>5, <1>13 DEF vars, history
<1> QED
  BY Cases, <1>6, <1>7, <1>8, <1>9, <1>10, <1>11, <1>12, <1>13

\* Only a commit is late.
LEMMA LateFrames ==
  ASSUME [Next]_vars
  PROVE  (\E w \in Writers : Commit(w)) \/ late' = late
<1>1. ASSUME NEW w \in Writers, WriterAct(w), ~ Commit(w) PROVE late' = late
  BY <1>1 DEF WriterAct, Change, Enqueue, SyncRead, SyncWrite, Abort, EnqueueFails, history
<1>2. ASSUME NEW i \in DOMAIN rows, Age(i) PROVE late' = late
  BY <1>2 DEF Age, history
<1>3. ASSUME NEW k \in Workers, WorkerAct(k) PROVE late' = late
  BY <1>3 DEF WorkerAct, ReadWatermark, List, GetAccount, SetAccount, SetWatermark, Cleanup,
              CheckLag, WatermarkFails, history
<1>4. ASSUME NEW f \in Refreshers, StartRebuild(f) PROVE late' = late
  BY <1>4 DEF StartRebuild
<1>5. ASSUME NEW r \in Readers, Miss(r) PROVE late' = late
  BY <1>5 DEF Miss
<1>6. ASSUME NEW t \in Tasks, RebuildAct(t) PROVE late' = late
  BY <1>6 DEF RebuildAct, TryLock, LoadAccounts, AllocateVersion, WriteAccounts, Activate,
              Unlock, HandleFails, UnlockFails, Crash, history
<1>7. CASE Expiry
  BY <1>7 DEF Expiry, LockExpires, LockExpiresEarly, history
<1>8. CASE UNCHANGED vars
  BY <1>8 DEF vars, history
<1> QED
  BY Cases, <1>1, <1>2, <1>3, <1>4, <1>5, <1>6, <1>7, <1>8

LEMMA LateStep ==
  TInv /\ [Next]_vars => LateType'
<1> SUFFICES ASSUME TInv, [Next]_vars PROVE LateType'
  OBVIOUS
<1>1. LateType /\ DOMAIN rows \subseteq 1..MaxId
  BY TypeParts, OutboxAssumption DEF TInv, RowsType
<1>2. ASSUME NEW w \in Writers, Commit(w) PROVE LateType'
  BY <1>1, <1>2 DEF LateType, Commit
<1> QED
  BY <1>1, <1>2, LateFrames DEF LateType

\* Nothing has happened yet.
LEMMA TypeInit == Init => TInv
<1> SUFFICES ASSUME Init PROVE TInv
  OBVIOUS
<1> USE DEF Init
<1>1. nextId = 1 /\ MaxId \in Nat /\ BatchLimit \in Nat \ {0} /\ MaxFaults \in Nat
  BY OutboxAssumption
<1>2. WriterType
  BY OutboxAssumption DEF WriterType, WriterStates
<1>3. RowsType /\ PcType /\ RestType /\ LateType
  BY <1>1 DEF RowsType, PcType, TaskStates, RestType, LateType
<1>4. RedisType /\ LoadType
  <2>1. Absent \in [Accounts -> Nat] /\ \A a \in Accounts : Absent[a] <= db[a]
    BY DEF Absent
  <2>2. RedisType
    <3>1. watermark \in 0..(nextId - 1)
      BY <1>1
    <3>2. lock \in BOOLEAN
      OBVIOUS
    <3>3. snap = Absent /\ meta = Absent
      OBVIOUS
    <3> QED
      BY <2>1, <3>1, <3>2, <3>3, Zenon DEF RedisType
  <2>3. LoadType
    BY <2>1 DEF LoadType
  <2> QED
    BY <2>2, <2>3
<1>5. OrderType
  BY EmptySeq DEF OrderType, IsInjective
<1>6. BatchType /\ BatchInv
  <2>1. << >> \in Seq(Accounts) /\ Len(<< >>) = 0
    BY EmptySeq
  <2>2. 0 \in 0..(nextId - 1) /\ 0 <= BatchLimit
    BY <1>1
  <2>3. BatchType
    BY <2>1, <2>2 DEF BatchType
  <2>4. BatchInv
    BY DEF BatchInv, Tasks
  <2> QED
    BY <2>3, <2>4
<1>7. NumberInv
  <2>1. Changed = {}
    BY DEF Changed
  <2> QED
    BY <1>1, <2>1, FS_EmptySet DEF NumberInv
<1>8. CopyInv
  BY OutboxAssumption DEF CopyInv
<1> QED
  BY <1>2, <1>3, <1>4, <1>5, <1>6, <1>7, <1>8, TypeParts DEF TInv

\* Every step keeps the parts of the type invariant.
LEMMA TypeStep == TInv /\ [Next]_vars => TInv'
<1>1. TypeOK' <=> /\ WriterType' /\ RowsType' /\ RedisType' /\ OrderType'
                  /\ PcType' /\ BatchType' /\ LoadType' /\ RestType' /\ LateType'
  BY DEF TypeOK, WriterType, RowsType, RedisType, OrderType, PcType, BatchType,
         LoadType, RestType, LateType
<1> QED
  BY <1>1, WriterTypeStep, RowsStep, NumberStep, RedisStep, OrderStep, BatchStep, LoadStep,
     RestStep, LateStep DEF TInv

\* The type invariant with what makes it inductive holds in every state.
LEMMA TypeInvariant == Spec => []TInv
  BY TypeInit, TypeStep, PTL DEF Spec

\* Every variable stays in its range for any set of accounts, writers and
\* tasks: Redis, a task or a writer never holds a later account state than
\* PostgreSQL, a batch is never longer than a poll returns, and no version of a
\* task that has given up can still be activated.
THEOREM TypeCorrect == Spec => []TypeOK
<1>1. TInv => TypeOK
  BY DEF TInv
<1> QED
  BY <1>1, TypeInvariant, PTL

-----------------------------------------------------------------------------
(***************************************************************************)
(* What the watermark promises.  A committed row up to the watermark, or   *)
(* up to the mark of a worker, has been read by a poll or became visible   *)
(* behind it.  As long as ids become visible in the order they are drawn,  *)
(* there is nothing but read rows there: that is what a team of one writer *)
(* and one poller relies on, below.                                        *)
(***************************************************************************)
CommitOrder ==
    \A i, j \in DOMAIN rows : i < j /\ rows[j].by = None => rows[i].by = None

\* Every committed row up to x has been read or was late.
Covered(x) == \A i \in Committed : i <= x => ~ rows[i].key \/ i \in late

CoveredInv == Covered(watermark) /\ \A k \in Workers : Covered(mark[k])

Consumed(x) ==
    \A i \in DOMAIN rows : i <= x => rows[i].by = None /\ ~ rows[i].key

ConsumedInv == Consumed(watermark) /\ \A k \in Workers : Consumed(mark[k])

\* An uncommitted row is of a transaction that is still open.
QueuedInv ==
    \A i \in DOMAIN rows : rows[i].by # None => wpc[rows[i].by] = "queued"

\* The row of the open transaction, if there is one, has the last id.
OpenIsLast ==
    \A i, j \in DOMAIN rows : rows[i].by # None => j <= i

\* A row keeps its account; once committed it stays so, and a key that is
\* released is not taken again.
LEMMA RowsSettle ==
  ASSUME TInv, [Next]_vars
  PROVE  \A i \in DOMAIN rows' :
           \/ /\ i = nextId /\ i \notin DOMAIN rows
              /\ \E w \in Writers : Enqueue(w) /\ rows'[i].acct = target[w] /\ rows'[i].by = w
           \/ /\ i \in DOMAIN rows
              /\ rows'[i].acct = rows[i].acct
              /\ rows[i].by = None => rows'[i].by = None
              /\ rows'[i].by # None => rows'[i].by = rows[i].by
              /\ ~ rows[i].key => ~ rows'[i].key
<1> DEFINE Kept(i) == /\ i \in DOMAIN rows
                      /\ rows'[i].acct = rows[i].acct
                      /\ rows[i].by = None => rows'[i].by = None
                      /\ rows'[i].by # None => rows'[i].by = rows[i].by
                      /\ ~ rows[i].key => ~ rows'[i].key
           Goal == \A i \in DOMAIN rows' :
                     \/ /\ i = nextId /\ i \notin DOMAIN rows
                        /\ \E w \in Writers : /\ Enqueue(w) /\ rows'[i].acct = target[w]
                                              /\ rows'[i].by = w
                     \/ Kept(i)
<1>1. /\ RowsType /\ None \notin Writers /\ nextId \in Nat
      /\ \A i \in DOMAIN rows : rows[i] \in Row
  BY TypeParts, OutboxAssumption DEF TInv, RowsType
<1>2. nextId \notin DOMAIN rows
  BY <1>1 DEF RowsType
<1>3. ASSUME \A i \in DOMAIN rows' : Kept(i) PROVE Goal
  BY <1>3
<1>4. ASSUME NEW w \in Writers, Enqueue(w) PROVE Goal
  <2> DEFINE row == [acct |-> target[w], key |-> TRUE, by |-> w, old |-> FALSE]
  <2>1. CASE rows' = rows
    BY <2>1
  <2>2. CASE rows' = [i \in DOMAIN rows \union {nextId} |->
                          IF i = nextId THEN row ELSE rows[i]]
    <3>1. \A i \in DOMAIN rows : i # nextId /\ rows'[i] = rows[i]
      BY <1>2, <2>2
    <3>2. rows'[nextId].acct = target[w] /\ rows'[nextId].by = w
      BY <2>2
    <3>3. DOMAIN rows' = DOMAIN rows \cup {nextId}
      BY <2>2
    <3> QED
      BY <1>2, <1>4, <3>1, <3>2, <3>3
  <2> QED
    BY <1>4, <2>1, <2>2 DEF Enqueue
<1>5. ASSUME NEW w \in Writers, Commit(w) PROVE \A i \in DOMAIN rows' : Kept(i)
  BY <1>1, <1>5 DEF Commit, Row
<1>6. ASSUME NEW w \in Writers, Abort(w) PROVE \A i \in DOMAIN rows' : Kept(i)
  BY <1>6 DEF Abort
<1>7. ASSUME NEW n \in DOMAIN rows, Age(n) PROVE \A i \in DOMAIN rows' : Kept(i)
  BY <1>1, <1>7 DEF Age, Row
<1>8. ASSUME NEW k \in Workers, List(k) PROVE \A i \in DOMAIN rows' : Kept(i)
  BY <1>1, <1>8 DEF List, Row
<1>9. ASSUME NEW k \in Workers, Cleanup(k) PROVE \A i \in DOMAIN rows' : Kept(i)
  BY <1>9 DEF Cleanup
<1>10. ASSUME rows' = rows PROVE \A i \in DOMAIN rows' : Kept(i)
  BY <1>10
<1>11. ASSUME NEW w \in Writers, WriterAct(w), ~ Enqueue(w), ~ Commit(w), ~ Abort(w)
       PROVE  rows' = rows
  BY <1>11 DEF WriterAct, Change, SyncRead, SyncWrite, EnqueueFails
<1> HIDE DEF Goal, Kept
<1>12. Goal
  BY <1>3, <1>4, <1>5, <1>6, <1>7, <1>8, <1>9, <1>10, <1>11, RowsFrames
<1> QED
  BY <1>12 DEF Goal, Kept

\* A row becomes visible by the commit of its transaction.
LEMMA CommitOnly ==
  ASSUME TInv, [Next]_vars, NEW i \in DOMAIN rows, i \in DOMAIN rows',
         rows[i].by # None, rows'[i].by = None
  PROVE  \E w \in Writers : Commit(w)
<1>1. /\ \A n \in DOMAIN rows : rows[n] \in Row
      /\ nextId \notin DOMAIN rows
  BY TypeParts, OutboxAssumption DEF TInv, RowsType
<1>2. rows'[i].by # rows[i].by
  OBVIOUS
<1>3. ASSUME NEW w \in Writers, WriterAct(w), ~ Commit(w) PROVE FALSE
  <2>1. ~ Enqueue(w)
    BY <1>1, <1>2 DEF Enqueue
  <2>2. ~ Abort(w)
    BY <1>2 DEF Abort
  <2> QED
    BY <1>2, <1>3, <2>1, <2>2 DEF WriterAct, Change, SyncRead, SyncWrite, EnqueueFails
<1>4. ASSUME NEW n \in DOMAIN rows, Age(n) PROVE FALSE
  BY <1>1, <1>2, <1>4 DEF Age, Row
<1>5. ASSUME NEW k \in Workers, List(k) PROVE FALSE
  BY <1>1, <1>2, <1>5 DEF List, Row
<1>6. ASSUME NEW k \in Workers, Cleanup(k) PROVE FALSE
  BY <1>2, <1>6 DEF Cleanup
<1> QED
  BY <1>2, <1>3, <1>4, <1>5, <1>6, RowsFrames

\* Whether a poll has returned nothing or the task has given up, no mark
\* moves but the ones of the steps named here.
LEMMA MarksMove ==
  ASSUME TInv, [Next]_vars
  PROVE  \/ \E k \in Workers : ReadWatermark(k) \/ List(k) \/ SetWatermark(k)
         \/ watermark' = watermark /\ \A k \in Workers : mark'[k] \in {mark[k], 0}
<1> DEFINE Still == watermark' = watermark /\ \A k \in Workers : mark'[k] \in {mark[k], 0}
<1>1. TypeOK /\ mark \in [Workers -> 0..(nextId - 1)] /\ Workers \subseteq Tasks
  BY DEF TInv, TypeOK, Tasks
<1>2. ASSUME watermark' = watermark, mark' = mark PROVE Still
  BY <1>2
<1>3. ASSUME NEW t \in Tasks, Reset(t), watermark' = watermark PROVE Still
  BY <1>3 DEF Reset
<1>4. ASSUME NEW w \in Writers, WriterAct(w) PROVE Still
  BY <1>1, <1>4, WriterFrames DEF WriterFrame
<1>5. ASSUME NEW i \in DOMAIN rows, Age(i) PROVE Still
  BY <1>5 DEF Age, redisVars, taskVars
<1>6. ASSUME NEW k \in Workers, WorkerAct(k), ~ ReadWatermark(k), ~ List(k), ~ SetWatermark(k)
      PROVE  Still
  <2>1. CASE CheckLag(k)
    BY <1>1, <2>1 DEF CheckLag, redisVars
  <2>2. CASE WatermarkFails(k)
    BY <1>1, <1>3, <2>2 DEF WatermarkFails
  <2>3. CASE GetAccount(k) \/ SetAccount(k) \/ Cleanup(k)
    BY <1>2, <2>3 DEF GetAccount, SetAccount, Cleanup, redisVars
  <2> QED
    BY <1>6, <2>1, <2>2, <2>3 DEF WorkerAct
<1>7. ASSUME NEW f \in Refreshers, StartRebuild(f) PROVE Still
  BY <1>7 DEF StartRebuild, redisVars
<1>8. ASSUME NEW r \in Readers, Miss(r) PROVE Still
  BY <1>8 DEF Miss, redisVars
<1>9. ASSUME NEW t \in Tasks, RebuildAct(t) PROVE Still
  <2>1. CASE HandleFails(t) \/ Crash(t)
    BY <1>3, <2>1 DEF HandleFails, Crash
  <2>2. CASE TryLock(t) \/ LoadAccounts(t) \/ AllocateVersion(t) \/ WriteAccounts(t)
             \/ Activate(t) \/ Unlock(t) \/ UnlockFails(t)
    BY <1>2, <2>2 DEF TryLock, LoadAccounts, AllocateVersion, WriteAccounts, Activate,
                      Unlock, UnlockFails, redisVars
  <2> QED
    BY <1>9, <2>1, <2>2 DEF RebuildAct
<1>10. ASSUME Expiry PROVE Still
  BY <1>10 DEF Expiry, LockExpires, LockExpiresEarly, taskVars
<1>11. ASSUME UNCHANGED vars PROVE Still
  BY <1>11 DEF vars, redisVars, taskVars
<1> HIDE DEF Still
<1>12. Still \/ \E k \in Workers : ReadWatermark(k) \/ List(k) \/ SetWatermark(k)
  BY Cases, <1>4, <1>5, <1>6, <1>7, <1>8, <1>9, <1>10, <1>11
<1> QED
  BY <1>12 DEF Still

\* A poll leaves nothing unread below the last row it returns.
LEMMA ListConsumes ==
  ASSUME TypeOK, CommitOrder, NEW k \in Workers, Consumed(mark[k]), List(k)
  PROVE  \A i \in DOMAIN rows' : i <= mark'[k] => rows'[i].by = None /\ ~ rows'[i].key
<1> DEFINE ids == Listed(mark[k])
<1>1. /\ RowsType /\ DOMAIN rows \subseteq Nat \ {0}
      /\ mark \in [Workers -> 0..(nextId - 1)] /\ mark[k] \in Nat
      /\ \A i \in DOMAIN rows : rows[i] \in Row
  BY TypeParts, OutboxAssumption DEF RowsType, BatchType
<1>2. rows' = [i \in DOMAIN rows |->
                  IF i \in ids THEN [rows[i] EXCEPT !.key = FALSE] ELSE rows[i]]
  BY DEF List
<1>3. /\ ids \subseteq DOMAIN rows /\ ids \subseteq Pending(mark[k])
      /\ ids = {} => mark'[k] = 0
      /\ ids # {} => mark'[k] \in ids
  BY ListFacts
<1> SUFFICES ASSUME NEW i \in DOMAIN rows', i <= mark'[k]
             PROVE  rows'[i].by = None /\ ~ rows'[i].key
  OBVIOUS
<1>4. i \in DOMAIN rows /\ i \in Nat \ {0}
  BY <1>1, <1>2
<1>5. mark'[k] \in ids
  BY <1>3, <1>4
<1>6. mark'[k] \in DOMAIN rows /\ mark'[k] \in Nat /\ rows[mark'[k]].by = None
  BY <1>1, <1>3, <1>5 DEF Pending, Committed
<1>7. rows[i].by = None
  BY <1>4, <1>6 DEF CommitOrder
<1>8. rows'[i].by = None
  BY <1>1, <1>2, <1>4, <1>7 DEF Row
<1>9. CASE i <= mark[k]
  <2>1. ~ rows[i].key
    BY <1>4, <1>9 DEF Consumed
  <2>2. ~ rows'[i].key
    BY <1>1, <1>2, <1>4, <2>1 DEF Row
  <2> QED
    BY <1>8, <2>2
<1>10. CASE i > mark[k]
  <2>1. i \in Pending(mark[k])
    BY <1>4, <1>7, <1>10 DEF Pending, Committed
  <2>2. i \in ids
    BY <1>1, <1>5, <2>1, ListedClosed
  <2>3. ~ rows'[i].key
    BY <1>1, <1>2, <1>4, <2>2 DEF Row
  <2> QED
    BY <1>8, <2>3
<1> QED
  BY <1>1, <1>4, <1>9, <1>10

\* Every mark stays behind what has been read.
LEMMA ConsumedStep ==
  TInv /\ CommitOrder /\ ConsumedInv /\ [Next]_vars => ConsumedInv'
<1> SUFFICES ASSUME TInv, CommitOrder, ConsumedInv, [Next]_vars PROVE ConsumedInv'
  OBVIOUS
<1>1. /\ TypeOK /\ RowsType /\ nextId \in Nat /\ DOMAIN rows \subseteq Nat \ {0}
      /\ watermark \in 0..(nextId - 1) /\ mark \in [Workers -> 0..(nextId - 1)]
      /\ RowsType'
  BY TypeParts, OutboxAssumption, RowsStep DEF TInv, RowsType, BatchType, RedisType
<1> DEFINE Past(x) == \A i \in DOMAIN rows' : i <= x => rows'[i].by = None /\ ~ rows'[i].key
<1>2. ASSUME NEW x \in 0..(nextId - 1), Consumed(x) PROVE Past(x)
  <2> SUFFICES ASSUME NEW i \in DOMAIN rows', i <= x
               PROVE  rows'[i].by = None /\ ~ rows'[i].key
    OBVIOUS
  <2>1. i # nextId
    BY <1>1, <1>2
  <2> QED
    BY <1>2, <2>1, RowsSettle DEF Consumed
<1>3. Past(0)
  BY <1>1 DEF RowsType
<1>4. Past(watermark) /\ \A k \in Workers : Past(mark[k])
  BY <1>1, <1>2 DEF ConsumedInv
<1>5. ASSUME Past(watermark'), \A k \in Workers : Past(mark'[k]) PROVE ConsumedInv'
  BY <1>5 DEF ConsumedInv, Consumed
<1>6. ASSUME NEW k \in Workers, ReadWatermark(k) PROVE ConsumedInv'
  <2>1. watermark' = watermark /\ mark' = [mark EXCEPT ![k] = watermark]
    BY <1>6 DEF ReadWatermark, redisVars
  <2>2. \A j \in Workers : mark'[j] = mark[j] \/ mark'[j] = watermark
    BY <1>1, <2>1
  <2> HIDE DEF Past
  <2> QED
    BY <1>4, <1>5, <2>1, <2>2
<1>7. ASSUME NEW k \in Workers, List(k) PROVE ConsumedInv'
  <2>1. watermark' = watermark
    BY <1>7 DEF List, redisVars
  <2>2. \A j \in Workers \ {k} : mark'[j] = mark[j]
    BY <1>1, <1>7, ListFacts
  <2>3. Past(mark'[k])
    BY <1>1, <1>7, ListConsumes DEF ConsumedInv
  <2> HIDE DEF Past
  <2> QED
    BY <1>4, <1>5, <2>1, <2>2, <2>3
<1>8. ASSUME NEW k \in Workers, SetWatermark(k) PROVE ConsumedInv'
  <2>1. watermark' = mark[k] /\ mark' = mark
    BY <1>8 DEF SetWatermark
  <2> HIDE DEF Past
  <2> QED
    BY <1>4, <1>5, <2>1
<1>9. ASSUME watermark' = watermark, \A k \in Workers : mark'[k] \in {mark[k], 0}
      PROVE  ConsumedInv'
  <2> HIDE DEF Past
  <2> QED
    BY <1>3, <1>4, <1>5, <1>9
<1> QED
  BY <1>6, <1>7, <1>8, <1>9, MarksMove

\* A poll reads what is committed below the last row it returns.
LEMMA ListCovers ==
  ASSUME TypeOK, NEW k \in Workers, Covered(mark[k]), List(k)
  PROVE  \A i \in DOMAIN rows' :
           i <= mark'[k] /\ rows'[i].by = None => ~ rows'[i].key \/ i \in late
<1> DEFINE ids == Listed(mark[k])
<1>1. /\ RowsType /\ DOMAIN rows \subseteq Nat \ {0}
      /\ mark \in [Workers -> 0..(nextId - 1)] /\ mark[k] \in Nat
      /\ \A i \in DOMAIN rows : rows[i] \in Row
  BY TypeParts, OutboxAssumption DEF RowsType, BatchType
<1>2. rows' = [i \in DOMAIN rows |->
                  IF i \in ids THEN [rows[i] EXCEPT !.key = FALSE] ELSE rows[i]]
  BY DEF List
<1>3. /\ ids \subseteq DOMAIN rows /\ ids \subseteq Pending(mark[k])
      /\ ids = {} => mark'[k] = 0
      /\ ids # {} => mark'[k] \in ids
  BY ListFacts
<1> SUFFICES ASSUME NEW i \in DOMAIN rows', i <= mark'[k], rows'[i].by = None
             PROVE  ~ rows'[i].key \/ i \in late
  OBVIOUS
<1>4. i \in DOMAIN rows /\ i \in Nat \ {0}
  BY <1>1, <1>2
<1>5. mark'[k] \in ids
  BY <1>3, <1>4
<1>6. rows[i].by = None
  BY <1>1, <1>2, <1>4 DEF Row
<1>7. CASE i <= mark[k]
  <2>1. ~ rows[i].key \/ i \in late
    BY <1>4, <1>6, <1>7 DEF Covered, Committed
  <2>2. ~ rows[i].key => ~ rows'[i].key
    BY <1>1, <1>2, <1>4 DEF Row
  <2> QED
    BY <2>1, <2>2
<1>8. CASE i > mark[k]
  <2>1. i \in Pending(mark[k])
    BY <1>4, <1>6, <1>8 DEF Pending, Committed
  <2>2. i \in ids
    BY <1>1, <1>5, <2>1, ListedClosed
  <2> QED
    BY <1>1, <1>2, <1>4, <2>2 DEF Row
<1> QED
  BY <1>1, <1>4, <1>7, <1>8

\* Every step keeps what the marks cover: a row that becomes visible below one
\* of them is late.
LEMMA CoveredStep ==
  TInv /\ CoveredInv /\ [Next]_vars => CoveredInv'
<1> SUFFICES ASSUME TInv, CoveredInv, [Next]_vars PROVE CoveredInv'
  OBVIOUS
<1>1. /\ TypeOK /\ RowsType /\ nextId \in Nat /\ DOMAIN rows \subseteq Nat \ {0}
      /\ watermark \in 0..(nextId - 1) /\ mark \in [Workers -> 0..(nextId - 1)]
      /\ RowsType' /\ DOMAIN rows' \subseteq Nat \ {0}
      /\ \A i \in DOMAIN rows : rows[i] \in Row
  BY TypeParts, OutboxAssumption, RowsStep DEF TInv, RowsType, BatchType, RedisType
<1>2. late \subseteq late'
  BY LateFrames DEF Commit
<1> DEFINE Past(x) == \A i \in DOMAIN rows' :
                         i <= x /\ rows'[i].by = None => ~ rows'[i].key \/ i \in late'
<1>3. ASSUME NEW x \in 0..(nextId - 1), Covered(x),
             x = watermark \/ \E k \in Workers : x = mark[k]
      PROVE  Past(x)
  <2> SUFFICES ASSUME NEW i \in DOMAIN rows', i <= x, rows'[i].by = None
               PROVE  ~ rows'[i].key \/ i \in late'
    OBVIOUS
  <2>1. /\ i \in DOMAIN rows /\ i \in Nat
        /\ ~ rows[i].key => ~ rows'[i].key
    BY <1>1, <1>3, RowsSettle
  <2>2. CASE rows[i].by = None
    BY <1>2, <1>3, <2>1, <2>2 DEF Covered, Committed
  <2>3. CASE rows[i].by # None
    <3>1. PICK w \in Writers : Commit(w)
      BY <2>1, <2>3, CommitOnly
    <3>2. rows[i].by = w
      BY <1>1, <2>1, <2>3, <3>1 DEF Commit, Row
    <3>3. Passed(i)
      BY <1>3 DEF Passed
    <3> QED
      BY <2>1, <3>1, <3>2, <3>3 DEF Commit
  <2> QED
    BY <2>2, <2>3
<1>4. Past(0)
  BY <1>1
<1>5. Past(watermark) /\ \A k \in Workers : Past(mark[k])
  BY <1>1, <1>3 DEF CoveredInv
<1>6. ASSUME Past(watermark'), \A k \in Workers : Past(mark'[k]) PROVE CoveredInv'
  BY <1>6 DEF CoveredInv, Covered, Committed
<1>7. ASSUME NEW k \in Workers, ReadWatermark(k) PROVE CoveredInv'
  <2>1. watermark' = watermark /\ mark' = [mark EXCEPT ![k] = watermark]
    BY <1>7 DEF ReadWatermark, redisVars
  <2>2. \A j \in Workers : mark'[j] = mark[j] \/ mark'[j] = watermark
    BY <1>1, <2>1
  <2> HIDE DEF Past
  <2> QED
    BY <1>5, <1>6, <2>1, <2>2
<1>8. ASSUME NEW k \in Workers, List(k) PROVE CoveredInv'
  <2>1. watermark' = watermark
    BY <1>8 DEF List, redisVars
  <2>2. \A j \in Workers \ {k} : mark'[j] = mark[j]
    BY <1>1, <1>8, ListFacts
  <2>3. Past(mark'[k])
    BY <1>1, <1>2, <1>8, ListCovers DEF CoveredInv
  <2> HIDE DEF Past
  <2> QED
    BY <1>5, <1>6, <2>1, <2>2, <2>3
<1>9. ASSUME NEW k \in Workers, SetWatermark(k) PROVE CoveredInv'
  <2>1. watermark' = mark[k] /\ mark' = mark
    BY <1>9 DEF SetWatermark
  <2> HIDE DEF Past
  <2> QED
    BY <1>5, <1>6, <2>1
<1>10. ASSUME watermark' = watermark, \A k \in Workers : mark'[k] \in {mark[k], 0}
      PROVE  CoveredInv'
  <2> HIDE DEF Past
  <2> QED
    BY <1>4, <1>5, <1>6, <1>10
<1> QED
  BY <1>7, <1>8, <1>9, <1>10, MarksMove

\* The clean-up deletes committed rows up to a mark, and a rollback its own.
LEMMA DeletedIsCovered ==
  ASSUME TInv, CoveredInv, [Next]_vars
  PROVE  Unread \ DOMAIN rows' \subseteq late
<1> DEFINE Goal == Unread \ DOMAIN rows' \subseteq late
<1>1. None \notin Writers
  BY OutboxAssumption
<1>2. ASSUME DOMAIN rows \subseteq DOMAIN rows' PROVE Goal
  BY <1>2 DEF Unread, Committed
<1>3. ASSUME NEW w \in Writers, Abort(w) PROVE Goal
  BY <1>1, <1>3 DEF Abort, Unread, Committed
<1>4. ASSUME NEW k \in Workers, Cleanup(k) PROVE Goal
  BY <1>4 DEF Cleanup, CoveredInv, Covered, Unread, Committed
<1>5. ASSUME NEW w \in Writers, WriterAct(w), ~ Abort(w) PROVE DOMAIN rows \subseteq DOMAIN rows'
  BY <1>5 DEF WriterAct, Change, Enqueue, Commit, SyncRead, SyncWrite, EnqueueFails
<1>6. ASSUME NEW n \in DOMAIN rows, Age(n) PROVE DOMAIN rows \subseteq DOMAIN rows'
  BY <1>6 DEF Age
<1>7. ASSUME NEW k \in Workers, List(k) PROVE DOMAIN rows \subseteq DOMAIN rows'
  BY <1>7 DEF List
<1>8. ASSUME rows' = rows PROVE DOMAIN rows \subseteq DOMAIN rows'
  BY <1>8
<1> HIDE DEF Goal
<1>9. Goal
  BY <1>2, <1>3, <1>4, <1>5, <1>6, <1>7, <1>8, RowsFrames
<1> QED
  BY <1>9 DEF Goal

\* An uncommitted row ends with its transaction.
LEMMA QueuedStep ==
  TInv /\ QueuedInv /\ [Next]_vars => QueuedInv'
<1> SUFFICES ASSUME TInv, QueuedInv, [Next]_vars,
                    NEW i \in DOMAIN rows', rows'[i].by # None
             PROVE  wpc'[rows'[i].by] = "queued"
  BY DEF QueuedInv
<1>1. /\ TypeOK /\ wpc \in [Writers -> WriterStates] /\ RowsType /\ WriterType
      /\ None \notin Writers
  BY TypeParts, OutboxAssumption DEF TInv, WriterType
<1>2. ASSUME NEW w \in Writers, Enqueue(w), rows'[i].by = w
      PROVE  wpc'[rows'[i].by] = "queued"
  BY <1>1, <1>2 DEF Enqueue
<1>3. ASSUME i \in DOMAIN rows, rows'[i].by = rows[i].by
      PROVE  wpc'[rows'[i].by] = "queued"
  <2> DEFINE v == rows[i].by
  <2>1. wpc[v] = "queued" /\ v \in Writers
    BY <1>1, <1>3 DEF QueuedInv, RowsType, Row
  <2>2. CASE wpc' = wpc
    BY <1>3, <2>1, <2>2
  <2>3. ASSUME NEW w \in Writers, WriterAct(w), w # v PROVE wpc'[v] = "queued"
    BY <1>1, <2>1, <2>3, WriterFrames DEF WriterFrame
  <2>4. ~ Commit(v)
    <3>1. ASSUME Commit(v) PROVE rows'[i].by = None
      BY <1>1, <1>3, <3>1 DEF Commit, RowsType, Row
    <3> QED
      BY <3>1
  <2>5. ~ Abort(v)
    <3>1. ASSUME Abort(v) PROVE i \notin DOMAIN rows'
      BY <3>1 DEF Abort
    <3> QED
      BY <3>1
  <2>6. ASSUME WriterAct(v) PROVE wpc'[v] = "queued"
    BY <2>1, <2>4, <2>5, <2>6
       DEF WriterAct, Change, Enqueue, SyncRead, SyncWrite, EnqueueFails
  <2>7. ASSUME NEW n \in DOMAIN rows, Age(n) PROVE wpc' = wpc
    BY <2>7 DEF Age
  <2> HIDE DEF v
  <2> QED
    BY <1>3, <2>2, <2>3, <2>6, <2>7, TaskFrames DEF TaskFrame, v
<1> QED
  BY <1>2, <1>3, RowsSettle

\* Where only one writer is busy, ids become visible in the order they are drawn.
LEMMA OpenIsLastStep ==
  ASSUME TInv, QueuedInv, OpenIsLast, [Next]_vars, NEW w \in Writers,
         \A v \in Writers \ {w} : wpc[v] = "idle" /\ ~ WriterAct(v)
  PROVE  OpenIsLast'
<1> SUFFICES ASSUME NEW i \in DOMAIN rows', NEW j \in DOMAIN rows', rows'[i].by # None
             PROVE  j <= i
  BY DEF OpenIsLast
<1>1. /\ RowsType /\ DOMAIN rows \subseteq 1..(nextId - 1) /\ nextId \in Nat
      /\ \A n \in DOMAIN rows : n < nextId /\ n \in Nat
  BY TypeParts, OutboxAssumption DEF TInv, RowsType
<1>2. \A n \in DOMAIN rows' : n \in DOMAIN rows \/ n = nextId
  BY RowsSettle
<1>3. CASE i = nextId
  BY <1>1, <1>2, <1>3
<1>4. CASE i # nextId
  <2>1. i \in DOMAIN rows /\ rows[i].by # None /\ rows[i].by \in Writers
    BY <1>1, <1>4, RowsSettle DEF RowsType, Row
  <2>2. wpc[rows[i].by] = "queued"
    BY <2>1 DEF QueuedInv
  <2>3. wpc[w] = "queued"
    BY <2>1, <2>2
  <2>4. j # nextId
    <3>1. ~ Enqueue(w)
      BY <2>3 DEF Enqueue
    <3>2. \A v \in Writers : ~ Enqueue(v)
      BY <3>1 DEF WriterAct
    <3> QED
      BY <1>1, <3>2, RowsSettle
  <2> QED
    BY <1>2, <2>1, <2>4 DEF OpenIsLast
<1> QED
  BY <1>3, <1>4

\* Then the rows below a committed one are committed.
LEMMA LastMeansOrder ==
  ASSUME RowsType, OpenIsLast
  PROVE  CommitOrder
<1>1. DOMAIN rows \subseteq Nat
  BY OutboxAssumption DEF RowsType
<1> QED
  BY <1>1 DEF OpenIsLast, CommitOrder

\* The watermark and the marks of the workers cover rows that a poll has read
\* or that became visible too late for it.
LEMMA WatermarkInvariant == Spec => [](TInv /\ CoveredInv)
<1>1. Init => CoveredInv
  BY DEF Init, CoveredInv, Covered, Committed
<1> QED
  BY <1>1, TypeInit, TypeStep, CoveredStep, PTL DEF Spec

\* For any number of writers, in any order of their commits, no watermark that
\* a worker sets, however late, and however many workers set it back and forth,
\* passes an unread row that was visible to the poll: the only events a poll
\* can miss are those of transactions that committed behind it.
THEOREM NothingIsSkipped == Spec => []NothingSkipped
<1>1. TInv /\ CoveredInv => NothingSkipped
  BY DEF CoveredInv, Covered, NothingSkipped, Unread, Committed
<1> QED
  BY <1>1, WatermarkInvariant, PTL

\* Likewise the clean-up, whoever runs it and however old the rows are, deletes
\* no unread row but those of transactions that committed behind a poll.
THEOREM CleanupIsSafe == Spec => CleanupSparesUnread
<1>1. TInv /\ CoveredInv /\ [Next]_vars => [Unread \ DOMAIN rows' \subseteq late]_vars
  BY DeletedIsCovered
<1> QED
  BY <1>1, WatermarkInvariant, PTL DEF Spec, CleanupSparesUnread

-----------------------------------------------------------------------------
(***************************************************************************)
(* One poller.  As long as an autocommitting writer w and a poller k have  *)
(* been alone, an account whose copy in Redis is not the one in the        *)
(* database is owed to it: w has yet to insert the event, or a row of the  *)
(* account lies above the watermark.  While k handles a batch the same     *)
(* holds above the end of the batch, of what k has loaded and, once it has *)
(* rebuilt the bucket, of what it has published.                           *)
(***************************************************************************)
\* Whoever is busy is in the team.
TeamInv ==
    /\ \A w \in Writers : wpc[w] # "idle" => w \in team
    /\ \A t \in Tasks : pc[t] # "idle" => t \in team

Fresh(w, v, a, x) ==
    \/ v = db[a]
    \/ wpc[w] = "changed" /\ target[w] = a
    \/ \E i \in DOMAIN rows : i > x /\ rows[i].acct = a

\* Fresh in the next state.
FreshThen(w, v, a, x) ==
    \/ v = db'[a]
    \/ wpc'[w] = "changed" /\ target'[w] = a
    \/ \E i \in DOMAIN rows' : i > x /\ rows'[i].acct = a

\* The end of the batch that a worker handles.
Reach(k) == IF mark[k] > watermark THEN mark[k] ELSE watermark

MarkInv(k) ==
    /\ pc[k] \in {"list", "cleanup"} => mark[k] = watermark
    /\ batch[k] # << >> \/ pc[k] = "mark" => mark[k] > watermark

Rebuild == {"lock", "load", "allocate", "write", "activate", "unlock"}

SeenInv(k) ==
    /\ pc[k] = "mark" => k \in seen
    /\ pc[k] \in Rebuild /\ batch[k] # << >> => k \in seen
    /\ pc[k] \in {"write", "activate"} => k \in ToSet(order)

ShownInv(w) ==
    watermark > 0 =>
        \A a \in Accounts : Fresh(w, snap[a], a, watermark) /\ Fresh(w, meta[a], a, watermark)

LoadedInv(w, k) ==
    /\ pc[k] \in {"allocate", "write", "activate"} =>
         \A a \in Accounts : Fresh(w, load[k][a], a, Reach(k))
    /\ pc[k] = "set" => Fresh(w, load[k][Head(batch[k])], Head(batch[k]), Reach(k))

PublishedInv(w, k) ==
    /\ pc[k] \in {"activate", "unlock"} \/ (k \in seen /\ pc[k] \in {"get", "set", "mark"}) =>
         \A a \in Accounts : Fresh(w, meta[a], a, Reach(k))
    /\ pc[k] = "unlock" \/ (k \in seen /\ pc[k] \in {"get", "set", "mark"}) =>
         \A a \in Accounts : Fresh(w, snap[a], a, Reach(k))

SyncInv(w) == wpc[w] = "sync" => copy[w] = db[target[w]]

PairInv(w, k) ==
    /\ MarkInv(k) /\ SeenInv(k) /\ ShownInv(w) /\ LoadedInv(w, k)
    /\ PublishedInv(w, k) /\ SyncInv(w)

SoleInv ==
    \A w \in Writers \ TxWriters, k \in Workers :
        team \subseteq {w, k} => OpenIsLast /\ ConsumedInv /\ PairInv(w, k)

\* The members of the team stay, and an actor that starts is one of them.
LEMMA JoinsFacts ==
  ASSUME TypeOK, NEW x \in Writers \union Tasks, Joins(x)
  PROVE  team \subseteq team' /\ x \in team'
  BY DEF Joins, Everyone, TypeOK

\* Nobody leaves the team.
LEMMA TeamGrows ==
  ASSUME TInv, [Next]_vars
  PROVE  team \subseteq team'
<1>1. /\ TypeOK /\ team \subseteq Everyone
      /\ Workers \subseteq Tasks /\ Refreshers \subseteq Tasks /\ Readers \subseteq Tasks
  BY DEF TInv, TypeOK, Tasks
<1> DEFINE Goal == team \subseteq team'
<1>2. ASSUME NEW x \in Writers \union Tasks, Joins(x) PROVE Goal
  BY <1>1, <1>2, JoinsFacts
<1>3. ASSUME team' = team \/ team' = Everyone PROVE Goal
  BY <1>1, <1>3
<1> HIDE DEF Goal
<1>4. ASSUME NEW w \in Writers, WriterAct(w) PROVE Goal
  BY <1>2, <1>3, <1>4
     DEF WriterAct, Change, Enqueue, Commit, SyncRead, SyncWrite, Abort, EnqueueFails, history
<1>5. ASSUME NEW i \in DOMAIN rows, Age(i) PROVE Goal
  BY <1>3, <1>5 DEF Age, history
<1>6. ASSUME NEW k \in Workers, WorkerAct(k) PROVE Goal
  BY <1>1, <1>2, <1>3, <1>6
     DEF WorkerAct, ReadWatermark, List, GetAccount, SetAccount, SetWatermark, Cleanup,
         CheckLag, WatermarkFails, history
<1>7. ASSUME NEW f \in Refreshers, StartRebuild(f) PROVE Goal
  BY <1>1, <1>2, <1>7 DEF StartRebuild
<1>8. ASSUME NEW r \in Readers, Miss(r) PROVE Goal
  BY <1>1, <1>2, <1>8 DEF Miss
<1>9. ASSUME NEW t \in Tasks, RebuildAct(t) PROVE Goal
  BY <1>3, <1>9
     DEF RebuildAct, TryLock, LoadAccounts, AllocateVersion, WriteAccounts, Activate,
         Unlock, HandleFails, UnlockFails, Crash, history
<1>10. ASSUME Expiry PROVE Goal
  BY <1>3, <1>10 DEF Expiry, LockExpires, LockExpiresEarly, history
<1>11. ASSUME UNCHANGED vars PROVE Goal
  BY <1>3, <1>11 DEF vars, history
<1>12. Goal
  BY Cases, <1>4, <1>5, <1>6, <1>7, <1>8, <1>9, <1>10, <1>11
<1> QED
  BY <1>12 DEF Goal

\* An idle writer can only start a change, an idle worker only read the
\* watermark, and an idle task does not take part in a rebuild.
LEMMA IdleStarts ==
  ASSUME TInv
  PROVE  /\ \A w \in Writers : wpc[w] = "idle" /\ WriterAct(w) => w \in team'
         /\ \A k \in Workers : pc[k] = "idle" /\ WorkerAct(k) => k \in team'
         /\ \A f \in Refreshers : StartRebuild(f) => f \in team'
         /\ \A r \in Readers : Miss(r) => r \in team'
         /\ \A t \in Tasks : RebuildAct(t) => pc[t] # "idle"
<1>1. TypeOK /\ Workers \subseteq Tasks /\ Refreshers \subseteq Tasks /\ Readers \subseteq Tasks
  BY DEF TInv, Tasks
<1>2. ASSUME NEW w \in Writers, wpc[w] = "idle", WriterAct(w) PROVE w \in team'
  <2>1. PICK a \in Accounts : Change(w, a)
    BY <1>2 DEF WriterAct, Enqueue, Commit, SyncRead, SyncWrite, Abort, EnqueueFails
  <2> QED
    BY <1>1, <2>1, JoinsFacts DEF Change
<1>3. ASSUME NEW k \in Workers, pc[k] = "idle", WorkerAct(k) PROVE k \in team'
  <2>1. ReadWatermark(k)
    BY <1>3 DEF WorkerAct, List, GetAccount, SetAccount, SetWatermark, Cleanup, CheckLag,
                WatermarkFails
  <2> QED
    BY <1>1, <2>1, JoinsFacts DEF ReadWatermark
<1>4. ASSUME NEW f \in Refreshers, StartRebuild(f) PROVE f \in team'
  BY <1>1, <1>4, JoinsFacts DEF StartRebuild
<1>5. ASSUME NEW r \in Readers, Miss(r) PROVE r \in team'
  BY <1>1, <1>5, JoinsFacts DEF Miss
<1>6. ASSUME NEW t \in Tasks, RebuildAct(t) PROVE pc[t] # "idle"
  BY <1>6 DEF RebuildAct, TryLock, LoadAccounts, AllocateVersion, WriteAccounts, Activate,
              Unlock, HandleFails, UnlockFails, Crash
<1> QED
  BY <1>2, <1>3, <1>4, <1>5, <1>6

\* Every step keeps the busy actors in the team.
LEMMA TeamStep ==
  TInv /\ TeamInv /\ [Next]_vars => TeamInv'
<1> SUFFICES ASSUME TInv, TeamInv, [Next]_vars PROVE TeamInv'
  OBVIOUS
<1>1. TypeOK /\ Workers \subseteq Tasks /\ Refreshers \subseteq Tasks /\ Readers \subseteq Tasks
  BY DEF TInv, Tasks
<1>2. team \subseteq team'
  BY TeamGrows
<1>3. ASSUME NEW w \in Writers, wpc'[w] # "idle" PROVE w \in team'
  <2>1. CASE wpc[w] # "idle"
    BY <1>2, <2>1 DEF TeamInv
  <2>2. CASE wpc[w] = "idle"
    <3>1. ASSUME NEW v \in Writers, WriterAct(v), v # w PROVE wpc'[w] = wpc[w]
      BY <1>1, <3>1, WriterFrames DEF WriterFrame
    <3>2. ASSUME NEW i \in DOMAIN rows, Age(i) PROVE wpc' = wpc
      BY <3>2 DEF Age
    <3>3. ASSUME TaskFrame PROVE wpc' = wpc
      BY <3>3 DEF TaskFrame
    <3>4. WriterAct(w)
      BY <1>3, <2>2, <3>1, <3>2, <3>3, TaskFrames
    <3> QED
      BY <2>2, <3>4, IdleStarts
  <2> QED
    BY <2>1, <2>2
<1>4. ASSUME NEW t \in Tasks, pc'[t] # "idle" PROVE t \in team'
  <2>1. CASE pc[t] # "idle"
    BY <1>2, <2>1 DEF TeamInv
  <2>2. CASE pc[t] = "idle"
    <3>1. ASSUME NEW u \in Tasks, u # t,
                 (u \in Workers /\ WorkerAct(u)) \/ StartRebuild(u) \/ Miss(u) \/ RebuildAct(u)
          PROVE  pc'[t] = pc[t]
      BY <1>1, <3>1, OthersStay
    <3>2. ASSUME NEW w \in Writers, WriterAct(w) PROVE pc' = pc
      BY <1>1, <3>2, WriterFrames DEF WriterFrame
    <3>3. ASSUME NEW i \in DOMAIN rows, Age(i) PROVE pc' = pc
      BY <3>3 DEF Age, taskVars
    <3>4. ASSUME Expiry PROVE pc' = pc
      BY <3>4 DEF Expiry, LockExpires, LockExpiresEarly, taskVars
    <3>5. ASSUME UNCHANGED vars PROVE pc' = pc
      BY <3>5 DEF vars, taskVars
    <3>6. \/ t \in Workers /\ WorkerAct(t)
          \/ t \in Refreshers /\ StartRebuild(t)
          \/ t \in Readers /\ Miss(t)
          \/ RebuildAct(t)
      BY <1>1, <1>4, <2>2, <3>1, <3>2, <3>3, <3>4, <3>5, Cases
    <3> QED
      BY <1>1, <2>2, <3>6, IdleStarts
  <2> QED
    BY <2>1, <2>2
<1> QED
  BY <1>3, <1>4 DEF TeamInv

\* The steps of a pair that stays alone.
LEMMA PairSteps ==
  ASSUME TInv, TeamInv, [Next]_vars, NEW w \in Writers \ TxWriters, NEW k \in Workers,
         team' \subseteq {w, k}
  PROVE  /\ team \subseteq {w, k}
         /\ \A v \in Writers \ {w} : wpc[v] = "idle" /\ ~ WriterAct(v)
         /\ \/ WriterAct(w) /\ ~ Abort(w) /\ ~ EnqueueFails(w)
            \/ \E i \in DOMAIN rows : Age(i)
            \/ WorkerAct(k)
            \/ RebuildAct(k) /\ team' # Everyone
            \/ Expiry
            \/ UNCHANGED vars
<1>1. /\ None \notin Writers \union Tasks /\ Writers \cap Tasks = {}
      /\ Workers \subseteq Tasks /\ Refreshers \subseteq Tasks /\ Readers \subseteq Tasks
      /\ Workers \cap Refreshers = {} /\ Workers \cap Readers = {}
  BY OutboxAssumption DEF Tasks
<1>2. team \subseteq {w, k}
  BY TeamGrows
<1>3. team' # Everyone
  BY <1>1 DEF Everyone
<1>4. ASSUME NEW v \in Writers \ {w} PROVE wpc[v] = "idle" /\ ~ WriterAct(v)
  <2>1. v \notin {w, k}
    BY <1>1
  <2>2. wpc[v] = "idle"
    BY <1>2, <2>1 DEF TeamInv
  <2> QED
    BY <2>1, <2>2, IdleStarts
<1>5. ASSUME NEW t \in Tasks, t # k PROVE pc[t] = "idle"
  BY <1>1, <1>2, <1>5 DEF TeamInv
<1>6. ~ Abort(w) /\ ~ EnqueueFails(w)
  BY <1>3 DEF Abort, EnqueueFails
<1>7. ASSUME NEW j \in Workers, WorkerAct(j) PROVE j = k
  BY <1>1, <1>5, <1>7, IdleStarts
<1>8. \A f \in Refreshers : ~ StartRebuild(f)
  BY <1>1, IdleStarts
<1>9. \A r \in Readers : ~ Miss(r)
  BY <1>1, IdleStarts
<1>10. ASSUME NEW t \in Tasks, RebuildAct(t) PROVE t = k
  BY <1>5, <1>10, IdleStarts
<1> QED
  BY <1>2, <1>3, <1>4, <1>6, <1>7, <1>8, <1>9, <1>10, Cases

\* What is owed to an account stays owed to it until it is copied.
LEMMA FreshKept ==
  ASSUME TInv, TeamInv, [Next]_vars, NEW w \in Writers \ TxWriters, NEW k \in Workers,
         team' \subseteq {w, k}, ConsumedInv, MarkInv(k),
         NEW a \in Accounts, NEW v, NEW x \in Nat, watermark <= x, x <= Reach(k),
         Fresh(w, v, a, x)
  PROVE  FreshThen(w, v, a, x)
<1>1. /\ TypeOK /\ WriterType /\ RowsType /\ nextId \in Nat /\ w \in Writers
      /\ watermark \in 0..(nextId - 1) /\ mark[k] \in 0..(nextId - 1)
      /\ DOMAIN rows \subseteq Nat /\ None \notin Writers
      /\ \A i \in DOMAIN rows : rows[i] \in Row
  BY TypeParts, OutboxAssumption DEF TInv, RowsType, RedisType, BatchType
<1>2. ASSUME db' = db, wpc'[w] = wpc[w], target' = target,
             \A i \in DOMAIN rows : i > x => i \in DOMAIN rows' /\ rows'[i].acct = rows[i].acct
      PROVE  FreshThen(w, v, a, x)
  BY <1>2 DEF Fresh, FreshThen
<1>3. ASSUME db' = db, wpc[w] # "changed",
             \A i \in DOMAIN rows : i > x => i \in DOMAIN rows' /\ rows'[i].acct = rows[i].acct
      PROVE  FreshThen(w, v, a, x)
  BY <1>3 DEF Fresh, FreshThen
<1>4. ASSUME NEW b \in Accounts, Change(w, b) PROVE FreshThen(w, v, a, x)
  <2>1. /\ wpc[w] = "idle" /\ wpc'[w] = "changed" /\ target'[w] = b
        /\ db' = [db EXCEPT ![b] = @ + 1] /\ rows' = rows
    BY <1>1, <1>4 DEF Change, WriterType
  <2>2. CASE a = b
    BY <2>1, <2>2 DEF FreshThen
  <2>3. CASE a # b
    <3>1. db'[a] = db[a]
      BY <1>1, <2>1, <2>3 DEF WriterType
    <3> QED
      BY <2>1, <3>1 DEF Fresh, FreshThen
  <2> QED
    BY <2>2, <2>3
<1>5. CASE Enqueue(w)
  <2> DEFINE row == [acct |-> target[w], key |-> TRUE, by |-> w, old |-> FALSE]
             hit == \E i \in Committed : rows[i].acct = target[w] /\ rows[i].key
  <2>1. /\ db' = db /\ target' = target
        /\ rows' = IF hit THEN rows
                   ELSE [i \in DOMAIN rows \union {nextId} |->
                             IF i = nextId THEN row ELSE rows[i]]
    BY <1>5 DEF Enqueue
  <2>2. \A i \in DOMAIN rows : i \in DOMAIN rows' /\ rows'[i] = rows[i]
    <3>1. nextId \notin DOMAIN rows
      BY <1>1 DEF RowsType
    <3> QED
      BY <2>1, <3>1
  <2>3. CASE v = db[a] \/ \E i \in DOMAIN rows : i > x /\ rows[i].acct = a
    BY <2>1, <2>2, <2>3 DEF FreshThen
  <2>4. CASE target[w] = a
    <3>1. CASE hit
      <4>1. PICK i \in Committed : rows[i].acct = target[w] /\ rows[i].key
        BY <3>1
      <4>2. i \in DOMAIN rows /\ i \in Nat
        BY <1>1 DEF Committed
      <4>3. ~ (i <= watermark) /\ ~ (i <= mark[k])
        BY <4>1, <4>2 DEF ConsumedInv, Consumed
      <4>4. i > x
        BY <1>1, <4>2, <4>3 DEF Reach
      <4> QED
        BY <2>2, <2>4, <4>1, <4>2, <4>4 DEF FreshThen
    <3>2. CASE ~ hit
      <4>1. nextId \in DOMAIN rows' /\ rows'[nextId].acct = a
        BY <2>1, <2>4, <3>2
      <4>2. nextId > x
        BY <1>1 DEF Reach
      <4> QED
        BY <4>1, <4>2 DEF FreshThen
    <3> QED
      BY <3>1, <3>2
  <2> QED
    BY <2>3, <2>4 DEF Fresh
<1>6. CASE Commit(w)
  <2>1. wpc[w] # "changed" /\ db' = db
    BY <1>6 DEF Commit
  <2>2. \A i \in DOMAIN rows : i \in DOMAIN rows' /\ rows'[i].acct = rows[i].acct
    BY <1>1, <1>6 DEF Commit, Row
  <2> QED
    BY <1>3, <2>1, <2>2
<1>7. CASE SyncRead(w) \/ SyncWrite(w)
  BY <1>3, <1>7 DEF SyncRead, SyncWrite
<1>8. ASSUME NEW i \in DOMAIN rows, Age(i) PROVE FreshThen(w, v, a, x)
  <2>1. \A j \in DOMAIN rows : j \in DOMAIN rows' /\ rows'[j].acct = rows[j].acct
    BY <1>1, <1>8 DEF Age, Row
  <2> QED
    BY <1>2, <1>8, <2>1 DEF Age
<1>9. CASE List(k)
  <2>1. \A j \in DOMAIN rows : j \in DOMAIN rows' /\ rows'[j].acct = rows[j].acct
    BY <1>1, <1>9 DEF List, Row
  <2> QED
    BY <1>2, <1>9, <2>1 DEF List
<1>10. CASE Cleanup(k)
  <2>1. mark[k] = watermark
    BY <1>10 DEF Cleanup, MarkInv
  <2>2. \A j \in DOMAIN rows : j > x => j \in DOMAIN rows' /\ rows'[j] = rows[j]
    BY <1>1, <1>10, <2>1 DEF Cleanup
  <2> QED
    BY <1>2, <1>10, <2>2 DEF Cleanup
<1>11. ASSUME TaskFrame, rows' = rows PROVE FreshThen(w, v, a, x)
  BY <1>2, <1>11 DEF TaskFrame
<1>12. ASSUME WorkerAct(k), ~ List(k), ~ Cleanup(k) PROVE TaskFrame /\ rows' = rows
  BY <1>12 DEF WorkerAct, ReadWatermark, GetAccount, SetAccount, SetWatermark, CheckLag,
               WatermarkFails, writerVars, TaskFrame
<1>13. ASSUME RebuildAct(k) PROVE TaskFrame /\ rows' = rows
  BY <1>13 DEF RebuildAct, TryLock, LoadAccounts, AllocateVersion, WriteAccounts, Activate,
               Unlock, HandleFails, UnlockFails, Crash, writerVars, TaskFrame
<1>14. ASSUME Expiry PROVE TaskFrame /\ rows' = rows
  BY <1>14 DEF Expiry, LockExpires, LockExpiresEarly, writerVars, TaskFrame
<1>15. ASSUME UNCHANGED vars PROVE TaskFrame /\ rows' = rows
  BY <1>15 DEF vars, writerVars, TaskFrame
<1> QED
  BY <1>4, <1>5, <1>6, <1>7, <1>8, <1>9, <1>10, <1>11, <1>12, <1>13, <1>14, <1>15, PairSteps
     DEF WriterAct

\* PairInv in the next state.
ReachThen(k) == IF mark'[k] > watermark' THEN mark'[k] ELSE watermark'

PairThen(w, k) ==
    /\ pc'[k] \in {"list", "cleanup"} => mark'[k] = watermark'
    /\ batch'[k] # << >> \/ pc'[k] = "mark" => mark'[k] > watermark'
    /\ pc'[k] = "mark" => k \in seen'
    /\ pc'[k] \in Rebuild /\ batch'[k] # << >> => k \in seen'
    /\ pc'[k] \in {"write", "activate"} => k \in ToSet(order')
    /\ watermark' > 0 =>
         \A a \in Accounts : /\ FreshThen(w, snap'[a], a, watermark')
                             /\ FreshThen(w, meta'[a], a, watermark')
    /\ pc'[k] \in {"allocate", "write", "activate"} =>
         \A a \in Accounts : FreshThen(w, load'[k][a], a, ReachThen(k))
    /\ pc'[k] = "set" => FreshThen(w, load'[k][Head(batch'[k])], Head(batch'[k]), ReachThen(k))
    /\ pc'[k] \in {"activate", "unlock"} \/ (k \in seen' /\ pc'[k] \in {"get", "set", "mark"}) =>
         \A a \in Accounts : FreshThen(w, meta'[a], a, ReachThen(k))
    /\ pc'[k] = "unlock" \/ (k \in seen' /\ pc'[k] \in {"get", "set", "mark"}) =>
         \A a \in Accounts : FreshThen(w, snap'[a], a, ReachThen(k))

\* The primed parts of the invariant, from the values of the next state.
LEMMA PairBridge ==
  ASSUME NEW w, NEW k, PairThen(w, k), SyncInv(w)'
  PROVE  PairInv(w, k)'
<1> USE DEF PairThen, Fresh, FreshThen, Reach, ReachThen
<1>1. MarkInv(k)'
  BY DEF MarkInv
<1>2. SeenInv(k)'
  BY DEF SeenInv
<1>3. ShownInv(w)'
  BY DEF ShownInv
<1>4. LoadedInv(w, k)'
  BY DEF LoadedInv
<1>5. PublishedInv(w, k)'
  BY DEF PublishedInv
<1> QED
  BY <1>1, <1>2, <1>3, <1>4, <1>5 DEF PairInv

\* The copy a writer has read is the database until it has written it.
LEMMA SyncStep ==
  ASSUME TInv, TeamInv, [Next]_vars, NEW w \in Writers \ TxWriters, NEW k \in Workers,
         team' \subseteq {w, k}, SyncInv(w)
  PROVE  SyncInv(w)'
<1>1. WriterType /\ w \in Writers
  BY TypeParts DEF TInv
<1>2. ASSUME NEW a \in Accounts, Change(w, a) PROVE SyncInv(w)'
  BY <1>1, <1>2 DEF Change, WriterType, SyncInv
<1>3. CASE Enqueue(w)
  BY <1>1, <1>3 DEF Enqueue, WriterType, SyncInv
<1>4. CASE Commit(w)
  BY <1>1, <1>4 DEF Commit, WriterType, SyncInv
<1>5. CASE SyncRead(w)
  BY <1>1, <1>5 DEF SyncRead, WriterType, SyncInv
<1>6. CASE SyncWrite(w)
  BY <1>1, <1>6 DEF SyncWrite, WriterType, SyncInv
<1>7. ASSUME NEW i \in DOMAIN rows, Age(i) PROVE SyncInv(w)'
  BY <1>7 DEF Age, SyncInv
<1>8. CASE TaskFrame
  BY <1>8 DEF TaskFrame, SyncInv
<1>9. \A v \in Writers : WriterAct(v) => v = w
  BY PairSteps
<1>10. ~ Abort(w)
  BY DEF Abort
<1>11. ~ EnqueueFails(w)
  BY OutboxAssumption DEF EnqueueFails, Everyone, Tasks
<1> QED
  BY <1>2, <1>3, <1>4, <1>5, <1>6, <1>7, <1>8, <1>9, <1>10, <1>11, TaskFrames DEF WriterAct

\* What FreshKept gives for the two thresholds in use.
FreshFacts(w, k) ==
    /\ \A a \in Accounts, v \in Nat :
         Fresh(w, v, a, watermark) => FreshThen(w, v, a, watermark)
    /\ \A a \in Accounts, v \in Nat :
         Fresh(w, v, a, Reach(k)) => /\ FreshThen(w, v, a, Reach(k))
                                     /\ FreshThen(w, v, a, watermark)
    /\ \A a \in Accounts, x \in Nat : FreshThen(w, db'[a], a, x)

Numbers(k) ==
    /\ watermark \in Nat /\ mark[k] \in Nat
    /\ Reach(k) \in Nat /\ watermark <= Reach(k)
    /\ \A a \in Accounts : snap[a] \in Nat /\ meta[a] \in Nat /\ load[k][a] \in Nat

\* What the lemmas on single steps need of the pair holds before the step.
LEMMA FreshApplies ==
  ASSUME TInv, TeamInv, [Next]_vars, NEW w \in Writers \ TxWriters, NEW k \in Workers,
         team' \subseteq {w, k}, ConsumedInv, MarkInv(k)
  PROVE  FreshFacts(w, k) /\ Numbers(k)
<1>1. watermark \in Nat /\ mark[k] \in Nat
  BY OutboxAssumption DEF TInv, TypeOK
<1>2. Numbers(k)
  <2>1. Reach(k) \in Nat /\ watermark <= Reach(k)
    BY <1>1 DEF Reach
  <2>2. k \in Tasks
    BY DEF Tasks
  <2> QED
    BY <1>1, <2>1, <2>2 DEF Numbers, TInv, TypeOK
<1>3. ASSUME NEW a \in Accounts, NEW v \in Nat, Fresh(w, v, a, watermark)
      PROVE  FreshThen(w, v, a, watermark)
  BY <1>1, <1>2, <1>3, FreshKept DEF Numbers
<1>4. ASSUME NEW a \in Accounts, NEW v \in Nat, Fresh(w, v, a, Reach(k))
      PROVE  FreshThen(w, v, a, Reach(k)) /\ FreshThen(w, v, a, watermark)
  <2>1. FreshThen(w, v, a, Reach(k))
    BY <1>1, <1>2, <1>4, FreshKept DEF Numbers
  <2>2. \A i \in DOMAIN rows' : i \in Nat
    BY RowsStep, OutboxAssumption DEF RowsType
  <2>3. Reach(k) \in Nat /\ watermark <= Reach(k)
    BY <1>2 DEF Numbers
  <2>4. FreshThen(w, v, a, watermark)
    <3> DEFINE R == Reach(k)
    <3> HIDE DEF R
    <3>1. FreshThen(w, v, a, R) /\ R \in Nat /\ watermark <= R
      BY <2>1, <2>3 DEF R
    <3> QED
      BY <1>1, <2>2, <3>1 DEF FreshThen
  <2> QED
    BY <2>1, <2>4
<1>5. \A a \in Accounts, x \in Nat : FreshThen(w, db'[a], a, x)
  BY DEF FreshThen
<1> QED
  BY <1>2, <1>3, <1>4, <1>5 DEF FreshFacts

\* A step that leaves the poller where it is.
LEMMA PairStill ==
  ASSUME NEW w, NEW k, FreshFacts(w, k), Numbers(k), PairInv(w, k),
         UNCHANGED <<watermark, snap, order, pc, mark, batch, seen, load>>,
         \A a \in Accounts : meta'[a] = meta[a] \/ meta'[a] = db'[a],
         pc[k] = "set" => Head(batch[k]) \in Accounts
  PROVE  PairThen(w, k)
<1>1. ReachThen(k) = Reach(k)
  BY DEF Reach, ReachThen
<1>2. MarkInv(k) /\ SeenInv(k) /\ ShownInv(w) /\ LoadedInv(w, k) /\ PublishedInv(w, k)
  BY DEF PairInv
<1>3. watermark' > 0 =>
        \A a \in Accounts : /\ FreshThen(w, snap'[a], a, watermark')
                            /\ FreshThen(w, meta'[a], a, watermark')
  BY <1>2 DEF FreshFacts, Numbers, ShownInv
<1>4. /\ pc'[k] \in {"allocate", "write", "activate"} =>
           \A a \in Accounts : FreshThen(w, load'[k][a], a, ReachThen(k))
      /\ pc'[k] = "set" =>
           FreshThen(w, load'[k][Head(batch'[k])], Head(batch'[k]), ReachThen(k))
  BY <1>1, <1>2 DEF FreshFacts, Numbers, LoadedInv
<1>5. pc'[k] \in {"activate", "unlock"} \/ (k \in seen' /\ pc'[k] \in {"get", "set", "mark"}) =>
         \A a \in Accounts : FreshThen(w, meta'[a], a, ReachThen(k))
  BY <1>1, <1>2 DEF FreshFacts, Numbers, PublishedInv
<1>6. pc'[k] = "unlock" \/ (k \in seen' /\ pc'[k] \in {"get", "set", "mark"}) =>
         \A a \in Accounts : FreshThen(w, snap'[a], a, ReachThen(k))
  BY <1>1, <1>2 DEF FreshFacts, Numbers, PublishedInv
<1> QED
  BY <1>2, <1>3, <1>4, <1>5, <1>6 DEF PairThen, MarkInv, SeenInv

\* What the poller writes to Redis is at least as fresh as the watermark asks.
LEMMA ShownThen ==
  ASSUME NEW w, NEW k, FreshFacts(w, k), Numbers(k), PairInv(w, k), watermark' = watermark,
         \A a \in Accounts :
             snap'[a] = snap[a] \/ (snap'[a] \in Nat /\ Fresh(w, snap'[a], a, Reach(k))),
         \A a \in Accounts :
             meta'[a] = meta[a] \/ (meta'[a] \in Nat /\ Fresh(w, meta'[a], a, Reach(k)))
  PROVE  watermark' > 0 =>
           \A a \in Accounts : /\ FreshThen(w, snap'[a], a, watermark')
                               /\ FreshThen(w, meta'[a], a, watermark')
  BY DEF FreshFacts, Numbers, PairInv, ShownInv

\* A step of the poller after which it claims nothing but what the watermark does.
LEMMA PairClaimsNothing ==
  ASSUME NEW w, NEW k, FreshFacts(w, k), Numbers(k), PairInv(w, k),
         UNCHANGED <<watermark, snap, meta>>,
         pc'[k] \in {"idle", "list", "lock", "load"},
         pc'[k] = "list" => mark'[k] = watermark,
         batch'[k] = << >> \/ (mark'[k] > watermark /\ k \in seen')
  PROVE  PairThen(w, k)
<1>1. watermark' > 0 =>
        \A a \in Accounts : /\ FreshThen(w, snap'[a], a, watermark')
                            /\ FreshThen(w, meta'[a], a, watermark')
  BY ShownThen
<1>2. /\ ~ (pc'[k] \in {"allocate", "write", "activate"}) /\ pc'[k] # "set"
      /\ ~ (pc'[k] \in {"activate", "unlock"}) /\ pc'[k] \notin {"get", "set", "mark"}
      /\ pc'[k] # "cleanup" /\ pc'[k] # "mark" /\ pc'[k] # "unlock"
  OBVIOUS
<1> QED
  BY <1>1, <1>2 DEF PairThen

\* The steps of the poll.
LEMMA PairWorker ==
  ASSUME TInv, NEW w \in Writers, NEW k \in Workers, FreshFacts(w, k), Numbers(k),
         PairInv(w, k), WorkerAct(k)
  PROVE  PairThen(w, k)
<1>1. /\ TypeOK /\ k \in Tasks /\ pc \in [Tasks -> TaskStates]
      /\ batch \in [Workers -> Seq(Accounts)] /\ BatchInv
      /\ mark \in [Workers -> 0..(nextId - 1)]
      /\ load \in [Tasks -> [Accounts -> Nat]] /\ meta \in [Accounts -> Nat]
  BY DEF TInv, TypeOK, Tasks
<1>2. MarkInv(k) /\ SeenInv(k) /\ ShownInv(w) /\ LoadedInv(w, k) /\ PublishedInv(w, k)
  BY DEF PairInv
<1>3. CASE ReadWatermark(k)
  <2>1. /\ UNCHANGED <<watermark, snap, meta, batch>> /\ pc'[k] = "list"
        /\ mark'[k] = watermark /\ batch[k] = << >>
    BY <1>1, <1>3 DEF ReadWatermark, Goto, redisVars, BatchInv
  <2> QED
    BY <2>1, PairClaimsNothing
<1>4. CASE List(k)
  <2>1. UNCHANGED <<watermark, snap, meta>> /\ k \notin seen' /\ mark[k] = watermark
    BY <1>2, <1>4 DEF List, redisVars, MarkInv
  <2>2. /\ pc' = [pc EXCEPT ![k] = IF Listed(mark[k]) = {} THEN "idle" ELSE "get"]
        /\ batch'[k] = << >> <=> Listed(mark[k]) = {}
        /\ Listed(mark[k]) # {} => mark'[k] \in Pending(mark[k])
    BY <1>1, <1>4, ListFacts
  <2>3. CASE Listed(mark[k]) = {}
    BY <1>1, <2>1, <2>2, <2>3, PairClaimsNothing
  <2>4. CASE Listed(mark[k]) # {}
    <3>1. pc'[k] = "get" /\ mark'[k] > watermark
      BY <1>1, <2>1, <2>2, <2>4 DEF Pending
    <3>2. watermark' > 0 =>
            \A a \in Accounts : /\ FreshThen(w, snap'[a], a, watermark')
                                /\ FreshThen(w, meta'[a], a, watermark')
      BY <2>1, ShownThen
    <3> QED
      BY <2>1, <3>1, <3>2 DEF PairThen, Rebuild
  <2> QED
    BY <2>3, <2>4
<1>5. CASE GetAccount(k)
  <2> DEFINE a == Head(batch[k])
  <2>1. batch[k] # << >> /\ a \in Accounts
    BY <1>1, <1>5, HeadTailProperties DEF GetAccount, BatchInv
  <2>2. /\ UNCHANGED <<watermark, snap, meta, mark, batch, seen, order>>
        /\ pc[k] = "get" /\ pc'[k] = "set" /\ db' = db
        /\ load' = [load EXCEPT ![k] = [Absent EXCEPT ![a] = db[a]]]
    BY <1>1, <1>5 DEF GetAccount, Goto, redisVars, writerVars
  <2>3. load'[k][a] = db'[a]
    BY <1>1, <2>1, <2>2 DEF Absent
  <2>4. ReachThen(k) = Reach(k) /\ Reach(k) \in Nat /\ mark[k] > watermark
    BY <1>2, <2>1, <2>2 DEF Reach, ReachThen, Numbers, MarkInv
  <2>5. FreshThen(w, load'[k][a], a, ReachThen(k))
    BY <2>1, <2>3, <2>4 DEF FreshFacts
  <2>6. watermark' > 0 =>
          \A b \in Accounts : /\ FreshThen(w, snap'[b], b, watermark')
                              /\ FreshThen(w, meta'[b], b, watermark')
    BY <2>2, ShownThen
  <2>7. k \in seen' => \A b \in Accounts : /\ FreshThen(w, snap'[b], b, ReachThen(k))
                                           /\ FreshThen(w, meta'[b], b, ReachThen(k))
    BY <1>2, <2>2, <2>4 DEF PublishedInv, FreshFacts, Numbers
  <2> HIDE DEF a
  <2>8. Head(batch'[k]) = a
    BY <2>2 DEF a
  <2> QED
    BY <2>2, <2>4, <2>5, <2>6, <2>7, <2>8 DEF PairThen, Rebuild
<1>6. CASE SetAccount(k)
  <2> DEFINE a == Head(batch[k])
  <2>1. batch[k] # << >> /\ a \in Accounts
    BY <1>1, <1>6, HeadTailProperties DEF SetAccount, BatchInv
  <2>2. /\ UNCHANGED <<watermark, snap, mark, order>> /\ pc[k] = "set"
        /\ meta' = [meta EXCEPT ![a] = load[k][a]]
    BY <1>6 DEF SetAccount
  <2>3. Fresh(w, load[k][a], a, Reach(k)) /\ load[k][a] \in Nat
    BY <1>1, <1>2, <2>1, <2>2 DEF LoadedInv
  <2> HIDE DEF a
  <2>4. \A b \in Accounts : meta'[b] = meta[b] \/ (b = a /\ meta'[b] = load[k][a])
    BY <1>1, <2>1, <2>2
  <2>5. watermark' > 0 =>
          \A b \in Accounts : /\ FreshThen(w, snap'[b], b, watermark')
                              /\ FreshThen(w, meta'[b], b, watermark')
    BY <2>2, <2>3, <2>4, ShownThen
  <2>6. ReachThen(k) = Reach(k) /\ mark[k] > watermark
    BY <1>2, <2>1, <2>2 DEF Reach, ReachThen, MarkInv
  <2>7. ASSUME k \in seen, AfterEvent(k), seen' = seen PROVE PairThen(w, k)
    <3>1. pc'[k] \in {"mark", "get"}
      BY <1>1, <2>1, <2>7, AfterEventFacts
    <3>2. \A b \in Accounts : /\ FreshThen(w, snap'[b], b, ReachThen(k))
                              /\ FreshThen(w, meta'[b], b, ReachThen(k))
      BY <1>2, <2>2, <2>3, <2>4, <2>6, <2>7 DEF PublishedInv, FreshFacts, Numbers
    <3> QED
      BY <2>2, <2>5, <2>6, <2>7, <3>1, <3>2 DEF PairThen, Rebuild
  <2>8. ASSUME seen' = seen \union {k}, Goto(k, "lock"), batch' = batch PROVE PairThen(w, k)
    <3>1. pc'[k] = "lock"
      BY <1>1, <2>8 DEF Goto
    <3> QED
      BY <2>2, <2>5, <2>6, <2>8, <3>1 DEF PairThen
  <2> QED
    BY <1>6, <2>7, <2>8 DEF SetAccount
<1>7. CASE SetWatermark(k)
  <2>1. /\ UNCHANGED <<snap, meta, order, mark, batch, seen>> /\ watermark' = mark[k]
        /\ pc[k] = "mark" /\ pc'[k] = "cleanup" /\ batch[k] = << >>
    BY <1>1, <1>7 DEF SetWatermark, Goto, BatchInv
  <2>2. k \in seen /\ Reach(k) = mark[k]
    BY <1>2, <2>1 DEF SeenInv, MarkInv, Reach
  <2>3. \A a \in Accounts : /\ FreshThen(w, snap'[a], a, watermark')
                            /\ FreshThen(w, meta'[a], a, watermark')
    BY <1>2, <2>1, <2>2 DEF PublishedInv, FreshFacts, Numbers
  <2> QED
    BY <2>1, <2>3 DEF PairThen, Rebuild
<1>8. CASE Cleanup(k)
  <2>1. /\ UNCHANGED <<watermark, snap, meta, mark, batch>> /\ pc'[k] = "lag"
        /\ batch[k] = << >>
    BY <1>1, <1>8 DEF Cleanup, Goto, redisVars, BatchInv
  <2>2. watermark' > 0 =>
          \A a \in Accounts : /\ FreshThen(w, snap'[a], a, watermark')
                              /\ FreshThen(w, meta'[a], a, watermark')
    BY <2>1, ShownThen
  <2> QED
    BY <2>1, <2>2 DEF PairThen, Rebuild
<1>9. CASE CheckLag(k)
  <2>1. /\ UNCHANGED <<watermark, snap, meta, batch>> /\ pc'[k] \in {"idle", "lock"}
        /\ batch[k] = << >>
    BY <1>1, <1>9 DEF CheckLag, Goto, redisVars, BatchInv
  <2> QED
    BY <2>1, PairClaimsNothing
<1>10. CASE WatermarkFails(k)
  <2>1. UNCHANGED <<watermark, snap, meta>> /\ pc'[k] = "idle" /\ batch'[k] = << >>
    BY <1>1, <1>10 DEF WatermarkFails, Reset, Goto
  <2> QED
    BY <2>1, PairClaimsNothing
<1> QED
  BY <1>3, <1>4, <1>5, <1>6, <1>7, <1>8, <1>9, <1>10 DEF WorkerAct

\* The steps of the rebuild.
LEMMA PairRebuild ==
  ASSUME TInv, NEW w \in Writers, NEW k \in Workers, FreshFacts(w, k), Numbers(k),
         PairInv(w, k), RebuildAct(k), team' # Everyone
  PROVE  PairThen(w, k)
<1>1. /\ TypeOK /\ k \in Tasks /\ k \notin Readers /\ pc \in [Tasks -> TaskStates]
      /\ db \in [Accounts -> Nat] /\ order \in Seq(Tasks)
      /\ load \in [Tasks -> [Accounts -> Nat]] /\ mark \in [Workers -> 0..(nextId - 1)]
  BY OutboxAssumption DEF TInv, TypeOK, Tasks
<1>2. MarkInv(k) /\ SeenInv(k) /\ ShownInv(w) /\ LoadedInv(w, k) /\ PublishedInv(w, k)
  BY DEF PairInv
<1>3. \A a \in Accounts : load[k][a] \in Nat
  BY DEF Numbers
<1>4. ASSUME AfterRebuild(k), pc[k] = "unlock",
             UNCHANGED <<watermark, snap, meta, order, mark, seen>>
      PROVE  PairThen(w, k)
  <2>1. /\ pc'[k] \in {"idle", "get", "mark"}
        /\ pc'[k] = "idle" <=> batch[k] = << >>
        /\ pc'[k] \in {"idle", "mark"} => batch'[k] = << >>
    BY <1>1, <1>4, AfterRebuildFacts
  <2>2. CASE pc'[k] = "idle"
    BY <1>4, <2>1, <2>2, PairClaimsNothing
  <2>3. CASE pc'[k] # "idle"
    <3>1. batch[k] # << >> /\ pc'[k] \in {"get", "mark"}
      BY <2>1, <2>3
    <3>2. k \in seen /\ mark[k] > watermark
      BY <1>2, <1>4, <3>1 DEF SeenInv, MarkInv, Rebuild
    <3>3. ReachThen(k) = Reach(k)
      BY <1>4 DEF Reach, ReachThen
    <3>4. \A a \in Accounts : /\ FreshThen(w, snap'[a], a, ReachThen(k))
                              /\ FreshThen(w, meta'[a], a, ReachThen(k))
      BY <1>2, <1>4, <3>3 DEF PublishedInv, FreshFacts, Numbers
    <3>5. watermark' > 0 =>
            \A a \in Accounts : /\ FreshThen(w, snap'[a], a, watermark')
                                /\ FreshThen(w, meta'[a], a, watermark')
      BY <1>4, ShownThen
    <3> QED
      BY <1>4, <3>1, <3>2, <3>4, <3>5 DEF PairThen, Rebuild
  <2> QED
    BY <2>2, <2>3
<1>5. ASSUME Reset(k), UNCHANGED <<watermark, snap, meta>> PROVE PairThen(w, k)
  <2>1. pc'[k] = "idle" /\ batch'[k] = << >>
    BY <1>1, <1>5 DEF Reset, Goto
  <2> QED
    BY <1>5, <2>1, PairClaimsNothing
<1>6. CASE TryLock(k)
  <2>1. /\ UNCHANGED <<watermark, snap, meta, mark, batch, seen>>
        /\ pc[k] = "lock" /\ pc'[k] = "load"
    BY <1>1, <1>6 DEF TryLock, Goto
  <2>2. batch[k] = << >> \/ (mark[k] > watermark /\ k \in seen)
    BY <1>2, <2>1 DEF MarkInv, SeenInv, Rebuild
  <2> QED
    BY <2>1, <2>2, PairClaimsNothing
<1>7. CASE LoadAccounts(k)
  <2>1. /\ UNCHANGED <<watermark, snap, meta, mark, batch, seen, db>>
        /\ pc[k] = "load" /\ pc'[k] = "allocate" /\ load'[k] = db
    BY <1>1, <1>7 DEF LoadAccounts, Goto, redisVars, writerVars
  <2>2. ReachThen(k) = Reach(k) /\ Reach(k) \in Nat
    BY <2>1 DEF Reach, ReachThen, Numbers
  <2>3. \A a \in Accounts : FreshThen(w, load'[k][a], a, ReachThen(k))
    BY <2>1, <2>2 DEF FreshFacts
  <2>4. watermark' > 0 =>
          \A a \in Accounts : /\ FreshThen(w, snap'[a], a, watermark')
                              /\ FreshThen(w, meta'[a], a, watermark')
    BY <2>1, ShownThen
  <2>5. batch[k] # << >> => mark[k] > watermark /\ k \in seen
    BY <1>2, <2>1 DEF MarkInv, SeenInv, Rebuild
  <2> QED
    BY <2>1, <2>3, <2>4, <2>5 DEF PairThen
<1>8. CASE AllocateVersion(k)
  <2>1. /\ UNCHANGED <<watermark, snap, meta, mark, batch, seen, load>>
        /\ pc[k] = "allocate" /\ pc'[k] = "write" /\ order' = Append(order, k)
    BY <1>1, <1>8 DEF AllocateVersion, Goto
  <2>2. k \in ToSet(order')
    <3>1. /\ order' \in Seq(Tasks) /\ Len(order') = Len(order) + 1
          /\ order'[Len(order) + 1] = k
      BY <1>1, <2>1, AppendProperties
    <3>2. DOMAIN order' = 1..(Len(order) + 1) /\ Len(order) \in Nat
      BY <1>1, <3>1, LenProperties
    <3>3. Len(order) + 1 \in DOMAIN order'
      BY <3>2
    <3> QED
      BY <3>1, <3>3 DEF ToSet
  <2>3. ReachThen(k) = Reach(k)
    BY <2>1 DEF Reach, ReachThen
  <2>4. \A a \in Accounts : FreshThen(w, load'[k][a], a, ReachThen(k))
    BY <1>2, <1>3, <2>1, <2>3 DEF LoadedInv, FreshFacts
  <2>5. watermark' > 0 =>
          \A a \in Accounts : /\ FreshThen(w, snap'[a], a, watermark')
                              /\ FreshThen(w, meta'[a], a, watermark')
    BY <2>1, ShownThen
  <2>6. batch[k] # << >> => mark[k] > watermark /\ k \in seen
    BY <1>2, <2>1 DEF MarkInv, SeenInv, Rebuild
  <2> QED
    BY <2>1, <2>2, <2>4, <2>5, <2>6 DEF PairThen
<1>9. CASE WriteAccounts(k)
  <2>1. /\ UNCHANGED <<watermark, snap, order, mark, batch, seen, load>>
        /\ pc[k] = "write" /\ pc'[k] = "activate" /\ meta' = load[k]
    BY <1>1, <1>9 DEF WriteAccounts, Goto
  <2>2. ReachThen(k) = Reach(k)
    BY <2>1 DEF Reach, ReachThen
  <2>3. \A a \in Accounts : Fresh(w, load[k][a], a, Reach(k))
    BY <1>2, <2>1 DEF LoadedInv
  <2>4. \A a \in Accounts : /\ FreshThen(w, load'[k][a], a, ReachThen(k))
                            /\ FreshThen(w, meta'[a], a, ReachThen(k))
    BY <1>3, <2>1, <2>2, <2>3 DEF FreshFacts
  <2>5. watermark' > 0 =>
          \A a \in Accounts : /\ FreshThen(w, snap'[a], a, watermark')
                              /\ FreshThen(w, meta'[a], a, watermark')
    BY <1>3, <2>1, <2>3, ShownThen
  <2>6. /\ batch[k] # << >> => mark[k] > watermark /\ k \in seen
        /\ k \in ToSet(order)
    BY <1>2, <2>1 DEF MarkInv, SeenInv, Rebuild
  <2> QED
    BY <2>1, <2>4, <2>5, <2>6 DEF PairThen
<1>10. CASE Activate(k)
  <2>1. pc[k] = "activate" /\ k \in ToSet(order)
    BY <1>2, <1>10 DEF Activate, SeenInv
  <2>2. /\ UNCHANGED <<watermark, meta, mark, batch, seen>>
        /\ pc'[k] = "unlock" /\ snap' = load[k]
    BY <1>1, <1>10, <2>1 DEF Activate, Goto
  <2>3. ReachThen(k) = Reach(k)
    BY <2>2 DEF Reach, ReachThen
  <2>4. \A a \in Accounts : /\ Fresh(w, load[k][a], a, Reach(k))
                            /\ Fresh(w, meta[a], a, Reach(k))
    BY <1>2, <2>1 DEF LoadedInv, PublishedInv
  <2>5. \A a \in Accounts : /\ FreshThen(w, snap'[a], a, ReachThen(k))
                            /\ FreshThen(w, meta'[a], a, ReachThen(k))
    BY <2>2, <2>3, <2>4 DEF FreshFacts, Numbers
  <2>6. watermark' > 0 =>
          \A a \in Accounts : /\ FreshThen(w, snap'[a], a, watermark')
                              /\ FreshThen(w, meta'[a], a, watermark')
    BY <1>3, <2>2, <2>4, ShownThen
  <2>7. batch[k] # << >> => mark[k] > watermark /\ k \in seen
    BY <1>2, <2>1 DEF MarkInv, SeenInv, Rebuild
  <2> QED
    BY <2>2, <2>5, <2>6, <2>7 DEF PairThen
<1>11. CASE Unlock(k)
  BY <1>4, <1>11 DEF Unlock
<1>12. CASE UnlockFails(k)
  BY <1>4, <1>12 DEF UnlockFails, redisVars
<1>13. CASE HandleFails(k) \/ Crash(k)
  BY <1>5, <1>13 DEF HandleFails, Crash
<1> QED
  BY <1>6, <1>7, <1>8, <1>9, <1>10, <1>11, <1>12, <1>13 DEF RebuildAct

\* Whatever the pair does, what it owes it keeps owing.
LEMMA PairStep ==
  ASSUME TInv, TeamInv, [Next]_vars, NEW w \in Writers \ TxWriters, NEW k \in Workers,
         team' \subseteq {w, k}, ConsumedInv, PairInv(w, k)
  PROVE  PairInv(w, k)'
<1>1. FreshFacts(w, k) /\ Numbers(k) /\ SyncInv(w)'
  BY FreshApplies, SyncStep DEF PairInv
<1>2. /\ TypeOK /\ WriterType /\ w \in Writers
      /\ pc[k] = "set" => Head(batch[k]) \in Accounts
  <2>1. pc[k] = "set" => batch[k] # << >> /\ batch[k] \in Seq(Accounts)
    BY DEF TInv, TypeOK, BatchInv
  <2> QED
    BY <2>1, HeadTailProperties, TypeParts DEF TInv
<1>3. ASSUME UNCHANGED <<watermark, snap, order, pc, mark, batch, seen, load>>,
             \A a \in Accounts : meta'[a] = meta[a] \/ meta'[a] = db'[a]
      PROVE  PairThen(w, k)
  BY <1>1, <1>2, <1>3, PairStill
<1>4. ASSUME WriterAct(w) PROVE PairThen(w, k)
  <2>1. UNCHANGED <<watermark, snap, order, pc, mark, batch, seen, load>>
    BY <1>2, <1>4, WriterFrames DEF WriterFrame
  <2>2. CASE SyncWrite(w)
    <3>1. /\ meta' = [meta EXCEPT ![target[w]] = copy[w]] /\ db' = db
          /\ copy[w] = db[target[w]]
      BY <2>2 DEF SyncWrite, PairInv, SyncInv
    <3>2. \A a \in Accounts : meta'[a] = meta[a] \/ meta'[a] = db'[a]
      BY <1>2, <3>1 DEF TypeOK
    <3> QED
      BY <1>3, <2>1, <3>2
  <2>3. CASE ~ SyncWrite(w)
    <3>1. meta' = meta
      BY <1>4, <2>3 DEF WriterAct, Change, Enqueue, Commit, SyncRead, Abort, EnqueueFails,
                        redisVars
    <3> QED
      BY <1>3, <2>1, <3>1
  <2> QED
    BY <2>2, <2>3
<1>5. ASSUME NEW i \in DOMAIN rows, Age(i) PROVE PairThen(w, k)
  BY <1>3, <1>5 DEF Age, redisVars, taskVars
<1>6. ASSUME WorkerAct(k) PROVE PairThen(w, k)
  BY <1>1, <1>2, <1>6, PairWorker
<1>7. ASSUME RebuildAct(k), team' # Everyone PROVE PairThen(w, k)
  BY <1>1, <1>2, <1>7, PairRebuild
<1>8. ASSUME Expiry PROVE PairThen(w, k)
  BY <1>3, <1>8 DEF Expiry, LockExpires, LockExpiresEarly, taskVars
<1>9. ASSUME UNCHANGED vars PROVE PairThen(w, k)
  BY <1>3, <1>9 DEF vars, redisVars, taskVars
<1>10. PairThen(w, k)
  BY <1>4, <1>5, <1>6, <1>7, <1>8, <1>9, PairSteps
<1> QED
  BY <1>1, <1>10, PairBridge

FreshInv == TInv /\ QueuedInv /\ TeamInv /\ SoleInv

\* Every step of a team of two keeps what is owed to Redis.
LEMMA SoleStep == FreshInv /\ [Next]_vars => SoleInv'
<1> SUFFICES ASSUME FreshInv, [Next]_vars, NEW w \in Writers \ TxWriters, NEW k \in Workers,
                    team' \subseteq {w, k}
             PROVE  OpenIsLast' /\ ConsumedInv' /\ PairInv(w, k)'
  BY DEF SoleInv
<1>1. TInv /\ QueuedInv /\ TeamInv /\ RowsType
  BY TypeParts DEF FreshInv, TInv
<1>2. /\ team \subseteq {w, k}
      /\ \A v \in Writers \ {w} : wpc[v] = "idle" /\ ~ WriterAct(v)
  BY <1>1, PairSteps
<1>3. OpenIsLast /\ ConsumedInv /\ PairInv(w, k)
  BY <1>2 DEF FreshInv, SoleInv
<1>4. OpenIsLast'
  BY <1>1, <1>2, <1>3, OpenIsLastStep
<1>5. ConsumedInv'
  BY <1>1, <1>3, LastMeansOrder, ConsumedStep
<1>6. PairInv(w, k)'
  BY <1>1, <1>3, PairStep
<1> QED
  BY <1>4, <1>5, <1>6

\* At the start Redis shows nothing and the watermark is zero.
LEMMA FreshInit == Init => FreshInv
<1> SUFFICES ASSUME Init PROVE FreshInv
  OBVIOUS
<1>1. TInv /\ QueuedInv /\ TeamInv
  BY TypeInit DEF Init, QueuedInv, TeamInv
<1>2. OpenIsLast /\ ConsumedInv
  BY DEF Init, OpenIsLast, ConsumedInv, Consumed
<1>3. ASSUME NEW w \in Writers, NEW k \in Workers PROVE PairInv(w, k)
  <2>1. /\ pc[k] = "idle" /\ batch[k] = << >> /\ watermark = 0 /\ wpc[w] = "idle"
    BY <1>3 DEF Init, Tasks
  <2>2. MarkInv(k) /\ SeenInv(k)
    BY <2>1 DEF MarkInv, SeenInv, Rebuild
  <2>3. ShownInv(w) /\ LoadedInv(w, k) /\ PublishedInv(w, k) /\ SyncInv(w)
    BY <2>1 DEF ShownInv, LoadedInv, PublishedInv, SyncInv
  <2> QED
    BY <2>2, <2>3 DEF PairInv
<1> QED
  BY <1>1, <1>2, <1>3 DEF FreshInv, SoleInv

\* With nothing owed above the watermark, Redis and the database agree.
LEMMA FreshImplies == FreshInv => QuietIsFresh
<1> SUFFICES ASSUME FreshInv, Sole(team), Quiet, watermark > 0 PROVE snap = db /\ meta = db
  BY DEF QuietIsFresh
<1>1. PICK w \in Writers \ TxWriters, k \in Workers : team \subseteq {w, k}
  BY DEF Sole
<1>2. ShownInv(w)
  BY <1>1 DEF FreshInv, SoleInv, PairInv
<1>3. /\ TypeOK /\ RowsType /\ QueuedInv /\ wpc[w] = "idle"
      /\ \A v \in Writers : wpc[v] = "idle"
      /\ Pending(watermark) = {}
  BY <1>1, TypeParts DEF FreshInv, TInv, Quiet
<1>4. \A i \in DOMAIN rows : rows[i].by = None
  BY <1>3 DEF QueuedInv, RowsType, Row
<1>5. \A i \in DOMAIN rows : ~ (i > watermark)
  BY <1>3, <1>4 DEF Pending, Committed
<1>6. \A a \in Accounts : snap[a] = db[a] /\ meta[a] = db[a]
  BY <1>2, <1>3, <1>5 DEF ShownInv, Fresh
<1> QED
  BY <1>3, <1>6 DEF TypeOK

\* As long as one autocommitting writer and one poller have shared the outbox
\* with nobody, whatever failed on the way, a poller that has caught up shows
\* the database: the deduplication of events, a batch that failed half-way, a
\* dropped version or the writer's own refresh swallows no change for good.
THEOREM CaughtUpIsFresh == Spec => []QuietIsFresh
<1>1. FreshInv /\ [Next]_vars => FreshInv'
  BY TypeStep, QueuedStep, TeamStep, SoleStep DEF FreshInv
<1> QED
  BY <1>1, FreshInit, FreshImplies, PTL DEF Spec
=============================================================================

------------------------- MODULE UsageBillingProofs -------------------------
(***************************************************************************)
(* Theorems about UsageBilling, for any number of tasks and identifiers,   *)
(* any pool and any failures.                                              *)
(*                                                                         *)
(* That an identifier is charged once is not inductive: it rests on what   *)
(* the rows of the deduplication table and of its archive say of the       *)
(* charge, and on the inserted row that keeps other transactions out while *)
(* the archive is looked up.                                               *)
(***************************************************************************)
EXTENDS UsageBilling, SequenceTheorems, TLAPS

\* A transaction between its insertion and its end owns the row of its
\* identifier, which nobody has committed; once it has looked the archive
\* up, there is none there either.
Exclusive ==
    \A t \in Tasks :
        /\ stage[t] \in {"archive", "effects"} =>
              owner[JobOf[t]] = t /\ dedup[JobOf[t]] = Absent
        /\ stage[t] = "effects" => archive[JobOf[t]] = Absent

\* The rows say what has been charged.
Recorded ==
    \A j \in Jobs :
        /\ dedup[j] # Absent => charged[j] = <<dedup[j]>>
        /\ archive[j] # Absent => charged[j] = <<archive[j]>>
        /\ dedup[j] = Absent /\ archive[j] = Absent => charged[j] = <<>>

\* A billing that returned no error charged its price, now or before.
Confirmed ==
    \A t \in Tasks : stage[t] = "log" /\ ok[t] => charged[JobOf[t]] = <<price[t]>>

Ledger == Exclusive /\ Recorded /\ Confirmed /\ LogShowsCharge

\* A claim that no failure kept belongs to a charged job or to a task of the
\* job that is at work; only videos come to claim.
ClaimHeld ==
    /\ \A j \in Jobs : claim[j] /\ j \notin burnt =>
          charged[j] # <<>> \/ \E t \in Tasks : Video(t) /\ JobOf[t] = j /\ Alive(t)
    /\ \A t \in Tasks : stage[t] = "claim" => Video(t)

IInv == TypeOK /\ Ledger /\ ClaimHeld

-----------------------------------------------------------------------------
\* The type invariant, by owner of the state.
TaskType ==
    /\ stage \in [Tasks -> Stages]
    /\ price \in [Tasks -> Prices]
    /\ ok \in [Tasks -> BOOLEAN]
    /\ late \in [Tasks -> BOOLEAN]

PoolType ==
    /\ queue \in Seq(Tasks)
    /\ inPool \in SUBSET Tasks
    /\ workers \in MinWorkers .. MaxWorkers
    /\ stopped \in BOOLEAN

DbType ==
    /\ dedup \in [Jobs -> Prices \union {Absent}]
    /\ owner \in [Jobs -> Tasks \union {None}]
    /\ archive \in [Jobs -> Prices \union {Absent}]
    /\ charged \in [Jobs -> Seq(Prices)]
    /\ log \in [Jobs -> Prices \union {Absent, Zero}]

RedisType ==
    /\ pending \in [Jobs -> {"none", "stored", "missing"}]
    /\ claim \in [Jobs -> BOOLEAN]

HistoryType ==
    /\ hit \in SUBSET Tasks
    /\ burnt \in SUBSET Jobs
    /\ faults \in Nat

\* A sequence of one element is not empty.
LEMMA OneNotEmpty == ASSUME NEW x PROVE <<x>> # <<>> /\ Len(<<x>>) = 1 /\ Len(<<>>) = 0
  OBVIOUS

\* The count of failures is a number.
LEMMA FaultsType ==
    ASSUME TypeOK, UNCHANGED faults \/ faults' = faults + 1
    PROVE  faults' \in Nat
  BY DEF TypeOK

\* The scaler stays within its bounds.
LEMMA ScaledInBounds ==
    ASSUME workers \in MinWorkers .. MaxWorkers
    PROVE  /\ ScaledUp \in MinWorkers .. MaxWorkers
           /\ ScaledDown \in MinWorkers .. MaxWorkers
  BY ConstantsAssumption DEF ScaledUp, ScaledDown

\* Every step keeps the types.
LEMMA TypeStep ==
    TypeOK /\ [Next]_vars => TypeOK'
<1> SUFFICES ASSUME TypeOK, [Next]_vars
             PROVE  TypeOK'
  OBVIOUS
<1>1. ASSUME NEW t \in Tasks, EndRequest(t)
       PROVE  TypeOK'
  BY <1>1, ConstantsAssumption DEF EndRequest, Goto, taskVars, poolVars,
     dbVars, redisVars, history, TypeOK, Stages, Running, InTransaction,
     Prices
<1>2. ASSUME NEW t \in Tasks, LoadPendingBilling(t)
       PROVE  TypeOK'
  <2>0. JobOf[t] \in Jobs
    BY ConstantsAssumption
  <2>1. TaskType'
    BY <1>2 DEF LoadPendingBilling, Goto, taskVars, TaskType, TypeOK,
       Stages, Running, InTransaction, Prices
  <2>2. PoolType'
    BY <1>2, ConstantsAssumption DEF LoadPendingBilling, poolVars,
       PoolType, TypeOK
  <2>3. DbType'
    BY <1>2, ConstantsAssumption DEF LoadPendingBilling, dbVars, DbType,
       TypeOK, Prices
  <2>4. RedisType'
    BY <1>2, ConstantsAssumption DEF LoadPendingBilling, redisVars,
       RedisType, TypeOK
  <2>5. HistoryType'
    BY <1>2, <2>0, FaultsType DEF LoadPendingBilling, Fault, history,
       HistoryType, TypeOK
  <2> QED
    BY <2>1, <2>2, <2>3, <2>4, <2>5
       DEF TypeOK, TaskType, PoolType, DbType, RedisType, HistoryType
<1>3. ASSUME NEW t \in Tasks, ClaimVideoBilling(t)
       PROVE  TypeOK'
  BY <1>3, ConstantsAssumption DEF ClaimVideoBilling, Goto, taskVars,
     poolVars, dbVars, redisVars, history, TypeOK, Stages, Running,
     InTransaction, Prices
<1>4. ASSUME NEW t \in Tasks, ClaimVideoBillingFails(t)
       PROVE  TypeOK'
  <2>0. JobOf[t] \in Jobs
    BY ConstantsAssumption
  <2>1. TaskType'
    BY <1>4 DEF ClaimVideoBillingFails, Goto, taskVars, TaskType, TypeOK,
       Stages, Running, InTransaction, Prices
  <2>2. PoolType'
    BY <1>4, ConstantsAssumption DEF ClaimVideoBillingFails, poolVars,
       PoolType, TypeOK
  <2>3. DbType'
    BY <1>4, ConstantsAssumption DEF ClaimVideoBillingFails, dbVars,
       DbType, TypeOK, Prices
  <2>4. RedisType'
    BY <1>4, ConstantsAssumption DEF ClaimVideoBillingFails, redisVars,
       RedisType, TypeOK
  <2>5. HistoryType'
    BY <1>4, <2>0, FaultsType DEF ClaimVideoBillingFails, Fault, history,
       HistoryType, TypeOK
  <2> QED
    BY <2>1, <2>2, <2>3, <2>4, <2>5
       DEF TypeOK, TaskType, PoolType, DbType, RedisType, HistoryType
<1>5. ASSUME NEW t \in Tasks, SubmitUsageRecordTask(t)
       PROVE  TypeOK'
  <2>0. JobOf[t] \in Jobs
    BY ConstantsAssumption
  <2>1. TaskType'
    BY <1>5 DEF SubmitUsageRecordTask, Overflow, Enqueue, RunInline, Goto,
       taskVars, TaskType, TypeOK, Stages, Running, InTransaction, Prices
  <2>2. PoolType'
    <3>1. UNCHANGED <<inPool, workers, stopped>> /\ (queue' = queue \/ queue' = Append(queue, t))
      BY <1>5 DEF SubmitUsageRecordTask, Overflow, Enqueue, RunInline
    <3>2. queue' \in Seq(Tasks)
      <4>1. Append(queue, t) \in Seq(Tasks)
        BY DEF TypeOK
      <4> QED
        BY <3>1, <4>1 DEF TypeOK
    <3> QED
      BY <3>1, <3>2 DEF PoolType, TypeOK
  <2>3. DbType'
    BY <1>5, ConstantsAssumption DEF SubmitUsageRecordTask, Overflow,
       Enqueue, RunInline, dbVars, DbType, TypeOK, Prices
  <2>4. RedisType'
    BY <1>5, ConstantsAssumption DEF SubmitUsageRecordTask, Overflow,
       Enqueue, RunInline, redisVars, RedisType, TypeOK
  <2>5. HistoryType'
    BY <1>5, <2>0, FaultsType DEF SubmitUsageRecordTask, Overflow, Enqueue,
       RunInline, Fault, history, HistoryType, TypeOK
  <2> QED
    BY <2>1, <2>2, <2>3, <2>4, <2>5
       DEF TypeOK, TaskType, PoolType, DbType, RedisType, HistoryType
<1>6. ASSUME NEW t \in Tasks, InsertDedup(t)
       PROVE  TypeOK'
  <2>0. JobOf[t] \in Jobs
    BY ConstantsAssumption
  <2>1. TaskType'
    BY <1>6 DEF InsertDedup, Goto, taskVars, TaskType, TypeOK, Stages,
       Running, InTransaction, Prices
  <2>2. PoolType'
    BY <1>6, ConstantsAssumption DEF InsertDedup, poolVars, PoolType,
       TypeOK
  <2>3. DbType'
    <3>1. UNCHANGED <<dedup, archive, charged, log>>
          /\ (owner' = owner \/ owner' = [owner EXCEPT ![JobOf[t]] = t])
      BY <1>6 DEF InsertDedup
    <3> QED
      BY <2>0, <3>1 DEF DbType, TypeOK
  <2>4. RedisType'
    BY <1>6, ConstantsAssumption DEF InsertDedup, redisVars, RedisType,
       TypeOK
  <2>5. HistoryType'
    BY <1>6, <2>0, FaultsType DEF InsertDedup, Fault, history, HistoryType,
       TypeOK
  <2> QED
    BY <2>1, <2>2, <2>3, <2>4, <2>5
       DEF TypeOK, TaskType, PoolType, DbType, RedisType, HistoryType
<1>7. ASSUME NEW t \in Tasks, CompareDedup(t)
       PROVE  TypeOK'
  BY <1>7, ConstantsAssumption DEF CompareDedup, Result, Goto, taskVars,
     poolVars, dbVars, redisVars, history, TypeOK, Stages, Running,
     InTransaction, Prices
<1>8. ASSUME NEW t \in Tasks, CheckArchive(t)
       PROVE  TypeOK'
  <2>0. JobOf[t] \in Jobs
    BY ConstantsAssumption
  <2>1. TaskType'
    BY <1>8 DEF CheckArchive, Result, Rollback, Goto, taskVars, TaskType,
       TypeOK, Stages, Running, InTransaction, Prices, SameRequest
  <2>2. PoolType'
    BY <1>8, ConstantsAssumption DEF CheckArchive, Result, Rollback,
       poolVars, PoolType, TypeOK
  <2>3. DbType'
    BY <1>8, ConstantsAssumption DEF CheckArchive, Result, Rollback,
       dbVars, DbType, TypeOK, Prices
  <2>4. RedisType'
    BY <1>8, ConstantsAssumption DEF CheckArchive, Result, Rollback,
       redisVars, RedisType, TypeOK
  <2>5. HistoryType'
    BY <1>8, <2>0, FaultsType DEF CheckArchive, Result, Rollback, Fault,
       history, HistoryType, TypeOK
  <2> QED
    BY <2>1, <2>2, <2>3, <2>4, <2>5
       DEF TypeOK, TaskType, PoolType, DbType, RedisType, HistoryType
<1>9. ASSUME NEW t \in Tasks, ApplyEffects(t)
       PROVE  TypeOK'
  <2>0. JobOf[t] \in Jobs
    BY ConstantsAssumption
  <2>1. TaskType'
    BY <1>9 DEF ApplyEffects, Result, Commit, Goto, taskVars, TaskType,
       TypeOK, Stages, Running, InTransaction, Prices
  <2>2. PoolType'
    BY <1>9, ConstantsAssumption DEF ApplyEffects, Result, Commit,
       poolVars, PoolType, TypeOK
  <2>3. DbType'
    <3>1. Append(charged[JobOf[t]], price[t]) \in Seq(Prices) /\ price[t] \in Prices
      BY <2>0 DEF TypeOK
    <3> QED
      BY <1>9, <2>0, <3>1 DEF ApplyEffects, Commit, DbType, TypeOK
  <2>4. RedisType'
    BY <1>9, ConstantsAssumption DEF ApplyEffects, Result, Commit,
       redisVars, RedisType, TypeOK
  <2>5. HistoryType'
    BY <1>9, <2>0, FaultsType DEF ApplyEffects, Result, Commit, Fault,
       history, HistoryType, TypeOK
  <2> QED
    BY <2>1, <2>2, <2>3, <2>4, <2>5
       DEF TypeOK, TaskType, PoolType, DbType, RedisType, HistoryType
<1>10. ASSUME NEW t \in Tasks, CommitAnswerLost(t)
       PROVE  TypeOK'
  <2>0. JobOf[t] \in Jobs
    BY ConstantsAssumption
  <2>1. TaskType'
    BY <1>10 DEF CommitAnswerLost, Result, Commit, Goto, taskVars, TaskType,
       TypeOK, Stages, Running, InTransaction, Prices
  <2>2. PoolType'
    BY <1>10, ConstantsAssumption DEF CommitAnswerLost, Result, Commit,
       poolVars, PoolType, TypeOK
  <2>3. DbType'
    <3>1. Append(charged[JobOf[t]], price[t]) \in Seq(Prices) /\ price[t] \in Prices
      BY <2>0 DEF TypeOK
    <3> QED
      BY <1>10, <2>0, <3>1 DEF CommitAnswerLost, Commit, DbType, TypeOK
  <2>4. RedisType'
    BY <1>10, ConstantsAssumption DEF CommitAnswerLost, Result, Commit,
       redisVars, RedisType, TypeOK
  <2>5. HistoryType'
    BY <1>10, <2>0, FaultsType DEF CommitAnswerLost, Result, Commit, Fault,
       history, HistoryType, TypeOK
  <2> QED
    BY <2>1, <2>2, <2>3, <2>4, <2>5
       DEF TypeOK, TaskType, PoolType, DbType, RedisType, HistoryType
<1>11. ASSUME NEW t \in Tasks, TransactionFails(t)
       PROVE  TypeOK'
  BY <1>11, ConstantsAssumption DEF TransactionFails, Result, Rollback,
     Fault, Goto, taskVars, poolVars, dbVars, redisVars, history, TypeOK,
     Stages, Running, InTransaction, Prices
<1>12. ASSUME NEW t \in Tasks, ContextExpires(t)
       PROVE  TypeOK'
  BY <1>12, ConstantsAssumption DEF ContextExpires, Fault, Goto, taskVars,
     poolVars, dbVars, redisVars, history, TypeOK, Stages, Running,
     InTransaction, Prices
<1>13. ASSUME NEW t \in Tasks, WriteUsageLog(t)
       PROVE  TypeOK'
  <2>0. JobOf[t] \in Jobs
    BY ConstantsAssumption
  <2>1. TaskType'
    <3>1. CASE Video(t) /\ ~ok[t]
      BY <1>13, <3>1 DEF WriteUsageLog, AfterLog, Goto, TaskType, TypeOK, Stages, Running
    <3>2. CASE ~(Video(t) /\ ~ok[t])
      BY <1>13, <3>2 DEF WriteUsageLog, AfterLog, Finish, Goto, TaskType, TypeOK, Stages, Running
    <3> QED
      BY <3>1, <3>2
  <2>2. PoolType'
    BY <1>13, ConstantsAssumption DEF WriteUsageLog, AfterLog, Finish,
       poolVars, PoolType, TypeOK
  <2>3. DbType'
    BY <1>13, ConstantsAssumption DEF WriteUsageLog, AfterLog, Finish,
       Logged, dbVars, DbType, TypeOK, Prices
  <2>4. RedisType'
    BY <1>13, ConstantsAssumption DEF WriteUsageLog, AfterLog, Finish,
       redisVars, RedisType, TypeOK
  <2>5. HistoryType'
    BY <1>13, <2>0, FaultsType DEF WriteUsageLog, AfterLog, Finish, Fault,
       history, HistoryType, TypeOK
  <2> QED
    BY <2>1, <2>2, <2>3, <2>4, <2>5
       DEF TypeOK, TaskType, PoolType, DbType, RedisType, HistoryType
<1>14. ASSUME NEW t \in Tasks, WriteUsageLogFails(t)
       PROVE  TypeOK'
  <2>0. JobOf[t] \in Jobs
    BY ConstantsAssumption
  <2>1. TaskType'
    <3>1. CASE Video(t) /\ ~ok[t]
      BY <1>14, <3>1 DEF WriteUsageLogFails, AfterLog, Goto, TaskType, TypeOK, Stages, Running
    <3>2. CASE ~(Video(t) /\ ~ok[t])
      BY <1>14, <3>2 DEF WriteUsageLogFails, AfterLog, Finish, Goto, TaskType, TypeOK, Stages, Running
    <3> QED
      BY <3>1, <3>2
  <2>2. PoolType'
    BY <1>14, ConstantsAssumption DEF WriteUsageLogFails, AfterLog, Finish,
       poolVars, PoolType, TypeOK
  <2>3. DbType'
    BY <1>14, ConstantsAssumption DEF WriteUsageLogFails, AfterLog, Finish,
       dbVars, DbType, TypeOK, Prices
  <2>4. RedisType'
    BY <1>14, ConstantsAssumption DEF WriteUsageLogFails, AfterLog, Finish,
       redisVars, RedisType, TypeOK
  <2>5. HistoryType'
    BY <1>14, <2>0, FaultsType DEF WriteUsageLogFails, AfterLog, Finish,
       Fault, history, HistoryType, TypeOK
  <2> QED
    BY <2>1, <2>2, <2>3, <2>4, <2>5
       DEF TypeOK, TaskType, PoolType, DbType, RedisType, HistoryType
<1>15. ASSUME NEW t \in Tasks, ReleaseVideoBilling(t)
       PROVE  TypeOK'
  <2>0. JobOf[t] \in Jobs
    BY ConstantsAssumption
  <2>1. TaskType'
    BY <1>15 DEF ReleaseVideoBilling, Finish, Goto, taskVars, TaskType,
       TypeOK, Stages, Running, InTransaction, Prices
  <2>2. PoolType'
    BY <1>15, ConstantsAssumption DEF ReleaseVideoBilling, Finish, poolVars,
       PoolType, TypeOK
  <2>3. DbType'
    BY <1>15, ConstantsAssumption DEF ReleaseVideoBilling, Finish, dbVars,
       DbType, TypeOK, Prices
  <2>4. RedisType'
    BY <1>15, ConstantsAssumption DEF ReleaseVideoBilling, Finish,
       redisVars, RedisType, TypeOK
  <2>5. HistoryType'
    BY <1>15, <2>0, FaultsType DEF ReleaseVideoBilling, Finish, Fault,
       history, HistoryType, TypeOK
  <2> QED
    BY <2>1, <2>2, <2>3, <2>4, <2>5
       DEF TypeOK, TaskType, PoolType, DbType, RedisType, HistoryType
<1>16. ASSUME NEW j \in Jobs, CreateVideo(j)
       PROVE  TypeOK'
  <2>1. TaskType'
    BY <1>16 DEF CreateVideo, Goto, taskVars, TaskType, TypeOK, Stages,
       Running, InTransaction, Prices
  <2>2. PoolType'
    BY <1>16, ConstantsAssumption DEF CreateVideo, poolVars, PoolType,
       TypeOK
  <2>3. DbType'
    BY <1>16, ConstantsAssumption DEF CreateVideo, dbVars, DbType, TypeOK,
       Prices
  <2>4. RedisType'
    BY <1>16, ConstantsAssumption DEF CreateVideo, redisVars, RedisType,
       TypeOK
  <2>5. HistoryType'
    BY <1>16, ConstantsAssumption, FaultsType DEF CreateVideo, Fault,
       history, HistoryType, TypeOK
  <2> QED
    BY <2>1, <2>2, <2>3, <2>4, <2>5
       DEF TypeOK, TaskType, PoolType, DbType, RedisType, HistoryType
<1>17. ASSUME NEW j \in Jobs, PendingExpires(j)
       PROVE  TypeOK'
  BY <1>17, ConstantsAssumption DEF PendingExpires, Goto, taskVars,
     poolVars, dbVars, redisVars, history, TypeOK, Stages, Running,
     InTransaction, Prices
<1>18. ASSUME NEW j \in Jobs, ClaimExpires(j)
       PROVE  TypeOK'
  BY <1>18, ConstantsAssumption DEF ClaimExpires, Fault, Goto, taskVars,
     poolVars, dbVars, redisVars, history, TypeOK, Stages, Running,
     InTransaction, Prices
<1>19. ASSUME NEW j \in Jobs, CleanupUsageBillingDedup(j)
       PROVE  TypeOK'
  BY <1>19, ConstantsAssumption DEF CleanupUsageBillingDedup, Goto,
     taskVars, poolVars, dbVars, redisVars, history, TypeOK, Stages, Running,
     InTransaction, Prices
<1>20. ASSUME ExecuteTask
       PROVE  TypeOK'
  <2>1. Head(queue) \in Tasks /\ Tail(queue) \in Seq(Tasks)
    BY <1>20 DEF ExecuteTask, TypeOK
  <2> QED
    BY <1>20, <2>1
       DEF ExecuteTask, Goto, TypeOK, Stages, Running, InTransaction, dbVars, redisVars, history
<1>21. ASSUME AutoScaleTick
       PROVE  TypeOK'
  <2>1. workers' \in MinWorkers .. MaxWorkers
    BY <1>21, ScaledInBounds DEF AutoScaleTick, TypeOK
  <2> QED
    BY <1>21, <2>1 DEF AutoScaleTick, TypeOK, taskVars, dbVars, redisVars, history
<1>22. ASSUME StopPool
       PROVE  TypeOK'
  BY <1>22, ConstantsAssumption DEF StopPool, Goto, taskVars, poolVars,
     dbVars, redisVars, history, TypeOK, Stages, Running, InTransaction,
     Prices
<1>23. ASSUME Restart
       PROVE  TypeOK'
  BY <1>23, ConstantsAssumption DEF Restart, Goto, taskVars, poolVars,
     dbVars, redisVars, history, TypeOK, Stages, Running, InTransaction,
     Prices
<1>24. ASSUME Crash
       PROVE  TypeOK'
  <2>1. TaskType'
    BY <1>24 DEF Crash, Goto, taskVars, TaskType, TypeOK, Stages, Running,
       InTransaction, Prices
  <2>2. PoolType'
    <3>1. queue' = <<>> /\ inPool' = {} /\ workers' = WorkerCount /\ stopped' = FALSE
      BY <1>24 DEF Crash
    <3>2. queue' \in Seq(Tasks)
      BY <3>1
    <3>3. inPool' \in SUBSET Tasks /\ workers' \in MinWorkers .. MaxWorkers /\ stopped' \in BOOLEAN
      BY <3>1, ConstantsAssumption
    <3> QED
      BY <3>2, <3>3 DEF PoolType
  <2>3. DbType'
    BY <1>24, ConstantsAssumption DEF Crash, dbVars, DbType, TypeOK, Prices
  <2>4. RedisType'
    BY <1>24, ConstantsAssumption DEF Crash, redisVars, RedisType, TypeOK
  <2>5. HistoryType'
    <3>1. hit' \in SUBSET Tasks /\ burnt' \in SUBSET Jobs
      BY <1>24, ConstantsAssumption DEF Crash, TypeOK
    <3>2. faults' \in Nat
      BY <1>24, FaultsType DEF Crash, Fault
    <3> QED
      BY <3>1, <3>2 DEF HistoryType
  <2> QED
    BY <2>1, <2>2, <2>3, <2>4, <2>5
       DEF TypeOK, TaskType, PoolType, DbType, RedisType, HistoryType
<1>25. ASSUME UNCHANGED vars
       PROVE  TypeOK'
  BY <1>25, ConstantsAssumption DEF vars, Goto, taskVars, poolVars, dbVars,
     redisVars, history, TypeOK, Stages, Running, InTransaction, Prices
<1> QED
  BY <1>1, <1>2, <1>3, <1>4, <1>5, <1>6, <1>7, <1>8, <1>9, <1>10, <1>11,
     <1>12, <1>13, <1>14, <1>15, <1>16, <1>17, <1>18, <1>19, <1>20, <1>21,
     <1>22, <1>23, <1>24, <1>25 DEF Next, TaskStep, TaskFails

\* A step that neither touches the database nor moves a task to a stage that
\* the ledger speaks of.
Quiet ==
    /\ UNCHANGED <<dedup, owner, archive, charged, log>>
    /\ \A t \in Tasks : stage'[t] \in {"archive", "effects", "log"} =>
           stage'[t] = stage[t] /\ ok'[t] = ok[t] /\ price'[t] = price[t]

\* A step away from the ledger keeps it.
LEMMA QuietStep == Ledger /\ Quiet => Ledger'
<1> SUFFICES ASSUME Ledger, Quiet
             PROVE  Ledger'
  OBVIOUS
<1>1. Exclusive'
  BY DEF Ledger, Exclusive, Quiet
<1>2. Recorded' /\ LogShowsCharge'
  BY DEF Ledger, Recorded, LogShowsCharge, Quiet
<1>3. Confirmed'
  BY DEF Ledger, Confirmed, Quiet
<1> QED
  BY <1>1, <1>2, <1>3 DEF Ledger

\* Every step keeps the ledger.
LEMMA LedgerStep ==
    TypeOK /\ Ledger /\ [Next]_vars => Ledger'
<1> SUFFICES ASSUME TypeOK, Ledger, [Next]_vars
             PROVE  Ledger'
  OBVIOUS
<1>1. ASSUME NEW t \in Tasks, EndRequest(t)
       PROVE  Ledger'
  <2>1. Quiet
    BY <1>1 DEF Quiet, EndRequest, Goto, taskVars, poolVars, dbVars,
       redisVars, history, TypeOK
  <2> QED
    BY <2>1, QuietStep
<1>2. ASSUME NEW t \in Tasks, LoadPendingBilling(t)
       PROVE  Ledger'
  <2>1. Quiet
    BY <1>2 DEF Quiet, LoadPendingBilling, Fault, Goto, taskVars, poolVars,
       dbVars, redisVars, history, TypeOK
  <2> QED
    BY <2>1, QuietStep
<1>3. ASSUME NEW t \in Tasks, ClaimVideoBilling(t)
       PROVE  Ledger'
  <2>1. Quiet
    BY <1>3 DEF Quiet, ClaimVideoBilling, Goto, taskVars, poolVars, dbVars,
       redisVars, history, TypeOK
  <2> QED
    BY <2>1, QuietStep
<1>4. ASSUME NEW t \in Tasks, ClaimVideoBillingFails(t)
       PROVE  Ledger'
  <2>1. Quiet
    BY <1>4 DEF Quiet, ClaimVideoBillingFails, Fault, Goto, taskVars,
       poolVars, dbVars, redisVars, history, TypeOK
  <2> QED
    BY <2>1, QuietStep
<1>5. ASSUME NEW t \in Tasks, SubmitUsageRecordTask(t)
       PROVE  Ledger'
  <2>1. Quiet
    BY <1>5 DEF Quiet, SubmitUsageRecordTask, Overflow, Enqueue, RunInline,
       Goto, taskVars, poolVars, dbVars, redisVars, history, TypeOK
  <2> QED
    BY <2>1, QuietStep
<1>6. ASSUME NEW t \in Tasks, InsertDedup(t)
       PROVE  Ledger'
  <2>1. Exclusive'
    BY <1>6, ConstantsAssumption DEF InsertDedup, Goto, Ledger, Exclusive,
       TypeOK
  <2>2. Recorded'
    BY <1>6 DEF InsertDedup, dbVars, Ledger, Recorded
  <2>3. Confirmed'
    BY <1>6, ConstantsAssumption DEF InsertDedup, Goto, dbVars, Ledger,
       Recorded, Confirmed, SameRequest, TypeOK, Prices, Absent
  <2>4. LogShowsCharge'
    BY <1>6 DEF InsertDedup, dbVars, Ledger, LogShowsCharge
  <2> QED
    BY <2>1, <2>2, <2>3, <2>4 DEF Ledger
<1>7. ASSUME NEW t \in Tasks, CompareDedup(t)
       PROVE  Ledger'
  <2>1. Exclusive'
    BY <1>7, ConstantsAssumption DEF CompareDedup, Result, Goto, dbVars, Ledger,
       Exclusive, TypeOK
  <2>2. Recorded'
    BY <1>7 DEF CompareDedup, Result, dbVars, Ledger, Recorded
  <2>3. Confirmed'
    <3>1. \A u \in Tasks : u # t => stage'[u] = stage[u] /\ ok'[u] = ok[u]
      BY <1>7 DEF CompareDedup, Result, Goto, TypeOK
    <3>2. stage'[t] = "log" /\ ok'[t] => dedup[JobOf[t]] # Absent /\ dedup[JobOf[t]] = price[t]
      BY <1>7 DEF CompareDedup, Result, Goto, SameRequest, TypeOK
    <3>3. stage'[t] = "log" /\ ok'[t] => charged[JobOf[t]] = <<price[t]>>
      BY <3>2, ConstantsAssumption DEF Ledger, Recorded
    <3>4. UNCHANGED <<price, charged>>
      BY <1>7 DEF CompareDedup, dbVars
    <3> QED
      BY <3>1, <3>3, <3>4 DEF Ledger, Confirmed
  <2>4. LogShowsCharge'
    BY <1>7 DEF CompareDedup, Result, dbVars, Ledger, LogShowsCharge
  <2> QED
    BY <2>1, <2>2, <2>3, <2>4 DEF Ledger
<1>8. ASSUME NEW t \in Tasks, CheckArchive(t)
       PROVE  Ledger'
  <2>1. Exclusive'
    BY <1>8, ConstantsAssumption DEF CheckArchive, Result, Rollback, Goto,
       Ledger, Exclusive, TypeOK
  <2>2. Recorded'
    BY <1>8 DEF CheckArchive, Result, Rollback, dbVars, Ledger, Recorded
  <2>3. Confirmed'
    <3>1. \A u \in Tasks : u # t => stage'[u] = stage[u] /\ ok'[u] = ok[u]
      BY <1>8 DEF CheckArchive, Result, Goto, TypeOK
    <3>2. stage'[t] = "log" /\ ok'[t] => archive[JobOf[t]] # Absent /\ archive[JobOf[t]] = price[t]
      BY <1>8 DEF CheckArchive, Result, Goto, SameRequest, TypeOK
    <3>3. stage'[t] = "log" /\ ok'[t] => charged[JobOf[t]] = <<price[t]>>
      BY <3>2, ConstantsAssumption DEF Ledger, Recorded
    <3>4. UNCHANGED <<price, charged>>
      BY <1>8 DEF CheckArchive, dbVars
    <3> QED
      BY <3>1, <3>3, <3>4 DEF Ledger, Confirmed
  <2>4. LogShowsCharge'
    BY <1>8 DEF CheckArchive, Result, Rollback, dbVars, Ledger,
       LogShowsCharge
  <2> QED
    BY <2>1, <2>2, <2>3, <2>4 DEF Ledger
<1>9. ASSUME NEW t \in Tasks, ApplyEffects(t)
       PROVE  Ledger'
  <2> DEFINE i == JobOf[t]
  <2>1. charged[i] = <<>> /\ i \in Jobs /\ archive[i] = Absent /\ owner[i] = t
    BY <1>9, ConstantsAssumption DEF ApplyEffects, Ledger, Exclusive, Recorded
  <2>2. charged'[i] = <<price[t]>>
    BY <1>9, <2>1 DEF ApplyEffects, Commit, TypeOK
  <2>3. \A k \in Jobs : k # i => charged'[k] = charged[k] /\ dedup'[k] = dedup[k] /\ owner'[k] = owner[k]
    BY <1>9 DEF ApplyEffects, Commit, TypeOK
  <2>4. archive' = archive /\ price' = price /\ dedup'[i] = price[t] /\ price[t] # Absent
    BY <1>9, <2>1 DEF ApplyEffects, Commit, TypeOK, Prices, Absent
  <2>5. \A u \in Tasks : u # t => stage'[u] = stage[u] /\ ok'[u] = ok[u]
    BY <1>9 DEF ApplyEffects, Result, Goto, TypeOK
  <2>6. stage'[t] = "log"
    BY <1>9 DEF ApplyEffects, Result, Goto, TypeOK
  <2>7. \A u \in Tasks : u # t /\ stage[u] \in {"archive", "effects"} => JobOf[u] # i
    BY <2>1 DEF Ledger, Exclusive
  <2>8. Exclusive'
    BY <2>3, <2>4, <2>5, <2>6, <2>7, ConstantsAssumption DEF Ledger, Exclusive
  <2>9. Recorded'
    BY <2>1, <2>2, <2>3, <2>4 DEF Ledger, Recorded
  <2>10. Confirmed'
    <3>1. \A u \in Tasks : u # t /\ stage[u] = "log" /\ ok[u] => JobOf[u] # i
      BY <2>1, OneNotEmpty DEF Ledger, Confirmed
    <3> QED
      BY <2>2, <2>3, <2>4, <2>5, <3>1, ConstantsAssumption DEF Ledger, Confirmed
  <2>11. LogShowsCharge'
    <3>1. log[i] \notin Prices
      BY <2>1 DEF Ledger, LogShowsCharge
    <3> QED
      BY <1>9, <2>3, <3>1 DEF ApplyEffects, Ledger, LogShowsCharge
  <2> QED
    BY <2>8, <2>9, <2>10, <2>11 DEF Ledger
<1>10. ASSUME NEW t \in Tasks, CommitAnswerLost(t)
       PROVE  Ledger'
  <2> DEFINE i == JobOf[t]
  <2>1. charged[i] = <<>> /\ i \in Jobs /\ archive[i] = Absent /\ owner[i] = t
    BY <1>10, ConstantsAssumption DEF CommitAnswerLost, Ledger, Exclusive, Recorded
  <2>2. charged'[i] = <<price[t]>>
    BY <1>10, <2>1 DEF CommitAnswerLost, Commit, TypeOK
  <2>3. \A k \in Jobs : k # i => charged'[k] = charged[k] /\ dedup'[k] = dedup[k] /\ owner'[k] = owner[k]
    BY <1>10 DEF CommitAnswerLost, Commit, TypeOK
  <2>4. archive' = archive /\ price' = price /\ dedup'[i] = price[t] /\ price[t] # Absent
    BY <1>10, <2>1 DEF CommitAnswerLost, Commit, TypeOK, Prices, Absent
  <2>5. \A u \in Tasks : u # t => stage'[u] = stage[u] /\ ok'[u] = ok[u]
    BY <1>10 DEF CommitAnswerLost, Result, Goto, TypeOK
  <2>6. stage'[t] = "log"
    BY <1>10 DEF CommitAnswerLost, Result, Goto, TypeOK
  <2>7. \A u \in Tasks : u # t /\ stage[u] \in {"archive", "effects"} => JobOf[u] # i
    BY <2>1 DEF Ledger, Exclusive
  <2>8. Exclusive'
    BY <2>3, <2>4, <2>5, <2>6, <2>7, ConstantsAssumption DEF Ledger, Exclusive
  <2>9. Recorded'
    BY <2>1, <2>2, <2>3, <2>4 DEF Ledger, Recorded
  <2>10. Confirmed'
    <3>1. \A u \in Tasks : u # t /\ stage[u] = "log" /\ ok[u] => JobOf[u] # i
      BY <2>1, OneNotEmpty DEF Ledger, Confirmed
    <3> QED
      BY <2>2, <2>3, <2>4, <2>5, <3>1, ConstantsAssumption DEF Ledger, Confirmed
  <2>11. LogShowsCharge'
    <3>1. log[i] \notin Prices
      BY <2>1 DEF Ledger, LogShowsCharge
    <3> QED
      BY <1>10, <2>3, <3>1 DEF CommitAnswerLost, Ledger, LogShowsCharge
  <2> QED
    BY <2>8, <2>9, <2>10, <2>11 DEF Ledger
<1>11. ASSUME NEW t \in Tasks, TransactionFails(t)
       PROVE  Ledger'
  <2>1. Exclusive'
    BY <1>11, ConstantsAssumption DEF TransactionFails, Result, Rollback,
       Goto, Ledger, Exclusive, TypeOK
  <2>2. Recorded'
    BY <1>11 DEF TransactionFails, Result, Rollback, dbVars, Ledger,
       Recorded
  <2>3. Confirmed'
    BY <1>11, ConstantsAssumption DEF TransactionFails, Result, Rollback,
       Goto, dbVars, Ledger, Recorded, Confirmed, SameRequest, TypeOK, Prices,
       Absent
  <2>4. LogShowsCharge'
    BY <1>11 DEF TransactionFails, Result, Rollback, dbVars, Ledger,
       LogShowsCharge
  <2> QED
    BY <2>1, <2>2, <2>3, <2>4 DEF Ledger
<1>12. ASSUME NEW t \in Tasks, ContextExpires(t)
       PROVE  Ledger'
  <2>1. Quiet
    BY <1>12 DEF Quiet, ContextExpires, Fault, Goto, taskVars, poolVars,
       dbVars, redisVars, history, TypeOK
  <2> QED
    BY <2>1, QuietStep
<1>13. ASSUME NEW t \in Tasks, WriteUsageLog(t)
       PROVE  Ledger'
  <2>1. Exclusive'
    BY <1>13 DEF WriteUsageLog, AfterLog, Finish, Goto, dbVars, Ledger,
       Exclusive, TypeOK
  <2>2. Recorded'
    BY <1>13 DEF WriteUsageLog, dbVars, Ledger, Recorded
  <2>3. Confirmed'
    BY <1>13 DEF WriteUsageLog, AfterLog, Finish, Goto, dbVars, Ledger,
       Confirmed, TypeOK
  <2>4. LogShowsCharge'
    BY <1>13, ConstantsAssumption DEF WriteUsageLog, Logged, dbVars, Ledger,
       Confirmed, LogShowsCharge, TypeOK, Prices, Zero, Absent
  <2> QED
    BY <2>1, <2>2, <2>3, <2>4 DEF Ledger
<1>14. ASSUME NEW t \in Tasks, WriteUsageLogFails(t)
       PROVE  Ledger'
  <2>1. Quiet
    BY <1>14 DEF Quiet, WriteUsageLogFails, AfterLog, Finish, Fault, Goto,
       taskVars, poolVars, dbVars, redisVars, history, TypeOK
  <2> QED
    BY <2>1, QuietStep
<1>15. ASSUME NEW t \in Tasks, ReleaseVideoBilling(t)
       PROVE  Ledger'
  <2>1. Quiet
    BY <1>15 DEF Quiet, ReleaseVideoBilling, Finish, Fault, Goto, taskVars,
       poolVars, dbVars, redisVars, history, TypeOK
  <2> QED
    BY <2>1, QuietStep
<1>16. ASSUME NEW j \in Jobs, CreateVideo(j)
       PROVE  Ledger'
  <2>1. Quiet
    BY <1>16 DEF Quiet, CreateVideo, Fault, Goto, taskVars, poolVars,
       dbVars, redisVars, history, TypeOK
  <2> QED
    BY <2>1, QuietStep
<1>17. ASSUME NEW j \in Jobs, PendingExpires(j)
       PROVE  Ledger'
  <2>1. Quiet
    BY <1>17 DEF Quiet, PendingExpires, Goto, taskVars, poolVars, dbVars,
       redisVars, history, TypeOK
  <2> QED
    BY <2>1, QuietStep
<1>18. ASSUME NEW j \in Jobs, ClaimExpires(j)
       PROVE  Ledger'
  <2>1. Quiet
    BY <1>18 DEF Quiet, ClaimExpires, Fault, Goto, taskVars, poolVars,
       dbVars, redisVars, history, TypeOK
  <2> QED
    BY <2>1, QuietStep
<1>19. ASSUME NEW j \in Jobs, CleanupUsageBillingDedup(j)
       PROVE  Ledger'
  <2>1. Exclusive'
    BY <1>19, ConstantsAssumption DEF CleanupUsageBillingDedup, taskVars,
       Ledger, Exclusive, TypeOK
  <2>2. Recorded'
    BY <1>19 DEF CleanupUsageBillingDedup, Ledger, Recorded, TypeOK
  <2>3. Confirmed'
    BY <1>19 DEF CleanupUsageBillingDedup, taskVars, Ledger, Confirmed
  <2>4. LogShowsCharge'
    BY <1>19 DEF CleanupUsageBillingDedup, Ledger, LogShowsCharge
  <2> QED
    BY <2>1, <2>2, <2>3, <2>4 DEF Ledger
<1>20. ASSUME ExecuteTask
       PROVE  Ledger'
  <2>1. Quiet
    BY <1>20 DEF Quiet, ExecuteTask, Goto, taskVars, poolVars, dbVars,
       redisVars, history, TypeOK
  <2> QED
    BY <2>1, QuietStep
<1>21. ASSUME AutoScaleTick
       PROVE  Ledger'
  <2>1. Quiet
    BY <1>21 DEF Quiet, AutoScaleTick, Goto, taskVars, poolVars, dbVars,
       redisVars, history, TypeOK
  <2> QED
    BY <2>1, QuietStep
<1>22. ASSUME StopPool
       PROVE  Ledger'
  <2>1. Quiet
    BY <1>22 DEF Quiet, StopPool, Goto, taskVars, poolVars, dbVars,
       redisVars, history, TypeOK
  <2> QED
    BY <2>1, QuietStep
<1>23. ASSUME Restart
       PROVE  Ledger'
  <2>1. Quiet
    BY <1>23 DEF Quiet, Restart, Goto, taskVars, poolVars, dbVars,
       redisVars, history, TypeOK
  <2> QED
    BY <2>1, QuietStep
<1>24. ASSUME Crash
       PROVE  Ledger'
  <2>1. \A t \in Tasks : stage'[t] \notin {"archive", "effects", "log"}
    BY <1>24 DEF Crash, TypeOK, Stages, Running, InTransaction
  <2>2. Exclusive'
    BY <2>1 DEF Exclusive
  <2>3. Recorded'
    BY <1>24 DEF Crash, Ledger, Recorded
  <2>4. Confirmed'
    BY <2>1 DEF Confirmed
  <2>5. LogShowsCharge'
    BY <1>24 DEF Crash, Ledger, LogShowsCharge
  <2> QED
    BY <2>2, <2>3, <2>4, <2>5 DEF Ledger
<1>25. ASSUME UNCHANGED vars
       PROVE  Ledger'
  <2>1. Quiet
    BY <1>25 DEF Quiet, vars, Goto, taskVars, poolVars, dbVars, redisVars,
       history, TypeOK
  <2> QED
    BY <2>1, QuietStep
<1> QED
  BY <1>1, <1>2, <1>3, <1>4, <1>5, <1>6, <1>7, <1>8, <1>9, <1>10, <1>11,
     <1>12, <1>13, <1>14, <1>15, <1>16, <1>17, <1>18, <1>19, <1>20, <1>21,
     <1>22, <1>23, <1>24, <1>25 DEF Next, TaskStep, TaskFails

\* What a step must respect: a charge is never undone, a claim is new only
\* with its task, and a video's task that ends leaves a charge, no claim, or
\* a claim that a failure kept.
ClaimRespected ==
    /\ \A j \in Jobs : charged[j] # <<>> => charged'[j] # <<>>
    /\ \A j \in Jobs : claim'[j] /\ j \notin burnt' =>
          \/ claim[j] /\ j \notin burnt
          \/ \E t \in Tasks : Video(t) /\ JobOf[t] = j /\ Alive(t)'
    /\ \A t \in Tasks : Video(t) /\ Alive(t) =>
          Alive(t)' \/ charged'[JobOf[t]] # <<>> \/ ~claim'[JobOf[t]] \/ JobOf[t] \in burnt'
    /\ \A t \in Tasks : stage'[t] = "claim" => stage[t] = "claim" \/ Video(t)

\* A step that respects the claims keeps them.
LEMMA ClaimStays == ClaimHeld /\ ClaimRespected => ClaimHeld'
<1> SUFFICES ASSUME ClaimHeld, ClaimRespected
             PROVE  ClaimHeld'
  OBVIOUS
<1>1. \A t \in Tasks : stage'[t] = "claim" => Video(t)
  BY DEF ClaimHeld, ClaimRespected
<1>2. ASSUME NEW j \in Jobs, claim'[j], j \notin burnt'
      PROVE  charged'[j] # <<>> \/ \E t \in Tasks : Video(t) /\ JobOf[t] = j /\ Alive(t)'
  BY <1>2 DEF ClaimHeld, ClaimRespected
<1> QED
  BY <1>1, <1>2 DEF ClaimHeld

\* Every step keeps the claims in order.
LEMMA ClaimStep ==
    TypeOK /\ Ledger /\ ClaimHeld /\ [Next]_vars => ClaimHeld'
<1> SUFFICES ASSUME TypeOK, Ledger, ClaimHeld, [Next]_vars
             PROVE  ClaimHeld'
  OBVIOUS
<1>1. ASSUME NEW t \in Tasks, EndRequest(t)
       PROVE  ClaimHeld'
  <2>1. UNCHANGED charged
    BY <1>1 DEF EndRequest, dbVars
  <2>2. UNCHANGED <<claim, burnt>>
    BY <1>1 DEF EndRequest, redisVars, history
  <2>3. \A u \in Tasks : Alive(u) => Alive(u)'
    BY <1>1 DEF EndRequest, Goto, taskVars, TypeOK, Alive, Running,
       InTransaction
  <2>4. \A u \in Tasks : stage'[u] = "claim" => stage[u] = "claim"
    BY <1>1 DEF EndRequest, Goto, taskVars, TypeOK
  <2>5. ClaimRespected
    BY <2>1, <2>2, <2>3, <2>4 DEF ClaimRespected
  <2> QED
    BY <2>5, ClaimStays
<1>2. ASSUME NEW t \in Tasks, LoadPendingBilling(t)
       PROVE  ClaimHeld'
  <2>1. UNCHANGED charged
    BY <1>2 DEF LoadPendingBilling, dbVars
  <2>2. UNCHANGED <<claim, burnt>>
    BY <1>2 DEF LoadPendingBilling, redisVars, history
  <2>3. \A u \in Tasks : Alive(u) => Alive(u)'
    BY <1>2 DEF LoadPendingBilling, Goto, taskVars, TypeOK, Alive, Running,
       InTransaction
  <2>4. \A u \in Tasks : stage'[u] = "claim" => stage[u] = "claim" \/ Video(u)
    BY <1>2 DEF LoadPendingBilling, Goto, taskVars, TypeOK
  <2>5. ClaimRespected
    BY <2>1, <2>2, <2>3, <2>4 DEF ClaimRespected
  <2> QED
    BY <2>5, ClaimStays
<1>3. ASSUME NEW t \in Tasks, ClaimVideoBilling(t)
       PROVE  ClaimHeld'
  <2>1. UNCHANGED charged
    BY <1>3 DEF ClaimVideoBilling, dbVars
  <2>2. \A j \in Jobs : claim'[j] /\ j \notin burnt' =>
          (claim[j] /\ j \notin burnt) \/ (j = JobOf[t] /\ Video(t) /\ Alive(t)')
    BY <1>3, ConstantsAssumption DEF ClaimVideoBilling, Goto, history,
       TypeOK, ClaimHeld, Alive, Running, InTransaction
  <2>3. \A u \in Tasks : Alive(u) => Alive(u)'
    BY <1>3 DEF ClaimVideoBilling, Goto, taskVars, TypeOK, Alive, Running,
       InTransaction
  <2>4. \A u \in Tasks : stage'[u] = "claim" => stage[u] = "claim"
    BY <1>3 DEF ClaimVideoBilling, Goto, taskVars, TypeOK
  <2>5. ClaimRespected
    BY <2>1, <2>2, <2>3, <2>4 DEF ClaimRespected
  <2> QED
    BY <2>5, ClaimStays
<1>4. ASSUME NEW t \in Tasks, ClaimVideoBillingFails(t)
       PROVE  ClaimHeld'
  <2>1. UNCHANGED charged
    BY <1>4 DEF ClaimVideoBillingFails, dbVars
  <2>2. \A j \in Jobs : claim'[j] /\ j \notin burnt' => claim[j] /\ j \notin burnt
    BY <1>4, ConstantsAssumption DEF ClaimVideoBillingFails, TypeOK
  <2>3. \A u \in Tasks : Alive(u) => Alive(u)'
    BY <1>4 DEF ClaimVideoBillingFails, Goto, taskVars, TypeOK, Alive,
       Running, InTransaction
  <2>4. \A u \in Tasks : stage'[u] = "claim" => stage[u] = "claim"
    BY <1>4 DEF ClaimVideoBillingFails, Goto, taskVars, TypeOK
  <2>5. ClaimRespected
    BY <2>1, <2>2, <2>3, <2>4 DEF ClaimRespected
  <2> QED
    BY <2>5, ClaimStays
<1>5. ASSUME NEW t \in Tasks, SubmitUsageRecordTask(t)
       PROVE  ClaimHeld'
  <2>1. UNCHANGED charged
    BY <1>5 DEF SubmitUsageRecordTask, Overflow, Enqueue, RunInline, dbVars
  <2>2. UNCHANGED <<claim, burnt>>
    BY <1>5 DEF SubmitUsageRecordTask, Overflow, Enqueue, RunInline,
       redisVars, history
  <2>3. \A u \in Tasks : Video(u) /\ Alive(u) => Alive(u)'
    <3>1. \A u \in Tasks : u # t => stage'[u] = stage[u]
      BY <1>5 DEF SubmitUsageRecordTask, Overflow, Enqueue, RunInline, Goto, TypeOK
    <3>2. stage'[t] \in {"queued", "insert"} \/ Kind[t] = "best_effort"
      BY <1>5 DEF SubmitUsageRecordTask, Overflow, Enqueue, RunInline, Goto, TypeOK
    <3> QED
      BY <3>1, <3>2 DEF Video, Alive, Running, InTransaction
  <2>4. \A u \in Tasks : stage'[u] = "claim" => stage[u] = "claim"
    BY <1>5 DEF SubmitUsageRecordTask, Overflow, Enqueue, RunInline, Goto,
       taskVars, TypeOK
  <2>5. ClaimRespected
    BY <2>1, <2>2, <2>3, <2>4 DEF ClaimRespected
  <2> QED
    BY <2>5, ClaimStays
<1>6. ASSUME NEW t \in Tasks, InsertDedup(t)
       PROVE  ClaimHeld'
  <2>1. UNCHANGED charged
    BY <1>6 DEF InsertDedup, dbVars
  <2>2. UNCHANGED <<claim, burnt>>
    BY <1>6 DEF InsertDedup, redisVars, history
  <2>3. \A u \in Tasks : Alive(u) => Alive(u)'
    BY <1>6 DEF InsertDedup, Goto, taskVars, TypeOK, Alive, Running,
       InTransaction
  <2>4. \A u \in Tasks : stage'[u] = "claim" => stage[u] = "claim"
    BY <1>6 DEF InsertDedup, Goto, taskVars, TypeOK
  <2>5. ClaimRespected
    BY <2>1, <2>2, <2>3, <2>4 DEF ClaimRespected
  <2> QED
    BY <2>5, ClaimStays
<1>7. ASSUME NEW t \in Tasks, CompareDedup(t)
       PROVE  ClaimHeld'
  <2>1. UNCHANGED charged
    BY <1>7 DEF CompareDedup, Result, dbVars
  <2>2. UNCHANGED <<claim, burnt>>
    BY <1>7 DEF CompareDedup, Result, redisVars, history
  <2>3. \A u \in Tasks : Alive(u) => Alive(u)'
    BY <1>7 DEF CompareDedup, Result, Goto, taskVars, TypeOK, Alive,
       Running, InTransaction
  <2>4. \A u \in Tasks : stage'[u] = "claim" => stage[u] = "claim"
    BY <1>7 DEF CompareDedup, Result, Goto, taskVars, TypeOK
  <2>5. ClaimRespected
    BY <2>1, <2>2, <2>3, <2>4 DEF ClaimRespected
  <2> QED
    BY <2>5, ClaimStays
<1>8. ASSUME NEW t \in Tasks, CheckArchive(t)
       PROVE  ClaimHeld'
  <2>1. UNCHANGED charged
    BY <1>8 DEF CheckArchive, Result, Rollback, dbVars
  <2>2. UNCHANGED <<claim, burnt>>
    BY <1>8 DEF CheckArchive, Result, Rollback, redisVars, history
  <2>3. \A u \in Tasks : Alive(u) => Alive(u)'
    BY <1>8 DEF CheckArchive, Result, Rollback, Goto, taskVars, TypeOK,
       Alive, Running, InTransaction
  <2>4. \A u \in Tasks : stage'[u] = "claim" => stage[u] = "claim"
    BY <1>8 DEF CheckArchive, Result, Rollback, Goto, taskVars, TypeOK
  <2>5. ClaimRespected
    BY <2>1, <2>2, <2>3, <2>4 DEF ClaimRespected
  <2> QED
    BY <2>5, ClaimStays
<1>9. ASSUME NEW t \in Tasks, ApplyEffects(t)
       PROVE  ClaimHeld'
  <2>1. \A j \in Jobs : charged[j] # <<>> => charged'[j] # <<>>
    <3>1. charged[JobOf[t]] = <<>> /\ JobOf[t] \in Jobs
      BY <1>9, ConstantsAssumption DEF ApplyEffects, Ledger, Exclusive, Recorded
    <3> QED
      BY <1>9, <3>1 DEF ApplyEffects, Commit, TypeOK
  <2>2. UNCHANGED <<claim, burnt>>
    BY <1>9 DEF ApplyEffects, Result, Commit, redisVars, history
  <2>3. \A u \in Tasks : Alive(u) => Alive(u)'
    BY <1>9 DEF ApplyEffects, Result, Commit, Goto, taskVars, TypeOK,
       Alive, Running, InTransaction
  <2>4. \A u \in Tasks : stage'[u] = "claim" => stage[u] = "claim"
    BY <1>9 DEF ApplyEffects, Result, Commit, Goto, taskVars, TypeOK
  <2>5. ClaimRespected
    BY <2>1, <2>2, <2>3, <2>4 DEF ClaimRespected
  <2> QED
    BY <2>5, ClaimStays
<1>10. ASSUME NEW t \in Tasks, CommitAnswerLost(t)
       PROVE  ClaimHeld'
  <2>1. \A j \in Jobs : charged[j] # <<>> => charged'[j] # <<>>
    <3>1. charged[JobOf[t]] = <<>> /\ JobOf[t] \in Jobs
      BY <1>10, ConstantsAssumption DEF CommitAnswerLost, Ledger, Exclusive, Recorded
    <3> QED
      BY <1>10, <3>1 DEF CommitAnswerLost, Commit, TypeOK
  <2>2. UNCHANGED <<claim, burnt>>
    BY <1>10 DEF CommitAnswerLost, Result, Commit, redisVars, history
  <2>3. \A u \in Tasks : Alive(u) => Alive(u)'
    BY <1>10 DEF CommitAnswerLost, Result, Commit, Goto, taskVars, TypeOK,
       Alive, Running, InTransaction
  <2>4. \A u \in Tasks : stage'[u] = "claim" => stage[u] = "claim"
    BY <1>10 DEF CommitAnswerLost, Result, Commit, Goto, taskVars, TypeOK
  <2>5. ClaimRespected
    BY <2>1, <2>2, <2>3, <2>4 DEF ClaimRespected
  <2> QED
    BY <2>5, ClaimStays
<1>11. ASSUME NEW t \in Tasks, TransactionFails(t)
       PROVE  ClaimHeld'
  <2>1. UNCHANGED charged
    BY <1>11 DEF TransactionFails, Result, Rollback, dbVars
  <2>2. UNCHANGED <<claim, burnt>>
    BY <1>11 DEF TransactionFails, Result, Rollback, redisVars, history
  <2>3. \A u \in Tasks : Alive(u) => Alive(u)'
    BY <1>11 DEF TransactionFails, Result, Rollback, Goto, taskVars, TypeOK,
       Alive, Running, InTransaction
  <2>4. \A u \in Tasks : stage'[u] = "claim" => stage[u] = "claim"
    BY <1>11 DEF TransactionFails, Result, Rollback, Goto, taskVars, TypeOK
  <2>5. ClaimRespected
    BY <2>1, <2>2, <2>3, <2>4 DEF ClaimRespected
  <2> QED
    BY <2>5, ClaimStays
<1>12. ASSUME NEW t \in Tasks, ContextExpires(t)
       PROVE  ClaimHeld'
  <2>1. UNCHANGED charged
    BY <1>12 DEF ContextExpires, dbVars
  <2>2. UNCHANGED <<claim, burnt>>
    BY <1>12 DEF ContextExpires, redisVars, history
  <2>3. \A u \in Tasks : Alive(u) => Alive(u)'
    BY <1>12 DEF ContextExpires, Goto, taskVars, TypeOK, Alive, Running,
       InTransaction
  <2>4. \A u \in Tasks : stage'[u] = "claim" => stage[u] = "claim"
    BY <1>12 DEF ContextExpires, Goto, taskVars, TypeOK
  <2>5. ClaimRespected
    BY <2>1, <2>2, <2>3, <2>4 DEF ClaimRespected
  <2> QED
    BY <2>5, ClaimStays
<1>13. ASSUME NEW t \in Tasks, WriteUsageLog(t)
       PROVE  ClaimHeld'
  <2>1. UNCHANGED charged
    BY <1>13 DEF WriteUsageLog, AfterLog, Finish, dbVars
  <2>2. UNCHANGED <<claim, burnt>>
    BY <1>13 DEF WriteUsageLog, AfterLog, Finish, redisVars, history
  <2>3. \A u \in Tasks : Video(u) /\ Alive(u) => Alive(u)' \/ charged'[JobOf[u]] # <<>>
    <3>1. \A u \in Tasks : u # t => stage'[u] = stage[u]
      BY <1>13 DEF WriteUsageLog, AfterLog, Finish, Goto, TypeOK
    <3>2. Video(t) /\ ~ok[t] => stage'[t] = "release"
      BY <1>13 DEF WriteUsageLog, AfterLog, Finish, Goto, TypeOK
    <3>3. ok[t] => charged[JobOf[t]] # <<>>
      BY <1>13, OneNotEmpty DEF WriteUsageLog, Ledger, Confirmed
    <3> QED
      BY <2>1, <3>1, <3>2, <3>3 DEF Alive, Running
  <2>4. \A u \in Tasks : stage'[u] = "claim" => stage[u] = "claim"
    BY <1>13 DEF WriteUsageLog, AfterLog, Finish, Goto, taskVars, TypeOK
  <2>5. ClaimRespected
    BY <2>1, <2>2, <2>3, <2>4 DEF ClaimRespected
  <2> QED
    BY <2>5, ClaimStays
<1>14. ASSUME NEW t \in Tasks, WriteUsageLogFails(t)
       PROVE  ClaimHeld'
  <2>1. UNCHANGED charged
    BY <1>14 DEF WriteUsageLogFails, AfterLog, Finish, dbVars
  <2>2. UNCHANGED <<claim, burnt>>
    BY <1>14 DEF WriteUsageLogFails, AfterLog, Finish, redisVars, history
  <2>3. \A u \in Tasks : Video(u) /\ Alive(u) => Alive(u)' \/ charged'[JobOf[u]] # <<>>
    <3>1. \A u \in Tasks : u # t => stage'[u] = stage[u]
      BY <1>14 DEF WriteUsageLogFails, AfterLog, Finish, Goto, TypeOK
    <3>2. Video(t) /\ ~ok[t] => stage'[t] = "release"
      BY <1>14 DEF WriteUsageLogFails, AfterLog, Finish, Goto, TypeOK
    <3>3. ok[t] => charged[JobOf[t]] # <<>>
      BY <1>14, OneNotEmpty DEF WriteUsageLogFails, Ledger, Confirmed
    <3> QED
      BY <2>1, <3>1, <3>2, <3>3 DEF Alive, Running
  <2>4. \A u \in Tasks : stage'[u] = "claim" => stage[u] = "claim"
    BY <1>14 DEF WriteUsageLogFails, AfterLog, Finish, Goto, taskVars,
       TypeOK
  <2>5. ClaimRespected
    BY <2>1, <2>2, <2>3, <2>4 DEF ClaimRespected
  <2> QED
    BY <2>5, ClaimStays
<1>15. ASSUME NEW t \in Tasks, ReleaseVideoBilling(t)
       PROVE  ClaimHeld'
  <2>1. UNCHANGED charged
    BY <1>15 DEF ReleaseVideoBilling, Finish, dbVars
  <2>2. /\ \A j \in Jobs : claim'[j] /\ j \notin burnt' => claim[j] /\ j \notin burnt
        /\ ~claim'[JobOf[t]] \/ JobOf[t] \in burnt'
    BY <1>15, ConstantsAssumption DEF ReleaseVideoBilling, Fault, TypeOK
  <2>3. \A u \in Tasks : Alive(u) => Alive(u)' \/ u = t
    BY <1>15 DEF ReleaseVideoBilling, Finish, Goto, TypeOK, Alive, Running,
       InTransaction
  <2>4. \A u \in Tasks : stage'[u] = "claim" => stage[u] = "claim"
    BY <1>15 DEF ReleaseVideoBilling, Finish, Goto, taskVars, TypeOK
  <2>5. ClaimRespected
    BY <2>1, <2>2, <2>3, <2>4 DEF ClaimRespected
  <2> QED
    BY <2>5, ClaimStays
<1>16. ASSUME NEW j \in Jobs, CreateVideo(j)
       PROVE  ClaimHeld'
  <2>1. UNCHANGED charged
    BY <1>16 DEF CreateVideo, dbVars
  <2>2. UNCHANGED <<claim, burnt>>
    BY <1>16 DEF CreateVideo, redisVars, history
  <2>3. \A u \in Tasks : Alive(u) => Alive(u)'
    BY <1>16 DEF CreateVideo, taskVars, Alive
  <2>4. \A u \in Tasks : stage'[u] = "claim" => stage[u] = "claim"
    BY <1>16 DEF CreateVideo, Goto, taskVars, TypeOK
  <2>5. ClaimRespected
    BY <2>1, <2>2, <2>3, <2>4 DEF ClaimRespected
  <2> QED
    BY <2>5, ClaimStays
<1>17. ASSUME NEW j \in Jobs, PendingExpires(j)
       PROVE  ClaimHeld'
  <2>1. UNCHANGED charged
    BY <1>17 DEF PendingExpires, dbVars
  <2>2. UNCHANGED <<claim, burnt>>
    BY <1>17 DEF PendingExpires, redisVars, history
  <2>3. \A u \in Tasks : Alive(u) => Alive(u)'
    BY <1>17 DEF PendingExpires, taskVars, Alive
  <2>4. \A u \in Tasks : stage'[u] = "claim" => stage[u] = "claim"
    BY <1>17 DEF PendingExpires, Goto, taskVars, TypeOK
  <2>5. ClaimRespected
    BY <2>1, <2>2, <2>3, <2>4 DEF ClaimRespected
  <2> QED
    BY <2>5, ClaimStays
<1>18. ASSUME NEW j \in Jobs, ClaimExpires(j)
       PROVE  ClaimHeld'
  <2>1. UNCHANGED charged
    BY <1>18 DEF ClaimExpires, dbVars
  <2>2. \A k \in Jobs : claim'[k] /\ k \notin burnt' => claim[k] /\ k \notin burnt
    BY <1>18 DEF ClaimExpires, TypeOK
  <2>3. \A u \in Tasks : Alive(u) => Alive(u)'
    BY <1>18 DEF ClaimExpires, taskVars, Alive
  <2>4. \A u \in Tasks : stage'[u] = "claim" => stage[u] = "claim"
    BY <1>18 DEF ClaimExpires, Goto, taskVars, TypeOK
  <2>5. ClaimRespected
    BY <2>1, <2>2, <2>3, <2>4 DEF ClaimRespected
  <2> QED
    BY <2>5, ClaimStays
<1>19. ASSUME NEW j \in Jobs, CleanupUsageBillingDedup(j)
       PROVE  ClaimHeld'
  <2>1. UNCHANGED charged
    BY <1>19 DEF CleanupUsageBillingDedup, dbVars
  <2>2. UNCHANGED <<claim, burnt>>
    BY <1>19 DEF CleanupUsageBillingDedup, redisVars, history
  <2>3. \A u \in Tasks : Alive(u) => Alive(u)'
    BY <1>19 DEF CleanupUsageBillingDedup, taskVars, Alive
  <2>4. \A u \in Tasks : stage'[u] = "claim" => stage[u] = "claim"
    BY <1>19 DEF CleanupUsageBillingDedup, Goto, taskVars, TypeOK
  <2>5. ClaimRespected
    BY <2>1, <2>2, <2>3, <2>4 DEF ClaimRespected
  <2> QED
    BY <2>5, ClaimStays
<1>20. ASSUME ExecuteTask
       PROVE  ClaimHeld'
  <2>1. UNCHANGED charged
    BY <1>20 DEF ExecuteTask, dbVars
  <2>2. UNCHANGED <<claim, burnt>>
    BY <1>20 DEF ExecuteTask, redisVars, history
  <2>3. \A u \in Tasks : Alive(u) => Alive(u)'
    <3>1. \A u \in Tasks : stage'[u] = stage[u] \/ stage'[u] = "insert"
      BY <1>20 DEF ExecuteTask, Goto, TypeOK
    <3> QED
      BY <3>1 DEF Alive, Running, InTransaction
  <2>4. \A u \in Tasks : stage'[u] = "claim" => stage[u] = "claim"
    BY <1>20 DEF ExecuteTask, Goto, taskVars, TypeOK
  <2>5. ClaimRespected
    BY <2>1, <2>2, <2>3, <2>4 DEF ClaimRespected
  <2> QED
    BY <2>5, ClaimStays
<1>21. ASSUME AutoScaleTick
       PROVE  ClaimHeld'
  <2>1. UNCHANGED charged
    BY <1>21 DEF AutoScaleTick, dbVars
  <2>2. UNCHANGED <<claim, burnt>>
    BY <1>21 DEF AutoScaleTick, redisVars, history
  <2>3. \A u \in Tasks : Alive(u) => Alive(u)'
    BY <1>21 DEF AutoScaleTick, taskVars, Alive
  <2>4. \A u \in Tasks : stage'[u] = "claim" => stage[u] = "claim"
    BY <1>21 DEF AutoScaleTick, Goto, taskVars, TypeOK
  <2>5. ClaimRespected
    BY <2>1, <2>2, <2>3, <2>4 DEF ClaimRespected
  <2> QED
    BY <2>5, ClaimStays
<1>22. ASSUME StopPool
       PROVE  ClaimHeld'
  <2>1. UNCHANGED charged
    BY <1>22 DEF StopPool, dbVars
  <2>2. UNCHANGED <<claim, burnt>>
    BY <1>22 DEF StopPool, redisVars, history
  <2>3. \A u \in Tasks : Alive(u) => Alive(u)'
    BY <1>22 DEF StopPool, taskVars, Alive
  <2>4. \A u \in Tasks : stage'[u] = "claim" => stage[u] = "claim"
    BY <1>22 DEF StopPool, Goto, taskVars, TypeOK
  <2>5. ClaimRespected
    BY <2>1, <2>2, <2>3, <2>4 DEF ClaimRespected
  <2> QED
    BY <2>5, ClaimStays
<1>23. ASSUME Restart
       PROVE  ClaimHeld'
  <2>1. UNCHANGED charged
    BY <1>23 DEF Restart, dbVars
  <2>2. UNCHANGED <<claim, burnt>>
    BY <1>23 DEF Restart, redisVars, history
  <2>3. \A u \in Tasks : Alive(u) => Alive(u)'
    BY <1>23 DEF Restart, taskVars, Alive
  <2>4. \A u \in Tasks : stage'[u] = "claim" => stage[u] = "claim"
    BY <1>23 DEF Restart, Goto, taskVars, TypeOK
  <2>5. ClaimRespected
    BY <2>1, <2>2, <2>3, <2>4 DEF ClaimRespected
  <2> QED
    BY <2>5, ClaimStays
<1>24. ASSUME Crash
       PROVE  ClaimHeld'
  <2>1. UNCHANGED <<charged, claim>>
    BY <1>24 DEF Crash, redisVars
  <2>2. burnt \subseteq burnt'
    BY <1>24 DEF Crash
  <2>3. \A u \in Tasks : Video(u) /\ Alive(u) => JobOf[u] \in burnt'
    <3>1. \A u \in Tasks : Alive(u) =>
                         stage[u] \notin {"idle", "done", "dropped", "lost", "claim"}
      BY DEF Alive, Running, InTransaction
    <3> QED
      BY <1>24, <3>1 DEF Crash
  <2>4. \A u \in Tasks : stage'[u] = "claim" => stage[u] = "claim"
    BY <1>24 DEF Crash, TypeOK
  <2>5. ClaimRespected
    BY <2>1, <2>2, <2>3, <2>4 DEF ClaimRespected
  <2> QED
    BY <2>5, ClaimStays
<1>25. ASSUME UNCHANGED vars
       PROVE  ClaimHeld'
  <2>1. UNCHANGED charged
    BY <1>25 DEF vars, dbVars
  <2>2. UNCHANGED <<claim, burnt>>
    BY <1>25 DEF vars, redisVars, history
  <2>3. \A u \in Tasks : Alive(u) => Alive(u)'
    BY <1>25 DEF vars, taskVars, Alive
  <2>4. \A u \in Tasks : stage'[u] = "claim" => stage[u] = "claim"
    BY <1>25 DEF vars, Goto, taskVars, TypeOK
  <2>5. ClaimRespected
    BY <2>1, <2>2, <2>3, <2>4 DEF ClaimRespected
  <2> QED
    BY <2>5, ClaimStays
<1> QED
  BY <1>1, <1>2, <1>3, <1>4, <1>5, <1>6, <1>7, <1>8, <1>9, <1>10, <1>11,
     <1>12, <1>13, <1>14, <1>15, <1>16, <1>17, <1>18, <1>19, <1>20, <1>21,
     <1>22, <1>23, <1>24, <1>25 DEF Next, TaskStep, TaskFails

\* The initial states satisfy the invariant.
LEMMA InitHolds == Init => IInv
<1> SUFFICES ASSUME Init
             PROVE  IInv
  OBVIOUS
<1>1. TypeOK
  <2>1. TaskType /\ PoolType
    <3>1. TaskType
      BY DEF Init, TaskType, Stages, Prices
    <3>2. queue \in Seq(Tasks) /\ inPool \in SUBSET Tasks
      BY DEF Init
    <3>3. workers \in MinWorkers .. MaxWorkers /\ stopped \in BOOLEAN
      BY ConstantsAssumption DEF Init
    <3> QED
      BY <3>1, <3>2, <3>3 DEF PoolType
  <2>2. DbType
    BY DEF Init, DbType
  <2>3. RedisType /\ HistoryType
    BY DEF Init, RedisType, HistoryType
  <2> QED
    BY <2>1, <2>2, <2>3 DEF TypeOK, TaskType, PoolType, DbType, RedisType, HistoryType
<1>2. Exclusive /\ Confirmed
  BY DEF Init, Exclusive, Confirmed
<1>3. Recorded /\ LogShowsCharge
  BY DEF Init, Recorded, LogShowsCharge, Prices, Absent
<1> QED
  BY <1>1, <1>2, <1>3 DEF IInv, Ledger, Init, ClaimHeld

\* Every step keeps the invariant.
LEMMA Inductive == IInv /\ [Next]_vars => IInv'
  BY TypeStep, LedgerStep, ClaimStep DEF IInv

\* The invariant holds throughout.
LEMMA Invariant == Spec => []IInv
  BY InitHolds, Inductive, PTL DEF Spec

-----------------------------------------------------------------------------
\* Every variable stays in its domain: the scaler never leaves the bounds of
\* the pool, and nothing but tasks is ever queued.
THEOREM TypeCorrect == Spec => []TypeOK
<1>1. IInv => TypeOK
  BY DEF IInv
<1> QED
  BY <1>1, Invariant, PTL

\* An identifier is charged at most once, whatever races, fails, is retried
\* or archived.
THEOREM ChargesOnce == Spec => []ChargedOnce
<1>1. IInv => ChargedOnce
  <2> SUFFICES ASSUME IInv, NEW j \in Jobs
               PROVE  Len(charged[j]) <= 1
    BY DEF ChargedOnce
  <2>1. charged[j] = <<>> \/ \E x \in Prices : charged[j] = <<x>>
    BY DEF IInv, TypeOK, Ledger, Recorded
  <2>2. CASE charged[j] = <<>>
    BY <2>2
  <2>3. ASSUME NEW x \in Prices, charged[j] = <<x>>
        PROVE  Len(charged[j]) <= 1
    BY <2>3
  <2> QED
    BY <2>1, <2>2, <2>3
<1> QED
  BY <1>1, Invariant, PTL

\* The usage log never shows a cost other than the one charged.
THEOREM LogFaithful == Spec => []LogShowsCharge
<1>1. IInv => LogShowsCharge
  BY DEF IInv, Ledger
<1> QED
  BY <1>1, Invariant, PTL

\* A billing that fails in time gives the claim of its video back, so that a
\* later poll can bill it.
THEOREM ClaimsFreed == Spec => []ClaimFreed
<1>1. IInv => ClaimFreed
  BY DEF IInv, ClaimHeld, ClaimFreed
<1> QED
  BY <1>1, Invariant, PTL
=============================================================================

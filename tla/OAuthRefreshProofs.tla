------------------------- MODULE OAuthRefreshProofs -------------------------
(***************************************************************************)
(* Theorems about OAuthRefresh, for any number of processes, refreshers,   *)
(* administrators, documents and failures.                                 *)
(*                                                                         *)
(* That the stored document is usable rests on a document that is about to *)
(* be stored being known to its holder alone.  That the account is not put *)
(* in error undeservedly rests on the lock: a refresher refused with a     *)
(* token and another about to store its replacement never coexist.         *)
(* OAuthRefresh implements CredentialChain because a token is rotated by   *)
(* one actor only, so that the document of a Grok account is fixed by the  *)
(* provider's answer.  What a step does to the documents is settled once,  *)
(* by Moves, and used for each of these.                                   *)
(***************************************************************************)
EXTENDS OAuthRefresh, TLAPS

\* The type invariant, by kind of state.
FlagType ==
    /\ grok \in BOOLEAN /\ needs \in BOOLEAN
    /\ active \in BOOLEAN /\ cooling \in BOOLEAN
    /\ crossed \subseteq {"edit", "refresh"}
    /\ lost \in BOOLEAN /\ unlocked \in BOOLEAN

DocumentType ==
    /\ issued \in Nat \ {0}
    /\ db \in 1 .. issued
    /\ last \in 1 .. issued
    /\ tok \in [Actors -> 0 .. issued]
    /\ new \in [Actors -> 0 .. issued]
    /\ live \in SUBSET (1 .. issued)
    /\ grant \in [1 .. issued -> 1 .. issued]

LockType ==
    /\ mutex \in [Procs -> Refreshers \union {None}]
    /\ lock \in Refreshers \union {None}
    /\ held \in [Refreshers -> BOOLEAN]

\* A document that is about to be stored is live, descends from the
\* authorisation of the one it replaces, and nobody else has it.
PersistingFresh ==
    \A r \in Actors : pc[r] = "persist" =>
        /\ new[r] \in live
        /\ tok[r] \in 1 .. issued
        /\ grant[new[r]] = grant[tok[r]]
        /\ db # new[r]
        /\ \A s \in Actors : tok[s] # new[r]
        /\ \A s \in Actors : pc[s] = "persist" /\ s # r => new[s] # new[r]

\* An administrator who edits the account has read a document, and one who
\* authorises it has read its status.
AdminKnows ==
    \A a \in Admins :
        /\ pc[a] = "edit" => tok[a] \in 1 .. issued
        /\ pc[a] = "apply" => status[a] \in BOOLEAN

\* While the lock excludes, whoever is past it holds it.
LockExcludes ==
    ~unlocked => \A r \in Refreshers : pc[r] \in InApi \ {"lock"} => held[r] /\ lock = r

Refused == {"recover", "unlock_dead", "dead"}

\* A refused token is dead, and while the lock excludes nobody is about to
\* store its replacement but an administrator.
RefusedIsDead ==
    \A r \in Refreshers : pc[r] \in Refused =>
        /\ tok[r] \notin live
        /\ ~unlocked => \A s \in Refreshers : pc[s] = "persist" => tok[s] # tok[r]

IInv ==
    /\ TypeOK
    /\ PersistingFresh
    /\ AdminKnows
    /\ CredentialUsable
    /\ ReauthorizationKept
    /\ LockExcludes
    /\ RefusedIsDead

-----------------------------------------------------------------------------
\* A new document keeps the types and what is known of the earlier ones.
LEMMA IssueFacts ==
    ASSUME DocumentType, NEW g \in 1 .. issued + 1, NEW dead, Issue(g, dead)
    PROVE  /\ issued' = issued + 1 /\ issued' \in Nat \ {0}
           /\ live' \in SUBSET (1 .. issued')
           /\ grant' \in [1 .. issued' -> 1 .. issued']
           /\ \A n \in 1 .. issued : grant'[n] = grant[n]
           /\ grant'[issued + 1] = g
           /\ issued + 1 \in live'
           /\ \A n \in 1 .. issued : n \in live' <=> n \in live /\ n \notin dead
<1>1. issued' = issued + 1 /\ issued' \in Nat \ {0}
  BY DEF Issue, DocumentType
<1>2. live' = (live \ dead) \union {issued + 1}
  BY DEF Issue
<1>3. live' \in SUBSET (1 .. issued')
  <2>1. ASSUME NEW n \in live'
        PROVE  n \in 1 .. issued'
    BY <1>1, <1>2, <2>1 DEF DocumentType
  <2> QED
    BY <2>1
<1>4. \A n \in 1 .. issued : n \in live' <=> n \in live /\ n \notin dead
  BY <1>2 DEF DocumentType
<1>5. grant' = [n \in 1 .. issued + 1 |-> IF n <= issued THEN grant[n] ELSE g]
  BY DEF Issue
<1>6. ASSUME NEW n \in 1 .. issued + 1
      PROVE  /\ grant'[n] = IF n <= issued THEN grant[n] ELSE g
             /\ grant'[n] \in 1 .. issued + 1
  BY <1>5 DEF DocumentType
<1>7. grant' \in [1 .. issued' -> 1 .. issued']
  BY <1>1, <1>5, <1>6
<1>8. \A n \in 1 .. issued : grant'[n] = grant[n]
  BY <1>6 DEF DocumentType
<1>9. grant'[issued + 1] = g
  BY <1>6 DEF DocumentType
<1>10. issued + 1 \in live'
  BY <1>2
<1> QED
  BY <1>1, <1>3, <1>4, <1>7, <1>8, <1>9, <1>10

\* Whatever referred to the documents issued so far still does.
LEMMA Grows ==
    ASSUME DocumentType, issued' = issued + 1
    PROVE  /\ 1 .. issued \subseteq 1 .. issued'
           /\ \A f \in [Actors -> 0 .. issued] : f \in [Actors -> 0 .. issued']
           /\ \A f \in [Actors -> 0 .. issued], r \in Actors :
                 [f EXCEPT ![r] = issued'] \in [Actors -> 0 .. issued']
<1>1. 0 .. issued \subseteq 0 .. issued' /\ 1 .. issued \subseteq 1 .. issued' /\ issued' \in 0 .. issued'
  BY DEF DocumentType
<1> QED
  BY <1>1

\* Everyone but r keeps what it has.
Keeps(r) ==
    \A s \in Actors \ {r} : pc'[s] = pc[s] /\ tok'[s] = tok[s] /\ new'[s] = new[s]

\* A step of r alone.
LEMMA Alone ==
    ASSUME TypeOK, NEW r \in Actors, NEW state, Goto(r, state),
           tok' = tok \/ \E v : tok' = [tok EXCEPT ![r] = v],
           new' = new \/ \E v : new' = [new EXCEPT ![r] = v]
    PROVE  Keeps(r) /\ pc'[r] = state
<1>1. \A s \in Actors \ {r} : pc'[s] = pc[s]
  BY DEF Goto, TypeOK
<1>2. \A s \in Actors \ {r} : tok'[s] = tok[s]
  BY DEF TypeOK
<1>3. \A s \in Actors \ {r} : new'[s] = new[s]
  BY DEF TypeOK
<1>4. pc'[r] = state
  BY DEF Goto, TypeOK
<1> QED
  BY <1>1, <1>2, <1>3, <1>4 DEF Keeps

\* The end of an administrator's request.
LEMMA FinishFacts ==
    ASSUME TypeOK, NEW a \in Admins, Finish(a)
    PROVE  /\ Keeps(a) /\ pc'[a] = "idle" /\ tok'[a] = 0
           /\ pc' \in [Actors -> States]
           /\ tok' \in [Actors -> 0 .. issued] /\ new' \in [Actors -> 0 .. issued]
           /\ status' \in [Admins -> BOOLEAN \union {None}]
           /\ \A b \in Admins \ {a} : status'[b] = status[b]
<1>1. a \in Actors /\ 0 \in 0 .. issued
  BY DEF Actors, TypeOK
<1>2. Keeps(a) /\ pc'[a] = "idle"
  BY <1>1, Alone DEF Finish
<1>3. pc' \in [Actors -> States]
  BY DEF Finish, Goto, TypeOK, States
<1>4. /\ tok' \in [Actors -> 0 .. issued] /\ new' \in [Actors -> 0 .. issued]
      /\ tok'[a] = 0
  BY <1>1 DEF Finish, TypeOK
<1>5. /\ status' \in [Admins -> BOOLEAN \union {None}]
      /\ \A b \in Admins \ {a} : status'[b] = status[b]
  BY DEF Finish, TypeOK
<1> QED
  BY <1>2, <1>3, <1>4, <1>5

\* What an administrator's step leaves alone.
LEMMA AdminFrame ==
    ASSUME TypeOK, NEW a \in Admins, AdminStep(a)
    PROVE  /\ Keeps(a)
           /\ UNCHANGED <<grok, mutex, lock, held, unlocked>>
           /\ \A s \in Refreshers : pc'[s] = pc[s] /\ tok'[s] = tok[s]
           /\ \A b \in Admins \ {a} : status'[b] = status[b]
           /\ issued' = issued \/ issued' = issued + 1
           /\ live' \subseteq live \union {issued + 1}
<1> USE DEF accountVars, lockVars, providerVars
<1>1. a \in Actors /\ \A s \in Refreshers : s \in Actors \ {a}
  BY ConstantsAssumption DEF Actors
<1>2. UNCHANGED <<grok, mutex, lock, held, unlocked>>
  BY DEF AdminStep, GetAccount, RefreshSingleAccount, RefreshSingleAccountFails, GetByID,
     StoreRefreshed, StoreRefreshedFails, EditAccount, StoreEdited, BeginApply,
     ApplyOAuthCredentials, ClearAccountError, UpdateAccountFails
<1> DEFINE Frame == /\ Keeps(a)
                    /\ \A b \in Admins \ {a} : status'[b] = status[b]
                    /\ issued' = issued \/ issued' = issued + 1
                    /\ live' \subseteq live \union {issued + 1}
<1>3. ASSUME Keeps(a), \A b \in Admins \ {a} : status'[b] = status[b],
             \/ UNCHANGED <<issued, live>>
             \/ \E g, dead : Issue(g, dead)
      PROVE  Frame
  BY <1>3 DEF Issue
<1> HIDE DEF Frame
<1>4. ASSUME GetAccount(a) PROVE Frame
  <2>1. Keeps(a)
    BY <1>1, <1>4, Alone DEF GetAccount
  <2> QED
    BY <1>3, <1>4, <2>1 DEF GetAccount
<1>5. ASSUME RefreshSingleAccount(a) PROVE Frame
  <2>1. CASE tok[a] \in live
    <3>1. Keeps(a)
      BY <1>1, <1>5, <2>1, Alone DEF RefreshSingleAccount
    <3>2. UNCHANGED status /\ \E g, dead : Issue(g, dead)
      BY <1>5, <2>1 DEF RefreshSingleAccount
    <3> QED
      BY <1>3, <3>1, <3>2
  <2>2. CASE tok[a] \notin live
    <3>1. Finish(a) /\ UNCHANGED <<issued, live>>
      BY <1>5, <2>2 DEF RefreshSingleAccount
    <3> QED
      BY <1>3, <3>1, FinishFacts
  <2> QED
    BY <2>1, <2>2
<1>6. ASSUME RefreshSingleAccountFails(a) PROVE Frame
  <2>1. Finish(a) /\ (UNCHANGED <<issued, live>> \/ \E g, dead : Issue(g, dead))
    BY <1>6 DEF RefreshSingleAccountFails
  <2> QED
    BY <1>3, <2>1, FinishFacts
<1>7. ASSUME GetByID(a) PROVE Frame
  <2>1. Keeps(a) /\ \A b \in Admins \ {a} : status'[b] = status[b]
    BY <1>7 DEF GetByID, ReadStatus, Keeps, TypeOK
  <2> QED
    BY <1>3, <1>7, <2>1 DEF GetByID
<1>8. ASSUME StoreRefreshed(a) \/ StoreRefreshedFails(a) \/ StoreEdited(a) \/ UpdateAccountFails(a)
      PROVE  Frame
  <2>1. Finish(a) /\ UNCHANGED <<issued, live>>
    BY <1>8 DEF StoreRefreshed, StoreRefreshedFails, StoreEdited, UpdateAccountFails
  <2> QED
    BY <1>3, <2>1, FinishFacts
<1>9. ASSUME EditAccount(a) PROVE Frame
  <2>1. Keeps(a)
    BY <1>1, <1>9, Alone DEF EditAccount
  <2> QED
    BY <1>3, <1>9, <2>1 DEF EditAccount
<1>10. ASSUME BeginApply(a) PROVE Frame
  <2>1. Keeps(a)
    BY <1>1, <1>10, Alone DEF BeginApply
  <2>2. \A b \in Admins \ {a} : status'[b] = status[b]
    BY <1>10 DEF BeginApply, ReadStatus, TypeOK
  <2> QED
    BY <1>3, <1>10, <2>1, <2>2 DEF BeginApply
<1>11. ASSUME ApplyOAuthCredentials(a) PROVE Frame
  <2>1. Keeps(a)
    BY <1>1, <1>11, Alone DEF ApplyOAuthCredentials
  <2>2. \A b \in Admins \ {a} : status'[b] = status[b]
    BY <1>11 DEF ApplyOAuthCredentials, TypeOK
  <2> QED
    BY <1>3, <1>11, <2>1, <2>2 DEF ApplyOAuthCredentials
<1>12. ASSUME ClearAccountError(a) PROVE Frame
  <2>1. Keeps(a)
    BY <1>1, <1>12, Alone DEF ClearAccountError
  <2> QED
    BY <1>3, <1>12, <2>1 DEF ClearAccountError
<1>13. Frame
  BY <1>4, <1>5, <1>6, <1>7, <1>8, <1>9, <1>10, <1>11, <1>12 DEF AdminStep
<1> QED
  BY <1>1, <1>2, <1>13 DEF Keeps, Frame

\* What a refresher's step leaves alone.
LEMMA RefresherFrame ==
    ASSUME TypeOK, NEW r \in Refreshers, Start(r) \/ RefresherStep(r) \/ RefresherFails(r)
    PROVE  Keeps(r) /\ UNCHANGED status /\ (issued' = issued \/ issued' = issued + 1)
<1> USE DEF accountVars, lockVars, procVars, providerVars
<1>1. r \in Actors
  BY DEF Actors
<1>2. UNCHANGED status /\ (issued' = issued \/ issued' = issued + 1)
  BY DEF Start, RefresherStep, RefresherFails, AcquireRefreshLock, ReadAccount, Refresh,
     TryRecoverFromRefreshRace, UpdateCredentials, ReleaseRefreshLock, SetRefreshError,
     RetryOrCool, AcquireRefreshLockFails, ReadAccountFails, RefreshFails,
     TryRecoverFromRefreshRaceFails, UpdateCredentialsFails, SetRefreshErrorFails, Issue
<1>3. \E state : Goto(r, state)
  BY DEF Start, RefresherStep, RefresherFails, AcquireRefreshLock, ReadAccount, Refresh,
     TryRecoverFromRefreshRace, UpdateCredentials, ReleaseRefreshLock, SetRefreshError,
     RetryOrCool, AcquireRefreshLockFails, ReadAccountFails, RefreshFails,
     TryRecoverFromRefreshRaceFails, UpdateCredentialsFails, SetRefreshErrorFails
<1>4. tok' = tok \/ \E v : tok' = [tok EXCEPT ![r] = v]
  BY DEF Start, RefresherStep, RefresherFails, AcquireRefreshLock, ReadAccount, Refresh,
     TryRecoverFromRefreshRace, UpdateCredentials, ReleaseRefreshLock, SetRefreshError,
     RetryOrCool, AcquireRefreshLockFails, ReadAccountFails, RefreshFails,
     TryRecoverFromRefreshRaceFails, UpdateCredentialsFails, SetRefreshErrorFails
<1>5. new' = new \/ \E v : new' = [new EXCEPT ![r] = v]
  BY DEF Start, RefresherStep, RefresherFails, AcquireRefreshLock, ReadAccount, Refresh,
     TryRecoverFromRefreshRace, UpdateCredentials, ReleaseRefreshLock, SetRefreshError,
     RetryOrCool, AcquireRefreshLockFails, ReadAccountFails, RefreshFails,
     TryRecoverFromRefreshRaceFails, UpdateCredentialsFails, SetRefreshErrorFails
<1>6. PICK state : Goto(r, state)
  BY <1>3
<1>7. Keeps(r)
  BY <1>1, <1>4, <1>5, <1>6, Alone
<1> QED
  BY <1>2, <1>7

-----------------------------------------------------------------------------
\* An administrator's step keeps the types.
LEMMA AdminTypeStep ==
    ASSUME TypeOK, PersistingFresh, AdminKnows, NEW a \in Admins, AdminStep(a)
    PROVE  TypeOK'
<1> USE DEF accountVars, lockVars, providerVars
<1> DEFINE ProcType == /\ pc \in [Actors -> States]
                       /\ tok \in [Actors -> 0 .. issued] /\ new \in [Actors -> 0 .. issued]
                       /\ status \in [Admins -> BOOLEAN \union {None}]
           Same == UNCHANGED <<issued, last, live, grant>>
<1>1. a \in Actors /\ DocumentType /\ LockType /\ FlagType /\ ProcType
  BY DEF Actors, TypeOK, DocumentType, LockType, FlagType
<1>2. LockType' /\ grok' \in BOOLEAN /\ unlocked' \in BOOLEAN
  BY <1>1, AdminFrame DEF LockType, FlagType
<1>3. faults' \in Nat
  <2>1. faults' = faults \/ faults' = faults + 1
    BY DEF AdminStep, GetAccount, RefreshSingleAccount, RefreshSingleAccountFails, GetByID,
       StoreRefreshed, StoreRefreshedFails, EditAccount, StoreEdited, BeginApply,
       ApplyOAuthCredentials, ClearAccountError, UpdateAccountFails, Fault
  <2> QED
    BY <2>1 DEF TypeOK
<1>4. 1 .. issued \subseteq 0 .. issued /\ db \in 0 .. issued
  BY <1>1 DEF DocumentType
<1>5. ASSUME Same, ProcType', db' \in 1 .. issued, needs' \in BOOLEAN, active' \in BOOLEAN,
             cooling' \in BOOLEAN, crossed' \subseteq {"edit", "refresh"}, lost' \in BOOLEAN
      PROVE  TypeOK'
  BY <1>1, <1>2, <1>3, <1>5 DEF TypeOK, DocumentType, LockType
<1>6. ASSUME ProcType', Same, UNCHANGED <<db, needs, active, cooling, crossed, lost>>
      PROVE  TypeOK'
  BY <1>1, <1>5, <1>6 DEF DocumentType, FlagType
<1>7. ASSUME tok[a] \in live, Issue(grant[tok[a]], {tok[a]}), pc' \in [Actors -> States],
             UNCHANGED <<db, last, needs, active, cooling, crossed>>, lost' \in BOOLEAN,
             \/ tok' = tok /\ new' = [new EXCEPT ![a] = issued + 1]
             \/ tok' \in [Actors -> 0 .. issued] /\ new' \in [Actors -> 0 .. issued],
             status' \in [Admins -> BOOLEAN \union {None}]
      PROVE  TypeOK'
  <2>1. grant[tok[a]] \in 1 .. issued + 1
    BY <1>1, <1>7 DEF DocumentType
  <2>2. /\ issued' = issued + 1 /\ issued' \in Nat \ {0}
        /\ live' \in SUBSET (1 .. issued')
        /\ grant' \in [1 .. issued' -> 1 .. issued']
    BY <1>1, <1>7, <2>1, IssueFacts
  <2>3. tok' \in [Actors -> 0 .. issued'] /\ new' \in [Actors -> 0 .. issued']
    <3>1. tok \in [Actors -> 0 .. issued] /\ new \in [Actors -> 0 .. issued]
      BY <1>1
    <3>2. CASE tok' = tok /\ new' = [new EXCEPT ![a] = issued + 1]
      BY <1>1, <2>2, <3>1, <3>2, Grows
    <3>3. CASE tok' \in [Actors -> 0 .. issued] /\ new' \in [Actors -> 0 .. issued]
      BY <1>1, <2>2, <3>3, Grows
    <3> QED
      BY <1>7, <3>2, <3>3
  <2>4. db' \in 1 .. issued' /\ last' \in 1 .. issued'
    BY <1>1, <1>7, <2>2, Grows DEF DocumentType
  <2> QED
    BY <1>1, <1>2, <1>3, <1>7, <2>2, <2>3, <2>4 DEF TypeOK, LockType, FlagType
<1>8. CASE GetAccount(a)
  <2>1. ProcType'
    BY <1>1, <1>4, <1>8 DEF GetAccount, Goto, States, InApi
  <2> QED
    BY <1>6, <1>8, <2>1 DEF GetAccount
<1>9. CASE RefreshSingleAccount(a)
  <2>1. CASE tok[a] \in live
    <3>1. pc' \in [Actors -> States]
      BY <1>1, <1>9, <2>1 DEF RefreshSingleAccount, Goto, States, InApi
    <3> QED
      BY <1>1, <1>7, <1>9, <2>1, <3>1 DEF RefreshSingleAccount, FlagType
  <2>2. CASE tok[a] \notin live
    BY <1>6, <1>9, <2>2, FinishFacts DEF RefreshSingleAccount
  <2> QED
    BY <2>1, <2>2
<1>10. CASE RefreshSingleAccountFails(a)
  <2>1. /\ pc' \in [Actors -> States]
        /\ tok' \in [Actors -> 0 .. issued] /\ new' \in [Actors -> 0 .. issued]
        /\ status' \in [Admins -> BOOLEAN \union {None}]
    BY <1>10, FinishFacts DEF RefreshSingleAccountFails
  <2>2. UNCHANGED <<db, last, needs, active, cooling, crossed>>
    BY <1>10 DEF RefreshSingleAccountFails
  <2>3. CASE UNCHANGED <<live, issued, grant, lost>>
    BY <1>6, <2>1, <2>2, <2>3
  <2>4. CASE tok[a] \in live /\ Issue(grant[tok[a]], {tok[a]}) /\ lost' = TRUE
    BY <1>7, <2>1, <2>2, <2>4
  <2> QED
    BY <1>10, <2>3, <2>4 DEF RefreshSingleAccountFails
<1>11. CASE GetByID(a)
  <2>1. ProcType'
    BY <1>1, <1>11 DEF GetByID, ReadStatus, FlagType
  <2> QED
    BY <1>6, <1>11, <2>1 DEF GetByID
<1>12. CASE StoreRefreshed(a)
  <2>1. new[a] \in 1 .. issued
    BY <1>1, <1>12 DEF StoreRefreshed, PersistingFresh, DocumentType
  <2>2. status[a] \in BOOLEAN
    BY <1>1, <1>12 DEF StoreRefreshed
  <2>3. Same /\ db' = new[a] /\ needs' = FALSE /\ active' = status[a] /\ UNCHANGED <<cooling, lost>>
    BY <1>12 DEF StoreRefreshed
  <2>4. crossed' \subseteq {"edit", "refresh"}
    BY <1>1, <1>12 DEF StoreRefreshed, Crosses, FlagType
  <2>5. ProcType'
    BY <1>12, <2>3, FinishFacts DEF StoreRefreshed
  <2> QED
    BY <1>1, <1>5, <2>1, <2>2, <2>3, <2>4, <2>5 DEF FlagType
<1>13. CASE StoreRefreshedFails(a)
  <2>1. ProcType' /\ Same /\ UNCHANGED <<db, needs, active, cooling, crossed>> /\ lost' = TRUE
    BY <1>13, FinishFacts DEF StoreRefreshedFails
  <2> QED
    BY <1>1, <1>5, <2>1 DEF DocumentType, FlagType
<1>14. CASE EditAccount(a)
  <2>1. ProcType'
    BY <1>1, <1>4, <1>14 DEF EditAccount, Goto, States
  <2> QED
    BY <1>6, <1>14, <2>1 DEF EditAccount
<1>15. CASE StoreEdited(a)
  <2>1. tok[a] \in 1 .. issued
    BY <1>15 DEF StoreEdited, AdminKnows
  <2>2. Same /\ db' = tok[a] /\ active' \in BOOLEAN /\ UNCHANGED <<cooling, lost>>
    BY <1>15 DEF StoreEdited
  <2>3. needs' \in BOOLEAN
    BY <1>1, <1>15 DEF StoreEdited, FlagType
  <2>4. crossed' \subseteq {"edit", "refresh"}
    BY <1>1, <1>15 DEF StoreEdited, Crosses, FlagType
  <2>5. ProcType'
    BY <1>15, <2>2, FinishFacts DEF StoreEdited
  <2> QED
    BY <1>1, <1>5, <2>1, <2>2, <2>3, <2>4, <2>5 DEF FlagType
<1>16. CASE BeginApply(a)
  <2>1. ProcType'
    BY <1>1, <1>16 DEF BeginApply, ReadStatus, Goto, States, FlagType
  <2> QED
    BY <1>6, <1>16, <2>1 DEF BeginApply
<1>17. CASE ApplyOAuthCredentials(a)
  <2>1. issued + 1 \in 1 .. issued + 1
    BY <1>1 DEF DocumentType
  <2>2. /\ issued' = issued + 1 /\ issued' \in Nat \ {0}
        /\ live' \in SUBSET (1 .. issued')
        /\ grant' \in [1 .. issued' -> 1 .. issued']
    BY <1>1, <1>17, <2>1, IssueFacts DEF ApplyOAuthCredentials
  <2>3. db' = issued' /\ last' = issued' /\ UNCHANGED <<tok, new>>
    BY <1>17, <2>2 DEF ApplyOAuthCredentials, Merged
  <2>4. tok' \in [Actors -> 0 .. issued'] /\ new' \in [Actors -> 0 .. issued']
    BY <1>1, <2>2, <2>3, Grows
  <2>5. db' \in 1 .. issued' /\ last' \in 1 .. issued'
    BY <2>2, <2>3
  <2>6. pc' \in [Actors -> States] /\ status' \in [Admins -> BOOLEAN \union {None}]
    BY <1>1, <1>17 DEF ApplyOAuthCredentials, Goto, States
  <2>7. active' \in BOOLEAN /\ needs' = FALSE /\ lost' = FALSE /\ crossed' = {} /\ UNCHANGED cooling
    BY <1>17 DEF ApplyOAuthCredentials, AdminKnows
  <2> QED
    BY <1>1, <1>2, <1>3, <2>2, <2>4, <2>5, <2>6, <2>7 DEF TypeOK, LockType, FlagType
<1>18. CASE ClearAccountError(a)
  <2>1. ProcType' /\ Same /\ UNCHANGED <<db, needs, crossed, lost>>
    BY <1>1, <1>18 DEF ClearAccountError, Goto, States
  <2>2. active' \in BOOLEAN /\ cooling' \in BOOLEAN
    BY <1>1, <1>18 DEF ClearAccountError, FlagType
  <2> QED
    BY <1>1, <1>5, <2>1, <2>2 DEF DocumentType, FlagType
<1>19. CASE UpdateAccountFails(a)
  BY <1>6, <1>19, FinishFacts DEF UpdateAccountFails
<1> QED
  BY <1>8, <1>9, <1>10, <1>11, <1>12, <1>13, <1>14, <1>15, <1>16, <1>17, <1>18, <1>19 DEF AdminStep

\* Every step keeps the types.
LEMMA TypeStep ==
    TypeOK /\ PersistingFresh /\ AdminKnows /\ [Next]_vars => TypeOK'
<1> SUFFICES ASSUME TypeOK, PersistingFresh, AdminKnows, [Next]_vars
             PROVE  TypeOK'
  OBVIOUS
<1> Refreshers \subseteq Actors /\ Admins \subseteq Actors
  BY DEF Actors
<1>1. ASSUME NEW r \in Refreshers, Start(r)
       PROVE  TypeOK'
  <2> DocumentType /\ LockType /\ FlagType
    BY DEF TypeOK, DocumentType, LockType, FlagType
  <2>1. FlagType'
    BY <1>1 DEF Start, accountVars, FlagType
  <2>2. DocumentType'
    BY <1>1, ConstantsAssumption DEF Start, accountVars, procVars, providerVars,
       DocumentType
  <2>3. LockType'
    BY <1>1, ConstantsAssumption DEF Start, lockVars, LockType
  <2>4. pc' \in [Actors -> States] /\ status' \in [Admins -> BOOLEAN \union {None}]
    BY <1>1 DEF Start, Goto, procVars, TypeOK, States, InApi
  <2>5. faults' \in Nat
    BY <1>1 DEF Start, TypeOK
  <2> QED
    BY <2>1, <2>2, <2>3, <2>4, <2>5 DEF TypeOK, FlagType, DocumentType, LockType
<1>2. ASSUME NEW r \in Refreshers, AcquireRefreshLock(r)
       PROVE  TypeOK'
  <2> DocumentType /\ LockType /\ FlagType
    BY DEF TypeOK, DocumentType, LockType, FlagType
  <2>1. FlagType'
    BY <1>2 DEF AcquireRefreshLock, accountVars, FlagType
  <2>2. DocumentType'
    BY <1>2, ConstantsAssumption DEF AcquireRefreshLock, accountVars, procVars,
       providerVars, DocumentType
  <2>3. LockType'
    BY <1>2, ConstantsAssumption DEF AcquireRefreshLock, LeaveMutex, lockVars,
       LockType
  <2>4. pc' \in [Actors -> States] /\ status' \in [Admins -> BOOLEAN \union {None}]
    BY <1>2 DEF AcquireRefreshLock, Goto, procVars, TypeOK, States, InApi
  <2>5. faults' \in Nat
    BY <1>2 DEF AcquireRefreshLock, TypeOK
  <2> QED
    BY <2>1, <2>2, <2>3, <2>4, <2>5 DEF TypeOK, FlagType, DocumentType, LockType
<1>3. ASSUME NEW r \in Refreshers, AcquireRefreshLockFails(r)
       PROVE  TypeOK'
  <2> DocumentType /\ LockType /\ FlagType
    BY DEF TypeOK, DocumentType, LockType, FlagType
  <2>1. FlagType'
    BY <1>3 DEF AcquireRefreshLockFails, Fault, accountVars, FlagType
  <2>2. DocumentType'
    BY <1>3, ConstantsAssumption DEF AcquireRefreshLockFails, accountVars,
       procVars, providerVars, DocumentType
  <2>3. LockType'
    BY <1>3, ConstantsAssumption DEF AcquireRefreshLockFails, lockVars, LockType
  <2>4. pc' \in [Actors -> States] /\ status' \in [Admins -> BOOLEAN \union {None}]
    BY <1>3 DEF AcquireRefreshLockFails, Goto, procVars, TypeOK, States, InApi
  <2>5. faults' \in Nat
    BY <1>3 DEF AcquireRefreshLockFails, Fault, TypeOK
  <2> QED
    BY <2>1, <2>2, <2>3, <2>4, <2>5 DEF TypeOK, FlagType, DocumentType, LockType
<1>4. ASSUME NEW r \in Refreshers, ReadAccount(r)
       PROVE  TypeOK'
  <2> DocumentType /\ LockType /\ FlagType
    BY DEF TypeOK, DocumentType, LockType, FlagType
  <2>1. FlagType'
    BY <1>4 DEF ReadAccount, accountVars, FlagType
  <2>2. DocumentType'
    <3>1. UNCHANGED <<issued, db, last, live, grant>>
      BY <1>4 DEF ReadAccount, accountVars, providerVars
    <3>2. tok' \in [Actors -> 0 .. issued]
      <4>1. db \in 0 .. issued /\ tok \in [Actors -> 0 .. issued]
        BY DEF DocumentType
      <4> QED
        BY <1>4, <4>1 DEF ReadAccount
    <3>3. new' \in [Actors -> 0 .. issued]
      BY <1>4 DEF ReadAccount, DocumentType
    <3> QED
      BY <3>1, <3>2, <3>3 DEF DocumentType
  <2>3. LockType'
    BY <1>4, ConstantsAssumption DEF ReadAccount, lockVars, LockType
  <2>4. pc' \in [Actors -> States] /\ status' \in [Admins -> BOOLEAN \union {None}]
    BY <1>4 DEF ReadAccount, Goto, procVars, TypeOK, States, InApi
  <2>5. faults' \in Nat
    BY <1>4 DEF ReadAccount, TypeOK
  <2> QED
    BY <2>1, <2>2, <2>3, <2>4, <2>5 DEF TypeOK, FlagType, DocumentType, LockType
<1>5. ASSUME NEW r \in Refreshers, ReadAccountFails(r)
       PROVE  TypeOK'
  <2> DocumentType /\ LockType /\ FlagType
    BY DEF TypeOK, DocumentType, LockType, FlagType
  <2>1. FlagType'
    BY <1>5 DEF ReadAccountFails, Fault, accountVars, FlagType
  <2>2. DocumentType'
    BY <1>5, ConstantsAssumption DEF ReadAccountFails, accountVars, procVars,
       providerVars, DocumentType
  <2>3. LockType'
    BY <1>5, ConstantsAssumption DEF ReadAccountFails, lockVars, LockType
  <2>4. pc' \in [Actors -> States] /\ status' \in [Admins -> BOOLEAN \union {None}]
    BY <1>5 DEF ReadAccountFails, Goto, procVars, TypeOK, States, InApi
  <2>5. faults' \in Nat
    BY <1>5 DEF ReadAccountFails, Fault, TypeOK
  <2> QED
    BY <2>1, <2>2, <2>3, <2>4, <2>5 DEF TypeOK, FlagType, DocumentType, LockType
<1>6. ASSUME NEW r \in Refreshers, Refresh(r)
       PROVE  TypeOK'
  <2> DocumentType /\ LockType /\ FlagType
    BY DEF TypeOK, DocumentType, LockType, FlagType
  <2>1. FlagType'
    BY <1>6 DEF Refresh, accountVars, FlagType
  <2>2. DocumentType'
    <3>1. tok[r] \in live => grant[tok[r]] \in 1 .. issued + 1 /\ tok[r] \in 1 .. issued
      BY DEF DocumentType
    <3>2. CASE tok[r] \in live /\ Issue(grant[tok[r]], {tok[r]})
      <4>1. /\ issued' = issued + 1 /\ issued' \in Nat \ {0}
            /\ live' \in SUBSET (1 .. issued')
            /\ grant' \in [1 .. issued' -> 1 .. issued']
        BY <3>1, <3>2, IssueFacts
      <4>2. UNCHANGED <<db, last, tok>> /\ (new' = new \/ new' = [new EXCEPT ![r] = issued'])
        BY <1>6, <3>2, <4>1 DEF Refresh, accountVars
      <4>3. db' \in 1 .. issued' /\ last' \in 1 .. issued'
        BY <4>1, <4>2, Grows DEF DocumentType
      <4>4. tok' \in [Actors -> 0 .. issued'] /\ new' \in [Actors -> 0 .. issued']
        <5>1. tok \in [Actors -> 0 .. issued] /\ new \in [Actors -> 0 .. issued]
          BY DEF DocumentType
        <5>2. CASE new' = new
          BY <4>1, <4>2, <5>1, <5>2, Grows
        <5>3. CASE new' = [new EXCEPT ![r] = issued']
          BY <4>1, <4>2, <5>1, <5>3, Grows
        <5> QED
          BY <4>2, <5>2, <5>3
      <4> QED
        BY <4>1, <4>3, <4>4 DEF DocumentType
    <3>3. CASE UNCHANGED <<live, issued, grant, new>>
      BY <1>6, <3>3 DEF Refresh, accountVars, DocumentType
    <3> QED
      BY <1>6, <3>2, <3>3 DEF Refresh
  <2>3. LockType'
    BY <1>6, ConstantsAssumption DEF Refresh, lockVars, LockType
  <2>4. pc' \in [Actors -> States] /\ status' \in [Admins -> BOOLEAN \union {None}]
    BY <1>6 DEF Refresh, Goto, procVars, TypeOK, States, InApi
  <2>5. faults' \in Nat
    BY <1>6 DEF Refresh, TypeOK
  <2> QED
    BY <2>1, <2>2, <2>3, <2>4, <2>5 DEF TypeOK, FlagType, DocumentType, LockType
<1>7. ASSUME NEW r \in Refreshers, RefreshFails(r)
       PROVE  TypeOK'
  <2> DocumentType /\ LockType /\ FlagType
    BY DEF TypeOK, DocumentType, LockType, FlagType
  <2>1. FlagType'
    BY <1>7 DEF RefreshFails, Fault, accountVars, FlagType
  <2>2. DocumentType'
    <3>1. tok[r] \in live => grant[tok[r]] \in 1 .. issued + 1 /\ tok[r] \in 1 .. issued
      BY DEF DocumentType
    <3>2. CASE tok[r] \in live /\ Issue(grant[tok[r]], {tok[r]})
      <4>1. /\ issued' = issued + 1 /\ issued' \in Nat \ {0}
            /\ live' \in SUBSET (1 .. issued')
            /\ grant' \in [1 .. issued' -> 1 .. issued']
        BY <3>1, <3>2, IssueFacts
      <4>2. UNCHANGED <<db, last, tok>> /\ (new' = new \/ new' = [new EXCEPT ![r] = issued'])
        BY <1>7, <3>2, <4>1 DEF RefreshFails, accountVars
      <4>3. db' \in 1 .. issued' /\ last' \in 1 .. issued'
        BY <4>1, <4>2, Grows DEF DocumentType
      <4>4. tok' \in [Actors -> 0 .. issued'] /\ new' \in [Actors -> 0 .. issued']
        <5>1. tok \in [Actors -> 0 .. issued] /\ new \in [Actors -> 0 .. issued]
          BY DEF DocumentType
        <5>2. CASE new' = new
          BY <4>1, <4>2, <5>1, <5>2, Grows
        <5>3. CASE new' = [new EXCEPT ![r] = issued']
          BY <4>1, <4>2, <5>1, <5>3, Grows
        <5> QED
          BY <4>2, <5>2, <5>3
      <4> QED
        BY <4>1, <4>3, <4>4 DEF DocumentType
    <3>3. CASE UNCHANGED <<live, issued, grant, new>>
      BY <1>7, <3>3 DEF RefreshFails, accountVars, DocumentType
    <3> QED
      BY <1>7, <3>2, <3>3 DEF RefreshFails
  <2>3. LockType'
    BY <1>7, ConstantsAssumption DEF RefreshFails, lockVars, LockType
  <2>4. pc' \in [Actors -> States] /\ status' \in [Admins -> BOOLEAN \union {None}]
    BY <1>7 DEF RefreshFails, Goto, procVars, TypeOK, States, InApi
  <2>5. faults' \in Nat
    BY <1>7 DEF RefreshFails, Fault, TypeOK
  <2> QED
    BY <2>1, <2>2, <2>3, <2>4, <2>5 DEF TypeOK, FlagType, DocumentType, LockType
<1>8. ASSUME NEW r \in Refreshers, TryRecoverFromRefreshRace(r)
       PROVE  TypeOK'
  <2> DocumentType /\ LockType /\ FlagType
    BY DEF TypeOK, DocumentType, LockType, FlagType
  <2>1. FlagType'
    BY <1>8 DEF TryRecoverFromRefreshRace, accountVars, FlagType
  <2>2. DocumentType'
    BY <1>8, ConstantsAssumption DEF TryRecoverFromRefreshRace, accountVars,
       procVars, providerVars, DocumentType
  <2>3. LockType'
    BY <1>8, ConstantsAssumption DEF TryRecoverFromRefreshRace, lockVars,
       LockType
  <2>4. pc' \in [Actors -> States] /\ status' \in [Admins -> BOOLEAN \union {None}]
    BY <1>8 DEF TryRecoverFromRefreshRace, Goto, procVars, TypeOK, States, InApi
  <2>5. faults' \in Nat
    BY <1>8 DEF TryRecoverFromRefreshRace, TypeOK
  <2> QED
    BY <2>1, <2>2, <2>3, <2>4, <2>5 DEF TypeOK, FlagType, DocumentType, LockType
<1>9. ASSUME NEW r \in Refreshers, TryRecoverFromRefreshRaceFails(r)
       PROVE  TypeOK'
  <2> DocumentType /\ LockType /\ FlagType
    BY DEF TypeOK, DocumentType, LockType, FlagType
  <2>1. FlagType'
    BY <1>9 DEF TryRecoverFromRefreshRaceFails, Fault, accountVars, FlagType
  <2>2. DocumentType'
    BY <1>9, ConstantsAssumption DEF TryRecoverFromRefreshRaceFails, accountVars,
       procVars, providerVars, DocumentType
  <2>3. LockType'
    BY <1>9, ConstantsAssumption DEF TryRecoverFromRefreshRaceFails, lockVars,
       LockType
  <2>4. pc' \in [Actors -> States] /\ status' \in [Admins -> BOOLEAN \union {None}]
    BY <1>9 DEF TryRecoverFromRefreshRaceFails, Goto, procVars, TypeOK, States,
       InApi
  <2>5. faults' \in Nat
    BY <1>9 DEF TryRecoverFromRefreshRaceFails, Fault, TypeOK
  <2> QED
    BY <2>1, <2>2, <2>3, <2>4, <2>5 DEF TypeOK, FlagType, DocumentType, LockType
<1>10. ASSUME NEW r \in Refreshers, UpdateCredentials(r)
       PROVE  TypeOK'
  <2> DocumentType /\ LockType /\ FlagType
    BY DEF TypeOK, DocumentType, LockType, FlagType
  <2>1. FlagType'
    BY <1>10 DEF UpdateCredentials, Persist, accountVars, FlagType
  <2>2. DocumentType'
    <3>1. new[r] \in 1 .. issued
      BY <1>10 DEF UpdateCredentials, PersistingFresh, DocumentType
    <3> QED
      BY <1>10, <3>1 DEF UpdateCredentials, Persist, Stored, providerVars, DocumentType
  <2>3. LockType'
    BY <1>10, ConstantsAssumption DEF UpdateCredentials, lockVars, LockType
  <2>4. pc' \in [Actors -> States] /\ status' \in [Admins -> BOOLEAN \union {None}]
    BY <1>10 DEF UpdateCredentials, Goto, procVars, TypeOK, States, InApi
  <2>5. faults' \in Nat
    BY <1>10 DEF UpdateCredentials, TypeOK
  <2> QED
    BY <2>1, <2>2, <2>3, <2>4, <2>5 DEF TypeOK, FlagType, DocumentType, LockType
<1>11. ASSUME NEW r \in Refreshers, UpdateCredentialsFails(r)
       PROVE  TypeOK'
  <2> DocumentType /\ LockType /\ FlagType
    BY DEF TypeOK, DocumentType, LockType, FlagType
  <2>1. FlagType'
    BY <1>11 DEF UpdateCredentialsFails, Persist, Fault, accountVars, FlagType
  <2>2. DocumentType'
    <3>1. new[r] \in 1 .. issued
      BY <1>11 DEF UpdateCredentialsFails, PersistingFresh, DocumentType
    <3> QED
      BY <1>11, <3>1 DEF UpdateCredentialsFails, Persist, Stored, providerVars, DocumentType
  <2>3. LockType'
    BY <1>11, ConstantsAssumption DEF UpdateCredentialsFails, lockVars, LockType
  <2>4. pc' \in [Actors -> States] /\ status' \in [Admins -> BOOLEAN \union {None}]
    BY <1>11 DEF UpdateCredentialsFails, Goto, procVars, TypeOK, States, InApi
  <2>5. faults' \in Nat
    BY <1>11 DEF UpdateCredentialsFails, Fault, TypeOK
  <2> QED
    BY <2>1, <2>2, <2>3, <2>4, <2>5 DEF TypeOK, FlagType, DocumentType, LockType
<1>12. ASSUME NEW r \in Refreshers, ReleaseRefreshLock(r)
       PROVE  TypeOK'
  <2> DocumentType /\ LockType /\ FlagType
    BY DEF TypeOK, DocumentType, LockType, FlagType
  <2>1. FlagType'
    BY <1>12 DEF ReleaseRefreshLock, Fault, accountVars, FlagType
  <2>2. DocumentType'
    <3>1. UNCHANGED <<issued, db, last, live, grant>>
      BY <1>12 DEF ReleaseRefreshLock, accountVars, providerVars
    <3>2. tok' \in [Actors -> 0 .. issued]
      <4>1. db \in 0 .. issued /\ tok \in [Actors -> 0 .. issued]
        BY DEF DocumentType
      <4> QED
        BY <1>12, <4>1 DEF ReleaseRefreshLock
    <3>3. new' \in [Actors -> 0 .. issued]
      BY <1>12 DEF ReleaseRefreshLock, DocumentType
    <3> QED
      BY <3>1, <3>2, <3>3 DEF DocumentType
  <2>3. LockType'
    BY <1>12, ConstantsAssumption DEF ReleaseRefreshLock, LeaveMutex, lockVars,
       LockType
  <2>4. pc' \in [Actors -> States] /\ status' \in [Admins -> BOOLEAN \union {None}]
    BY <1>12 DEF ReleaseRefreshLock, Outcome, Goto, procVars, TypeOK, States,
       InApi
  <2>5. faults' \in Nat
    BY <1>12 DEF ReleaseRefreshLock, Fault, TypeOK
  <2> QED
    BY <2>1, <2>2, <2>3, <2>4, <2>5 DEF TypeOK, FlagType, DocumentType, LockType
<1>13. ASSUME NEW r \in Refreshers, SetRefreshError(r)
       PROVE  TypeOK'
  <2> DocumentType /\ LockType /\ FlagType
    BY DEF TypeOK, DocumentType, LockType, FlagType
  <2>1. FlagType'
    BY <1>13 DEF SetRefreshError, accountVars, FlagType
  <2>2. DocumentType'
    BY <1>13, ConstantsAssumption DEF SetRefreshError, accountVars, procVars,
       providerVars, DocumentType
  <2>3. LockType'
    BY <1>13, ConstantsAssumption DEF SetRefreshError, lockVars, LockType
  <2>4. pc' \in [Actors -> States] /\ status' \in [Admins -> BOOLEAN \union {None}]
    BY <1>13 DEF SetRefreshError, Goto, procVars, TypeOK, States, InApi
  <2>5. faults' \in Nat
    BY <1>13 DEF SetRefreshError, TypeOK
  <2> QED
    BY <2>1, <2>2, <2>3, <2>4, <2>5 DEF TypeOK, FlagType, DocumentType, LockType
<1>14. ASSUME NEW r \in Refreshers, SetRefreshErrorFails(r)
       PROVE  TypeOK'
  <2> DocumentType /\ LockType /\ FlagType
    BY DEF TypeOK, DocumentType, LockType, FlagType
  <2>1. FlagType'
    BY <1>14 DEF SetRefreshErrorFails, Fault, accountVars, FlagType
  <2>2. DocumentType'
    BY <1>14, ConstantsAssumption DEF SetRefreshErrorFails, accountVars, procVars,
       providerVars, DocumentType
  <2>3. LockType'
    BY <1>14, ConstantsAssumption DEF SetRefreshErrorFails, lockVars, LockType
  <2>4. pc' \in [Actors -> States] /\ status' \in [Admins -> BOOLEAN \union {None}]
    BY <1>14 DEF SetRefreshErrorFails, Goto, procVars, TypeOK, States, InApi
  <2>5. faults' \in Nat
    BY <1>14 DEF SetRefreshErrorFails, Fault, TypeOK
  <2> QED
    BY <2>1, <2>2, <2>3, <2>4, <2>5 DEF TypeOK, FlagType, DocumentType, LockType
<1>15. ASSUME NEW r \in Refreshers, RetryOrCool(r)
       PROVE  TypeOK'
  <2> DocumentType /\ LockType /\ FlagType
    BY DEF TypeOK, DocumentType, LockType, FlagType
  <2>1. FlagType'
    BY <1>15 DEF RetryOrCool, accountVars, FlagType
  <2>2. DocumentType'
    BY <1>15, ConstantsAssumption DEF RetryOrCool, accountVars, procVars,
       providerVars, DocumentType
  <2>3. LockType'
    BY <1>15, ConstantsAssumption DEF RetryOrCool, lockVars, LockType
  <2>4. pc' \in [Actors -> States] /\ status' \in [Admins -> BOOLEAN \union {None}]
    BY <1>15 DEF RetryOrCool, Goto, procVars, TypeOK, States, InApi
  <2>5. faults' \in Nat
    BY <1>15 DEF RetryOrCool, TypeOK
  <2> QED
    BY <2>1, <2>2, <2>3, <2>4, <2>5 DEF TypeOK, FlagType, DocumentType, LockType
<1>16. ASSUME AccessTokenExpires
       PROVE  TypeOK'
  <2> DocumentType /\ LockType /\ FlagType
    BY DEF TypeOK, DocumentType, LockType, FlagType
  <2>1. FlagType'
    BY <1>16 DEF AccessTokenExpires, accountVars, FlagType
  <2>2. DocumentType'
    BY <1>16, ConstantsAssumption DEF AccessTokenExpires, accountVars, procVars,
       providerVars, DocumentType
  <2>3. LockType'
    BY <1>16, ConstantsAssumption DEF AccessTokenExpires, lockVars, LockType
  <2>4. pc' \in [Actors -> States] /\ status' \in [Admins -> BOOLEAN \union {None}]
    BY <1>16 DEF AccessTokenExpires, Goto, procVars, TypeOK, States, InApi
  <2>5. faults' \in Nat
    BY <1>16 DEF AccessTokenExpires, TypeOK
  <2> QED
    BY <2>1, <2>2, <2>3, <2>4, <2>5 DEF TypeOK, FlagType, DocumentType, LockType
<1>17. ASSUME NEW a \in Admins, AdminStep(a)
       PROVE  TypeOK'
  BY <1>17, AdminTypeStep
<1>19. ASSUME CooldownExpires
       PROVE  TypeOK'
  <2> DocumentType /\ LockType /\ FlagType
    BY DEF TypeOK, DocumentType, LockType, FlagType
  <2>1. FlagType'
    BY <1>19 DEF CooldownExpires, accountVars, FlagType
  <2>2. DocumentType'
    BY <1>19, ConstantsAssumption DEF CooldownExpires, accountVars, procVars,
       providerVars, DocumentType
  <2>3. LockType'
    BY <1>19, ConstantsAssumption DEF CooldownExpires, lockVars, LockType
  <2>4. pc' \in [Actors -> States] /\ status' \in [Admins -> BOOLEAN \union {None}]
    BY <1>19 DEF CooldownExpires, Goto, procVars, TypeOK, States, InApi
  <2>5. faults' \in Nat
    BY <1>19 DEF CooldownExpires, TypeOK
  <2> QED
    BY <2>1, <2>2, <2>3, <2>4, <2>5 DEF TypeOK, FlagType, DocumentType, LockType
<1>20. ASSUME LockExpires
       PROVE  TypeOK'
  <2> DocumentType /\ LockType /\ FlagType
    BY DEF TypeOK, DocumentType, LockType, FlagType
  <2>1. FlagType'
    BY <1>20 DEF LockExpires, accountVars, FlagType
  <2>2. DocumentType'
    BY <1>20, ConstantsAssumption DEF LockExpires, accountVars, procVars,
       providerVars, DocumentType
  <2>3. LockType'
    BY <1>20, ConstantsAssumption DEF LockExpires, lockVars, LockType
  <2>4. pc' \in [Actors -> States] /\ status' \in [Admins -> BOOLEAN \union {None}]
    BY <1>20 DEF LockExpires, Goto, procVars, TypeOK, States, InApi
  <2>5. faults' \in Nat
    BY <1>20 DEF LockExpires, TypeOK
  <2> QED
    BY <2>1, <2>2, <2>3, <2>4, <2>5 DEF TypeOK, FlagType, DocumentType, LockType
<1>21. ASSUME NEW p \in Procs, Crash(p)
       PROVE  TypeOK'
  <2> DocumentType /\ LockType /\ FlagType
    BY DEF TypeOK, DocumentType, LockType, FlagType
  <2>1. FlagType'
    BY <1>21 DEF Crash, Fault, accountVars, FlagType
  <2>2. DocumentType'
    <3>1. UNCHANGED <<issued, db, last, live, grant>>
      BY <1>21 DEF Crash, accountVars, providerVars
    <3>2. tok' \in [Actors -> 0 .. issued]
      <4>1. db \in 0 .. issued /\ tok \in [Actors -> 0 .. issued]
        BY DEF DocumentType
      <4> QED
        BY <1>21, <4>1 DEF Crash
    <3>3. new' \in [Actors -> 0 .. issued]
      BY <1>21 DEF Crash, DocumentType
    <3> QED
      BY <3>1, <3>2, <3>3 DEF DocumentType
  <2>3. LockType'
    BY <1>21, ConstantsAssumption DEF Crash, lockVars, LockType
  <2>4. pc' \in [Actors -> States] /\ status' \in [Admins -> BOOLEAN \union {None}]
    BY <1>21 DEF Crash, Goto, procVars, TypeOK, States, InApi
  <2>5. faults' \in Nat
    BY <1>21 DEF Crash, Fault, TypeOK
  <2> QED
    BY <2>1, <2>2, <2>3, <2>4, <2>5 DEF TypeOK, FlagType, DocumentType, LockType
<1>22. ASSUME UNCHANGED vars
       PROVE  TypeOK'
  <2> DocumentType /\ LockType /\ FlagType
    BY DEF TypeOK, DocumentType, LockType, FlagType
  <2>1. FlagType'
    BY <1>22 DEF vars, accountVars, FlagType
  <2>2. DocumentType'
    BY <1>22, ConstantsAssumption DEF vars, accountVars, procVars, providerVars,
       DocumentType
  <2>3. LockType'
    BY <1>22, ConstantsAssumption DEF vars, lockVars, LockType
  <2>4. pc' \in [Actors -> States] /\ status' \in [Admins -> BOOLEAN \union {None}]
    BY <1>22 DEF vars, Goto, procVars, TypeOK, States, InApi
  <2>5. faults' \in Nat
    BY <1>22 DEF vars, TypeOK
  <2> QED
    BY <2>1, <2>2, <2>3, <2>4, <2>5 DEF TypeOK, FlagType, DocumentType, LockType
<1> QED
  BY <1>1, <1>2, <1>3, <1>4, <1>5, <1>6, <1>7, <1>8, <1>9, <1>10, <1>11, <1>12,
     <1>13, <1>14, <1>15, <1>16, <1>17, <1>19, <1>20, <1>21, <1>22 DEF Next,
     RefresherStep, RefresherFails


-----------------------------------------------------------------------------
(***************************************************************************)
(* What a step does to the documents.                                      *)
(***************************************************************************)
\* A step that touches neither the documents nor those about to store one.
Aside ==
    /\ UNCHANGED <<grok, db, live, issued, grant, last, lost, crossed>>
    /\ \A s \in Actors :
         /\ pc'[s] = "persist" <=> pc[s] = "persist"
         /\ pc[s] = "persist" => tok'[s] = tok[s] /\ new'[s] = new[s]
         /\ tok'[s] \in {tok[s], db, 0}

\* The provider rotates the token of r, whose answer arrives or not.
Rotates(r) ==
    /\ tok[r] \in live /\ pc[r] # "persist"
    /\ Issue(grant[tok[r]], {tok[r]})
    /\ UNCHANGED <<grok, db, last, crossed>> /\ Keeps(r)
    /\ \/ pc'[r] = "persist" /\ new'[r] = issued + 1 /\ tok'[r] = tok[r] /\ UNCHANGED lost
       \/ pc'[r] # "persist" /\ tok'[r] \in {tok[r], 0} /\ lost' = TRUE

\* r is done with its new document, stored or not.
Settles(r) ==
    /\ pc[r] = "persist" /\ pc'[r] # "persist" /\ tok'[r] \in {tok[r], 0}
    /\ UNCHANGED <<grok, live, issued, grant, last>> /\ Keeps(r)
    /\ \/ /\ db' = new[r] /\ UNCHANGED lost
          /\ \/ UNCHANGED crossed /\ (grok => db = tok[r])
             \/ crossed' = crossed \union {"refresh"}
       \/ /\ UNCHANGED <<db, crossed>>
          /\ lost' = TRUE \/ (UNCHANGED lost /\ db # tok[r])

\* An edit writes a document back over another.
WritesBack(a) ==
    /\ pc[a] # "persist" /\ pc'[a] # "persist" /\ tok'[a] = 0
    /\ UNCHANGED <<grok, live, issued, grant, last, lost>> /\ Keeps(a)
    /\ db' = tok[a]
    /\ crossed' = crossed \union {"edit"}

\* The account is authorised again.
Applies(a) ==
    /\ pc[a] # "persist" /\ pc'[a] # "persist"
    /\ UNCHANGED <<grok, tok, new>> /\ Keeps(a)
    /\ Issue(issued + 1, {})
    /\ db' = issued + 1 /\ last' = issued + 1
    /\ lost' = FALSE /\ crossed' = {}

\* A process dies.
Dies(p) ==
    /\ UNCHANGED <<grok, db, live, issued, grant, last, crossed, tok>>
    /\ \A s \in Actors :
         \/ ProcOf[s] = p /\ pc'[s] # "persist" /\ (pc[s] = "persist" => lost' = TRUE)
         \/ ProcOf[s] # p /\ pc'[s] = pc[s] /\ new'[s] = new[s]
    /\ lost' = TRUE \/ UNCHANGED lost

\* A step of one actor that is not about the documents.
LEMMA AsideStep ==
    ASSUME NEW r \in Actors, Keeps(r), pc[r] # "persist", pc'[r] # "persist",
           UNCHANGED <<grok, db, live, issued, grant, last, lost, crossed>>,
           tok'[r] \in {tok[r], db, 0}
    PROVE  Aside
  BY DEF Aside, Keeps

\* What a refresher's step does.
LEMMA RefresherMoves ==
    ASSUME TypeOK, NEW r \in Refreshers, Start(r) \/ RefresherStep(r) \/ RefresherFails(r)
    PROVE  Aside \/ Rotates(r) \/ Settles(r)
<1> USE DEF accountVars, lockVars, procVars, providerVars
<1> DEFINE Same == UNCHANGED <<grok, db, live, issued, grant, last, lost, crossed>>
<1>1. r \in Actors /\ Keeps(r)
  BY RefresherFrame DEF Actors
<1>2. ASSUME NEW state, Goto(r, state) PROVE pc'[r] = state
  BY <1>1, <1>2 DEF Goto, TypeOK
<1>3. ASSUME Same, UNCHANGED tok, pc[r] # "persist", NEW state, Goto(r, state), state # "persist"
      PROVE  Aside
  BY <1>1, <1>2, <1>3, AsideStep
<1>4. ASSUME Start(r) PROVE Aside
  BY <1>3, <1>4 DEF Start
<1>5. ASSUME AcquireRefreshLock(r) PROVE Aside
  <2>1. PICK state \in {"read", "idle"} : Goto(r, state)
    BY <1>5 DEF AcquireRefreshLock
  <2> QED
    BY <1>3, <1>5, <2>1 DEF AcquireRefreshLock
<1>6. ASSUME AcquireRefreshLockFails(r) PROVE Aside
  BY <1>3, <1>6 DEF AcquireRefreshLockFails
<1>7. ASSUME ReadAccount(r) PROVE Aside
  <2>1. tok'[r] \in {tok[r], db, 0}
    BY <1>1, <1>7 DEF ReadAccount, TypeOK
  <2>2. pc[r] # "persist" /\ pc'[r] # "persist"
    BY <1>2, <1>7 DEF ReadAccount
  <2> QED
    BY <1>1, <1>7, <2>1, <2>2, AsideStep DEF ReadAccount
<1>8. ASSUME ReadAccountFails(r) PROVE Aside
  BY <1>3, <1>8 DEF ReadAccountFails
<1>9. ASSUME Refresh(r) PROVE Aside \/ Rotates(r)
  <2>1. CASE tok[r] \in live
    <3>1. pc'[r] = "persist" /\ new'[r] = issued + 1
      BY <1>1, <1>2, <1>9, <2>1 DEF Refresh, TypeOK
    <3> QED
      BY <1>1, <1>9, <2>1, <3>1 DEF Refresh, Rotates
  <2>2. CASE tok[r] \notin live
    <3>1. Goto(r, "recover") /\ pc[r] = "call" /\ Same /\ UNCHANGED tok
      BY <1>9, <2>2 DEF Refresh
    <3> QED
      BY <1>3, <3>1
  <2> QED
    BY <2>1, <2>2
<1>10. ASSUME RefreshFails(r) PROVE Aside \/ Rotates(r)
  <2>1. /\ pc[r] = "call" /\ Goto(r, "unlock_failed") /\ UNCHANGED <<grok, db, last, crossed, tok>>
        /\ \/ UNCHANGED <<live, issued, grant, lost>>
           \/ tok[r] \in live /\ Issue(grant[tok[r]], {tok[r]}) /\ lost' = TRUE
    BY <1>10 DEF RefreshFails
  <2>2. CASE UNCHANGED <<live, issued, grant, lost>>
    BY <1>3, <2>1, <2>2
  <2>3. CASE tok[r] \in live /\ Issue(grant[tok[r]], {tok[r]}) /\ lost' = TRUE
    <3>1. pc'[r] # "persist"
      BY <1>2, <2>1
    <3> QED
      BY <1>1, <2>1, <2>3, <3>1 DEF Rotates
  <2> QED
    BY <2>1, <2>2, <2>3
<1>11. ASSUME TryRecoverFromRefreshRace(r) PROVE Aside
  <2>1. PICK state \in {"unlock", "unlock_dead"} : Goto(r, state)
    BY <1>11 DEF TryRecoverFromRefreshRace
  <2> QED
    BY <1>3, <1>11, <2>1 DEF TryRecoverFromRefreshRace
<1>12. ASSUME TryRecoverFromRefreshRaceFails(r) PROVE Aside
  BY <1>3, <1>12 DEF TryRecoverFromRefreshRaceFails
<1>13. ASSUME UpdateCredentials(r) PROVE Settles(r)
  <2>1. pc'[r] # "persist"
    BY <1>2, <1>13 DEF UpdateCredentials
  <2>2. (db' = new[r] /\ (grok => db = tok[r])) \/ (db' = db /\ db # tok[r])
    BY <1>13 DEF UpdateCredentials, Persist, Stored, MayStore
  <2> QED
    BY <1>1, <1>13, <2>1, <2>2 DEF UpdateCredentials, Settles
<1>14. ASSUME UpdateCredentialsFails(r) PROVE Settles(r)
  <2>1. pc'[r] # "persist"
    BY <1>2, <1>14 DEF UpdateCredentialsFails
  <2>2. (db' = new[r] /\ (grok => db = tok[r]) /\ UNCHANGED lost) \/ (db' = db /\ lost' = TRUE)
    BY <1>14 DEF UpdateCredentialsFails, Persist, Stored, MayStore
  <2> QED
    BY <1>1, <1>14, <2>1, <2>2 DEF UpdateCredentialsFails, Settles
<1>15. ASSUME ReleaseRefreshLock(r) PROVE Aside
  <2>1. Outcome(r) # "persist" /\ Goto(r, Outcome(r)) /\ pc[r] # "persist"
    BY <1>15 DEF ReleaseRefreshLock, Outcome
  <2>2. Same /\ UNCHANGED tok
    BY <1>15 DEF ReleaseRefreshLock
  <2> HIDE DEF Outcome
  <2> QED
    BY <1>3, <2>1, <2>2
<1>16. ASSUME SetRefreshError(r) \/ SetRefreshErrorFails(r) \/ RetryOrCool(r) PROVE Aside
  BY <1>3, <1>16 DEF SetRefreshError, SetRefreshErrorFails, RetryOrCool
<1> QED
  BY <1>4, <1>5, <1>6, <1>7, <1>8, <1>9, <1>10, <1>11, <1>12, <1>13, <1>14, <1>15, <1>16
  DEF RefresherStep, RefresherFails

\* What an administrator's step does.
LEMMA AdminMoves ==
    ASSUME TypeOK, NEW a \in Admins, AdminStep(a)
    PROVE  Aside \/ Rotates(a) \/ Settles(a) \/ WritesBack(a) \/ Applies(a)
<1> USE DEF accountVars, lockVars, providerVars
<1> DEFINE Same == UNCHANGED <<grok, db, live, issued, grant, last, lost, crossed>>
<1>1. a \in Actors /\ Keeps(a)
  BY AdminFrame DEF Actors
<1>2. ASSUME NEW state, Goto(a, state) PROVE pc'[a] = state
  BY <1>1, <1>2 DEF Goto, TypeOK
<1>3. ASSUME Same, tok'[a] \in {tok[a], db, 0}, pc[a] # "persist",
             NEW state, Goto(a, state), state # "persist"
      PROVE  Aside
  BY <1>1, <1>2, <1>3, AsideStep
<1>4. ASSUME Finish(a) PROVE Goto(a, "idle") /\ pc'[a] # "persist" /\ tok'[a] = 0
  BY <1>4, FinishFacts DEF Finish
<1>5. ASSUME GetAccount(a) \/ EditAccount(a) PROVE Aside
  <2>1. tok'[a] = db /\ pc[a] # "persist" /\ Same
    BY <1>1, <1>5 DEF GetAccount, EditAccount, TypeOK
  <2>2. PICK state \in {"call", "edit"} : Goto(a, state)
    BY <1>5 DEF GetAccount, EditAccount
  <2> QED
    BY <1>3, <2>1, <2>2
<1>6. ASSUME RefreshSingleAccount(a) PROVE Aside \/ Rotates(a)
  <2>1. CASE tok[a] \in live
    <3>1. pc'[a] = "persist" /\ new'[a] = issued + 1
      BY <1>1, <1>2, <1>6, <2>1 DEF RefreshSingleAccount, TypeOK
    <3> QED
      BY <1>1, <1>6, <2>1, <3>1 DEF RefreshSingleAccount, Rotates
  <2>2. CASE tok[a] \notin live
    <3>1. Finish(a) /\ pc[a] = "call" /\ Same
      BY <1>6, <2>2 DEF RefreshSingleAccount
    <3> QED
      BY <1>3, <1>4, <3>1
  <2> QED
    BY <2>1, <2>2
<1>7. ASSUME RefreshSingleAccountFails(a) PROVE Aside \/ Rotates(a)
  <2>1. /\ pc[a] = "call" /\ Finish(a) /\ UNCHANGED <<grok, db, last, crossed>>
        /\ \/ UNCHANGED <<live, issued, grant, lost>>
           \/ tok[a] \in live /\ Issue(grant[tok[a]], {tok[a]}) /\ lost' = TRUE
    BY <1>7 DEF RefreshSingleAccountFails
  <2>2. CASE UNCHANGED <<live, issued, grant, lost>>
    BY <1>3, <1>4, <2>1, <2>2
  <2>3. CASE tok[a] \in live /\ Issue(grant[tok[a]], {tok[a]}) /\ lost' = TRUE
    BY <1>1, <1>4, <2>1, <2>3 DEF Rotates
  <2> QED
    BY <2>1, <2>2, <2>3
<1>8. ASSUME GetByID(a) PROVE Aside
  BY <1>8 DEF GetByID, Aside
<1>9. ASSUME StoreRefreshed(a) PROVE Settles(a)
  <2>1. (UNCHANGED crossed /\ db = tok[a]) \/ crossed' = crossed \union {"refresh"}
    BY <1>9 DEF StoreRefreshed, Crosses
  <2>2. /\ pc[a] = "persist" /\ Finish(a) /\ db' = new[a]
        /\ UNCHANGED <<grok, live, issued, grant, last, lost>>
    BY <1>9 DEF StoreRefreshed
  <2> QED
    BY <1>1, <1>4, <2>1, <2>2 DEF Settles
<1>10. ASSUME StoreRefreshedFails(a) PROVE Settles(a)
  <2>1. /\ pc[a] = "persist" /\ Finish(a) /\ lost' = TRUE
        /\ UNCHANGED <<grok, db, crossed, live, issued, grant, last>>
    BY <1>10 DEF StoreRefreshedFails
  <2> QED
    BY <1>1, <1>4, <2>1 DEF Settles
<1>11. ASSUME StoreEdited(a) PROVE Aside \/ WritesBack(a)
  <2>1. /\ pc[a] = "edit" /\ Finish(a) /\ db' = tok[a]
        /\ UNCHANGED <<grok, live, issued, grant, last, lost>>
        /\ \/ UNCHANGED crossed /\ db = tok[a]
           \/ crossed' = crossed \union {"edit"}
    BY <1>11 DEF StoreEdited, Crosses
  <2>2. CASE UNCHANGED crossed /\ db = tok[a]
    BY <1>3, <1>4, <2>1, <2>2
  <2>3. CASE crossed' = crossed \union {"edit"}
    BY <1>1, <1>4, <2>1, <2>3 DEF WritesBack
  <2> QED
    BY <2>1, <2>2, <2>3
<1>12. ASSUME BeginApply(a) PROVE Aside
  BY <1>3, <1>12 DEF BeginApply
<1>13. ASSUME ApplyOAuthCredentials(a) PROVE Applies(a)
  <2>1. pc[a] # "persist" /\ pc'[a] # "persist"
    BY <1>2, <1>13 DEF ApplyOAuthCredentials
  <2> QED
    BY <1>1, <1>13, <2>1 DEF ApplyOAuthCredentials, Merged, Applies
<1>14. ASSUME ClearAccountError(a) PROVE Aside
  BY <1>3, <1>14 DEF ClearAccountError
<1>15. ASSUME UpdateAccountFails(a) PROVE Aside
  BY <1>3, <1>4, <1>15 DEF UpdateAccountFails
<1> QED
  BY <1>5, <1>6, <1>7, <1>8, <1>9, <1>10, <1>11, <1>12, <1>13, <1>14, <1>15 DEF AdminStep

\* What any step does.
LEMMA Moves ==
    ASSUME TypeOK, [Next]_vars
    PROVE  \/ Aside
           \/ \E r \in Actors : Rotates(r) \/ Settles(r)
           \/ \E a \in Admins : WritesBack(a) \/ Applies(a)
           \/ \E p \in Procs : Dies(p)
<1> USE DEF accountVars, lockVars, procVars, providerVars
<1>1. Refreshers \subseteq Actors /\ Admins \subseteq Actors
  BY DEF Actors
<1>2. CASE \E r \in Refreshers : Start(r) \/ RefresherStep(r) \/ RefresherFails(r)
  BY <1>1, <1>2, RefresherMoves
<1>3. CASE \E a \in Admins : AdminStep(a)
  BY <1>1, <1>3, AdminMoves
<1>4. CASE AccessTokenExpires \/ CooldownExpires \/ LockExpires \/ UNCHANGED vars
  BY <1>4 DEF AccessTokenExpires, CooldownExpires, LockExpires, vars, Aside
<1>5. ASSUME NEW p \in Procs, Crash(p) PROVE Dies(p)
  <2>1. \A s \in Actors :
          /\ pc'[s] = IF ProcOf[s] = p THEN "idle" ELSE pc[s]
          /\ new'[s] = IF ProcOf[s] = p THEN 0 ELSE new[s]
    BY <1>5 DEF Crash
  <2>2. \A s \in Actors : ProcOf[s] = p /\ pc[s] = "persist" => lost' = TRUE
    BY <1>5 DEF Crash
  <2>3. lost' = TRUE \/ lost' = lost
    BY <1>5 DEF Crash, TypeOK
  <2>4. UNCHANGED <<grok, db, live, issued, grant, last, crossed, tok>>
    BY <1>5 DEF Crash
  <2> QED
    BY <2>1, <2>2, <2>3, <2>4 DEF Dies
<1> QED
  BY <1>2, <1>3, <1>4, <1>5 DEF Next

\* The lock excludes as long as nothing has bypassed it.
LEMMA LockStep ==
    TypeOK /\ LockExcludes /\ [Next]_vars => LockExcludes'
<1> SUFFICES ASSUME TypeOK, LockExcludes, [Next]_vars
             PROVE  LockExcludes'
  OBVIOUS
<1> Refreshers \subseteq Actors /\ Admins \subseteq Actors
  BY DEF Actors
<1>1. ASSUME NEW r \in Refreshers, Start(r)
       PROVE  LockExcludes'
  <2>1. UNCHANGED <<lock, held, unlocked>>
    BY <1>1 DEF Start, lockVars
  <2>2. \A s \in Refreshers : pc'[s] \in InApi \ {"lock"} => pc[s] \in InApi \ {"lock"}
    BY <1>1 DEF Start, Goto, procVars, TypeOK, InApi
  <2> QED
    BY <2>1, <2>2 DEF LockExcludes
<1>2. ASSUME NEW r \in Refreshers, AcquireRefreshLock(r)
       PROVE  LockExcludes'
  <2>1. \A s \in Refreshers : s # r => pc'[s] = pc[s] /\ held'[s] = held[s]
    BY <1>2 DEF AcquireRefreshLock, Goto, TypeOK
  <2>2. CASE lock = None
    <3>1. lock' = r /\ held'[r] /\ UNCHANGED unlocked
      BY <1>2, <2>2 DEF AcquireRefreshLock, TypeOK
    <3>2. r # None /\ \A s \in Refreshers : s # None
      BY ConstantsAssumption
    <3> QED
      BY <2>1, <2>2, <3>1, <3>2 DEF LockExcludes
  <2>3. CASE lock # None
    <3>1. lock' = lock /\ held' = held /\ pc'[r] = "idle" /\ UNCHANGED unlocked
      BY <1>2, <2>3 DEF AcquireRefreshLock, Goto, TypeOK
    <3> QED
      BY <2>1, <3>1 DEF LockExcludes, InApi
  <2> QED
    BY <2>2, <2>3
<1>3. ASSUME NEW r \in Refreshers, AcquireRefreshLockFails(r)
       PROVE  LockExcludes'
  BY <1>3 DEF AcquireRefreshLockFails, LockExcludes
<1>4. ASSUME NEW r \in Refreshers, ReadAccount(r)
       PROVE  LockExcludes'
  <2>1. UNCHANGED <<lock, held, unlocked>>
    BY <1>4 DEF ReadAccount, lockVars
  <2>2. \A s \in Refreshers : pc'[s] \in InApi \ {"lock"} => pc[s] \in InApi \ {"lock"}
    BY <1>4 DEF ReadAccount, Goto, procVars, TypeOK, InApi
  <2> QED
    BY <2>1, <2>2 DEF LockExcludes
<1>5. ASSUME NEW r \in Refreshers, ReadAccountFails(r)
       PROVE  LockExcludes'
  <2>1. UNCHANGED <<lock, held, unlocked>>
    BY <1>5 DEF ReadAccountFails, lockVars
  <2>2. \A s \in Refreshers : pc'[s] \in InApi \ {"lock"} => pc[s] \in InApi \ {"lock"}
    BY <1>5 DEF ReadAccountFails, Goto, procVars, TypeOK, InApi
  <2> QED
    BY <2>1, <2>2 DEF LockExcludes
<1>6. ASSUME NEW r \in Refreshers, Refresh(r)
       PROVE  LockExcludes'
  <2>1. UNCHANGED <<lock, held, unlocked>>
    BY <1>6 DEF Refresh, lockVars
  <2>2. \A s \in Refreshers : pc'[s] \in InApi \ {"lock"} => pc[s] \in InApi \ {"lock"}
    BY <1>6 DEF Refresh, Goto, procVars, TypeOK, InApi
  <2> QED
    BY <2>1, <2>2 DEF LockExcludes
<1>7. ASSUME NEW r \in Refreshers, RefreshFails(r)
       PROVE  LockExcludes'
  <2>1. UNCHANGED <<lock, held, unlocked>>
    BY <1>7 DEF RefreshFails, lockVars
  <2>2. \A s \in Refreshers : pc'[s] \in InApi \ {"lock"} => pc[s] \in InApi \ {"lock"}
    BY <1>7 DEF RefreshFails, Goto, procVars, TypeOK, InApi
  <2> QED
    BY <2>1, <2>2 DEF LockExcludes
<1>8. ASSUME NEW r \in Refreshers, TryRecoverFromRefreshRace(r)
       PROVE  LockExcludes'
  <2>1. UNCHANGED <<lock, held, unlocked>>
    BY <1>8 DEF TryRecoverFromRefreshRace, lockVars
  <2>2. \A s \in Refreshers : pc'[s] \in InApi \ {"lock"} => pc[s] \in InApi \ {"lock"}
    BY <1>8 DEF TryRecoverFromRefreshRace, Goto, procVars, TypeOK, InApi
  <2> QED
    BY <2>1, <2>2 DEF LockExcludes
<1>9. ASSUME NEW r \in Refreshers, TryRecoverFromRefreshRaceFails(r)
       PROVE  LockExcludes'
  <2>1. UNCHANGED <<lock, held, unlocked>>
    BY <1>9 DEF TryRecoverFromRefreshRaceFails, lockVars
  <2>2. \A s \in Refreshers : pc'[s] \in InApi \ {"lock"} => pc[s] \in InApi \ {"lock"}
    BY <1>9 DEF TryRecoverFromRefreshRaceFails, Goto, procVars, TypeOK, InApi
  <2> QED
    BY <2>1, <2>2 DEF LockExcludes
<1>10. ASSUME NEW r \in Refreshers, UpdateCredentials(r)
       PROVE  LockExcludes'
  <2>1. UNCHANGED <<lock, held, unlocked>>
    BY <1>10 DEF UpdateCredentials, lockVars
  <2>2. \A s \in Refreshers : pc'[s] \in InApi \ {"lock"} => pc[s] \in InApi \ {"lock"}
    BY <1>10 DEF UpdateCredentials, Goto, procVars, TypeOK, InApi
  <2> QED
    BY <2>1, <2>2 DEF LockExcludes
<1>11. ASSUME NEW r \in Refreshers, UpdateCredentialsFails(r)
       PROVE  LockExcludes'
  <2>1. UNCHANGED <<lock, held, unlocked>>
    BY <1>11 DEF UpdateCredentialsFails, lockVars
  <2>2. \A s \in Refreshers : pc'[s] \in InApi \ {"lock"} => pc[s] \in InApi \ {"lock"}
    BY <1>11 DEF UpdateCredentialsFails, Goto, procVars, TypeOK, InApi
  <2> QED
    BY <2>1, <2>2 DEF LockExcludes
<1>12. ASSUME NEW r \in Refreshers, ReleaseRefreshLock(r)
       PROVE  LockExcludes'
  <2>1. \A s \in Refreshers : s # r => pc'[s] = pc[s] /\ held'[s] = held[s]
    BY <1>12 DEF ReleaseRefreshLock, Goto, TypeOK
  <2>2. UNCHANGED unlocked /\ pc[r] \in InApi \ {"lock"}
    BY <1>12 DEF ReleaseRefreshLock, InApi
  <2>3. pc'[r] \notin InApi
    BY <1>12 DEF ReleaseRefreshLock, Outcome, Goto, TypeOK, InApi
  <2> QED
    BY <2>1, <2>2, <2>3 DEF LockExcludes
<1>13. ASSUME NEW r \in Refreshers, SetRefreshError(r)
       PROVE  LockExcludes'
  <2>1. UNCHANGED <<lock, held, unlocked>>
    BY <1>13 DEF SetRefreshError, lockVars
  <2>2. \A s \in Refreshers : pc'[s] \in InApi \ {"lock"} => pc[s] \in InApi \ {"lock"}
    BY <1>13 DEF SetRefreshError, Goto, procVars, TypeOK, InApi
  <2> QED
    BY <2>1, <2>2 DEF LockExcludes
<1>14. ASSUME NEW r \in Refreshers, SetRefreshErrorFails(r)
       PROVE  LockExcludes'
  <2>1. UNCHANGED <<lock, held, unlocked>>
    BY <1>14 DEF SetRefreshErrorFails, lockVars
  <2>2. \A s \in Refreshers : pc'[s] \in InApi \ {"lock"} => pc[s] \in InApi \ {"lock"}
    BY <1>14 DEF SetRefreshErrorFails, Goto, procVars, TypeOK, InApi
  <2> QED
    BY <2>1, <2>2 DEF LockExcludes
<1>15. ASSUME NEW r \in Refreshers, RetryOrCool(r)
       PROVE  LockExcludes'
  <2>1. UNCHANGED <<lock, held, unlocked>>
    BY <1>15 DEF RetryOrCool, lockVars
  <2>2. \A s \in Refreshers : pc'[s] \in InApi \ {"lock"} => pc[s] \in InApi \ {"lock"}
    BY <1>15 DEF RetryOrCool, Goto, procVars, TypeOK, InApi
  <2> QED
    BY <2>1, <2>2 DEF LockExcludes
<1>16. ASSUME AccessTokenExpires
       PROVE  LockExcludes'
  <2>1. UNCHANGED <<lock, held, unlocked>>
    BY <1>16 DEF AccessTokenExpires, lockVars
  <2>2. \A s \in Refreshers : pc'[s] \in InApi \ {"lock"} => pc[s] \in InApi \ {"lock"}
    BY <1>16 DEF AccessTokenExpires, Goto, procVars, TypeOK, InApi
  <2> QED
    BY <2>1, <2>2 DEF LockExcludes
<1>17. ASSUME NEW a \in Admins, AdminStep(a)
       PROVE  LockExcludes'
  <2>1. UNCHANGED <<lock, held, unlocked>> /\ \A s \in Refreshers : pc'[s] = pc[s]
    BY <1>17, AdminFrame
  <2> QED
    BY <2>1 DEF LockExcludes
<1>19. ASSUME CooldownExpires
       PROVE  LockExcludes'
  <2>1. UNCHANGED <<lock, held, unlocked>>
    BY <1>19 DEF CooldownExpires, lockVars
  <2>2. \A s \in Refreshers : pc'[s] \in InApi \ {"lock"} => pc[s] \in InApi \ {"lock"}
    BY <1>19 DEF CooldownExpires, Goto, procVars, TypeOK, InApi
  <2> QED
    BY <2>1, <2>2 DEF LockExcludes
<1>20. ASSUME LockExpires
       PROVE  LockExcludes'
  <2>1. UNCHANGED <<pc, held>> /\ (~unlocked' => ~unlocked /\ ~held[lock])
    BY <1>20 DEF LockExpires, procVars, TypeOK
  <2> QED
    BY <2>1 DEF LockExcludes
<1>21. ASSUME NEW p \in Procs, Crash(p)
       PROVE  LockExcludes'
  <2>1. \A s \in Refreshers : pc'[s] = "idle" \/ (pc'[s] = pc[s] /\ held'[s] = held[s])
    BY <1>21 DEF Crash, TypeOK
  <2>2. UNCHANGED <<lock, unlocked>>
    BY <1>21 DEF Crash
  <2> QED
    BY <2>1, <2>2 DEF LockExcludes, InApi
<1>22. ASSUME UNCHANGED vars
       PROVE  LockExcludes'
  <2>1. UNCHANGED <<lock, held, unlocked>>
    BY <1>22 DEF vars, lockVars
  <2>2. \A s \in Refreshers : pc'[s] \in InApi \ {"lock"} => pc[s] \in InApi \ {"lock"}
    BY <1>22 DEF vars, Goto, procVars, TypeOK, InApi
  <2> QED
    BY <2>1, <2>2 DEF LockExcludes
<1> QED
  BY <1>1, <1>2, <1>3, <1>4, <1>5, <1>6, <1>7, <1>8, <1>9, <1>10, <1>11, <1>12,
     <1>13, <1>14, <1>15, <1>16, <1>17, <1>19, <1>20, <1>21, <1>22 DEF Next,
     RefresherStep, RefresherFails

\* A refused token stays dead.
LEMMA RefusedStep ==
    TypeOK /\ LockExcludes /\ RefusedIsDead /\ [Next]_vars => RefusedIsDead'
<1> SUFFICES ASSUME TypeOK, LockExcludes, RefusedIsDead, [Next]_vars
             PROVE  RefusedIsDead'
  OBVIOUS
<1> Refreshers \subseteq Actors /\ Admins \subseteq Actors
  BY DEF Actors
<1>1. ASSUME NEW r \in Refreshers, Start(r)
       PROVE  RefusedIsDead'
  <2>1. UNCHANGED <<live, tok>> /\ (~unlocked' => ~unlocked)
    BY <1>1 DEF Start, procVars, providerVars, TypeOK
  <2>2. \A s \in Refreshers : /\ pc'[s] \in Refused => pc[s] \in Refused
                              /\ pc'[s] = "persist" => pc[s] = "persist"
    BY <1>1 DEF Start, Goto, procVars, Refused, TypeOK
  <2> QED
    BY <2>1, <2>2 DEF RefusedIsDead
<1>2. ASSUME NEW r \in Refreshers, AcquireRefreshLock(r)
       PROVE  RefusedIsDead'
  <2>1. UNCHANGED <<live, tok>> /\ (~unlocked' => ~unlocked)
    BY <1>2 DEF AcquireRefreshLock, procVars, providerVars, TypeOK
  <2>2. \A s \in Refreshers : /\ pc'[s] \in Refused => pc[s] \in Refused
                              /\ pc'[s] = "persist" => pc[s] = "persist"
    BY <1>2 DEF AcquireRefreshLock, Goto, procVars, Refused, TypeOK
  <2> QED
    BY <2>1, <2>2 DEF RefusedIsDead
<1>3. ASSUME NEW r \in Refreshers, AcquireRefreshLockFails(r)
       PROVE  RefusedIsDead'
  <2>1. UNCHANGED <<live, tok>> /\ (~unlocked' => ~unlocked)
    BY <1>3 DEF AcquireRefreshLockFails, procVars, providerVars, TypeOK
  <2>2. \A s \in Refreshers : /\ pc'[s] \in Refused => pc[s] \in Refused
                              /\ pc'[s] = "persist" => pc[s] = "persist"
    BY <1>3 DEF AcquireRefreshLockFails, Goto, procVars, Refused, TypeOK
  <2> QED
    BY <2>1, <2>2 DEF RefusedIsDead
<1>4. ASSUME NEW r \in Refreshers, ReadAccount(r)
       PROVE  RefusedIsDead'
  <2>1. UNCHANGED <<live, unlocked>> /\ \A s \in Refreshers : s # r => pc'[s] = pc[s] /\ tok'[s] = tok[s]
    BY <1>4 DEF ReadAccount, Goto, providerVars, TypeOK
  <2>2. pc'[r] \notin Refused \union {"persist"}
    BY <1>4 DEF ReadAccount, Goto, Refused, TypeOK
  <2> QED
    BY <2>1, <2>2 DEF RefusedIsDead
<1>5. ASSUME NEW r \in Refreshers, ReadAccountFails(r)
       PROVE  RefusedIsDead'
  <2>1. UNCHANGED <<live, tok>> /\ (~unlocked' => ~unlocked)
    BY <1>5 DEF ReadAccountFails, procVars, providerVars, TypeOK
  <2>2. \A s \in Refreshers : /\ pc'[s] \in Refused => pc[s] \in Refused
                              /\ pc'[s] = "persist" => pc[s] = "persist"
    BY <1>5 DEF ReadAccountFails, Goto, procVars, Refused, TypeOK
  <2> QED
    BY <2>1, <2>2 DEF RefusedIsDead
<1>6. ASSUME NEW r \in Refreshers, Refresh(r)
       PROVE  RefusedIsDead'
  <2> DocumentType
    BY DEF TypeOK, DocumentType
  <2>1. CASE tok[r] \in live /\ Issue(grant[tok[r]], {tok[r]})
    <3>1. grant[tok[r]] \in 1 .. issued + 1 /\ tok[r] \in 1 .. issued
      BY <2>1 DEF DocumentType
    <3>2. \A n \in 1 .. issued : n \in live' => n \in live
      BY <2>1, <3>1, IssueFacts
    <3>3. live' = (live \ {tok[r]}) \union {issued + 1}
      BY <2>1 DEF Issue
    <3>4. UNCHANGED <<tok, unlocked>> /\ \A s \in Refreshers : s # r => pc'[s] = pc[s]
      BY <1>6 DEF Refresh, Goto, TypeOK
    <3>5. pc'[r] \in {"persist", "unlock_failed"}
      BY <1>6, <2>1 DEF Refresh, Goto, TypeOK
    <3>6. ASSUME NEW q \in Refreshers, pc'[q] \in Refused
          PROVE  /\ tok'[q] \notin live'
                 /\ ~unlocked' => \A s \in Refreshers : pc'[s] = "persist" => tok'[s] # tok'[q]
      <4>1. q # r /\ pc[q] \in Refused
        BY <3>4, <3>5, <3>6 DEF Refused
      <4>2. tok[q] \notin live /\ tok[q] \in 0 .. issued
        BY <4>1 DEF RefusedIsDead, DocumentType
      <4>3. tok[q] # tok[r] /\ tok[q] # issued + 1
        <5>1. tok[q] # tok[r]
          BY <2>1, <4>2
        <5>2. issued \in Nat
          BY DEF DocumentType
        <5>3. tok[q] # issued + 1
          BY <4>2, <5>2
        <5> QED
          BY <5>1, <5>3
      <4>4. tok'[q] \notin live'
        BY <3>3, <3>4, <4>2, <4>3
      <4>5. ~unlocked' => \A s \in Refreshers : pc'[s] = "persist" => tok'[s] # tok'[q]
        BY <3>4, <4>1, <4>3 DEF RefusedIsDead
      <4> QED
        BY <4>4, <4>5
    <3> QED
      BY <3>6 DEF RefusedIsDead
  <2>2. CASE UNCHANGED <<live, issued, grant>> /\ tok[r] \notin live
    <3>1. UNCHANGED <<tok, unlocked>> /\ \A s \in Refreshers : s # r => pc'[s] = pc[s]
      BY <1>6 DEF Refresh, Goto, TypeOK
    <3>2. pc'[r] \in {"recover", "unlock_failed"} /\ pc[r] = "call"
      BY <1>6, <2>2 DEF Refresh, Goto, TypeOK
    <3>3. ASSUME NEW q \in Refreshers, pc'[q] \in Refused
          PROVE  /\ tok'[q] \notin live'
                 /\ ~unlocked' => \A s \in Refreshers : pc'[s] = "persist" => tok'[s] # tok'[q]
      <4>1. CASE q # r
        BY <2>2, <3>1, <3>2, <3>3, <4>1 DEF RefusedIsDead
      <4>2. CASE q = r
        <5>1. tok[r] \notin live
          BY <2>2
        <5>2. ~unlocked => \A s \in Refreshers : s # r => pc[s] # "persist"
          BY <3>2 DEF LockExcludes, InApi
        <5> QED
          BY <2>2, <3>1, <3>2, <4>2, <5>1, <5>2
      <4> QED
        BY <4>1, <4>2
    <3> QED
      BY <3>3 DEF RefusedIsDead
  <2> QED
    BY <1>6, <2>1, <2>2 DEF Refresh
<1>7. ASSUME NEW r \in Refreshers, RefreshFails(r)
       PROVE  RefusedIsDead'
  <2> DocumentType
    BY DEF TypeOK, DocumentType
  <2>1. CASE tok[r] \in live /\ Issue(grant[tok[r]], {tok[r]})
    <3>1. grant[tok[r]] \in 1 .. issued + 1 /\ tok[r] \in 1 .. issued
      BY <2>1 DEF DocumentType
    <3>2. \A n \in 1 .. issued : n \in live' => n \in live
      BY <2>1, <3>1, IssueFacts
    <3>3. live' = (live \ {tok[r]}) \union {issued + 1}
      BY <2>1 DEF Issue
    <3>4. UNCHANGED <<tok, unlocked>> /\ \A s \in Refreshers : s # r => pc'[s] = pc[s]
      BY <1>7 DEF RefreshFails, Goto, TypeOK
    <3>5. pc'[r] \in {"persist", "unlock_failed"}
      BY <1>7, <2>1 DEF RefreshFails, Goto, TypeOK
    <3>6. ASSUME NEW q \in Refreshers, pc'[q] \in Refused
          PROVE  /\ tok'[q] \notin live'
                 /\ ~unlocked' => \A s \in Refreshers : pc'[s] = "persist" => tok'[s] # tok'[q]
      <4>1. q # r /\ pc[q] \in Refused
        BY <3>4, <3>5, <3>6 DEF Refused
      <4>2. tok[q] \notin live /\ tok[q] \in 0 .. issued
        BY <4>1 DEF RefusedIsDead, DocumentType
      <4>3. tok[q] # tok[r] /\ tok[q] # issued + 1
        <5>1. tok[q] # tok[r]
          BY <2>1, <4>2
        <5>2. issued \in Nat
          BY DEF DocumentType
        <5>3. tok[q] # issued + 1
          BY <4>2, <5>2
        <5> QED
          BY <5>1, <5>3
      <4>4. tok'[q] \notin live'
        BY <3>3, <3>4, <4>2, <4>3
      <4>5. ~unlocked' => \A s \in Refreshers : pc'[s] = "persist" => tok'[s] # tok'[q]
        BY <3>4, <4>1, <4>3 DEF RefusedIsDead
      <4> QED
        BY <4>4, <4>5
    <3> QED
      BY <3>6 DEF RefusedIsDead
  <2>2. CASE UNCHANGED <<live, issued, grant>>
    <3>1. UNCHANGED <<tok, unlocked>> /\ \A s \in Refreshers : s # r => pc'[s] = pc[s]
      BY <1>7 DEF RefreshFails, Goto, TypeOK
    <3>2. pc'[r] \in {"recover", "unlock_failed"} /\ pc[r] = "call"
      BY <1>7, <2>2 DEF RefreshFails, Goto, TypeOK
    <3>3. ASSUME NEW q \in Refreshers, pc'[q] \in Refused
          PROVE  /\ tok'[q] \notin live'
                 /\ ~unlocked' => \A s \in Refreshers : pc'[s] = "persist" => tok'[s] # tok'[q]
      <4>1. CASE q # r
        BY <2>2, <3>1, <3>2, <3>3, <4>1 DEF RefusedIsDead
      <4>2. CASE q = r
        <5>1. tok[r] \notin live
          BY <1>7, <3>3, <4>2 DEF RefreshFails, Goto, Refused, TypeOK
        <5>2. ~unlocked => \A s \in Refreshers : s # r => pc[s] # "persist"
          BY <3>2 DEF LockExcludes, InApi
        <5> QED
          BY <2>2, <3>1, <3>2, <4>2, <5>1, <5>2
      <4> QED
        BY <4>1, <4>2
    <3> QED
      BY <3>3 DEF RefusedIsDead
  <2> QED
    BY <1>7, <2>1, <2>2 DEF RefreshFails
<1>8. ASSUME NEW r \in Refreshers, TryRecoverFromRefreshRace(r)
       PROVE  RefusedIsDead'
  <2>1. UNCHANGED <<live, tok>> /\ (~unlocked' => ~unlocked)
    BY <1>8 DEF TryRecoverFromRefreshRace, procVars, providerVars, TypeOK
  <2>2. \A s \in Refreshers : /\ pc'[s] \in Refused => pc[s] \in Refused
                              /\ pc'[s] = "persist" => pc[s] = "persist"
    BY <1>8 DEF TryRecoverFromRefreshRace, Goto, procVars, Refused, TypeOK
  <2> QED
    BY <2>1, <2>2 DEF RefusedIsDead
<1>9. ASSUME NEW r \in Refreshers, TryRecoverFromRefreshRaceFails(r)
       PROVE  RefusedIsDead'
  <2>1. UNCHANGED <<live, tok>> /\ (~unlocked' => ~unlocked)
    BY <1>9 DEF TryRecoverFromRefreshRaceFails, procVars, providerVars, TypeOK
  <2>2. \A s \in Refreshers : /\ pc'[s] \in Refused => pc[s] \in Refused
                              /\ pc'[s] = "persist" => pc[s] = "persist"
    BY <1>9 DEF TryRecoverFromRefreshRaceFails, Goto, procVars, Refused, TypeOK
  <2> QED
    BY <2>1, <2>2 DEF RefusedIsDead
<1>10. ASSUME NEW r \in Refreshers, UpdateCredentials(r)
       PROVE  RefusedIsDead'
  <2>1. UNCHANGED <<live, tok>> /\ (~unlocked' => ~unlocked)
    BY <1>10 DEF UpdateCredentials, procVars, providerVars, TypeOK
  <2>2. \A s \in Refreshers : /\ pc'[s] \in Refused => pc[s] \in Refused
                              /\ pc'[s] = "persist" => pc[s] = "persist"
    BY <1>10 DEF UpdateCredentials, Goto, procVars, Refused, TypeOK
  <2> QED
    BY <2>1, <2>2 DEF RefusedIsDead
<1>11. ASSUME NEW r \in Refreshers, UpdateCredentialsFails(r)
       PROVE  RefusedIsDead'
  <2>1. UNCHANGED <<live, tok>> /\ (~unlocked' => ~unlocked)
    BY <1>11 DEF UpdateCredentialsFails, procVars, providerVars, TypeOK
  <2>2. \A s \in Refreshers : /\ pc'[s] \in Refused => pc[s] \in Refused
                              /\ pc'[s] = "persist" => pc[s] = "persist"
    BY <1>11 DEF UpdateCredentialsFails, Goto, procVars, Refused, TypeOK
  <2> QED
    BY <2>1, <2>2 DEF RefusedIsDead
<1>12. ASSUME NEW r \in Refreshers, ReleaseRefreshLock(r)
       PROVE  RefusedIsDead'
  <2>1. UNCHANGED <<live, tok>> /\ (~unlocked' => ~unlocked)
    BY <1>12 DEF ReleaseRefreshLock, Outcome, procVars, providerVars, TypeOK
  <2>2. \A s \in Refreshers : /\ pc'[s] \in Refused => pc[s] \in Refused
                              /\ pc'[s] = "persist" => pc[s] = "persist"
    BY <1>12 DEF ReleaseRefreshLock, Outcome, Goto, procVars, Refused, TypeOK
  <2> QED
    BY <2>1, <2>2 DEF RefusedIsDead
<1>13. ASSUME NEW r \in Refreshers, SetRefreshError(r)
       PROVE  RefusedIsDead'
  <2>1. UNCHANGED <<live, tok>> /\ (~unlocked' => ~unlocked)
    BY <1>13 DEF SetRefreshError, procVars, providerVars, TypeOK
  <2>2. \A s \in Refreshers : /\ pc'[s] \in Refused => pc[s] \in Refused
                              /\ pc'[s] = "persist" => pc[s] = "persist"
    BY <1>13 DEF SetRefreshError, Goto, procVars, Refused, TypeOK
  <2> QED
    BY <2>1, <2>2 DEF RefusedIsDead
<1>14. ASSUME NEW r \in Refreshers, SetRefreshErrorFails(r)
       PROVE  RefusedIsDead'
  <2>1. UNCHANGED <<live, tok>> /\ (~unlocked' => ~unlocked)
    BY <1>14 DEF SetRefreshErrorFails, procVars, providerVars, TypeOK
  <2>2. \A s \in Refreshers : /\ pc'[s] \in Refused => pc[s] \in Refused
                              /\ pc'[s] = "persist" => pc[s] = "persist"
    BY <1>14 DEF SetRefreshErrorFails, Goto, procVars, Refused, TypeOK
  <2> QED
    BY <2>1, <2>2 DEF RefusedIsDead
<1>15. ASSUME NEW r \in Refreshers, RetryOrCool(r)
       PROVE  RefusedIsDead'
  <2>1. UNCHANGED <<live, tok>> /\ (~unlocked' => ~unlocked)
    BY <1>15 DEF RetryOrCool, procVars, providerVars, TypeOK
  <2>2. \A s \in Refreshers : /\ pc'[s] \in Refused => pc[s] \in Refused
                              /\ pc'[s] = "persist" => pc[s] = "persist"
    BY <1>15 DEF RetryOrCool, Goto, procVars, Refused, TypeOK
  <2> QED
    BY <2>1, <2>2 DEF RefusedIsDead
<1>16. ASSUME AccessTokenExpires
       PROVE  RefusedIsDead'
  <2>1. UNCHANGED <<live, tok>> /\ (~unlocked' => ~unlocked)
    BY <1>16 DEF AccessTokenExpires, procVars, providerVars, TypeOK
  <2>2. \A s \in Refreshers : /\ pc'[s] \in Refused => pc[s] \in Refused
                              /\ pc'[s] = "persist" => pc[s] = "persist"
    BY <1>16 DEF AccessTokenExpires, Goto, procVars, Refused, TypeOK
  <2> QED
    BY <2>1, <2>2 DEF RefusedIsDead
<1>17. ASSUME NEW a \in Admins, AdminStep(a)
       PROVE  RefusedIsDead'
  <2>1. /\ UNCHANGED unlocked
        /\ \A s \in Refreshers : pc'[s] = pc[s] /\ tok'[s] = tok[s]
        /\ live' \subseteq live \union {issued + 1}
    BY <1>17, AdminFrame
  <2>2. \A s \in Refreshers : tok[s] # issued + 1
    BY DEF TypeOK
  <2> QED
    BY <2>1, <2>2 DEF RefusedIsDead
<1>19. ASSUME CooldownExpires
       PROVE  RefusedIsDead'
  <2>1. UNCHANGED <<live, tok>> /\ (~unlocked' => ~unlocked)
    BY <1>19 DEF CooldownExpires, procVars, providerVars, TypeOK
  <2>2. \A s \in Refreshers : /\ pc'[s] \in Refused => pc[s] \in Refused
                              /\ pc'[s] = "persist" => pc[s] = "persist"
    BY <1>19 DEF CooldownExpires, Goto, procVars, Refused, TypeOK
  <2> QED
    BY <2>1, <2>2 DEF RefusedIsDead
<1>20. ASSUME LockExpires
       PROVE  RefusedIsDead'
  <2>1. UNCHANGED <<live, tok>> /\ (~unlocked' => ~unlocked)
    BY <1>20 DEF LockExpires, procVars, providerVars, TypeOK
  <2>2. \A s \in Refreshers : /\ pc'[s] \in Refused => pc[s] \in Refused
                              /\ pc'[s] = "persist" => pc[s] = "persist"
    BY <1>20 DEF LockExpires, Goto, procVars, Refused, TypeOK
  <2> QED
    BY <2>1, <2>2 DEF RefusedIsDead
<1>21. ASSUME NEW p \in Procs, Crash(p)
       PROVE  RefusedIsDead'
  <2>1. UNCHANGED <<live, tok>> /\ (~unlocked' => ~unlocked)
    BY <1>21 DEF Crash, procVars, providerVars, TypeOK
  <2>2. \A s \in Refreshers : /\ pc'[s] \in Refused => pc[s] \in Refused
                              /\ pc'[s] = "persist" => pc[s] = "persist"
    BY <1>21 DEF Crash, Goto, procVars, Refused, TypeOK
  <2> QED
    BY <2>1, <2>2 DEF RefusedIsDead
<1>22. ASSUME UNCHANGED vars
       PROVE  RefusedIsDead'
  <2>1. UNCHANGED <<live, tok>> /\ (~unlocked' => ~unlocked)
    BY <1>22 DEF vars, procVars, providerVars, TypeOK
  <2>2. \A s \in Refreshers : /\ pc'[s] \in Refused => pc[s] \in Refused
                              /\ pc'[s] = "persist" => pc[s] = "persist"
    BY <1>22 DEF vars, Goto, procVars, Refused, TypeOK
  <2> QED
    BY <2>1, <2>2 DEF RefusedIsDead
<1> QED
  BY <1>1, <1>2, <1>3, <1>4, <1>5, <1>6, <1>7, <1>8, <1>9, <1>10, <1>11, <1>12,
     <1>13, <1>14, <1>15, <1>16, <1>17, <1>19, <1>20, <1>21, <1>22 DEF Next,
     RefresherStep, RefresherFails

\* A document about to be stored stays its holder's own.
LEMMA PersistingStep ==
    TypeOK /\ PersistingFresh /\ [Next]_vars => PersistingFresh'
<1> SUFFICES ASSUME TypeOK, PersistingFresh, [Next]_vars
             PROVE  PersistingFresh'
  OBVIOUS
<1> DocumentType
  BY DEF TypeOK, DocumentType
<1>1. /\ Admins \subseteq Actors
      /\ \A n \in 0 .. issued : n # issued + 1
      /\ \A n \in 1 .. issued : n \in 1 .. issued + 1
      /\ \A s \in Actors : tok[s] \in 0 .. issued
      /\ issued + 1 # 0 /\ db # issued + 1
  BY DEF Actors, DocumentType
<1>2. \A s \in Actors : pc[s] = "persist" => new[s] \in 1 .. issued /\ tok[s] \in 1 .. issued /\ new[s] # 0
  <2>1. \A n \in live : n \in 1 .. issued /\ n # 0
    BY DEF DocumentType
  <2> QED
    BY <2>1 DEF PersistingFresh
<1>3. CASE Aside
  <2>1. UNCHANGED <<db, live, issued, grant>>
    BY <1>3 DEF Aside
  <2>2. \A s \in Actors : pc'[s] = "persist" =>
          pc[s] = "persist" /\ tok'[s] = tok[s] /\ new'[s] = new[s]
    BY <1>3 DEF Aside
  <2>3. \A s \in Actors : tok'[s] \in {tok[s], db, 0}
    BY <1>3 DEF Aside
  <2> QED
    BY <1>2, <2>1, <2>2, <2>3 DEF PersistingFresh
<1>4. ASSUME NEW r \in Actors, Rotates(r)
      PROVE  PersistingFresh'
  <2>1. grant[tok[r]] \in 1 .. issued + 1 /\ tok[r] \in 1 .. issued
    BY <1>4 DEF Rotates, DocumentType
  <2>2. /\ issued' = issued + 1
        /\ \A n \in 1 .. issued : grant'[n] = grant[n]
        /\ grant'[issued + 1] = grant[tok[r]]
        /\ issued + 1 \in live'
        /\ \A n \in 1 .. issued : n \in live /\ n # tok[r] => n \in live'
    BY <1>4, <2>1, IssueFacts DEF Rotates
  <2>3. UNCHANGED db /\ \A s \in Actors : tok'[s] \in {tok[s], 0}
    BY <1>4 DEF Rotates, Keeps
  <2>4. \A s \in Actors : pc'[s] = "persist" =>
          /\ tok'[s] = tok[s]
          /\ s # r => pc[s] = "persist" /\ new'[s] = new[s]
    BY <1>4 DEF Rotates, Keeps
  <2>5. pc'[r] = "persist" => new'[r] = issued + 1
    BY <1>4 DEF Rotates
  <2>6. ASSUME NEW q \in Actors, pc'[q] = "persist", q # r
        PROVE  /\ new'[q] \in live' /\ tok'[q] \in 1 .. issued'
               /\ grant'[new'[q]] = grant'[tok'[q]] /\ db' # new'[q]
               /\ \A s \in Actors : tok'[s] # new'[q]
               /\ \A s \in Actors : pc'[s] = "persist" /\ s # q => new'[s] # new'[q]
    <3>1. /\ pc[q] = "persist" /\ new'[q] = new[q] /\ tok'[q] = tok[q]
          /\ new[q] \in 1 .. issued /\ tok[q] \in 1 .. issued
          /\ new[q] # issued + 1 /\ new[q] # tok[r]
      BY <1>1, <1>2, <2>4, <2>6 DEF PersistingFresh
    <3>2. new'[q] \in live' /\ grant'[new'[q]] = grant'[tok'[q]] /\ tok'[q] \in 1 .. issued'
      BY <1>1, <2>2, <3>1 DEF PersistingFresh
    <3>3. db' # new'[q] /\ \A s \in Actors : tok'[s] # new'[q]
      BY <1>2, <2>3, <3>1 DEF PersistingFresh
    <3>4. \A s \in Actors : pc'[s] = "persist" /\ s # q => new'[s] # new'[q]
      BY <2>4, <2>5, <3>1 DEF PersistingFresh
    <3> QED
      BY <3>2, <3>3, <3>4
  <2>7. ASSUME pc'[r] = "persist"
        PROVE  /\ new'[r] \in live' /\ tok'[r] \in 1 .. issued'
               /\ grant'[new'[r]] = grant'[tok'[r]] /\ db' # new'[r]
               /\ \A s \in Actors : tok'[s] # new'[r]
               /\ \A s \in Actors : pc'[s] = "persist" /\ s # r => new'[s] # new'[r]
    <3>1. new'[r] = issued + 1 /\ tok'[r] = tok[r]
      BY <2>4, <2>5, <2>7
    <3>2. new'[r] \in live' /\ grant'[new'[r]] = grant'[tok'[r]] /\ tok'[r] \in 1 .. issued'
      BY <1>1, <2>1, <2>2, <3>1
    <3>3. db' # new'[r] /\ \A s \in Actors : tok'[s] # new'[r]
      BY <1>1, <2>3, <3>1
    <3>4. \A s \in Actors : pc'[s] = "persist" /\ s # r => new'[s] # new'[r]
      BY <1>1, <1>2, <2>4, <3>1 DEF DocumentType
    <3> QED
      BY <3>2, <3>3, <3>4
  <2> QED
    BY <2>6, <2>7 DEF PersistingFresh
<1>5. ASSUME NEW r \in Actors, Settles(r)
      PROVE  PersistingFresh'
  <2>1. UNCHANGED <<live, issued, grant>> /\ (db' = db \/ db' = new[r]) /\ pc[r] = "persist"
    BY <1>5 DEF Settles
  <2>2. \A s \in Actors : /\ tok'[s] \in {tok[s], 0}
                          /\ pc'[s] = "persist" => s # r /\ pc[s] = "persist" /\ new'[s] = new[s] /\ tok'[s] = tok[s]
    BY <1>5 DEF Settles, Keeps
  <2> QED
    BY <1>2, <2>1, <2>2 DEF PersistingFresh
<1>6. ASSUME NEW a \in Admins, WritesBack(a)
      PROVE  PersistingFresh'
  <2>1. UNCHANGED <<live, issued, grant>> /\ db' = tok[a] /\ a \in Actors
    BY <1>1, <1>6 DEF WritesBack
  <2>2. \A s \in Actors : /\ tok'[s] \in {tok[s], 0}
                          /\ pc'[s] = "persist" => pc[s] = "persist" /\ new'[s] = new[s] /\ tok'[s] = tok[s]
    BY <1>6 DEF WritesBack, Keeps
  <2> QED
    BY <1>2, <2>1, <2>2 DEF PersistingFresh
<1>7. ASSUME NEW a \in Admins, Applies(a)
      PROVE  PersistingFresh'
  <2>1. Issue(issued + 1, {}) /\ issued + 1 \in 1 .. issued + 1
    BY <1>7 DEF Applies, DocumentType
  <2>2. /\ issued' = issued + 1
        /\ \A n \in 1 .. issued : grant'[n] = grant[n]
        /\ \A n \in 1 .. issued : n \in live => n \in live'
    BY <2>1, IssueFacts
  <2>3. /\ db' = issued + 1 /\ UNCHANGED <<tok, new>>
        /\ \A s \in Actors : pc'[s] = "persist" => pc[s] = "persist"
    BY <1>7 DEF Applies, Keeps
  <2>4. ASSUME NEW q \in Actors, pc'[q] = "persist"
        PROVE  /\ new'[q] \in live' /\ tok'[q] \in 1 .. issued'
               /\ grant'[new'[q]] = grant'[tok'[q]] /\ db' # new'[q]
    <3>1. pc[q] = "persist" /\ new[q] \in 1 .. issued /\ tok[q] \in 1 .. issued
      BY <1>2, <2>3, <2>4
    <3> QED
      BY <1>1, <2>2, <2>3, <3>1 DEF PersistingFresh
  <2> QED
    BY <2>3, <2>4 DEF PersistingFresh
<1>8. ASSUME NEW p \in Procs, Dies(p)
      PROVE  PersistingFresh'
  <2>1. UNCHANGED <<db, live, issued, grant, tok>>
    BY <1>8 DEF Dies
  <2>2. \A s \in Actors : pc'[s] = "persist" => pc[s] = "persist" /\ new'[s] = new[s]
    BY <1>8 DEF Dies
  <2> QED
    BY <2>1, <2>2 DEF PersistingFresh
<1> QED
  BY <1>3, <1>4, <1>5, <1>6, <1>7, <1>8, Moves

\* What an administrator has read stays there.
LEMMA AdminKnowsStep ==
    TypeOK /\ AdminKnows /\ [Next]_vars => AdminKnows'
<1> SUFFICES ASSUME TypeOK, AdminKnows, [Next]_vars
             PROVE  AdminKnows'
  OBVIOUS
<1> USE DEF accountVars, lockVars, procVars, providerVars
<1>1. Admins \subseteq Actors /\ \A r \in Refreshers, a \in Admins : r # a
  BY ConstantsAssumption DEF Actors
<1> DEFINE Knows(a) == /\ pc[a] = "edit" => tok[a] \in 1 .. issued
                       /\ pc[a] = "apply" => status[a] \in BOOLEAN
<1>2. ASSUME NEW a \in Admins, pc'[a] = pc[a], tok'[a] = tok[a], status'[a] = status[a],
             issued' = issued \/ issued' = issued + 1
      PROVE  Knows(a)'
  <2>1. 1 .. issued \subseteq 1 .. issued'
    BY <1>2 DEF TypeOK
  <2> QED
    BY <1>2, <2>1 DEF AdminKnows
<1>3. CASE \E r \in Refreshers : Start(r) \/ RefresherStep(r) \/ RefresherFails(r)
  <2>1. PICK r \in Refreshers : Start(r) \/ RefresherStep(r) \/ RefresherFails(r)
    BY <1>3
  <2>2. Keeps(r) /\ UNCHANGED status /\ (issued' = issued \/ issued' = issued + 1)
    BY <2>1, RefresherFrame
  <2>3. \A a \in Admins : pc'[a] = pc[a] /\ tok'[a] = tok[a] /\ status'[a] = status[a]
    BY <1>1, <2>2 DEF Keeps
  <2> QED
    BY <1>2, <2>2, <2>3 DEF AdminKnows
<1>4. ASSUME NEW a \in Admins, AdminStep(a)
      PROVE  AdminKnows'
  <2>1. /\ Keeps(a) /\ (issued' = issued \/ issued' = issued + 1)
        /\ \A b \in Admins \ {a} : status'[b] = status[b]
    BY <1>4, AdminFrame
  <2>2. \A b \in Admins \ {a} : Knows(b)'
    BY <1>1, <1>2, <2>1 DEF Keeps
  <2>3. ASSUME NEW state, Goto(a, state) PROVE pc'[a] = state
    BY <1>1, <2>3 DEF Goto, TypeOK
  <2>4. ASSUME Finish(a) PROVE Knows(a)'
    BY <2>4, FinishFacts
  <2>5. ASSUME GetAccount(a) \/ ClearAccountError(a) \/ ApplyOAuthCredentials(a) PROVE Knows(a)'
    <3>1. pc'[a] \in {"call", "idle", "clear"}
      BY <2>3, <2>5 DEF GetAccount, ClearAccountError, ApplyOAuthCredentials
    <3> QED
      BY <3>1
  <2>6. ASSUME RefreshSingleAccount(a) PROVE Knows(a)'
    <3>1. Finish(a) \/ pc'[a] = "persist"
      BY <2>3, <2>6 DEF RefreshSingleAccount
    <3> QED
      BY <2>4, <3>1
  <2>7. ASSUME \/ RefreshSingleAccountFails(a) \/ StoreRefreshed(a) \/ StoreRefreshedFails(a)
               \/ StoreEdited(a) \/ UpdateAccountFails(a)
        PROVE  Knows(a)'
    BY <2>4, <2>7 DEF RefreshSingleAccountFails, StoreRefreshed, StoreRefreshedFails,
       StoreEdited, UpdateAccountFails
  <2>8. ASSUME GetByID(a) PROVE Knows(a)'
    BY <2>8 DEF GetByID
  <2>9. ASSUME EditAccount(a) PROVE Knows(a)'
    <3>1. pc'[a] = "edit" /\ tok'[a] = db /\ issued' = issued
      BY <1>1, <2>3, <2>9 DEF EditAccount, TypeOK
    <3> QED
      BY <3>1 DEF TypeOK
  <2>10. ASSUME BeginApply(a) PROVE Knows(a)'
    <3>1. pc'[a] = "apply" /\ status'[a] = active
      BY <1>1, <2>3, <2>10 DEF BeginApply, ReadStatus, TypeOK
    <3> QED
      BY <3>1 DEF TypeOK
  <2>11. Knows(a)'
    BY <1>4, <2>5, <2>6, <2>7, <2>8, <2>9, <2>10 DEF AdminStep
  <2> QED
    BY <2>2, <2>11 DEF AdminKnows
<1>5. CASE AccessTokenExpires \/ CooldownExpires \/ LockExpires \/ UNCHANGED vars
  <2>1. UNCHANGED <<pc, tok, status, issued>>
    BY <1>5 DEF AccessTokenExpires, CooldownExpires, LockExpires, vars
  <2> QED
    BY <2>1 DEF AdminKnows
<1>6. ASSUME NEW p \in Procs, Crash(p)
      PROVE  AdminKnows'
  <2>1. UNCHANGED <<tok, issued>>
    BY <1>6 DEF Crash
  <2>2. \A a \in Admins : pc'[a] = "idle" \/ (pc'[a] = pc[a] /\ status'[a] = status[a])
    BY <1>1, <1>6 DEF Crash
  <2> QED
    BY <2>1, <2>2 DEF AdminKnows
<1> QED
  BY <1>3, <1>4, <1>5, <1>6 DEF Next

\* A write that crosses no other keeps the authorisation.
LEMMA ReauthorizationStep ==
    TypeOK /\ PersistingFresh /\ ReauthorizationKept /\ [Next]_vars => ReauthorizationKept'
<1> SUFFICES ASSUME TypeOK, PersistingFresh, ReauthorizationKept, [Next]_vars
             PROVE  ReauthorizationKept'
  OBVIOUS
<1> DocumentType
  BY DEF TypeOK, DocumentType
<1>1. CASE Aside
  BY <1>1 DEF Aside, ReauthorizationKept
<1>2. ASSUME NEW r \in Actors, Rotates(r)
      PROVE  ReauthorizationKept'
  <2>1. grant[tok[r]] \in 1 .. issued + 1
    BY <1>2 DEF Rotates, DocumentType
  <2>2. \A n \in 1 .. issued : grant'[n] = grant[n]
    BY <1>2, <2>1, IssueFacts DEF Rotates
  <2> QED
    BY <1>2, <2>2 DEF Rotates, ReauthorizationKept, DocumentType
<1>3. ASSUME NEW r \in Actors, Settles(r)
      PROVE  ReauthorizationKept'
  <2>1. grant[new[r]] = grant[tok[r]]
    BY <1>3 DEF Settles, PersistingFresh
  <2> QED
    BY <1>3, <2>1 DEF Settles, ReauthorizationKept
<1>4. ASSUME NEW a \in Admins, WritesBack(a)
      PROVE  ReauthorizationKept'
  BY <1>4 DEF WritesBack, ReauthorizationKept
<1>5. ASSUME NEW a \in Admins, Applies(a)
      PROVE  ReauthorizationKept'
  <2>1. Issue(issued + 1, {}) /\ issued + 1 \in 1 .. issued + 1
    BY <1>5 DEF Applies, DocumentType
  <2>2. grant'[issued + 1] = issued + 1
    BY <2>1, IssueFacts
  <2> QED
    BY <1>5, <2>2 DEF Applies, ReauthorizationKept
<1>6. ASSUME NEW p \in Procs, Dies(p)
      PROVE  ReauthorizationKept'
  BY <1>6 DEF Dies, ReauthorizationKept
<1> QED
  BY <1>1, <1>2, <1>3, <1>4, <1>5, <1>6, Moves

\* The stored document stays usable.
LEMMA UsableStep ==
    TypeOK /\ PersistingFresh /\ CredentialUsable /\ [Next]_vars => CredentialUsable'
<1> SUFFICES ASSUME TypeOK, PersistingFresh, CredentialUsable, [Next]_vars
             PROVE  CredentialUsable'
  OBVIOUS
<1> DocumentType
  BY DEF TypeOK, DocumentType
<1>1. CASE Aside
  <2>1. UNCHANGED <<live, db, lost, crossed>>
    BY <1>1 DEF Aside
  <2>2. \A s \in Actors : pc[s] = "persist" => tok'[s] = tok[s] /\ pc'[s] = "persist"
    BY <1>1 DEF Aside
  <2> QED
    BY <2>1, <2>2 DEF CredentialUsable
<1>2. ASSUME NEW r \in Actors, Rotates(r)
      PROVE  CredentialUsable'
  <2>1. grant[tok[r]] \in 1 .. issued + 1 /\ tok[r] \in 1 .. issued
    BY <1>2 DEF Rotates, DocumentType
  <2>2. \A n \in 1 .. issued : n \in live /\ n # tok[r] => n \in live'
    BY <1>2, <2>1, IssueFacts DEF Rotates
  <2>3. UNCHANGED <<db, crossed>> /\ (lost => lost') /\ pc[r] # "persist"
    BY <1>2 DEF Rotates
  <2>4. \A s \in Actors \ {r} : pc'[s] = pc[s] /\ tok'[s] = tok[s]
    BY <1>2 DEF Rotates, Keeps
  <2>5. lost' \/ (pc'[r] = "persist" /\ tok'[r] = tok[r])
    BY <1>2 DEF Rotates
  <2>6. CASE tok[r] = db
    BY <2>3, <2>5, <2>6 DEF CredentialUsable
  <2>7. CASE tok[r] # db
    BY <2>2, <2>3, <2>4, <2>7 DEF CredentialUsable, DocumentType
  <2> QED
    BY <2>6, <2>7
<1>3. ASSUME NEW r \in Actors, Settles(r)
      PROVE  CredentialUsable'
  <2>1. UNCHANGED live /\ (lost => lost') /\ new[r] \in live /\ crossed \subseteq crossed'
    BY <1>3 DEF Settles, PersistingFresh
  <2>2. db' = new[r] \/ lost' \/ (db' = db /\ tok[r] # db)
    BY <1>3 DEF Settles
  <2>3. \A s \in Actors \ {r} : pc'[s] = pc[s] /\ tok'[s] = tok[s]
    BY <1>3 DEF Settles, Keeps
  <2> QED
    BY <2>1, <2>2, <2>3 DEF CredentialUsable
<1>4. ASSUME NEW a \in Admins, WritesBack(a)
      PROVE  CredentialUsable'
  BY <1>4 DEF WritesBack, CredentialUsable
<1>5. ASSUME NEW a \in Admins, Applies(a)
      PROVE  CredentialUsable'
  BY <1>5 DEF Applies, Issue, CredentialUsable
<1>6. ASSUME NEW p \in Procs, Dies(p)
      PROVE  CredentialUsable'
  <2>1. UNCHANGED <<live, tok, db, crossed>> /\ (lost => lost')
    BY <1>6 DEF Dies
  <2>2. \A s \in Actors : pc[s] = "persist" => pc'[s] = "persist" \/ lost'
    BY <1>6 DEF Dies
  <2> QED
    BY <2>1, <2>2 DEF CredentialUsable
<1> QED
  BY <1>1, <1>2, <1>3, <1>4, <1>5, <1>6, Moves

\* A refresher puts a Grok account in error for a refusal that still stands.
LEMMA ErrorStep ==
    ASSUME TypeOK, RefusedIsDead, NEW r \in Refreshers, SetRefreshError(r), grok, active, ~active'
    PROVE  /\ db \notin live
           /\ ~unlocked => \A s \in Refreshers : pc[s] = "persist" => tok[s] # db
<1>1. db = tok[r] /\ pc[r] = "dead"
  BY DEF SetRefreshError, MayMark, TypeOK
<1> QED
  BY <1>1 DEF RefusedIsDead, Refused

\* The initial states satisfy the invariant.
LEMMA InitHolds == Init => IInv
<1> SUFFICES ASSUME Init
             PROVE  IInv
  OBVIOUS
<1>1. TypeOK
  <2>1. FlagType /\ LockType
    BY DEF Init, FlagType, LockType
  <2>2. 1 .. 1 = {1}
    OBVIOUS
  <2>3. DocumentType
    BY <2>2 DEF Init, DocumentType
  <2> QED
    BY <2>1, <2>3 DEF Init, TypeOK, FlagType, LockType, DocumentType, States
<1>2. PersistingFresh /\ RefusedIsDead /\ LockExcludes /\ AdminKnows
  BY DEF Init, PersistingFresh, RefusedIsDead, LockExcludes, AdminKnows, Refused, InApi,
     Actors, Refreshers
<1>3. CredentialUsable /\ ReauthorizationKept
  BY DEF Init, CredentialUsable, ReauthorizationKept
<1> QED
  BY <1>1, <1>2, <1>3 DEF IInv

\* Every step keeps the invariant.
LEMMA Inductive == IInv /\ [Next]_vars => IInv'
  BY TypeStep, PersistingStep, AdminKnowsStep, ReauthorizationStep, UsableStep, LockStep,
     RefusedStep DEF IInv

\* The invariant holds throughout.
LEMMA Invariant == Spec => []IInv
  BY InitHolds, Inductive, PTL DEF Spec

-----------------------------------------------------------------------------
\* Every variable stays in its domain; no account is stored without a
\* document that the provider issued.
THEOREM TypeCorrect == Spec => []TypeOK
<1>1. IInv => TypeOK
  BY DEF IInv
<1> QED
  BY <1>1, Invariant, PTL

\* Rotation never leaves the account with a dead refresh token, with refreshers
\* under the locks and administrators beside them, unless the replacement was
\* lost on its way to the database or an edit wrote an older document back.
THEOREM StaysUsable == Spec => []CredentialUsable
<1>1. IInv => CredentialUsable
  BY DEF IInv
<1> QED
  BY <1>1, Invariant, PTL

\* A refresh never replaces a later authorisation of a Grok account, unless it
\* is an administrator's and crosses another write.
THEOREM KeepsReauthorization == Spec => []ReauthorizationKept
<1>1. IInv => ReauthorizationKept
  BY DEF IInv
<1> QED
  BY <1>1, Invariant, PTL

\* A refresher puts a Grok account in error only with a dead token that no
\* refresher is about to replace, as far as the lock excludes.
THEOREM ErrorIsDeserved == Spec => ErrorDeserved
<1>1. IInv /\ [Next]_vars =>
        [\A r \in Refreshers :
           grok /\ active /\ ~active' /\ SetRefreshError(r) =>
             /\ db \notin live
             /\ ~unlocked => \A s \in Refreshers : pc[s] = "persist" => tok[s] # db]_vars
  BY ErrorStep DEF IInv
<1> QED
  BY <1>1, Invariant, PTL DEF Spec, ErrorDeserved

\* While the lock excludes, one refresher at a time works on the account through
\* RefreshIfNeeded, whatever administrators do beside the lock.
THEOREM OneRefresher == Spec => []SingleRefresh
<1>1. IInv => SingleRefresh
  BY DEF IInv, LockExcludes, SingleRefresh, InApi
<1> QED
  BY <1>1, Invariant, PTL

-----------------------------------------------------------------------------
(***************************************************************************)
(* The implementation of CredentialChain.  A document that has been        *)
(* rotated is dead, so that nobody else rotates it: at most one actor is   *)
(* about to store a successor of the stored document, lock or no lock.     *)
(***************************************************************************)
SuccessorInv ==
    \A r \in Actors : pc[r] = "persist" =>
        /\ tok[r] \notin live
        /\ tok[r] < new[r]
        /\ \A s \in Actors : pc[s] = "persist" /\ tok[s] = tok[r] => s = r

\* A rotated document stays dead, and its successor is the later one.
LEMMA SuccessorStep ==
    IInv /\ SuccessorInv /\ [Next]_vars => SuccessorInv'
<1> SUFFICES ASSUME IInv, SuccessorInv, [Next]_vars PROVE SuccessorInv'
  OBVIOUS
<1>1. TypeOK /\ PersistingFresh /\ DocumentType
  BY DEF IInv, TypeOK, DocumentType
<1>2. \A r \in Actors : pc[r] = "persist" =>
        /\ tok[r] \in 1 .. issued /\ tok[r] \notin live /\ new[r] \in 1 .. issued
        /\ tok[r] < new[r]
  BY <1>1 DEF PersistingFresh, SuccessorInv, DocumentType
<1>3. CASE Aside
  BY <1>3 DEF Aside, SuccessorInv
<1>4. ASSUME NEW a \in Admins, Applies(a) PROVE SuccessorInv'
  <2>1. /\ Issue(issued + 1, {}) /\ UNCHANGED <<tok, new>>
        /\ \A s \in Actors : pc'[s] = "persist" => pc[s] = "persist"
    BY <1>4 DEF Applies, Keeps
  <2>2. \A n \in 1 .. issued : n \in live' <=> n \in live
    <3>1. issued + 1 \in 1 .. issued + 1
      BY <1>1 DEF DocumentType
    <3> QED
      BY <1>1, <2>1, <3>1, IssueFacts
  <2> QED
    BY <1>2, <2>1, <2>2 DEF SuccessorInv
<1>5. ASSUME NEW r \in Actors, Rotates(r) PROVE SuccessorInv'
  <2>1. tok[r] \in 1 .. issued /\ grant[tok[r]] \in 1 .. issued + 1
    BY <1>1, <1>5 DEF Rotates, DocumentType
  <2>2. \A n \in 1 .. issued : n \in live' <=> n \in live /\ n # tok[r]
    BY <1>1, <1>5, <2>1, IssueFacts DEF Rotates
  <2>3. tok[r] < issued + 1
    BY <1>1, <2>1 DEF DocumentType
  <2>4. \A s \in Actors : pc'[s] = "persist" => tok'[s] = tok[s]
    BY <1>5 DEF Rotates, Keeps
  <2>5. \A s \in Actors \ {r} : pc'[s] = "persist" =>
          pc[s] = "persist" /\ new'[s] = new[s] /\ tok[s] # tok[r]
    BY <1>2, <1>5 DEF Rotates, Keeps
  <2>6. pc'[r] = "persist" => new'[r] = issued + 1
    BY <1>5 DEF Rotates
  <2>7. ASSUME NEW q \in Actors, pc'[q] = "persist"
        PROVE  tok'[q] \notin live' /\ tok'[q] < new'[q]
    BY <1>2, <2>1, <2>2, <2>3, <2>4, <2>5, <2>6, <2>7
  <2>8. ASSUME NEW q \in Actors, NEW s \in Actors,
               pc'[q] = "persist", pc'[s] = "persist", tok'[s] = tok'[q]
        PROVE  s = q
    BY <2>4, <2>5, <2>8 DEF SuccessorInv
  <2> QED
    BY <2>7, <2>8 DEF SuccessorInv
<1>6. ASSUME NEW r \in Actors, Settles(r) PROVE SuccessorInv'
  BY <1>6 DEF Settles, Keeps, SuccessorInv
<1>7. ASSUME NEW a \in Admins, WritesBack(a) PROVE SuccessorInv'
  BY <1>7 DEF WritesBack, Keeps, SuccessorInv
<1>8. ASSUME NEW p \in Procs, Dies(p) PROVE SuccessorInv'
  <2>1. UNCHANGED <<tok, live>>
    BY <1>8 DEF Dies
  <2>2. \A s \in Actors : pc'[s] = "persist" => pc[s] = "persist" /\ new'[s] = new[s]
    BY <1>8 DEF Dies
  <2> QED
    BY <2>1, <2>2 DEF SuccessorInv
<1> QED
  BY <1>1, <1>3, <1>4, <1>5, <1>6, <1>7, <1>8, Moves

\* The document the account stands on, from the one actor that is about to store
\* it.
LEMMA ChosenOne ==
    ASSUME NEW S, NEW f, NEW r \in S, \A s \in S : s = r
    PROVE  f[CHOOSE s \in S : TRUE] = f[r]
<1>1. (CHOOSE s \in S : TRUE) \in S
  OBVIOUS
<1> QED
  BY <1>1

LEMMA StandingIs ==
    ASSUME TypeOK, PersistingFresh, SuccessorInv
    PROVE  /\ \A r \in Actors : pc[r] = "persist" /\ tok[r] = db => Standing = new[r]
           /\ (\A r \in Actors : ~ (pc[r] = "persist" /\ tok[r] = db)) => Standing = db
           /\ Standing \in 1 .. issued
<1>1. ASSUME NEW r \in Actors, pc[r] = "persist", tok[r] = db PROVE Standing = new[r]
  <2>1. r \in Pending /\ \A s \in Pending : s = r
    BY <1>1 DEF Pending, SuccessorInv
  <2>2. new[CHOOSE s \in Pending : TRUE] = new[r]
    BY <2>1, ChosenOne
  <2> QED
    BY <2>1, <2>2 DEF Standing
<1>2. ASSUME \A r \in Actors : ~ (pc[r] = "persist" /\ tok[r] = db) PROVE Standing = db
  BY <1>2 DEF Standing, Pending
<1>3. \A r \in Actors : pc[r] = "persist" => new[r] \in 1 .. issued
  BY DEF TypeOK, PersistingFresh
<1>4. db \in 1 .. issued
  BY DEF TypeOK
<1> QED
  BY <1>1, <1>2, <1>3, <1>4

\* The same of the next state.
LEMMA StandingThen ==
    ASSUME TypeOK', PersistingFresh', SuccessorInv'
    PROVE  /\ \A r \in Actors : pc'[r] = "persist" /\ tok'[r] = db' => Standing' = new'[r]
           /\ (\A r \in Actors : ~ (pc'[r] = "persist" /\ tok'[r] = db')) => Standing' = db'
<1>1. ASSUME NEW r \in Actors, pc'[r] = "persist", tok'[r] = db' PROVE Standing' = new'[r]
  <2>1. r \in Pending' /\ \A s \in Pending' : s = r
    BY <1>1 DEF Pending, SuccessorInv
  <2>2. new'[CHOOSE s \in Pending' : TRUE] = new'[r]
    BY <2>1, ChosenOne
  <2> QED
    BY <2>1, <2>2 DEF Standing
<1>2. ASSUME \A r \in Actors : ~ (pc'[r] = "persist" /\ tok'[r] = db') PROVE Standing' = db'
  BY <1>2 DEF Standing, Pending
<1> QED
  BY <1>1, <1>2

\* What a step does to the chain of a Grok account.
ChainMoves ==
    LET here == Standing \in live
        then == Standing' \in live'
        kept == crossed = {} /\ crossed' = {} /\ grant'[Standing'] = grant[Standing]
    IN  \/ crossed' # {}
        \/ kept /\ Standing' = Standing /\ (then <=> here)
        \/ kept /\ here /\ then /\ Standing' > Standing
        \/ kept /\ here /\ ~ then /\ Standing' <= Standing
        \/ crossed' = {} /\ then /\ Standing' > Standing /\ grant'[Standing'] = Standing'

\* Every step of a Grok account's documents is a step of the chain.
LEMMA GrokMoves ==
    ASSUME IInv, SuccessorInv, [Next]_vars, grok
    PROVE  ChainMoves
<1> SUFFICES ASSUME crossed' = {} PROVE ChainMoves
  BY DEF ChainMoves
<1> DEFINE Stands(r) == pc[r] = "persist" /\ tok[r] = db
<1>1. TypeOK /\ PersistingFresh /\ DocumentType
  BY DEF IInv, TypeOK, DocumentType
<1>2. /\ \A r \in Actors : Stands(r) => Standing = new[r]
      /\ (\A r \in Actors : ~ Stands(r)) => Standing = db
      /\ Standing \in 1 .. issued
  BY <1>1, StandingIs
<1>3. TypeOK' /\ PersistingFresh' /\ SuccessorInv'
  BY Inductive, SuccessorStep DEF IInv
<1>4. /\ \A r \in Actors : pc'[r] = "persist" /\ tok'[r] = db' => Standing' = new'[r]
      /\ (\A r \in Actors : ~ (pc'[r] = "persist" /\ tok'[r] = db')) => Standing' = db'
  BY <1>3, StandingThen
<1>5. \A r, s \in Actors : Stands(r) /\ Stands(s) => r = s
  BY DEF SuccessorInv
<1>6. \A r \in Actors : pc[r] = "persist" =>
        /\ tok[r] \in 1 .. issued /\ tok[r] \notin live /\ new[r] \in live /\ tok[r] < new[r]
        /\ new[r] \in 1 .. issued /\ grant[new[r]] = grant[tok[r]] /\ db # new[r]
        /\ \A s \in Actors : tok[s] # new[r]
  BY <1>1 DEF PersistingFresh, SuccessorInv, DocumentType
<1>7. issued \in Nat /\ issued + 1 \notin 1 .. issued /\ \A n \in 1 .. issued : n < issued + 1
  BY <1>1 DEF DocumentType
<1>8. CASE Aside
  <2>1. /\ UNCHANGED <<db, live, grant, crossed>>
        /\ \A s \in Actors : (pc'[s] = "persist" /\ tok'[s] = db') <=> Stands(s)
    BY <1>8 DEF Aside
  <2>2. \A s \in Actors : Stands(s) => new'[s] = new[s]
    BY <1>8 DEF Aside
  <2>3. Standing' = Standing
    BY <1>2, <1>4, <2>1, <2>2
  <2> QED
    BY <2>1, <2>3 DEF ChainMoves
<1>9. ASSUME NEW a \in Admins, Applies(a) PROVE ChainMoves
  <2>1. /\ Issue(issued + 1, {}) /\ UNCHANGED <<tok, new>> /\ db' = issued + 1
        /\ issued + 1 \in 1 .. issued + 1
        /\ \A s \in Actors : pc'[s] = "persist" => pc[s] = "persist"
    BY <1>7, <1>9 DEF Applies, Keeps
  <2>2. grant'[issued + 1] = issued + 1 /\ issued + 1 \in live'
    BY <1>1, <2>1, IssueFacts
  <2>3. Standing' = issued + 1
    BY <1>4, <1>6, <1>7, <2>1
  <2> QED
    BY <1>2, <1>7, <2>2, <2>3 DEF ChainMoves
<1>10. ASSUME NEW r \in Actors, Rotates(r) PROVE ChainMoves
  <2>1. tok[r] \in 1 .. issued /\ grant[tok[r]] \in 1 .. issued + 1
    BY <1>1, <1>10 DEF Rotates, DocumentType
  <2>2. /\ \A n \in 1 .. issued : n \in live' <=> n \in live /\ n # tok[r]
        /\ \A n \in 1 .. issued : grant'[n] = grant[n]
        /\ grant'[issued + 1] = grant[tok[r]] /\ issued + 1 \in live'
    BY <1>1, <1>10, <2>1, IssueFacts DEF Rotates
  <2>3. /\ UNCHANGED <<db, crossed>> /\ ~ Stands(r) /\ tok[r] \in live
        /\ pc'[r] = "persist" => tok'[r] = tok[r]
        /\ \A s \in Actors \ {r} :
             /\ (pc'[s] = "persist" /\ tok'[s] = db') <=> Stands(s)
             /\ new'[s] = new[s]
    BY <1>10 DEF Rotates, Keeps
  <2>4. CASE tok[r] = db
    <3>1. \A s \in Actors : ~ Stands(s)
      BY <1>6, <2>3, <2>4
    <3>2. Standing = db
      BY <1>2, <3>1
    <3>3. CASE pc'[r] = "persist" /\ new'[r] = issued + 1
      <4>1. Standing' = issued + 1
        BY <1>4, <2>3, <2>4, <3>3
      <4> QED
        BY <1>2, <1>7, <2>2, <2>3, <2>4, <3>2, <4>1 DEF ChainMoves
    <3>4. CASE pc'[r] # "persist"
      <4>1. Standing' = db
        BY <1>4, <2>3, <3>1, <3>4
      <4>2. db <= db
        BY <1>1 DEF DocumentType
      <4> QED
        BY <1>2, <2>2, <2>3, <2>4, <3>2, <4>1, <4>2 DEF ChainMoves
    <3> QED
      BY <1>10, <3>3, <3>4 DEF Rotates
  <2>5. CASE tok[r] # db
    <3>1. \A s \in Actors : (pc'[s] = "persist" /\ tok'[s] = db') <=> Stands(s)
      BY <2>3, <2>5
    <3>2. \A s \in Actors : Stands(s) => new'[s] = new[s] /\ new[s] # tok[r]
      BY <1>6, <2>3
    <3>3. Standing' = Standing /\ Standing # tok[r]
      BY <1>2, <1>4, <2>3, <2>5, <3>1, <3>2
    <3> QED
      BY <1>2, <2>2, <2>3, <3>3 DEF ChainMoves
  <2> QED
    BY <2>4, <2>5
<1>11. ASSUME NEW r \in Actors, Settles(r) PROVE ChainMoves
  <2>1. /\ pc[r] = "persist" /\ pc'[r] # "persist" /\ UNCHANGED <<live, grant>>
        /\ \A s \in Actors \ {r} : pc'[s] = pc[s] /\ tok'[s] = tok[s] /\ new'[s] = new[s]
    BY <1>11 DEF Settles, Keeps
  <2>2. UNCHANGED crossed /\ ((db = tok[r] /\ db' = new[r]) \/ db' = db)
    BY <1>11 DEF Settles
  <2>3. CASE Stands(r) /\ db' = new[r]
    <3>1. \A s \in Actors : ~ (pc'[s] = "persist" /\ tok'[s] = db')
      BY <1>6, <2>1, <2>3
    <3>2. Standing' = Standing
      BY <1>2, <1>4, <2>3, <3>1
    <3> QED
      BY <2>1, <2>2, <3>2 DEF ChainMoves
  <2>4. CASE db' = db /\ Stands(r)
    <3>1. \A s \in Actors : ~ (pc'[s] = "persist" /\ tok'[s] = db')
      BY <1>5, <2>1, <2>4
    <3>2. Standing' = db /\ Standing = new[r]
      BY <1>2, <1>4, <2>4, <3>1
    <3>3. db <= new[r] /\ db \notin live /\ new[r] \in live /\ grant[new[r]] = grant[db]
      BY <1>1, <1>6, <2>4 DEF DocumentType
    <3> QED
      BY <2>1, <2>2, <3>2, <3>3 DEF ChainMoves
  <2>5. CASE db' = db /\ ~ Stands(r)
    <3>1. \A s \in Actors : (pc'[s] = "persist" /\ tok'[s] = db') <=> Stands(s)
      BY <2>1, <2>5
    <3>2. \A s \in Actors : Stands(s) => new'[s] = new[s]
      BY <2>1, <2>5
    <3>3. Standing' = Standing
      BY <1>2, <1>4, <2>5, <3>1, <3>2
    <3> QED
      BY <2>1, <2>2, <3>3 DEF ChainMoves
  <2> QED
    BY <2>1, <2>2, <2>3, <2>4, <2>5
<1>12. ASSUME NEW a \in Admins, WritesBack(a) PROVE ChainMoves
  BY <1>12 DEF WritesBack
<1>13. ASSUME NEW p \in Procs, Dies(p) PROVE ChainMoves
  <2>1. UNCHANGED <<db, tok, live, grant, crossed>>
    BY <1>13 DEF Dies
  <2>2. \A s \in Actors :
          /\ ProcOf[s] = p => pc'[s] # "persist"
          /\ ProcOf[s] # p => pc'[s] = pc[s] /\ new'[s] = new[s]
    BY <1>13 DEF Dies
  <2>3. CASE \E r \in Actors : Stands(r) /\ ProcOf[r] = p
    <3>1. PICK r \in Actors : Stands(r) /\ ProcOf[r] = p
      BY <2>3
    <3>2. \A s \in Actors : ~ (pc'[s] = "persist" /\ tok'[s] = db')
      BY <1>5, <2>1, <2>2, <3>1
    <3>3. Standing' = db /\ Standing = new[r]
      BY <1>2, <1>4, <2>1, <3>1, <3>2
    <3>4. db <= new[r] /\ db \notin live /\ new[r] \in live /\ grant[new[r]] = grant[db]
      BY <1>1, <1>6, <3>1 DEF DocumentType
    <3> QED
      BY <2>1, <3>3, <3>4 DEF ChainMoves
  <2>4. CASE ~ \E r \in Actors : Stands(r) /\ ProcOf[r] = p
    <3>1. \A s \in Actors : (pc'[s] = "persist" /\ tok'[s] = db') <=> Stands(s)
      BY <2>1, <2>2, <2>4
    <3>2. \A s \in Actors : Stands(s) => new'[s] = new[s]
      BY <2>2, <2>4
    <3>3. Standing' = Standing
      BY <1>2, <1>4, <2>1, <3>1, <3>2
    <3> QED
      BY <2>1, <3>3 DEF ChainMoves
  <2> QED
    BY <2>3, <2>4
<1> QED
  BY <1>1, <1>8, <1>9, <1>10, <1>11, <1>12, <1>13, Moves

\* The kind of an account does not change.
LEMMA KindStays == ASSUME TypeOK, [Next]_vars PROVE grok' = grok
  BY Moves DEF Aside, Rotates, Settles, WritesBack, Applies, Dies

\* Every step is one of the abstract chain, or none.
LEMMA ChainStep ==
    IInv /\ SuccessorInv /\ [Next]_vars => [Chain!Next]_(Chain!vars)
<1> SUFFICES ASSUME IInv, SuccessorInv, [Next]_vars
             PROVE  Chain!Next \/ UNCHANGED Chain!vars
  OBVIOUS
<1>1. grok \in BOOLEAN /\ grok' = grok
  BY KindStays DEF IInv, TypeOK
<1>2. CASE ~ grok
  <2>1. (grok => Standing \in live)' = (grok => Standing \in live)
    BY <1>1, <1>2, Zenon
  <2>2. (grok /\ crossed # {})' = (grok /\ crossed # {})
    BY <1>1, <1>2, Zenon
  <2> QED
    BY <1>1, <1>2, <2>1, <2>2 DEF Chain!vars
<1>3. CASE grok
  <2>1. ChainMoves
    BY <1>3, GrokMoves
  <2> HIDE DEF Standing
  <2> DEFINE kept == crossed = {} /\ crossed' = {} /\ grant'[Standing'] = grant[Standing]
  <2>2. CASE crossed' # {}
    <3>1. (grok /\ crossed # {})' = TRUE
      BY <1>1, <1>3, <2>2, Zenon
    <3> QED
      BY <3>1 DEF Chain!Next, Chain!Overwrite
  <2>3. ASSUME crossed = {}, crossed' = {}
        PROVE  (grok /\ crossed # {})' = (grok /\ crossed # {})
    BY <1>1, <2>3, Zenon
  <2>4. CASE kept /\ Standing' = Standing /\ (Standing' \in live' <=> Standing \in live)
    <3>1. (grok => Standing \in live)' = (grok => Standing \in live)
      BY <1>1, <2>4, Zenon
    <3> QED
      BY <1>1, <1>3, <2>3, <2>4, <3>1 DEF Chain!vars
  <2>5. CASE kept /\ Standing \in live /\ Standing' \in live' /\ Standing' > Standing
    <3>1. (grok => Standing \in live)' = (grok => Standing \in live)
      BY <1>1, <2>5, Zenon
    <3> QED
      BY <1>1, <1>3, <2>3, <2>5, <3>1 DEF Chain!Next, Chain!Rotate
  <2>6. CASE kept /\ Standing \in live /\ ~ (Standing' \in live') /\ Standing' <= Standing
    <3>1. (grok => Standing \in live)' = FALSE
      BY <1>1, <1>3, <2>6, Zenon
    <3> QED
      BY <1>1, <1>3, <2>3, <2>6, <3>1 DEF Chain!Next, Chain!Lose
  <2>7. CASE /\ crossed' = {} /\ Standing' \in live'
             /\ Standing' > Standing /\ grant'[Standing'] = Standing'
    <3>1. (grok => Standing \in live)' = TRUE
      BY <1>1, <1>3, <2>7, Zenon
    <3>2. (grok /\ crossed # {})' = FALSE
      BY <2>7, Zenon
    <3> QED
      BY <1>1, <1>3, <2>7, <3>1, <3>2 DEF Chain!Next, Chain!Reauthorize
  <2> QED
    BY <2>1, <2>2, <2>4, <2>5, <2>6, <2>7 DEF ChainMoves
<1> QED
  BY <1>1, <1>2, <1>3

\* OAuthRefresh implements CredentialChain: seen from the moment the provider
\* answers, the documents of a Grok account move on by rotation and new
\* authorisation only, whatever the refreshers of all processes and refreshes by
\* hand do and whatever fails, until an administrator's write crosses another;
\* and a lost answer is the only other way to a dead document.
THEOREM KeepsChain == Spec => ChainKept
<1>1. Init => SuccessorInv
  BY DEF Init, SuccessorInv
<1>2. Init => Chain!Init
  <2> SUFFICES ASSUME Init PROVE Chain!Init
    OBVIOUS
  <2>1. Pending = {}
    BY DEF Init, Pending
  <2>2. Standing = 1 /\ grant[1] = 1 /\ 1 \in live /\ crossed = {}
    BY <2>1 DEF Init, Standing
  <2>3. (grok => Standing \in live) = TRUE
    BY <2>2, Zenon
  <2>4. (grok /\ crossed # {}) = FALSE
    BY <2>2, Zenon
  <2> QED
    BY <2>2, <2>3, <2>4 DEF Chain!Init
<1> QED
  BY <1>1, <1>2, InitHolds, Inductive, SuccessorStep, ChainStep, PTL DEF Spec, ChainKept, Chain!Spec
=============================================================================

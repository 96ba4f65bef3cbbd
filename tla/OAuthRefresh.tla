---------------------------- MODULE OAuthRefresh ----------------------------
(***************************************************************************)
(* Refresh of one OAuth account's credentials                              *)
(* (service/oauth_refresh_api.go) by the background service                *)
(* (service/token_refresh_service.go) and by requests                      *)
(* (service/grok_token_provider.go, openai_token_provider.go), under a     *)
(* lock per process and a Redis lock without an owner                      *)
(* (repository/gemini_token_cache.go), with the conditional writes of      *)
(* repository/account_repo.go for Grok accounts and the unconditional ones *)
(* for the others; and administrators, who refresh an account by hand,     *)
(* edit it and authorise it again (handler/admin/account_handler.go).      *)
(* They take no lock, and UpdateAccount (service/admin_account.go) reads   *)
(* the account and later writes the whole of it back, credentials and      *)
(* status included.                                                        *)
(*                                                                         *)
(* A credential document is a number, given in the order of issue.  The    *)
(* provider exchanges a live refresh token for a new document, which kills *)
(* the token; a dead token is an invalid_grant.  A new authorisation does  *)
(* not touch the tokens of earlier ones.                                   *)
(*                                                                         *)
(* Left out: the proxy of an account, which conditional writes compare     *)
(* like the credentials, the cache of access tokens, the pacing of         *)
(* attempts and the breaker of a provider, which only delay attempts, and  *)
(* the permanent refusals other than invalid_grant (no entitlement, a bad  *)
(* client), which do not depend on the rotation; and the import of         *)
(* accounts from another gateway (service/crs_sync_service.go), whose      *)
(* documents are not issued to this one.                                   *)
(***************************************************************************)
EXTENDS Integers, FiniteSets

CONSTANTS
    Procs,       \* processes of the gateway
    Background,  \* the refresh service, one in each process that has it
    Requests,    \* requests that refresh an expired token
    Admins,      \* administrators' requests that change the account
    ProcOf,      \* the process of each of them
    Slow,        \* requests whose context may outlive the lock's TTL
    None,
    Faults,      \* kinds of failure that may happen
    MaxIssued,   \* bound on the documents that expire or are replaced
    MaxFaults    \* bound on the number of failures

Refreshers == Background \union Requests
Actors == Refreshers \union Admins
FaultKinds == {"redis", "read", "provider", "answer", "persist", "mark", "crash"}

ASSUME ConstantsAssumption ==
    /\ Background \intersect Requests = {}
    /\ Admins \intersect Refreshers = {}
    /\ ProcOf \in [Actors -> Procs]
    /\ Slow \subseteq Requests
    /\ None \notin Refreshers
    /\ Faults \subseteq FaultKinds
    /\ MaxIssued \in Nat \ {0}
    /\ MaxFaults \in Nat

VARIABLES
    grok,      \* the account is a Grok account
    db,        \* its credential document
    needs,     \* the access token of that document is about to expire
    active,    \* the account's status is active, and not error
    cooling,   \* the account is temporarily unschedulable
    crossed,   \* history: the ways in which, since the last authorisation, an
               \* administrator's write has replaced a document it had not read
    mutex,     \* holder of each process's lock
    lock,      \* holder of the Redis lock
    pc,        \* what each of them does next
    held,      \* a refresher has the Redis lock to release
    tok,       \* the document it read
    new,       \* the document the provider gave it
    status,    \* the account's activity as an administrator's update read it
    live,      \* documents whose refresh token the provider accepts
    issued,    \* documents issued so far
    grant,     \* history: the authorisation each document descends from
    last,      \* history: the last authorisation
    lost,      \* history: a rotated document was not stored
    unlocked,  \* history: a refresher ran without the lock
    faults     \* failures so far

accountVars == <<grok, db, needs, active, cooling, crossed>>
lockVars == <<mutex, lock, held>>
procVars == <<pc, tok, new, status>>
providerVars == <<live, issued, grant, last>>
vars == <<accountVars, lockVars, procVars, providerVars, lost, unlocked, faults>>

-----------------------------------------------------------------------------
\* In RefreshIfNeeded.
InApi == {"lock", "read", "call", "recover", "persist", "unlock", "unlock_failed", "unlock_dead"}
States == InApi \union {"idle", "failed", "dead", "edit", "apply", "clear"}

Init ==
    /\ grok \in BOOLEAN
    /\ db = 1
    /\ needs = FALSE
    /\ active = TRUE
    /\ cooling = FALSE
    /\ crossed = {}
    /\ mutex = [p \in Procs |-> None]
    /\ lock = None
    /\ pc = [r \in Actors |-> "idle"]
    /\ held = [r \in Refreshers |-> FALSE]
    /\ tok = [r \in Actors |-> 0]
    /\ new = [r \in Actors |-> 0]
    /\ status = [a \in Admins |-> None]
    /\ live = {1}
    /\ issued = 1
    /\ grant = [n \in {1} |-> 1]
    /\ last = 1
    /\ lost = FALSE
    /\ unlocked = FALSE
    /\ faults = 0

Goto(r, state) == pc' = [pc EXCEPT ![r] = state]

Fault(kind) ==
    /\ kind \in Faults
    /\ faults < MaxFaults
    /\ faults' = faults + 1

\* The next document, of an authorisation g; the provider forgets old ones.
Issue(g, dead) ==
    /\ issued' = issued + 1
    /\ live' = (live \ dead) \union {issued + 1}
    /\ grant' = [n \in 1 .. issued + 1 |-> IF n <= issued THEN grant[n] ELSE g]

-----------------------------------------------------------------------------
(***************************************************************************)
(* The account's environment.                                              *)
(***************************************************************************)
AccessTokenExpires ==
    /\ ~needs
    /\ issued < MaxIssued
    /\ needs' = TRUE
    /\ UNCHANGED <<grok, db, active, cooling, crossed, lockVars, procVars, providerVars, lost, unlocked, faults>>

CooldownExpires ==
    /\ cooling
    /\ cooling' = FALSE
    /\ UNCHANGED <<grok, db, needs, active, crossed, lockVars, procVars, providerVars, lost, unlocked, faults>>

-----------------------------------------------------------------------------
(***************************************************************************)
(* RefreshIfNeeded.                                                        *)
(***************************************************************************)
\* A request starts only for an account that may be scheduled.
Start(r) ==
    /\ pc[r] = "idle"
    /\ needs /\ active
    /\ r \in Requests => ~cooling
    /\ mutex[ProcOf[r]] = None
    /\ mutex' = [mutex EXCEPT ![ProcOf[r]] = r]
    /\ Goto(r, "lock")
    /\ UNCHANGED <<accountVars, lock, held, tok, new, status, providerVars, lost, unlocked, faults>>

LeaveMutex(r) == mutex' = [mutex EXCEPT ![ProcOf[r]] = None]

\* Mutant of AcquireRefreshLock: SET without NX.
AcquireRefreshLockSet(r) ==
    /\ pc[r] = "lock"
    /\ lock' = r
    /\ held' = [held EXCEPT ![r] = TRUE]
    /\ Goto(r, "read")
    /\ UNCHANGED <<mutex, accountVars, tok, new, status, providerVars, lost, unlocked, faults>>

\* SETNX; a lock that is taken ends the attempt.
AcquireRefreshLock(r) ==
    /\ pc[r] = "lock"
    /\ IF lock = None
         THEN /\ lock' = r
              /\ held' = [held EXCEPT ![r] = TRUE]
              /\ Goto(r, "read")
              /\ UNCHANGED mutex
         ELSE /\ LeaveMutex(r)
              /\ Goto(r, "idle")
              /\ UNCHANGED <<lock, held>>
    /\ UNCHANGED <<accountVars, tok, new, status, providerVars, lost, unlocked, faults>>

\* An error of Redis lets the attempt go on without the lock, which may have
\* been set.
AcquireRefreshLockFails(r) ==
    /\ pc[r] = "lock"
    /\ Fault("redis")
    /\ \/ UNCHANGED lock
       \/ lock = None /\ lock' = r
    /\ unlocked' = TRUE
    /\ Goto(r, "read")
    /\ UNCHANGED <<accountVars, mutex, held, tok, new, status, providerVars, lost>>

\* The account is read again under the lock: it may have been refreshed,
\* disabled or, for a request on a Grok account, made unschedulable.
StillNeeded(r) == needs /\ active /\ (grok /\ r \in Requests => ~cooling)

ReadAccount(r) ==
    /\ pc[r] = "read"
    /\ IF StillNeeded(r)
         THEN Goto(r, "call") /\ tok' = [tok EXCEPT ![r] = db]
         ELSE Goto(r, "unlock") /\ UNCHANGED tok
    /\ UNCHANGED <<accountVars, lockVars, new, status, providerVars, lost, unlocked, faults>>

ReadAccountFails(r) ==
    /\ pc[r] = "read"
    /\ Fault("read")
    /\ Goto(r, "unlock")
    /\ UNCHANGED <<accountVars, lockVars, tok, new, status, providerVars, lost, unlocked>>

\* The provider rotates a live token, and refuses a dead one.
Refresh(r) ==
    /\ pc[r] = "call"
    /\ IF tok[r] \in live
         THEN /\ Issue(grant[tok[r]], {tok[r]})
              /\ new' = [new EXCEPT ![r] = issued + 1]
              /\ Goto(r, "persist")
         ELSE /\ Goto(r, "recover")
              /\ UNCHANGED <<live, issued, grant, new>>
    /\ UNCHANGED <<accountVars, lockVars, tok, status, last, lost, unlocked, faults>>

\* The provider fails, or it rotates the token and its answer is lost or
\* comes after the end of the context, when it is not stored.
RefreshFails(r) ==
    /\ pc[r] = "call"
    /\ \/ /\ Fault("provider")
          /\ UNCHANGED <<live, issued, grant, lost>>
       \/ /\ tok[r] \in live
          /\ Fault("answer")
          /\ Issue(grant[tok[r]], {tok[r]})
          /\ lost' = TRUE
    /\ Goto(r, "unlock_failed")
    /\ UNCHANGED <<accountVars, lockVars, tok, new, status, last, unlocked>>

\* After an invalid_grant: another document than the one that was tried means
\* that another refresher has won.
TryRecoverFromRefreshRace(r) ==
    /\ pc[r] = "recover"
    /\ Goto(r, IF db # tok[r] THEN "unlock" ELSE "unlock_dead")
    /\ UNCHANGED <<accountVars, lockVars, tok, new, status, providerVars, lost, unlocked, faults>>

\* The account cannot be read again: no race is known of.
TryRecoverFromRefreshRaceFails(r) ==
    /\ pc[r] = "recover"
    /\ Fault("read")
    /\ Goto(r, "unlock_dead")
    /\ UNCHANGED <<accountVars, lockVars, tok, new, status, providerVars, lost, unlocked>>

\* Mutant of Stored: the fields of the old document win in the merge.
StoredOld(r) == tok[r]

\* Mutant of Stored: the document is stored without a refresh token.
StoredNothing(r) == 0

\* Mutant of MayStore: the write for Grok is not conditional.
MayStoreAlways(r) == TRUE

\* MergeCredentials: the fields of the new document win.
Stored(r) == new[r]

\* UpdateGrokOAuthCredentialsIfUnchanged compares the whole document.
MayStore(r) == grok => db = tok[r]

Persist(r) ==
    /\ db' = Stored(r)
    /\ needs' = FALSE

\* The new document is stored, and then the service lifts the cooldown, if
\* that write succeeds; a miss of the comparison leaves the account as it is.
UpdateCredentials(r) ==
    /\ pc[r] = "persist"
    /\ IF MayStore(r) THEN Persist(r) ELSE UNCHANGED <<db, needs>>
    /\ \/ UNCHANGED cooling
       \/ r \in Background /\ MayStore(r) /\ cooling' = FALSE
    /\ Goto(r, "unlock")
    /\ UNCHANGED <<grok, active, crossed, lockVars, tok, new, status, providerVars, lost, unlocked, faults>>

\* The write fails, or its answer does not arrive; for Grok accounts the
\* caller leaves the account alone.
UpdateCredentialsFails(r) ==
    /\ pc[r] = "persist"
    /\ Fault("persist")
    /\ \/ lost' = TRUE /\ UNCHANGED <<db, needs>>
       \/ MayStore(r) /\ Persist(r) /\ UNCHANGED lost
    /\ Goto(r, IF grok THEN "unlock" ELSE "unlock_failed")
    /\ UNCHANGED <<grok, active, cooling, crossed, lockVars, tok, new, status, providerVars, unlocked>>

\* The caller of RefreshIfNeeded goes on with the error it was given: the
\* background service and the requests on Grok accounts act on it.
Outcome(r) ==
    IF r \in Requests /\ ~grok THEN "idle"
    ELSE CASE pc[r] = "unlock_dead" -> "dead"
           [] pc[r] = "unlock_failed" -> "failed"
           [] OTHER -> "idle"

\* DEL of the lock, whoever has it by now, then the process's lock.
ReleaseRefreshLock(r) ==
    /\ pc[r] \in {"unlock", "unlock_failed", "unlock_dead"}
    /\ \/ /\ lock' = IF held[r] THEN None ELSE lock
          /\ UNCHANGED faults
       \/ held[r] /\ Fault("redis") /\ UNCHANGED lock
    /\ held' = [held EXCEPT ![r] = FALSE]
    /\ LeaveMutex(r)
    /\ Goto(r, Outcome(r))
    /\ new' = [new EXCEPT ![r] = 0]
    /\ UNCHANGED <<accountVars, tok, status, providerVars, lost, unlocked>>

-----------------------------------------------------------------------------
(***************************************************************************)
(* The caller after an error.                                              *)
(***************************************************************************)
\* Mutant of MayMark: the error of a Grok account is set unconditionally.
MayMarkAlways(r) == TRUE

\* The conditional writes for Grok: the account is active, schedulable where
\* a request failed, and has the document of the failed attempt.
MayMark(r) == grok => active /\ db = tok[r] /\ (r \in Requests => ~cooling)

\* An invalid_grant that was no race: the account is put in error.
SetRefreshError(r) ==
    /\ pc[r] = "dead"
    /\ active' = (active /\ ~MayMark(r))
    /\ Goto(r, "idle")
    /\ UNCHANGED <<grok, db, needs, cooling, crossed, lockVars, tok, new, status, providerVars, lost, unlocked, faults>>

SetRefreshErrorFails(r) ==
    /\ pc[r] = "dead"
    /\ Fault("mark")
    /\ Goto(r, "idle")
    /\ UNCHANGED <<accountVars, lockVars, tok, new, status, providerVars, lost, unlocked>>

\* A transient error is retried, or puts the account aside when the retries
\* are used up.
RetryOrCool(r) ==
    /\ pc[r] = "failed"
    /\ \/ UNCHANGED cooling
       \/ MayMark(r) /\ cooling' = TRUE
    /\ Goto(r, "idle")
    /\ UNCHANGED <<grok, db, needs, active, crossed, lockVars, tok, new, status, providerVars, lost, unlocked, faults>>

-----------------------------------------------------------------------------
(***************************************************************************)
(* Administrators.                                                         *)
(***************************************************************************)
\* The administrator's request ends.
Finish(a) ==
    /\ Goto(a, "idle")
    /\ tok' = [tok EXCEPT ![a] = 0]
    /\ new' = [new EXCEPT ![a] = 0]
    /\ status' = [status EXCEPT ![a] = None]

\* UpdateAccount reads the account and keeps its status for the write.
ReadStatus(a) == status' = [status EXCEPT ![a] = active]

\* The write has replaced a document that the request had not read.
Crosses(a, way) == crossed' = IF db = tok[a] THEN crossed ELSE crossed \union {way}

\* A refresh by hand, of one account or of many, reads the account ...
GetAccount(a) ==
    /\ pc[a] = "idle"
    /\ issued < MaxIssued
    /\ tok' = [tok EXCEPT ![a] = db]
    /\ Goto(a, "call")
    /\ UNCHANGED <<accountVars, lockVars, new, status, providerVars, lost, unlocked, faults>>

\* ... and exchanges its token without any lock; a refusal is only reported ...
RefreshSingleAccount(a) ==
    /\ pc[a] = "call"
    /\ IF tok[a] \in live
         THEN /\ Issue(grant[tok[a]], {tok[a]})
              /\ new' = [new EXCEPT ![a] = issued + 1]
              /\ Goto(a, "persist")
              /\ UNCHANGED <<tok, status>>
         ELSE /\ Finish(a)
              /\ UNCHANGED <<live, issued, grant>>
    /\ UNCHANGED <<accountVars, lockVars, last, lost, unlocked, faults>>

RefreshSingleAccountFails(a) ==
    /\ pc[a] = "call"
    /\ \/ /\ Fault("provider")
          /\ UNCHANGED <<live, issued, grant, lost>>
       \/ /\ tok[a] \in live
          /\ Fault("answer")
          /\ Issue(grant[tok[a]], {tok[a]})
          /\ lost' = TRUE
    /\ Finish(a)
    /\ UNCHANGED <<accountVars, lockVars, last, unlocked>>

\* ... and UpdateAccount reads the account a second time ...
GetByID(a) ==
    /\ pc[a] = "persist"
    /\ status[a] = None
    /\ ReadStatus(a)
    /\ UNCHANGED <<accountVars, lockVars, pc, tok, new, providerVars, lost, unlocked, faults>>

\* ... and stores the new document over whatever is there, with the status.
StoreRefreshed(a) ==
    /\ pc[a] = "persist"
    /\ status[a] # None
    /\ db' = new[a]
    /\ needs' = FALSE
    /\ active' = status[a]
    /\ Crosses(a, "refresh")
    /\ Finish(a)
    /\ UNCHANGED <<grok, cooling, lockVars, providerVars, lost, unlocked, faults>>

StoreRefreshedFails(a) ==
    /\ pc[a] = "persist"
    /\ Fault("persist")
    /\ lost' = TRUE
    /\ Finish(a)
    /\ UNCHANGED <<accountVars, lockVars, providerVars, unlocked>>

\* An edit of other fields reads the account ...
EditAccount(a) ==
    /\ pc[a] = "idle"
    /\ tok' = [tok EXCEPT ![a] = db]
    /\ Goto(a, "edit")
    /\ UNCHANGED <<accountVars, lockVars, new, status, providerVars, lost, unlocked, faults>>

\* ... and writes it back, the document as it was read, which may be expired by
\* now, and the status as read or as the administrator sets it.
StoreEdited(a) ==
    /\ pc[a] = "edit"
    /\ db' = tok[a]
    /\ IF db = tok[a] THEN UNCHANGED needs ELSE needs' \in {n \in BOOLEAN : n => issued < MaxIssued}
    /\ active' \in BOOLEAN
    /\ Crosses(a, "edit")
    /\ Finish(a)
    /\ UNCHANGED <<grok, cooling, lockVars, providerVars, lost, unlocked, faults>>

\* The account is authorised again: UpdateAccount reads it ...
BeginApply(a) ==
    /\ pc[a] = "idle"
    /\ issued < MaxIssued
    /\ ReadStatus(a)
    /\ Goto(a, "apply")
    /\ UNCHANGED <<accountVars, lockVars, tok, new, providerVars, lost, unlocked, faults>>

\* Mutant of Merged: the fields of the stored document win.
MergedOld == db

\* MergePreservingSensitiveCreds: the fields of the new document win.
Merged == issued + 1

\* ... and stores the credentials of the new authorisation ...
ApplyOAuthCredentials(a) ==
    /\ pc[a] = "apply"
    /\ Issue(issued + 1, {})
    /\ last' = issued + 1
    /\ db' = Merged
    /\ needs' = FALSE
    /\ active' = status[a]
    /\ status' = [status EXCEPT ![a] = None]
    /\ lost' = FALSE
    /\ crossed' = {}
    /\ Goto(a, "clear")
    /\ UNCHANGED <<grok, cooling, lockVars, tok, new, unlocked, faults>>

\* ... and then the error and the cooldown of the account are cleared, one
\* after the other; a failure is only logged.
ClearAccountError(a) ==
    /\ pc[a] = "clear"
    /\ \/ active' = TRUE /\ cooling' = FALSE /\ UNCHANGED faults
       \/ active' = TRUE /\ UNCHANGED cooling /\ Fault("mark")
       \/ UNCHANGED <<active, cooling>> /\ Fault("mark")
    /\ Goto(a, "idle")
    /\ UNCHANGED <<grok, db, needs, crossed, lockVars, tok, new, status, providerVars, lost, unlocked>>

\* The update of an edit or of an authorisation fails.
UpdateAccountFails(a) ==
    /\ pc[a] \in {"edit", "apply"}
    /\ Fault("persist")
    /\ Finish(a)
    /\ UNCHANGED <<accountVars, lockVars, providerVars, lost, unlocked>>

-----------------------------------------------------------------------------
\* Mutant of LockExpires: the lock has no TTL.
LockNeverExpires == FALSE /\ UNCHANGED vars

\* The TTL of 60 s.  The attempts of the service are clamped below it and the
\* requests on Grok accounts end after 8 s; other requests may be slower.
LockExpires ==
    /\ lock # None
    /\ held[lock] /\ pc[lock] \in InApi => lock \in Slow /\ ~grok
    /\ unlocked' = (unlocked \/ held[lock])
    /\ lock' = None
    /\ UNCHANGED <<accountVars, mutex, held, procVars, providerVars, lost, faults>>

\* A process dies; the lock stays in Redis.
Crash(p) ==
    LET dead == {r \in Actors : ProcOf[r] = p} IN
    /\ Fault("crash")
    /\ \E r \in dead : pc[r] # "idle"
    /\ lost' = (lost \/ \E r \in dead : pc[r] = "persist")
    /\ pc' = [r \in Actors |-> IF r \in dead THEN "idle" ELSE pc[r]]
    /\ new' = [r \in Actors |-> IF r \in dead THEN 0 ELSE new[r]]
    /\ status' = [a \in Admins |-> IF a \in dead THEN None ELSE status[a]]
    /\ held' = [r \in Refreshers |-> held[r] /\ r \notin dead]
    /\ mutex' = [mutex EXCEPT ![p] = None]
    /\ UNCHANGED <<accountVars, lock, tok, providerVars, unlocked>>

-----------------------------------------------------------------------------
RefresherStep(r) ==
    \/ AcquireRefreshLock(r)
    \/ ReadAccount(r)
    \/ Refresh(r)
    \/ TryRecoverFromRefreshRace(r)
    \/ UpdateCredentials(r)
    \/ ReleaseRefreshLock(r)
    \/ SetRefreshError(r)
    \/ RetryOrCool(r)

RefresherFails(r) ==
    \/ AcquireRefreshLockFails(r)
    \/ ReadAccountFails(r)
    \/ RefreshFails(r)
    \/ TryRecoverFromRefreshRaceFails(r)
    \/ UpdateCredentialsFails(r)
    \/ SetRefreshErrorFails(r)

AdminStep(a) ==
    \/ GetAccount(a)
    \/ RefreshSingleAccount(a)
    \/ RefreshSingleAccountFails(a)
    \/ GetByID(a)
    \/ StoreRefreshed(a)
    \/ StoreRefreshedFails(a)
    \/ EditAccount(a)
    \/ StoreEdited(a)
    \/ BeginApply(a)
    \/ ApplyOAuthCredentials(a)
    \/ ClearAccountError(a)
    \/ UpdateAccountFails(a)

Next ==
    \/ \E r \in Refreshers : Start(r) \/ RefresherStep(r) \/ RefresherFails(r)
    \/ \E a \in Admins : AdminStep(a)
    \/ AccessTokenExpires
    \/ CooldownExpires
    \/ LockExpires
    \/ \E p \in Procs : Crash(p)

Spec == Init /\ [][Next]_vars

\* The background service runs in cycles and its attempts go on; Redis lets
\* an expired lock go.  Requests need not come, nor administrators finish.
FairSpec ==
    /\ Spec
    /\ \A r \in Background : WF_vars(Start(r) \/ RefresherStep(r))
    /\ \A r \in Requests : WF_vars(RefresherStep(r))
    /\ WF_vars(LockExpires)

-----------------------------------------------------------------------------
(***************************************************************************)
(* Properties.                                                             *)
(***************************************************************************)
\* The types of the account, the locks, the attempts and the provider.
TypeOK ==
    /\ grok \in BOOLEAN /\ needs \in BOOLEAN
    /\ active \in BOOLEAN /\ cooling \in BOOLEAN
    /\ crossed \subseteq {"edit", "refresh"}
    /\ lost \in BOOLEAN /\ unlocked \in BOOLEAN
    /\ issued \in Nat \ {0}
    /\ db \in 1 .. issued
    /\ last \in 1 .. issued
    /\ mutex \in [Procs -> Refreshers \union {None}]
    /\ lock \in Refreshers \union {None}
    /\ pc \in [Actors -> States]
    /\ held \in [Refreshers -> BOOLEAN]
    /\ tok \in [Actors -> 0 .. issued]
    /\ new \in [Actors -> 0 .. issued]
    /\ status \in [Admins -> BOOLEAN \union {None}]
    /\ live \in SUBSET (1 .. issued)
    /\ grant \in [1 .. issued -> 1 .. issued]
    /\ faults \in Nat

\* Rotation never leaves the account with a dead refresh token, though
\* administrators rotate it without a lock: unless a rotated document was lost
\* on its way to the database, or an edit wrote an older document back, the
\* stored document is live or its replacement is about to be stored.
CredentialUsable ==
    \/ db \in live
    \/ lost
    \/ "edit" \in crossed
    \/ \E r \in Actors : pc[r] = "persist" /\ tok[r] = db

\* The success of a refresh that began before an administrator authorised a
\* Grok account again never replaces the new authorisation; the writes of
\* UpdateAccount that cross it do.
ReauthorizationKept == grok /\ crossed = {} => grant[db] = last

\* "avoid quarantining a concurrently reauthorized account"
\* (service/oauth_refresh_api.go, of the attempted snapshot): a refresher puts
\* a Grok account in error only when its stored token is dead and, while the
\* lock excludes other refreshers, none of them is about to replace it.  A
\* refresh by hand, which takes no lock, may be.
ErrorDeserved ==
    [][\A r \in Refreshers :
         grok /\ active /\ ~active' /\ SetRefreshError(r) =>
           /\ db \notin live
           /\ ~unlocked => \A s \in Refreshers : pc[s] = "persist" => tok[s] # db]_vars

\* One refresher at a time works on the account through RefreshIfNeeded, in all
\* the processes, as long as Redis answers and no attempt outlives the lock,
\* whatever administrators do beside the lock.
SingleRefresh ==
    ~unlocked =>
      \A r, s \in Refreshers :
        pc[r] \in {"read", "call", "recover", "persist"} /\ pc[s] \in {"read", "call", "recover", "persist"} => r = s

\* The document a Grok account stands on: the provider's answer to whoever has
\* rotated the stored document and is about to store the new one.
Pending == {r \in Actors : pc[r] = "persist" /\ tok[r] = db}
Standing == IF Pending = {} THEN db ELSE new[CHOOSE r \in Pending : TRUE]

Chain == INSTANCE CredentialChain WITH
    doc <- IF grok THEN Standing ELSE 1,
    root <- IF grok THEN grant[Standing] ELSE 1,
    usable <- grok => Standing \in live,
    broken <- grok /\ crossed # {}

\* The documents of a Grok account form a chain that no step of a late refresher
\* breaks, nor a refresh by hand that races with it: a usable document is only
\* replaced by its own successor, by a new authorisation or by losing the
\* successor, and once the successor is lost, only a new authorisation helps.
\* The chain is broken by an administrator's write that crosses another, until
\* the next authorisation.
ChainKept == Chain!Spec

\* An account whose token is about to expire is refreshed or put in error,
\* though processes die with the lock, Redis, the provider and the database
\* fail (unless requests hold the lock, or administrators write over each other,
\* again and again).
RefreshedEventually ==
    <>[](\A r \in Requests \union Admins : pc[r] = "idle") =>
      ((needs /\ active) ~> (~needs \/ ~active))
=============================================================================

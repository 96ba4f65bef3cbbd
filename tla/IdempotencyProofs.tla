------------------------- MODULE IdempotencyProofs -------------------------
(***************************************************************************)
(* Type correctness, mutual exclusion, suppression of retries and faithful *)
(* replays of the idempotency coordinator, for every set of requests, keys *)
(* and payloads and every setting of the time constants.                   *)
(***************************************************************************)
EXTENDS Idempotency, TLAPS

\* The row of an executing request is still the one it claimed, and nobody
\* else can reach it: no other request is executing, and a stale reclaim is
\* older than the lock.
Owns(p) ==
    /\ req[p].id # 0
    /\ RowOf(p).id = req[p].id
    /\ RowOf(p).status = "processing"
    /\ now < claim[p].lease
    /\ claim[p].lease <= RowOf(p).expiresAt
    /\ claim[p].lease <= now + TTL
    /\ \A q \in Requests \ {p} :
         KeyOf[q] = KeyOf[p] =>
           /\ ~Executing(q)
           /\ req[q].pc = "reclaimExpired" => req[q].start < RowOf(p).lockedUntil

OwnerInv == \A p \in Requests : Executing(p) /\ KeyOf[p] \notin overrun => Owns(p)

\* A request's captured time is not in the future, it reclaims a row it has
\* found, and it hands the status failed_retryable to its second kind of
\* reclaim.
LocalInv ==
    \A p \in Requests :
        /\ req[p].start <= now
        /\ req[p].pc = "reclaimFailed" => req[p].from = "failed_retryable"
        /\ req[p].pc \in {"reclaimExpired", "reclaimFailed"} => req[p].id # 0

Inv == TypeOK /\ LocalInv /\ OwnerInv

-----------------------------------------------------------------------------
(* Updating a record of a request or a row keeps it in its type. *)
LEMMA LocalUpdate ==
  ASSUME NEW r \in Local, NEW n \in Nat,
         NEW l \in {"create", "get", "reclaimExpired", "reget", "reclaimFailed",
                    "execute", "markSucceeded", "markFailed", "stopping", "done"},
         NEW s \in Statuses \cup {"none"}
  PROVE  /\ [r EXCEPT !.pc = l] \in Local
         /\ [r EXCEPT !.pc = l, !.start = n] \in Local
         /\ [r EXCEPT !.pc = l, !.id = n] \in Local
         /\ [r EXCEPT !.pc = l, !.id = n, !.from = s] \in Local
         /\ [r EXCEPT !.pc = l, !.finished = n] \in Local
         /\ At(l) \in Local
  BY DEF Local, At

LEMMA RowUpdate ==
  ASSUME NEW r \in Row, NEW m \in Nat, NEW n \in Nat, NEW s \in Statuses,
         NEW b \in Requests \cup {"unreadable"}
  PROVE  /\ [r EXCEPT !.lockedUntil = m, !.expiresAt = n] \in Row
         /\ [r EXCEPT !.status = s, !.lockedUntil = m, !.expiresAt = n] \in Row
         /\ [r EXCEPT !.status = s, !.body = b, !.lockedUntil = m,
                      !.expiresAt = n] \in Row
         /\ r.status \in Statuses \cup {"none"}
         /\ r.id \in Nat
  BY DEF Row

(* The fields of a request's record, and of its row. *)
LEMMA Fields ==
  ASSUME TypeOK, NEW p \in Requests
  PROVE  /\ req[p] \in Local
         /\ req[p].start \in Nat /\ req[p].id \in Nat /\ req[p].finished \in Nat
         /\ KeyOf[p] \in Keys
         /\ RowOf(p) \in Row
         /\ RowOf(p).id \in Nat /\ RowOf(p).status \in Statuses \cup {"none"}
         /\ RowOf(p).lockedUntil \in Nat /\ RowOf(p).expiresAt \in Nat
         /\ RowOf(p).body \in Requests \cup {"none", "unreadable"}
         /\ claim[p].lease \in Nat
<1>1. req[p] \in Local /\ KeyOf[p] \in Keys
  BY RequestAssumption DEF TypeOK
<1>2. RowOf(p) \in Row
  BY <1>1 DEF TypeOK, RowOf
<1>3. claim[p].lease \in Nat
  BY DEF TypeOK
<1> QED
  BY <1>1, <1>2, <1>3 DEF Local, Row

LEMMA ReclaimedType ==
  ASSUME TypeOK, NEW p \in Requests
  PROVE  ReclaimedRow(p) \in Row
<1>1. req[p].start + ProcessingTimeout \in Nat /\ req[p].start + TTL \in Nat
  BY Fields, TimeAssumption
<1>2. RowOf(p) \in Row /\ "processing" \in Statuses
  BY Fields DEF Statuses
<1> QED
  BY <1>1, <1>2, RowUpdate DEF ReclaimedRow

(* A request that returns leaves well-typed variables behind. *)
LEMMA ReturnType ==
  ASSUME TypeOK, NEW p \in Requests, NEW result \in Replies, Return(p, result)
  PROVE  /\ req' \in [Requests -> Local]
         /\ renewing' \in SUBSET Requests
         /\ reply' \in [Requests -> Replies]
<1>1. At("done") \in Local
  BY DEF At, Local
<1> QED
  BY <1>1 DEF Return, TypeOK

LEMMA LeaveType ==
  ASSUME TypeOK, NEW p \in Requests, NEW result \in Replies, Leave(p, result)
  PROVE  /\ req' \in [Requests -> Local]
         /\ renewing' \in SUBSET Requests
         /\ reply' \in [Requests -> Replies]
<1>1. [req[p] EXCEPT !.pc = "stopping"] \in Local
  BY Fields, LocalUpdate
<1>2. CASE p \in Bounded
  BY <1>1, <1>2 DEF Leave, TypeOK
<1>3. CASE p \notin Bounded
  BY <1>3, ReturnType DEF Leave
<1> QED
  BY <1>2, <1>3

LEMMA ClaimType ==
  ASSUME TypeOK, NEW p \in Requests, NEW id \in Nat, Claim(p, id)
  PROVE  /\ req' \in [Requests -> Local]
         /\ renewing' \in SUBSET Requests
         /\ claim' \in [Requests -> [entered : Nat, at : Nat \cup {-1}, lease : Nat]]
         /\ overrun' \in SUBSET Keys
<1>1. [req[p] EXCEPT !.pc = "execute", !.id = id] \in Local
  BY Fields, LocalUpdate
<1>2. [entered |-> req[p].start, at |-> now, lease |-> req[p].start + TTL]
        \in [entered : Nat, at : Nat \cup {-1}, lease : Nat]
  BY Fields, TimeAssumption DEF TypeOK
<1> QED
  BY <1>1, <1>2, Fields DEF Claim, TypeOK

LEMMA ResolveType ==
  ASSUME TypeOK, NEW p \in Requests, Resolve(p, RowOf(p))
  PROVE  /\ req' \in [Requests -> Local]
         /\ renewing' \in SUBSET Requests
         /\ reply' \in [Requests -> Replies]
<1>1. \A result \in Replies : Return(p, result) =>
        /\ req' \in [Requests -> Local]
        /\ renewing' \in SUBSET Requests
        /\ reply' \in [Requests -> Replies]
  BY ReturnType
<1>2. CASE AttemptReclaim(p, RowOf(p), "reclaimFailed")
  <2>1. [req[p] EXCEPT !.pc = "reclaimFailed", !.id = RowOf(p).id,
                       !.from = RowOf(p).status] \in Local
    BY Fields, LocalUpdate
  <2> QED
    BY <2>1, <1>2 DEF AttemptReclaim, TypeOK
<1> QED
  BY <1>1, <1>2 DEF Resolve, Replies

(* Every step keeps the variables in their types. *)
LEMMA TypeStep == TypeOK /\ [Next]_vars => TypeOK'
<1> SUFFICES ASSUME TypeOK, [Next]_vars PROVE TypeOK'
  OBVIOUS
<1>0. "none" \in Replies /\ "executed" \in Replies
  BY DEF Replies
<1>1. ASSUME NEW p \in Requests, Begin(p) PROVE TypeOK'
  <2>1. [req[p] EXCEPT !.pc = "create", !.start = now] \in Local
    BY Fields, LocalUpdate DEF TypeOK
  <2> QED
    BY <2>1, <1>1 DEF Begin, TypeOK
<1>2. ASSUME NEW p \in Requests, CreateProcessing(p) PROVE TypeOK'
  <2>1. InsertedRow(p) \in Row
    BY Fields, RequestAssumption, TimeAssumption DEF InsertedRow, Row, Statuses, TypeOK
  <2>2. [req[p] EXCEPT !.pc = "get"] \in Local
    BY Fields, LocalUpdate
  <2>3. CASE Claim(p, nextID) /\ WriteRow(p, InsertedRow(p)) /\ nextID' = nextID + 1
             /\ UNCHANGED retaken
    <3>1. nextID \in Nat /\ nextID' \in Nat \ {0}
      BY <2>3 DEF TypeOK
    <3>2. rows' \in [Keys -> Row]
      BY <2>1, <2>3, Fields DEF TypeOK, WriteRow
    <3> QED
      BY <3>1, <3>2, <2>3, ClaimType DEF Claim, TypeOK
  <2>4. CASE GoTo(p, "get") /\ UNCHANGED <<now, rows, nextID, claim, effect, overrun, retaken>>
    BY <2>2, <2>4 DEF TypeOK, GoTo
  <2> QED
    BY <1>2, <2>3, <2>4 DEF CreateProcessing
<1>3. ASSUME NEW p \in Requests, CreateFails(p) PROVE TypeOK'
  <2>1. InsertedRow(p) \in Row
    BY Fields, RequestAssumption, TimeAssumption DEF InsertedRow, Row, Statuses, TypeOK
  <2>2. rows' \in [Keys -> Row] /\ nextID' \in Nat \ {0}
    BY <2>1, <1>3, Fields DEF CreateFails, WriteRow, TypeOK
  <2> QED
    BY <2>2, <1>3, <1>0, ReturnType DEF CreateFails, TypeOK
<1>4. ASSUME NEW p \in Requests, GetExisting(p) PROVE TypeOK'
  <2>1. [req[p] EXCEPT !.pc = "reclaimExpired", !.id = RowOf(p).id,
                       !.from = RowOf(p).status] \in Local
    BY Fields, LocalUpdate
  <2>2. CASE AttemptReclaim(p, RowOf(p), "reclaimExpired")
    BY <2>1, <2>2, <1>4 DEF AttemptReclaim, GetExisting, TypeOK
  <2>3. CASE Refuse(p, RowOf(p))
    BY <2>3, <1>4, <1>0, ReturnType DEF Refuse, GetExisting, TypeOK
  <2>4. CASE Resolve(p, RowOf(p))
    BY <2>4, <1>4, ResolveType DEF GetExisting, TypeOK
  <2> QED
    BY <2>2, <2>3, <2>4, <1>4 DEF GetExisting
<1>5. ASSUME NEW p \in Requests, GetLatest(p) PROVE TypeOK'
  <2>1. CASE Refuse(p, RowOf(p))
    BY <2>1, <1>5, <1>0, ReturnType DEF Refuse, GetLatest, TypeOK
  <2>2. CASE Resolve(p, RowOf(p))
    BY <2>2, <1>5, ResolveType DEF GetLatest, TypeOK
  <2> QED
    BY <2>1, <2>2, <1>5 DEF GetLatest
<1>6. ASSUME NEW p \in Requests, GetFails(p) PROVE TypeOK'
  BY <1>6, <1>0, ReturnType DEF GetFails, TypeOK
<1>7. ASSUME NEW p \in Requests, TryReclaim(p) PROVE TypeOK'
  <2>1. ReclaimedRow(p) \in Row
    BY ReclaimedType
  <2>2. CASE Claim(p, req[p].id) /\ WriteRow(p, ReclaimedRow(p)) /\ UNCHANGED nextID
             /\ Retake(p)
    <3>1. rows' \in [Keys -> Row]
      BY <2>1, <2>2, Fields DEF TypeOK, WriteRow
    <3> QED
      BY <3>1, <2>2, Fields, ClaimType DEF Claim, Retake, TypeOK
  <2>3. CASE GoTo(p, "reget") /\ UNCHANGED <<now, rows, nextID, claim, effect, overrun, retaken>>
    <3>1. [req[p] EXCEPT !.pc = "reget"] \in Local
      BY Fields, LocalUpdate
    <3> QED
      BY <3>1, <2>3 DEF GoTo, TypeOK
  <2>4. CASE Return(p, "none") /\ UNCHANGED <<now, rows, nextID, claim, effect, overrun, retaken>>
    BY <2>4, <1>0, ReturnType DEF TypeOK
  <2> QED
    BY <2>2, <2>3, <2>4, <1>7 DEF TryReclaim
<1>8. ASSUME NEW p \in Requests, ReclaimFails(p) PROVE TypeOK'
  <2>1. ReclaimedRow(p) \in Row
    BY ReclaimedType
  <2>2. rows' \in [Keys -> Row]
    BY <2>1, <1>8, Fields DEF ReclaimFails, WriteRow, TypeOK
  <2> QED
    BY <2>2, <1>8, <1>0, Fields, ReturnType DEF ReclaimFails, Retake, TypeOK
<1>9. ASSUME NEW p \in Requests, Operate(p) PROVE TypeOK'
  <2>1. /\ [req[p] EXCEPT !.pc = "markSucceeded", !.finished = now] \in Local
        /\ [req[p] EXCEPT !.pc = "markFailed", !.finished = now] \in Local
    BY Fields, LocalUpdate DEF TypeOK
  <2>2. req' \in [Requests -> Local]
    <3>1. PICK ok \in BOOLEAN :
            req' = [req EXCEPT ![p].pc = IF ok THEN "markSucceeded" ELSE "markFailed",
                               ![p].finished = now]
      BY <1>9 DEF Operate
    <3>2. CASE ok
      BY <3>1, <3>2, <2>1 DEF TypeOK
    <3>3. CASE ~ok
      BY <3>1, <3>3, <2>1 DEF TypeOK
    <3> QED
      BY <3>2, <3>3
  <2>3. effect' \in SUBSET Requests
    BY <1>9 DEF Operate, TypeOK
  <2> QED
    BY <2>2, <2>3, <1>9 DEF Operate, TypeOK
<1>10. ASSUME NEW p \in Requests, MarkSucceeded(p) PROVE TypeOK'
  <2>1. FinalExpiry(p) \in Nat
    BY Fields, TimeAssumption DEF FinalExpiry
  <2>2. \A body \in {p, "unreadable"} :
          [RowOf(p) EXCEPT !.status = "succeeded", !.body = body,
                           !.lockedUntil = 0, !.expiresAt = FinalExpiry(p)] \in Row
    BY <2>1, Fields, RowUpdate DEF Statuses
  <2>3. rows' \in [Keys -> Row]
    BY <2>2, <1>10, Fields DEF MarkSucceeded, WriteRow, TypeOK
  <2>4. claim' \in [Requests -> [entered : Nat, at : Nat \cup {-1}, lease : Nat]]
    BY <2>1, <1>10 DEF MarkSucceeded, TypeOK
  <2> QED
    BY <2>3, <2>4, <1>10, <1>0, LeaveType DEF MarkSucceeded, TypeOK
<1>11. ASSUME NEW p \in Requests, MarkFailedRetryable(p) PROVE TypeOK'
  <2>1. FinalExpiry(p) \in Nat /\ req[p].finished + RetryBackoff \in Nat
    BY Fields, TimeAssumption DEF FinalExpiry
  <2>2. [RowOf(p) EXCEPT !.status = "failed_retryable",
                         !.lockedUntil = req[p].finished + RetryBackoff,
                         !.expiresAt = FinalExpiry(p)] \in Row
    BY <2>1, Fields, RowUpdate DEF Statuses
  <2>3. rows' \in [Keys -> Row]
    BY <2>2, <1>11, Fields DEF MarkFailedRetryable, WriteRow, TypeOK
  <2> QED
    BY <2>3, <1>11, <1>0, LeaveType DEF MarkFailedRetryable, TypeOK
<1>12. ASSUME NEW p \in Requests, MarkFails(p) PROVE TypeOK'
  BY <1>12, <1>0, LeaveType DEF MarkFails, TypeOK
<1>13. ASSUME NEW p \in Requests, Renew(p) PROVE TypeOK'
  <2>1. now + ProcessingTimeout \in Nat /\ now + TTL \in Nat
    BY TimeAssumption DEF TypeOK
  <2>2. [RowOf(p) EXCEPT !.lockedUntil = now + ProcessingTimeout,
                         !.expiresAt = now + TTL] \in Row
    BY <2>1, Fields, RowUpdate DEF Statuses
  <2>3. rows' \in [Keys -> Row]
    BY <2>2, <1>13, Fields DEF Renew, WriteRow, TypeOK
  <2>4. claim' \in [Requests -> [entered : Nat, at : Nat \cup {-1}, lease : Nat]]
    BY <2>1, <1>13 DEF Renew, TypeOK
  <2> QED
    BY <2>3, <2>4, <1>13 DEF Renew, TypeOK
<1>14. ASSUME NEW p \in Requests, RenewalDeadline(p) PROVE TypeOK'
  BY <1>14 DEF RenewalDeadline, TypeOK
<1>15. ASSUME NEW p \in Requests, StopRenewal(p) PROVE TypeOK'
  BY <1>15, ReturnType DEF StopRenewal, TypeOK
<1>16. ASSUME NEW p \in Requests, Crash(p) PROVE TypeOK'
  BY <1>16, <1>0, ReturnType DEF Crash, TypeOK
<1>17. CASE CleanupOnce
  <2>1. NoRow \in Row
    BY DEF NoRow, Row
  <2> QED
    BY <2>1, <1>17 DEF CleanupOnce, TypeOK
<1>18. CASE Tick
  BY <1>18, RequestAssumption DEF Tick, TypeOK
<1>19. CASE UNCHANGED vars
  BY <1>19 DEF vars, TypeOK
<1> QED
  BY <1>1, <1>2, <1>3, <1>4, <1>5, <1>6, <1>7, <1>8, <1>9, <1>10, <1>11,
     <1>12, <1>13, <1>14, <1>15, <1>16, <1>17, <1>18, <1>19 DEF Next, Request

(* The coordinator's variables keep their types: no row, local variable or *)
(* reply of Execute leaves the sets the code's types allow.                *)
THEOREM TypeCorrect == Spec => []TypeOK
<1>1. Init => TypeOK
  BY DEF Init, TypeOK, NoRow, At, Row, Local, Statuses, Replies
<1> QED
  BY <1>1, TypeStep, PTL DEF Spec

-----------------------------------------------------------------------------
(* One step of the coordinator keeps the inductive invariant. *)
LEMMA LocalStep == Inv /\ [Next]_vars => LocalInv'
<1> SUFFICES ASSUME Inv, [Next]_vars PROVE LocalInv'
  OBVIOUS
<1> USE DEF LocalInv
<1>0. TypeOK /\ LocalInv /\ now \in Nat
  BY DEF Inv, TypeOK
<1>1. ASSUME NEW p \in Requests, NEW x, Return(p, x), UNCHANGED now
      PROVE LocalInv'
  BY <1>0, <1>1 DEF Return, At, TypeOK
<1>2. ASSUME NEW p \in Requests, NEW x, Leave(p, x), UNCHANGED now
      PROVE LocalInv'
  BY <1>0, <1>1, <1>2 DEF Leave, TypeOK, Local
<1>3. ASSUME NEW p \in Requests, Matches(p, RowOf(p)), Resolve(p, RowOf(p)),
             UNCHANGED now
      PROVE LocalInv'
  <2>1. CASE AttemptReclaim(p, RowOf(p), "reclaimFailed")
             /\ RowOf(p).status = "failed_retryable"
    BY <1>0, <1>3, <2>1 DEF Matches, AttemptReclaim, TypeOK, Local
  <2> QED
    BY <1>1, <1>3, <2>1 DEF Resolve
<1>4. ASSUME NEW p \in Requests, Begin(p) PROVE LocalInv'
  BY <1>0, <1>4 DEF Begin, TypeOK, Local
<1>5. ASSUME NEW p \in Requests, CreateProcessing(p) PROVE LocalInv'
  <2>1. CASE Claim(p, nextID)
    BY <1>0, <2>1 DEF Claim, TypeOK, Local
  <2>2. CASE GoTo(p, "get") /\ UNCHANGED now
    BY <1>0, <2>2 DEF GoTo, TypeOK, Local
  <2> QED
    BY <1>5, <2>1, <2>2 DEF CreateProcessing
<1>6. ASSUME NEW p \in Requests, CreateFails(p) \/ GetFails(p) \/ ReclaimFails(p)
             \/ StopRenewal(p) \/ Crash(p)
      PROVE LocalInv'
  BY <1>1, <1>6 DEF CreateFails, GetFails, ReclaimFails, StopRenewal, Crash
<1>7. ASSUME NEW p \in Requests, GetExisting(p) PROVE LocalInv'
  <2>1. CASE Matches(p, RowOf(p)) /\ AttemptReclaim(p, RowOf(p), "reclaimExpired")
             /\ UNCHANGED now
    BY <1>0, <2>1 DEF Matches, AttemptReclaim, TypeOK, Local
  <2> QED
    BY <1>1, <1>3, <1>7, <2>1 DEF GetExisting, Refuse
<1>8. ASSUME NEW p \in Requests, GetLatest(p) PROVE LocalInv'
  BY <1>1, <1>3, <1>8 DEF GetLatest, Refuse
<1>9. ASSUME NEW p \in Requests, TryReclaim(p) PROVE LocalInv'
  <2>1. CASE Claim(p, req[p].id)
    BY <1>0, <2>1 DEF Claim, TypeOK, Local
  <2>2. CASE GoTo(p, "reget") /\ UNCHANGED now
    BY <1>0, <2>2 DEF GoTo, TypeOK, Local
  <2> QED
    BY <1>1, <1>9, <2>1, <2>2 DEF TryReclaim
<1>10. ASSUME NEW p \in Requests, Operate(p) PROVE LocalInv'
  BY <1>0, <1>10 DEF Operate, TypeOK, Local
<1>11. ASSUME NEW p \in Requests,
              MarkSucceeded(p) \/ MarkFailedRetryable(p) \/ MarkFails(p)
       PROVE LocalInv'
  BY <1>2, <1>11 DEF MarkSucceeded, MarkFailedRetryable, MarkFails
<1>12. ASSUME NEW p \in Requests, Renew(p) \/ RenewalDeadline(p) PROVE LocalInv'
  BY <1>0, <1>12 DEF Renew, RenewalDeadline
<1>13. CASE CleanupOnce \/ UNCHANGED vars
  BY <1>0, <1>13 DEF CleanupOnce, vars
<1>14. CASE Tick
  <2>1. \A p \in Requests : req[p].start \in Nat
    BY <1>0, Fields
  <2> QED
    BY <1>0, <1>14, <2>1 DEF Tick
<1> QED
  BY <1>4, <1>5, <1>6, <1>7, <1>8, <1>9, <1>10, <1>11, <1>12, <1>13, <1>14
     DEF Next, Request

(* A step that hands no row to q and no stale read either. *)
Still(q) ==
    /\ Executing(q)' => Executing(q) /\ req'[q].id = req[q].id
    /\ req'[q].pc = "reclaimExpired" =>
         req[q].pc = "reclaimExpired" /\ req'[q].start = req[q].start

LEMMA StillReturn ==
  ASSUME TypeOK, NEW r \in Requests, NEW x, Return(r, x) \/ Leave(r, x)
  PROVE  /\ \A q \in Requests : Still(q)
         /\ ~Executing(r)'
<1>1. CASE req' = [req EXCEPT ![r] = At("done")]
  BY <1>1 DEF At, Still, Executing, TypeOK
<1>2. CASE req' = [req EXCEPT ![r].pc = "stopping"]
  BY <1>2 DEF Still, Executing, TypeOK, Local
<1> QED
  BY <1>1, <1>2 DEF Return, Leave

LEMMA StillGoTo ==
  ASSUME TypeOK, NEW r \in Requests, NEW l \in {"get", "reget"}, GoTo(r, l)
  PROVE  \A q \in Requests : Still(q)
  BY DEF GoTo, Still, Executing, TypeOK, Local

LEMMA StillResolve ==
  ASSUME TypeOK, NEW r \in Requests, Resolve(r, RowOf(r))
  PROVE  \A q \in Requests : Still(q)
<1>1. CASE AttemptReclaim(r, RowOf(r), "reclaimFailed")
  BY <1>1 DEF AttemptReclaim, Still, Executing, TypeOK, Local
<1>2. ASSUME NEW x, Return(r, x) PROVE \A q \in Requests : Still(q)
  BY <1>2, StillReturn
<1> QED
  BY <1>1, <1>2 DEF Resolve

(* A step of another actor that touches neither p's row nor its clock. *)
LEMMA Keep ==
  ASSUME Inv, NEW p \in Requests, Executing(p)', KeyOf[p] \notin overrun,
         UNCHANGED now, claim'[p] = claim[p], rows'[KeyOf[p]] = rows[KeyOf[p]],
         \A q \in Requests : KeyOf[q] = KeyOf[p] => Still(q)
  PROVE  Owns(p)'
<1>1. Executing(p) /\ req'[p].id = req[p].id
  BY DEF Still
<1>2. Owns(p)
  BY <1>1 DEF Inv, OwnerInv
<1>3. RowOf(p)' = RowOf(p)
  BY DEF RowOf
<1>4. ASSUME NEW q \in Requests \ {p}, KeyOf[q] = KeyOf[p]
      PROVE  /\ ~Executing(q)'
             /\ req'[q].pc = "reclaimExpired" => req'[q].start < RowOf(p)'.lockedUntil
  BY <1>2, <1>3, <1>4 DEF Owns, Still
<1> QED
  BY <1>1, <1>2, <1>3, <1>4 DEF Owns

(* A successful claim makes the request the row's only owner. *)
LEMMA ClaimOwns ==
  ASSUME Inv, NEW p \in Requests, NEW id \in Nat \ {0}, Claim(p, id),
         KeyOf[p] \notin overrun', RowOf(p)'.id = id,
         RowOf(p)'.status = "processing",
         RowOf(p)'.lockedUntil = req[p].start + ProcessingTimeout,
         RowOf(p)'.expiresAt = req[p].start + TTL,
         \A q \in Requests \ {p} : KeyOf[q] = KeyOf[p] => ~Executing(q)
  PROVE  Owns(p)'
<1> USE TimeAssumption
<1>1. TypeOK /\ LocalInv /\ now \in Nat
  BY DEF Inv, TypeOK
<1>2. req[p].start \in Nat /\ req[p].start <= now
  BY <1>1, Fields DEF LocalInv
<1>3. now < req[p].start + ProcessingTimeout /\ now' = now
  BY <1>1, <1>2 DEF Claim
<1>4. req'[p].id = id /\ claim'[p].lease = req[p].start + TTL
  BY <1>1 DEF Claim, TypeOK, Local
<1>5. ASSUME NEW q \in Requests \ {p}, KeyOf[q] = KeyOf[p]
      PROVE  /\ ~Executing(q)'
             /\ req'[q].start < RowOf(p)'.lockedUntil
  <2>1. req'[q] = req[q]
    BY <1>1 DEF Claim, TypeOK
  <2>2. req[q].start \in Nat /\ req[q].start <= now
    BY <1>1, Fields DEF LocalInv
  <2>3. ~Executing(q)
    BY <1>5
  <2>4. ~Executing(q)'
    BY <2>1, <2>3 DEF Executing
  <2>5. req[q].start < req[p].start + ProcessingTimeout
    BY <1>1, <1>2, <1>3, <2>2
  <2> QED
    BY <2>1, <2>4, <2>5
<1>6. /\ now' < claim'[p].lease
      /\ claim'[p].lease <= RowOf(p)'.expiresAt
      /\ claim'[p].lease <= now' + TTL
  BY <1>1, <1>2, <1>3, <1>4
<1> QED
  BY <1>4, <1>5, <1>6 DEF Owns

(* Requests with another key than r's do not notice what r does. *)
LEMMA OtherKey ==
  ASSUME Inv, NEW p \in Requests, NEW r \in Requests, KeyOf[p] # KeyOf[r],
         Executing(p)', KeyOf[p] \notin overrun, UNCHANGED now,
         claim'[p] = claim[p], rows'[KeyOf[p]] = rows[KeyOf[p]],
         \A q \in Requests \ {r} : req'[q] = req[q]
  PROVE  Owns(p)'
<1>1. \A q \in Requests : KeyOf[q] = KeyOf[p] => Still(q)
  BY DEF Still, Executing
<1> QED
  BY <1>1, Keep

LEMMA OwnerStep == Inv /\ [Next]_vars => OwnerInv'
<1> SUFFICES ASSUME Inv, [Next]_vars, NEW p \in Requests, Executing(p)',
                    KeyOf[p] \notin overrun'
             PROVE  Owns(p)'
  BY DEF OwnerInv
<1> USE TimeAssumption
<1>a. TypeOK /\ LocalInv /\ OwnerInv /\ now \in Nat
  BY DEF Inv, TypeOK
<1>b. KeyOf[p] \notin overrun
  BY DEF Next, Request, vars, Begin, CreateProcessing, CreateFails, GetExisting,
         GetLatest, GetFails, TryReclaim, ReclaimFails, Operate, MarkSucceeded,
         MarkFailedRetryable, MarkFails, Renew, RenewalDeadline, StopRenewal,
         Crash, CleanupOnce, Tick, Claim
\* An executing request with p's key keeps every other request out.
<1>c. ASSUME NEW r \in Requests, KeyOf[r] = KeyOf[p], Executing(r)
      PROVE  Owns(r) /\ RowOf(r) = RowOf(p)
  BY <1>a, <1>b, <1>c DEF OwnerInv, RowOf
<1>d. ASSUME UNCHANGED <<now, rows, claim>>, \A q \in Requests : Still(q)
      PROVE  Owns(p)'
  BY <1>b, <1>d, Keep
\* Steps that write a row of r's key.
<1>e. ASSUME NEW r \in Requests, NEW row, WriteRow(r, row), KeyOf[p] # KeyOf[r]
      PROVE  rows'[KeyOf[p]] = rows[KeyOf[p]]
  BY <1>a, <1>e, Fields DEF WriteRow, TypeOK
<1>f. ASSUME NEW r \in Requests, NEW row, WriteRow(r, row), KeyOf[p] = KeyOf[r]
      PROVE  RowOf(p)' = row /\ RowOf(r)' = row
  BY <1>a, <1>f, Fields DEF WriteRow, TypeOK, RowOf
<1>1. ASSUME NEW r \in Requests, Begin(r) PROVE Owns(p)'
  <2>1. \A q \in Requests : Still(q)
    BY <1>a, <1>1 DEF Begin, Still, Executing, TypeOK, Local
  <2> QED
    BY <1>1, <1>d, <2>1 DEF Begin
<1>2. ASSUME NEW r \in Requests, CreateProcessing(r) PROVE Owns(p)'
  <2>1. CASE GoTo(r, "get") /\ UNCHANGED <<now, rows, nextID, claim, effect, overrun, retaken>>
    BY <1>a, <1>d, <2>1, StillGoTo
  <2>2. CASE /\ RowOf(r).id = 0
             /\ WriteRow(r, InsertedRow(r))
             /\ Claim(r, nextID)
    <3>1. \A q \in Requests : KeyOf[q] = KeyOf[r] /\ KeyOf[p] = KeyOf[r] => ~Executing(q)
      BY <1>c, <2>2 DEF Owns, RowOf
    <3>2. CASE KeyOf[p] # KeyOf[r]
      BY <1>a, <1>b, <1>e, <2>2, <3>2, OtherKey DEF Claim, TypeOK
    <3>3. CASE KeyOf[p] = KeyOf[r] /\ p # r
      BY <1>a, <2>2, <3>1, <3>3 DEF Claim, TypeOK, Executing
    <3>4. CASE p = r
      <4>1. RowOf(p)' = InsertedRow(p)
        BY <1>f, <2>2, <3>4
      <4>2. nextID \in Nat \ {0}
        BY <1>a DEF TypeOK
      <4>3. \A q \in Requests \ {p} : KeyOf[q] = KeyOf[p] => ~Executing(q)
        BY <3>1, <3>4
      <4> QED
        BY <2>2, <3>4, <4>1, <4>2, <4>3, ClaimOwns DEF InsertedRow
    <3> QED
      BY <3>2, <3>3, <3>4
  <2> QED
    BY <1>2, <2>1, <2>2 DEF CreateProcessing
<1>3. ASSUME NEW r \in Requests, CreateFails(r) PROVE Owns(p)'
  <2>1. \A q \in Requests : Still(q)
    BY <1>a, <1>3, StillReturn DEF CreateFails
  <2>2. CASE UNCHANGED rows
    BY <1>3, <1>d, <2>1, <2>2 DEF CreateFails
  <2>3. CASE RowOf(r).id = 0 /\ WriteRow(r, InsertedRow(r))
    <3>1. Executing(p)
      BY <2>1 DEF Still
    <3>2. KeyOf[p] # KeyOf[r]
      BY <1>c, <2>3, <3>1 DEF Owns, RowOf
    <3>3. rows'[KeyOf[p]] = rows[KeyOf[p]]
      BY <1>e, <2>3, <3>2
    <3> QED
      BY <1>3, <1>b, <2>1, <3>3, Keep DEF CreateFails
  <2> QED
    BY <1>3, <2>2, <2>3 DEF CreateFails
<1>4. ASSUME NEW r \in Requests, GetExisting(r) PROVE Owns(p)'
  <2>1. CASE Refuse(r, RowOf(r))
    BY <1>4, <1>a, <1>d, <2>1, StillReturn DEF Refuse, GetExisting
  <2>2. CASE Resolve(r, RowOf(r))
    BY <1>4, <1>a, <1>d, <2>2, StillResolve DEF GetExisting
  <2>3. CASE /\ RowOf(r).expiresAt <= req[r].start
             /\ AttemptReclaim(r, RowOf(r), "reclaimExpired")
    <3>1. p # r
      BY <1>a, <2>3 DEF AttemptReclaim, Executing, TypeOK, Local
    <3>2. Executing(p) /\ \A q \in Requests \ {r} : req'[q] = req[q]
      BY <1>a, <2>3, <3>1 DEF AttemptReclaim, Executing, TypeOK
    <3>3. KeyOf[p] # KeyOf[r]
      <4> SUFFICES ASSUME KeyOf[p] = KeyOf[r] PROVE FALSE
        OBVIOUS
      <4>1. Owns(p) /\ RowOf(p) = RowOf(r)
        BY <1>c, <3>2 DEF RowOf
      <4>2. req[r].start <= now /\ req[r].start \in Nat
        BY <1>a, Fields DEF LocalInv
      <4>3. RowOf(p).expiresAt \in Nat /\ claim[p].lease \in Nat
        BY <1>a, Fields
      <4> QED
        BY <1>a, <2>3, <4>1, <4>2, <4>3 DEF Owns
    <3> QED
      BY <1>4, <1>b, <3>2, <3>3, OtherKey DEF GetExisting
  <2> QED
    BY <1>4, <2>1, <2>2, <2>3 DEF GetExisting
<1>5. ASSUME NEW r \in Requests, GetLatest(r) PROVE Owns(p)'
  <2>1. CASE Refuse(r, RowOf(r))
    BY <1>5, <1>a, <1>d, <2>1, StillReturn DEF Refuse, GetLatest
  <2>2. CASE Resolve(r, RowOf(r))
    BY <1>5, <1>a, <1>d, <2>2, StillResolve DEF GetLatest
  <2> QED
    BY <1>5, <2>1, <2>2 DEF GetLatest
<1>6. ASSUME NEW r \in Requests, GetFails(r) \/ MarkFails(r) \/ StopRenewal(r) \/ Crash(r)
      PROVE Owns(p)'
  BY <1>6, <1>a, <1>d, StillReturn DEF GetFails, MarkFails, StopRenewal, Crash
\* A row that is being executed cannot be reclaimed.
<1>g. ASSUME NEW r \in Requests, NEW q \in Requests \ {r}, Executing(q),
             KeyOf[q] = KeyOf[r], KeyOf[r] = KeyOf[p],
             req[r].pc \in {"reclaimExpired", "reclaimFailed"}, Reclaimable(r)
      PROVE  FALSE
  <2>1. Owns(q) /\ RowOf(q) = RowOf(r)
    BY <1>c, <1>g DEF RowOf
  <2>2. req[r].pc = "reclaimExpired"
    BY <1>a, <1>g, <2>1 DEF Owns, LocalInv, Reclaimable
  <2>3. req[r].start \in Nat /\ RowOf(r).lockedUntil \in Nat
    BY <1>a, Fields
  <2> QED
    BY <1>g, <2>1, <2>2, <2>3 DEF Owns, Reclaimable
<1>7. ASSUME NEW r \in Requests, TryReclaim(r) PROVE Owns(p)'
  <2>1. CASE UNCHANGED <<now, rows, nextID, claim, effect, overrun, retaken>>
             /\ (GoTo(r, "reget") \/ Return(r, "none"))
    BY <1>a, <1>d, <2>1, StillGoTo, StillReturn
  <2>2. CASE /\ Reclaimable(r)
             /\ WriteRow(r, ReclaimedRow(r))
             /\ Claim(r, req[r].id)
    <3>1. CASE KeyOf[p] # KeyOf[r]
      BY <1>a, <1>b, <1>e, <2>2, <3>1, OtherKey DEF Claim, TypeOK
    <3>2. CASE KeyOf[p] = KeyOf[r] /\ p # r
      <4>1. Executing(p)
        BY <1>a, <2>2, <3>2 DEF Claim, TypeOK, Executing
      <4> QED
        BY <1>7, <1>g, <2>2, <3>2, <4>1 DEF TryReclaim
    <3>3. CASE p = r
      <4>1. RowOf(p)' = ReclaimedRow(p)
        BY <1>f, <2>2, <3>3
      <4>2. RowOf(p) \in Row /\ req[p].id \in Nat /\ RowOf(p).id = req[p].id
        BY <1>a, <2>2, <3>3, Fields DEF Reclaimable
      <4>3. /\ ReclaimedRow(p).id = req[p].id
            /\ ReclaimedRow(p).status = "processing"
            /\ ReclaimedRow(p).lockedUntil = req[p].start + ProcessingTimeout
            /\ ReclaimedRow(p).expiresAt = req[p].start + TTL
        BY <4>2 DEF ReclaimedRow, Row
      <4>4. \A q \in Requests \ {p} : KeyOf[q] = KeyOf[p] => ~Executing(q)
        BY <1>7, <1>g, <2>2, <3>3 DEF TryReclaim
      <4>5. req[p].id # 0
        BY <1>a, <1>7, <3>3 DEF TryReclaim, LocalInv
      <4> QED
        BY <2>2, <3>3, <4>1, <4>2, <4>3, <4>4, <4>5, ClaimOwns
    <3> QED
      BY <3>1, <3>2, <3>3
  <2> QED
    BY <1>7, <2>1, <2>2 DEF TryReclaim
<1>8. ASSUME NEW r \in Requests, ReclaimFails(r) PROVE Owns(p)'
  <2>1. ~Executing(r)' /\ \A q \in Requests : Still(q)
    BY <1>a, <1>8, StillReturn DEF ReclaimFails
  <2>2. CASE UNCHANGED rows
    BY <1>8, <1>d, <2>1, <2>2 DEF ReclaimFails
  <2>3. CASE Reclaimable(r) /\ WriteRow(r, ReclaimedRow(r))
    <3>1. Executing(p) /\ p # r
      BY <2>1 DEF Still
    <3>2. KeyOf[p] # KeyOf[r]
      BY <1>8, <1>g, <2>3, <3>1 DEF ReclaimFails
    <3>3. rows'[KeyOf[p]] = rows[KeyOf[p]]
      BY <1>e, <2>3, <3>2
    <3> QED
      BY <1>8, <1>b, <2>1, <3>3, Keep DEF ReclaimFails
  <2> QED
    BY <1>8, <2>2, <2>3 DEF ReclaimFails
<1>9. ASSUME NEW r \in Requests, Operate(r) PROVE Owns(p)'
  <2>1. \A q \in Requests : Still(q)
    BY <1>a, <1>9 DEF Operate, Still, Executing, TypeOK, Local
  <2> QED
    BY <1>9, <1>d, <2>1 DEF Operate
<1>10. ASSUME NEW r \in Requests, MarkSucceeded(r) \/ MarkFailedRetryable(r)
       PROVE  Owns(p)'
  <2>1. ~Executing(r)' /\ \A q \in Requests : Still(q)
    BY <1>a, <1>10, StillReturn DEF MarkSucceeded, MarkFailedRetryable
  <2>2. Executing(p) /\ p # r /\ Executing(r)
    BY <1>10, <2>1 DEF Still, Executing, MarkSucceeded, MarkFailedRetryable
  <2>3. KeyOf[p] # KeyOf[r]
    BY <1>c, <2>2 DEF Owns
  <2>4. rows'[KeyOf[p]] = rows[KeyOf[p]]
    BY <1>10, <1>e, <2>3 DEF MarkSucceeded, MarkFailedRetryable
  <2>5. claim'[p] = claim[p]
    BY <1>10, <1>a, <2>2 DEF MarkSucceeded, MarkFailedRetryable, TypeOK
  <2> QED
    BY <1>10, <1>b, <2>1, <2>4, <2>5, Keep DEF MarkSucceeded, MarkFailedRetryable
<1>11. ASSUME NEW r \in Requests, Renew(r) PROVE Owns(p)'
  <2>1. \A q \in Requests : Still(q)
    BY <1>11 DEF Renew, Still, Executing
  <2>2. CASE UNCHANGED <<rows, claim>>
    BY <1>11, <1>d, <2>1, <2>2 DEF Renew
  <2>3. CASE /\ WriteRow(r, [RowOf(r) EXCEPT !.lockedUntil = now + ProcessingTimeout,
                                             !.expiresAt = now + TTL])
             /\ claim' = [claim EXCEPT ![r].lease = IF Executing(r) THEN now + TTL ELSE @]
    <3>0. Executing(p) /\ req' = req /\ now' = now
      BY <1>11, <2>1 DEF Renew, Still
    <3>1. CASE KeyOf[p] # KeyOf[r]
      BY <1>a, <1>b, <1>e, <2>1, <2>3, <3>0, <3>1, Keep DEF TypeOK
    <3>2. CASE KeyOf[p] = KeyOf[r]
      <4>1. Owns(p) /\ RowOf(p) = RowOf(r) /\ RowOf(p) \in Row
        BY <1>a, <1>c, <3>0, <3>2, Fields DEF RowOf
      <4>2. RowOf(p)' = [RowOf(p) EXCEPT !.lockedUntil = now + ProcessingTimeout,
                                         !.expiresAt = now + TTL]
        BY <1>f, <2>3, <3>2, <4>1
      <4>3. /\ RowOf(p)'.id = RowOf(p).id /\ RowOf(p)'.status = RowOf(p).status
            /\ RowOf(p)'.lockedUntil = now + ProcessingTimeout
            /\ RowOf(p)'.expiresAt = now + TTL
        BY <4>1, <4>2 DEF Row
      <4>4. claim'[p].lease = claim[p].lease \/ claim'[p].lease = now + TTL
        BY <1>a, <2>3 DEF TypeOK
      <4>5. claim[p].lease \in Nat
        BY <1>a, Fields
      <4>6. /\ now < claim'[p].lease
            /\ claim'[p].lease <= now + TTL
        BY <1>a, <4>1, <4>4, <4>5 DEF Owns
      <4>7. ASSUME NEW q \in Requests \ {p}, KeyOf[q] = KeyOf[p]
            PROVE  ~Executing(q)' /\ req[q].start < now + ProcessingTimeout
        <5>1. ~Executing(q)
          BY <4>1, <4>7 DEF Owns
        <5>2. req[q].start \in Nat /\ req[q].start <= now
          BY <1>a, Fields DEF LocalInv
        <5> QED
          BY <1>a, <3>0, <5>1, <5>2 DEF Executing
      <4> QED
        BY <3>0, <4>1, <4>3, <4>6, <4>7 DEF Owns
    <3> QED
      BY <3>1, <3>2
  <2> QED
    BY <1>11, <2>2, <2>3 DEF Renew
<1>12. ASSUME NEW r \in Requests, RenewalDeadline(r) PROVE Owns(p)'
  BY <1>12, <1>d DEF RenewalDeadline, Still, Executing
<1>13. CASE CleanupOnce
  <2>1. \A q \in Requests : Still(q)
    BY <1>13 DEF CleanupOnce, Still, Executing
  <2>2. Owns(p)
    BY <1>c, <2>1 DEF Still
  <2>3. KeyOf[p] \in Keys /\ RowOf(p).expiresAt \in Nat /\ claim[p].lease \in Nat
    BY <1>a, Fields
  <2>4. KeyOf[p] \notin Expired
    BY <1>a, <2>2, <2>3 DEF Expired, Owns, RowOf
  <2>5. rows'[KeyOf[p]] = rows[KeyOf[p]]
    BY <1>13, <2>3, <2>4 DEF CleanupOnce
  <2> QED
    BY <1>13, <1>b, <2>1, <2>5, Keep DEF CleanupOnce
<1>14. CASE Tick
  <2>1. req' = req /\ claim' = claim /\ RowOf(p)' = RowOf(p) /\ now' = now + 1
    BY <1>14 DEF Tick, RowOf
  <2>2. Executing(p) /\ Owns(p)
    BY <1>c, <2>1 DEF Executing
  <2>3. ~(claim[p].lease <= now + 1)
    BY <1>14, <2>2 DEF Tick
  <2>4. claim[p].lease \in Nat
    BY <1>a, Fields
  <2>5. \A q \in Requests : Executing(q)' => Executing(q)
    BY <2>1 DEF Executing
  <2>6. now' < claim'[p].lease /\ claim'[p].lease <= now' + TTL
    BY <1>a, <2>1, <2>2, <2>3, <2>4 DEF Owns
  <2> QED
    BY <2>1, <2>2, <2>5, <2>6 DEF Owns
<1>15. CASE UNCHANGED vars
  BY <1>15, <1>d DEF vars, Still, Executing
<1> QED
  BY <1>1, <1>2, <1>3, <1>4, <1>5, <1>6, <1>7, <1>8, <1>9, <1>10, <1>11, <1>12,
     <1>13, <1>14, <1>15 DEF Next, Request

(* CreateProcessing, TryReclaim, the marks, the renewal and the cleanup    *)
(* never let two requests run the operation of one key together, as long   *)
(* as no operation on that key outlives the lease it wrote.                *)
THEOREM ExecutionIsExclusive == Spec => []ExclusiveExecution
<1>1. Init => Inv
  <2>1. Init => TypeOK
    BY DEF Init, TypeOK, NoRow, At, Row, Local, Statuses, Replies
  <2>2. Init => LocalInv /\ OwnerInv
    BY DEF Init, LocalInv, OwnerInv, Executing, At
  <2> QED
    BY <2>1, <2>2 DEF Inv
<1>2. Inv /\ [Next]_vars => Inv'
  BY TypeStep, LocalStep, OwnerStep DEF Inv
<1>3. Inv => ExclusiveExecution
  BY DEF Inv, OwnerInv, Owns, ExclusiveExecution
<1> QED
  BY <1>1, <1>2, <1>3, PTL DEF Spec

-----------------------------------------------------------------------------
(***************************************************************************)
(* Retries.  While the time to live of an effect runs, its row stands in   *)
(* the way of every later claim; only a reclaim that was prepared from an  *)
(* outdated read gets past it, and that marks the key as retaken.          *)
(***************************************************************************)
Clean(p) == KeyOf[p] \notin overrun \cup retaken

Rival(p, q) == p # q /\ KeyOf[p] = KeyOf[q]

\* Nothing is written ahead of the clock, and no lease by more than a TTL.
ClockInv ==
    \A p \in Requests :
        /\ claim[p].at <= now
        /\ claim[p].at # -1 => claim[p].entered <= claim[p].at
        /\ claim[p].lease <= now + TTL
        /\ req[p].finished <= now

\* A request takes effect once, between its claim and its mark.
PhaseInv ==
    \A p \in Requests :
        /\ req[p].pc = "markSucceeded" => p \in effect
        /\ p \in effect => req[p].pc \in {"markSucceeded", "stopping", "done"}

\* The row of an effect that still counts.
Guards(p) ==
    /\ RowOf(p).id # 0
    /\ RowOf(p).status \in {"processing", "succeeded"}
    /\ claim[p].lease <= RowOf(p).expiresAt
    /\ \A q \in Requests : Rival(p, q) => ~Executing(q)

GuardInv ==
    \A p \in effect :
        Clean(p) /\ ~Executing(p) /\ now < claim[p].lease => Guards(p)

\* An executing request is the last one that claimed its key, and it claimed
\* it when every earlier effect had run out.
OrderInv ==
    \A p, q \in Requests :
        Rival(p, q) /\ Executing(p) /\ Clean(p) =>
            /\ claim[q].at <= claim[p].at
            /\ q \in effect => claim[q].lease <= claim[p].at

RetryInv ==
    /\ Inv
    /\ ClockInv
    /\ PhaseInv
    /\ GuardInv
    /\ OrderInv
    /\ RetrySuppressed
    /\ OnlyRetakenRepeats

\* Request p obtains its row in this step.
Claims(p) == (CreateProcessing(p) \/ TryReclaim(p)) /\ Executing(p)'

(* The fields of a claim. *)
LEMMA ClaimFields ==
  ASSUME TypeOK, NEW p \in Requests
  PROVE  /\ claim[p] \in [entered : Nat, at : Nat \cup {-1}, lease : Nat]
         /\ claim[p].entered \in Nat /\ claim[p].at \in Int /\ claim[p].lease \in Nat
  BY DEF TypeOK

\* A step of r that brings neither r nor another request closer to an effect.
NoAdvance(r, q) ==
    /\ Executing(q)' => q # r
    /\ q # r => req'[q] = req[q]
    /\ req'[q].finished \in {0, req[q].finished}
    /\ req[q].pc \in {"markSucceeded", "stopping", "done"} =>
         req'[q].pc \in {"markSucceeded", "stopping", "done"}

(* A step in which no request claims a row or finishes its operation. *)
LEMMA Passive ==
  ASSUME TypeOK, NEW r \in Requests,
         \/ Begin(r) \/ CreateFails(r) \/ GetExisting(r) \/ GetLatest(r)
         \/ GetFails(r) \/ ReclaimFails(r) \/ MarkSucceeded(r)
         \/ MarkFailedRetryable(r) \/ MarkFails(r) \/ StopRenewal(r) \/ Crash(r)
         \/ ((CreateProcessing(r) \/ TryReclaim(r)) /\ ~Claims(r)),
         NEW q \in Requests
  PROVE  NoAdvance(r, q)
<1> USE DEF NoAdvance
<1>0. req[r] \in Local
  BY Fields
<1>1. ASSUME NEW x, Return(r, x) \/ Leave(r, x)
      PROVE  NoAdvance(r, q)
  <2>1. CASE req' = [req EXCEPT ![r] = At("done")]
    BY <2>1 DEF At, Executing, TypeOK
  <2>2. CASE req' = [req EXCEPT ![r].pc = "stopping"]
    BY <1>0, <2>2 DEF Executing, TypeOK, Local
  <2> QED
    BY <1>1, <2>1, <2>2 DEF Return, Leave
<1>2. ASSUME NEW l \in {"get", "reget"}, GoTo(r, l), req[r].pc \in {"create", "reclaimExpired"}
      PROVE  NoAdvance(r, q)
  BY <1>0, <1>2 DEF GoTo, Executing, TypeOK, Local
<1>3. ASSUME NEW l \in {"reclaimExpired", "reclaimFailed"}, AttemptReclaim(r, RowOf(r), l),
             req[r].pc \in {"get", "reget"}
      PROVE  NoAdvance(r, q)
  BY <1>0, <1>3 DEF AttemptReclaim, Executing, TypeOK, Local
<1>4. CASE Begin(r)
  BY <1>0, <1>4 DEF Begin, Executing, TypeOK, Local
<1>5. CASE CreateFails(r) \/ GetFails(r) \/ ReclaimFails(r) \/ StopRenewal(r) \/ Crash(r)
  BY <1>1, <1>5 DEF CreateFails, GetFails, ReclaimFails, StopRenewal, Crash
<1>6. CASE MarkSucceeded(r) \/ MarkFailedRetryable(r) \/ MarkFails(r)
  BY <1>1, <1>6 DEF MarkSucceeded, MarkFailedRetryable, MarkFails
<1>7. CASE GetExisting(r)
  BY <1>1, <1>3, <1>7 DEF GetExisting, Refuse, Resolve
<1>8. CASE GetLatest(r)
  BY <1>1, <1>3, <1>8 DEF GetLatest, Refuse, Resolve
<1>9. CASE (CreateProcessing(r) \/ TryReclaim(r)) /\ ~Claims(r)
  <2>1. ASSUME NEW id, Claim(r, id) PROVE FALSE
    BY <1>0, <1>9, <2>1 DEF Claims, Claim, Executing, TypeOK, Local
  <2> QED
    BY <1>1, <1>2, <1>9, <2>1 DEF CreateProcessing, TryReclaim
<1> QED
  BY <1>4, <1>5, <1>6, <1>7, <1>8, <1>9

(* What any step may do to the history of a request. *)
Frame(p) ==
    /\ Executing(p)' => Executing(p) \/ Claims(p)
    /\ p \in effect' => p \in effect \/ (Executing(p) /\ Executing(p)')
    /\ Claims(p) => /\ req[p].pc \in {"create", "reclaimExpired", "reclaimFailed"}
                    /\ claim'[p] = [entered |-> req[p].start, at |-> now,
                                    lease |-> req[p].start + TTL]
                    /\ \A q \in Requests \ {p} : req'[q] = req[q] /\ claim'[q] = claim[q]
                    /\ UNCHANGED <<now, effect>>
    /\ ~Claims(p) => /\ claim'[p].at = claim[p].at
                     /\ claim'[p].entered = claim[p].entered
                     /\ claim'[p] = claim[p] \/ Executing(p)

LEMMA FrameStep ==
  ASSUME TypeOK, [Next]_vars, NEW p \in Requests
  PROVE  /\ Frame(p)
         /\ Clean(p)' => Clean(p)
         /\ now' \in {now, now + 1}
<1>0. req[p] \in Local /\ claim[p] \in [entered : Nat, at : Nat \cup {-1}, lease : Nat]
  BY Fields, ClaimFields
\* A claim by r.
<1>1. ASSUME NEW r \in Requests, NEW id, Claim(r, id), CreateProcessing(r) \/ TryReclaim(r),
             p = r => Claims(p)
      PROVE  Frame(p)
  <2>1. req[r].pc \in {"create", "reclaimExpired", "reclaimFailed"}
    BY <1>1 DEF CreateProcessing, TryReclaim
  <2>2. CASE p = r
    BY <1>0, <1>1, <2>1, <2>2 DEF Frame, Claim, TypeOK
  <2>3. CASE p # r
    <3>1. req'[p] = req[p] /\ claim'[p] = claim[p] /\ UNCHANGED effect
      BY <1>1, <2>3 DEF Claim, TypeOK
    <3>2. ~Claims(p)
      <4>1. ASSUME Claims(p) PROVE FALSE
        <5>1. req[p].pc \in {"create", "reclaimExpired", "reclaimFailed"} /\ Executing(p)'
          BY <4>1 DEF Claims, CreateProcessing, TryReclaim
        <5> QED
          BY <3>1, <5>1 DEF Executing
      <4> QED
        BY <4>1
    <3> QED
      BY <3>1, <3>2 DEF Frame, Executing
  <2> QED
    BY <2>2, <2>3
\* A step of r that is no claim.
<1>2. ASSUME NEW r \in Requests, NoAdvance(r, p), UNCHANGED effect,
             claim' = claim \/ (Executing(r) /\ \E n : claim' = [claim EXCEPT ![r].lease = n])
      PROVE  Frame(p)
  <2>1. Executing(p)' => Executing(p)
    BY <1>2 DEF NoAdvance, Executing
  <2>2. ~Claims(p)
    <3>1. ASSUME Claims(p) PROVE FALSE
      <4>1. req[p].pc \in {"create", "reclaimExpired", "reclaimFailed"} /\ Executing(p)'
        BY <3>1 DEF Claims, CreateProcessing, TryReclaim
      <4> QED
        BY <2>1, <4>1 DEF Executing
    <3> QED
      BY <3>1
  <2>3. /\ claim'[p].at = claim[p].at
        /\ claim'[p].entered = claim[p].entered
        /\ claim'[p] = claim[p] \/ Executing(p)
    BY <1>0, <1>2 DEF TypeOK
  <2> QED
    BY <1>2, <2>1, <2>2, <2>3 DEF Frame
<1>3. ASSUME NEW r \in Requests, CreateProcessing(r) PROVE Frame(p)
  <2>1. CASE Claim(r, nextID)
    <3>1. p = r => Claims(p)
      BY <1>0, <1>3, <2>1 DEF Claims, Claim, Executing, TypeOK, Local
    <3> QED
      BY <1>1, <1>3, <2>1, <3>1
  <2>2. CASE GoTo(r, "get") /\ UNCHANGED <<now, rows, nextID, claim, effect, overrun, retaken>>
    <3>1. NoAdvance(r, p)
      BY <1>0, <1>3, <2>2, Fields DEF GoTo, NoAdvance, Executing, CreateProcessing, TypeOK, Local
    <3> QED
      BY <1>2, <2>2, <3>1
  <2> QED
    BY <1>3, <2>1, <2>2 DEF CreateProcessing
<1>4. ASSUME NEW r \in Requests, TryReclaim(r) PROVE Frame(p)
  <2>1. CASE Claim(r, req[r].id)
    <3>1. p = r => Claims(p)
      BY <1>0, <1>4, <2>1 DEF Claims, Claim, Executing, TypeOK, Local
    <3> QED
      BY <1>1, <1>4, <2>1, <3>1
  <2>2. CASE UNCHANGED <<now, rows, nextID, claim, effect, overrun, retaken>>
             /\ (GoTo(r, "reget") \/ Return(r, "none"))
    <3>1. ~Claims(r)
      <4>1. ~Executing(r)'
        BY <2>2, Fields DEF GoTo, Return, At, Executing, TypeOK, Local
      <4> QED
        BY <4>1 DEF Claims
    <3> QED
      BY <1>2, <1>4, <2>2, <3>1, Passive
  <2> QED
    BY <1>4, <2>1, <2>2 DEF TryReclaim
<1>5. ASSUME NEW r \in Requests,
             \/ Begin(r) \/ CreateFails(r) \/ GetExisting(r) \/ GetLatest(r)
             \/ GetFails(r) \/ ReclaimFails(r) \/ MarkFailedRetryable(r)
             \/ MarkFails(r) \/ StopRenewal(r) \/ Crash(r)
      PROVE  Frame(p)
  <2>1. NoAdvance(r, p)
    BY <1>5, Passive
  <2>2. UNCHANGED <<claim, effect>>
    BY <1>5 DEF Begin, CreateFails, GetExisting, GetLatest, GetFails, ReclaimFails,
                MarkFailedRetryable, MarkFails, StopRenewal, Crash
  <2> QED
    BY <1>2, <2>1, <2>2
<1>6. ASSUME NEW r \in Requests, MarkSucceeded(r) PROVE Frame(p)
  <2>1. NoAdvance(r, p)
    BY <1>6, Passive
  <2>2. Executing(r) /\ UNCHANGED effect
    BY <1>6 DEF MarkSucceeded, Executing
  <2>3. claim' = claim \/ \E n : claim' = [claim EXCEPT ![r].lease = n]
    BY <1>6 DEF MarkSucceeded
  <2> QED
    BY <1>2, <2>1, <2>2, <2>3
<1>7. ASSUME NEW r \in Requests, Operate(r) PROVE Frame(p)
  <2>1. Executing(r) /\ (Executing(p)' => Executing(p)) /\ (p = r => Executing(p)')
    BY <1>0, <1>7 DEF Operate, Executing, TypeOK, Local
  <2>2. ~Claims(p)
    BY <1>7, <2>1 DEF Claims, CreateProcessing, TryReclaim, Executing
  <2> QED
    BY <1>7, <2>1, <2>2 DEF Operate, Frame
<1>8. ASSUME NEW r \in Requests, Renew(r) PROVE Frame(p)
  <2>1. UNCHANGED <<req, effect>>
    BY <1>8 DEF Renew
  <2>2. ~Claims(p)
    BY <2>1 DEF Claims, CreateProcessing, TryReclaim, Executing
  <2>3. claim' = claim \/ claim' = [claim EXCEPT ![r].lease = IF Executing(r) THEN now + TTL ELSE @]
    BY <1>8 DEF Renew
  <2>4. /\ claim'[p].at = claim[p].at
        /\ claim'[p].entered = claim[p].entered
        /\ claim'[p] = claim[p] \/ Executing(p)
    BY <1>0, <2>3 DEF TypeOK
  <2> QED
    BY <2>1, <2>2, <2>4 DEF Frame, Executing
<1>9. ASSUME \/ \E r \in Requests : RenewalDeadline(r)
             \/ CleanupOnce \/ Tick \/ UNCHANGED vars
      PROVE  Frame(p)
  <2>1. UNCHANGED <<req, effect, claim>>
    BY <1>9 DEF RenewalDeadline, CleanupOnce, Tick, vars
  <2>2. ~Claims(p)
    BY <2>1 DEF Claims, CreateProcessing, TryReclaim, Executing
  <2>3. Executing(p)' => Executing(p)
    BY <2>1 DEF Executing
  <2> QED
    BY <2>1, <2>2, <2>3 DEF Frame
<1>10. Frame(p)
  BY <1>3, <1>4, <1>5, <1>6, <1>7, <1>8, <1>9 DEF Next, Request
<1>11. /\ Clean(p)' => Clean(p)
       /\ now' \in {now, now + 1}
  BY DEF Next, Request, vars, Begin, CreateProcessing, CreateFails, GetExisting,
         GetLatest, GetFails, TryReclaim, ReclaimFails, Operate, MarkSucceeded,
         MarkFailedRetryable, MarkFails, Renew, RenewalDeadline, StopRenewal,
         Crash, CleanupOnce, Tick, Claim, Retake, Clean
<1> QED
  BY <1>10, <1>11

(* No write outruns the clock. *)
LEMMA ClockStep == Inv /\ ClockInv /\ [Next]_vars => ClockInv'
<1> SUFFICES ASSUME Inv, ClockInv, [Next]_vars, NEW p \in Requests
             PROVE  /\ claim'[p].at <= now'
                    /\ claim'[p].at # -1 => claim'[p].entered <= claim'[p].at
                    /\ claim'[p].lease <= now' + TTL
                    /\ req'[p].finished <= now'
  BY DEF ClockInv
<1> USE TimeAssumption
<1>0. TypeOK /\ LocalInv /\ now \in Nat
  BY DEF Inv, TypeOK
<1>1. /\ req[p] \in Local /\ req[p].start \in Nat /\ req[p].finished \in Nat
      /\ claim[p].entered \in Nat /\ claim[p].at \in Int /\ claim[p].lease \in Nat
      /\ req[p].start <= now
  BY <1>0, Fields, ClaimFields DEF LocalInv
<1>2. /\ claim[p].at <= now
      /\ claim[p].at # -1 => claim[p].entered <= claim[p].at
      /\ claim[p].lease <= now + TTL
      /\ req[p].finished <= now
  BY DEF ClockInv
<1>3. Frame(p) /\ now' \in {now, now + 1}
  BY <1>0, FrameStep
<1>4. /\ claim'[p].at <= now'
      /\ claim'[p].at # -1 => claim'[p].entered <= claim'[p].at
  <2>1. CASE Claims(p)
    BY <1>0, <1>1, <1>3, <2>1 DEF Frame
  <2>2. CASE ~Claims(p)
    BY <1>0, <1>1, <1>2, <1>3, <2>2 DEF Frame
  <2> QED
    BY <2>1, <2>2
<1>5. req'[p].finished <= now'
  <2>1. ASSUME NEW r \in Requests, NoAdvance(r, p) PROVE req'[p].finished <= now'
    BY <1>0, <1>1, <1>2, <1>3, <2>1 DEF NoAdvance
  <2>2. ASSUME NEW r \in Requests, NEW id, Claim(r, id) PROVE req'[p].finished <= now'
    BY <1>0, <1>1, <1>2, <2>2 DEF Claim, TypeOK, Local
  <2>3. ASSUME NEW r \in Requests, CreateProcessing(r) \/ TryReclaim(r)
        PROVE  req'[p].finished <= now'
    <3>1. CASE Claims(r)
      <4>1. \E id : Claim(r, id)
        BY <1>0, <2>3, <3>1, Fields DEF Claims, CreateProcessing, TryReclaim, GoTo, Return,
              At, Executing, TypeOK, Local
      <4> QED
        BY <2>2, <4>1
    <3>2. CASE ~Claims(r)
      BY <1>0, <2>1, <2>3, <3>2, Passive
    <3> QED
      BY <3>1, <3>2
  <2>4. ASSUME NEW r \in Requests, Operate(r) PROVE req'[p].finished <= now'
    BY <1>0, <1>1, <1>2, <2>4 DEF Operate, TypeOK, Local
  <2>5. ASSUME UNCHANGED req PROVE req'[p].finished <= now'
    BY <1>0, <1>1, <1>2, <1>3, <2>5
  <2>6. ASSUME NEW r \in Requests, Renew(r) \/ RenewalDeadline(r) PROVE req'[p].finished <= now'
    BY <2>5, <2>6 DEF Renew, RenewalDeadline
  <2>7. ASSUME CleanupOnce \/ Tick \/ UNCHANGED vars PROVE req'[p].finished <= now'
    BY <2>5, <2>7 DEF CleanupOnce, Tick, vars
  <2> QED
    BY <1>0, <2>1, <2>3, <2>4, <2>6, <2>7, Passive DEF Next, Request
<1>6. claim'[p].lease <= now' + TTL
  <2>1. CASE Claims(p)
    BY <1>0, <1>1, <1>3, <2>1 DEF Frame
  <2>2. CASE claim'[p] = claim[p]
    BY <1>0, <1>1, <1>2, <1>3, <2>2
  <2>3. CASE MarkSucceeded(p)
    <3>1. FinalExpiry(p) <= now + TTL
      BY <1>0, <1>1, <1>2 DEF FinalExpiry
    <3>2. claim' = claim \/ claim' = [claim EXCEPT ![p].lease = FinalExpiry(p)]
      BY <2>3 DEF MarkSucceeded
    <3>3. claim'[p].lease \in {claim[p].lease, FinalExpiry(p)} /\ now' = now
      BY <1>0, <2>3, <3>2, ClaimFields DEF TypeOK, MarkSucceeded
    <3> QED
      BY <1>2, <3>1, <3>3
  <2>4. CASE Renew(p)
    <3>1. claim'[p].lease \in {claim[p].lease, now + TTL} /\ now' = now
      BY <1>0, <2>4, ClaimFields DEF TypeOK, Renew
    <3> QED
      BY <1>0, <1>2, <3>1
  <2>5. CASE ~Claims(p) /\ ~(claim'[p] = claim[p]) /\ ~MarkSucceeded(p) /\ ~Renew(p)
    <3>1. ASSUME NEW r \in Requests, MarkSucceeded(r) \/ Renew(r) PROVE FALSE
      <4>1. r # p
        BY <2>5, <3>1
      <4>2. claim'[p] = claim[p]
        BY <1>0, <3>1, <4>1 DEF MarkSucceeded, Renew, TypeOK
      <4> QED
        BY <2>5, <4>2
    <3>2. ASSUME NEW r \in Requests, CreateProcessing(r) \/ TryReclaim(r) PROVE FALSE
      <4>1. CASE UNCHANGED claim
        BY <2>5, <4>1
      <4>2. CASE \E id : Claim(r, id)
        <5>1. r = p
          BY <1>0, <2>5, <4>2 DEF Claim, TypeOK
        <5>2. Executing(p)'
          BY <1>0, <1>1, <4>2, <5>1 DEF Claim, TypeOK, Local, Executing
        <5> QED
          BY <2>5, <3>2, <5>1, <5>2 DEF Claims
      <4> QED
        BY <3>2, <4>1, <4>2 DEF CreateProcessing, TryReclaim
    <3>3. UNCHANGED claim
      BY <3>1, <3>2 DEF Next, Request, vars, Begin, CreateFails, GetExisting,
         GetLatest, GetFails, ReclaimFails, Operate,
         MarkFailedRetryable, MarkFails, RenewalDeadline, StopRenewal,
         Crash, CleanupOnce, Tick
    <3> QED
      BY <2>5, <3>3
  <2> QED
    BY <2>1, <2>2, <2>3, <2>4, <2>5
<1> QED
  BY <1>4, <1>5, <1>6

(* A request takes effect at most once. *)
LEMMA PhaseStep == TypeOK /\ PhaseInv /\ [Next]_vars => PhaseInv'
<1> SUFFICES ASSUME TypeOK, PhaseInv, [Next]_vars, NEW p \in Requests
             PROVE  /\ req'[p].pc = "markSucceeded" => p \in effect'
                    /\ p \in effect' => req'[p].pc \in {"markSucceeded", "stopping", "done"}
  BY DEF PhaseInv
<1> DEFINE Goal == /\ req'[p].pc = "markSucceeded" => p \in effect'
                   /\ p \in effect' => req'[p].pc \in {"markSucceeded", "stopping", "done"}
<1>0. /\ req[p] \in Local
      /\ req[p].pc = "markSucceeded" => p \in effect
      /\ p \in effect => req[p].pc \in {"markSucceeded", "stopping", "done"}
  BY Fields DEF PhaseInv
<1>1. ASSUME NEW r \in Requests, NoAdvance(r, p), UNCHANGED effect PROVE Goal
  BY <1>0, <1>1 DEF NoAdvance, Executing
<1>2. ASSUME NEW r \in Requests, NEW id, Claim(r, id),
             req[r].pc \in {"create", "reclaimExpired", "reclaimFailed"}
      PROVE  Goal
  BY <1>0, <1>2 DEF Claim, TypeOK, Local
<1>3. ASSUME NEW r \in Requests, CreateProcessing(r) \/ TryReclaim(r) PROVE Goal
  <2>1. CASE Claims(r)
    <3>1. \E id : Claim(r, id)
      BY <1>3, <2>1, Fields DEF Claims, CreateProcessing, TryReclaim, GoTo, Return,
            At, Executing, TypeOK, Local
    <3> QED
      BY <1>2, <1>3, <3>1 DEF CreateProcessing, TryReclaim
  <2>2. CASE ~Claims(r)
    <3>1. UNCHANGED effect
      BY <1>3 DEF CreateProcessing, TryReclaim, Claim
    <3> QED
      BY <1>1, <1>3, <2>2, <3>1, Passive
  <2> QED
    BY <2>1, <2>2
<1>4. ASSUME NEW r \in Requests, Operate(r) PROVE Goal
  BY <1>0, <1>4 DEF Operate, TypeOK, Local
<1>5. ASSUME NEW r \in Requests,
             \/ Begin(r) \/ CreateFails(r) \/ GetExisting(r) \/ GetLatest(r)
             \/ GetFails(r) \/ ReclaimFails(r) \/ MarkSucceeded(r)
             \/ MarkFailedRetryable(r) \/ MarkFails(r) \/ StopRenewal(r) \/ Crash(r)
      PROVE  Goal
  <2>1. NoAdvance(r, p)
    BY <1>5, Passive
  <2>2. UNCHANGED effect
    BY <1>5 DEF Begin, CreateFails, GetExisting, GetLatest, GetFails, ReclaimFails,
                MarkSucceeded, MarkFailedRetryable, MarkFails, StopRenewal, Crash
  <2> QED
    BY <1>1, <2>1, <2>2
<1>6. ASSUME NEW r \in Requests, Renew(r) \/ RenewalDeadline(r) PROVE Goal
  BY <1>0, <1>6 DEF Renew, RenewalDeadline
<1>7. ASSUME CleanupOnce \/ Tick \/ UNCHANGED vars PROVE Goal
  BY <1>0, <1>7 DEF CleanupOnce, Tick, vars
<1> QED
  BY <1>3, <1>4, <1>5, <1>6, <1>7 DEF Next, Request

(* Only an outdated reclaim writes over the row of an effect that counts. *)
LEMMA GuardHolds ==
  ASSUME Inv, NEW p \in Requests, NEW r \in Requests, KeyOf[p] = KeyOf[r],
         Guards(p), now < claim[p].lease,
         req[r].pc \in {"reclaimExpired", "reclaimFailed"}, Reclaimable(r), Retake(r)
  PROVE  KeyOf[p] \in retaken'
<1>1. TypeOK /\ LocalInv /\ now \in Nat /\ RowOf(r) = RowOf(p)
  BY DEF Inv, TypeOK, RowOf
<1>2. /\ req[r].start \in Nat /\ req[r].start <= now
      /\ RowOf(p).expiresAt \in Nat /\ claim[p].lease \in Nat
  BY <1>1, Fields DEF LocalInv
<1>3. req[r].pc = "reclaimExpired"
  BY <1>1 DEF Guards, LocalInv, Reclaimable
<1>4. RowOf(r).expiresAt > req[r].start
  BY <1>1, <1>2 DEF Guards
<1> QED
  BY <1>3, <1>4 DEF Retake

(* Nobody claims a key whose last effect still counts. *)
LEMMA NoClaimWhileGuarded ==
  ASSUME RetryInv, [Next]_vars, NEW p \in effect, NEW r \in Requests, Rival(p, r),
         Claims(r), Clean(p)', ~Executing(p)
  PROVE  claim[p].lease <= now
<1>1. Inv /\ TypeOK /\ GuardInv /\ now \in Nat /\ p \in Requests
  BY DEF RetryInv, Inv, TypeOK
<1>2. Clean(p) /\ claim[p].lease \in Nat
  BY <1>1, FrameStep, Fields
<1> SUFFICES ASSUME now < claim[p].lease PROVE FALSE
  BY <1>1, <1>2
<1>3. Guards(p) /\ RowOf(r) = RowOf(p) /\ KeyOf[p] = KeyOf[r]
  BY <1>1, <1>2 DEF GuardInv, Rival, RowOf
<1>4. CASE CreateProcessing(r)
  <2>1. GoTo(r, "get")
    BY <1>3, <1>4 DEF CreateProcessing, Guards
  <2> QED
    BY <1>1, <2>1, Fields DEF Claims, GoTo, Executing, TypeOK, Local
<1>5. CASE TryReclaim(r)
  <2>1. CASE Reclaimable(r) /\ Retake(r)
    BY <1>1, <1>3, <1>5, <2>1, GuardHolds DEF TryReclaim, Clean
  <2>2. CASE GoTo(r, "reget") \/ Return(r, "none")
    BY <1>1, <2>2, Fields DEF Claims, GoTo, Return, At, Executing, TypeOK, Local
  <2> QED
    BY <1>5, <2>1, <2>2 DEF TryReclaim
<1> QED
  BY <1>4, <1>5 DEF Claims

(* The row of an effect stays in the way of later claims. *)
LEMMA GuardStep == RetryInv /\ [Next]_vars => GuardInv'
<1> SUFFICES ASSUME RetryInv, [Next]_vars, NEW p \in effect', Clean(p)', ~Executing(p)',
                    now' < claim'[p].lease
             PROVE  Guards(p)'
  BY DEF GuardInv
<1> USE TimeAssumption
<1>0. /\ Inv /\ TypeOK /\ OwnerInv /\ ClockInv /\ PhaseInv /\ GuardInv
      /\ now \in Nat /\ TypeOK'
  BY TypeStep DEF RetryInv, Inv, TypeOK
<1>1. p \in Requests /\ p \in effect /\ Clean(p)
  BY <1>0, FrameStep DEF Frame, TypeOK
<1>2. ~Claims(p)
  BY DEF Claims
<1>3. claim[p].lease \in Nat /\ RowOf(p).expiresAt \in Nat /\ KeyOf[p] \in Keys /\ RowOf(p) \in Row
  BY <1>0, <1>1, Fields
\* The request has just left its operation.
<1>4. CASE Executing(p)
  <2>1. Owns(p) /\ req[p].pc = "markSucceeded"
    BY <1>0, <1>1, <1>4 DEF OwnerInv, PhaseInv, Clean, Executing
  <2>2. ASSUME NEW q \in Requests, Rival(p, q), ~Claims(q) PROVE ~Executing(q)'
    <3>1. ~Executing(q)
      BY <2>1, <2>2 DEF Owns, Rival
    <3> QED
      BY <1>0, <2>2, <3>1, FrameStep DEF Frame
  <2>3. ASSUME NEW q \in Requests, Claims(q), q # p PROVE FALSE
    <3>1. req'[p] = req[p]
      BY <1>0, <1>1, <2>3, FrameStep DEF Frame
    <3> QED
      BY <1>4, <3>1 DEF Executing
  <2>4. \A q \in Requests : Rival(p, q) => ~Executing(q)'
    BY <2>2, <2>3 DEF Rival
  <2>5. CASE MarkSucceeded(p)
    <3>1. PICK body : rows' = [rows EXCEPT ![KeyOf[p]] =
                                 [RowOf(p) EXCEPT !.status = "succeeded", !.body = body,
                                                  !.lockedUntil = 0,
                                                  !.expiresAt = FinalExpiry(p)]]
      BY <2>1, <2>5 DEF MarkSucceeded, Owns, WriteRow
    <3>2. /\ RowOf(p)'.id = RowOf(p).id
          /\ RowOf(p)'.status = "succeeded"
          /\ RowOf(p)'.expiresAt = FinalExpiry(p)
      BY <1>0, <1>3, <3>1 DEF RowOf, Row, TypeOK
    <3>3. claim'[p].lease = FinalExpiry(p)
      BY <1>0, <1>1, <2>1, <2>5 DEF MarkSucceeded, Owns, TypeOK
    <3>4. FinalExpiry(p) \in Nat
      BY <1>0, <1>1, Fields DEF FinalExpiry
    <3> QED
      BY <2>1, <2>4, <3>2, <3>3, <3>4 DEF Guards, Owns
  <2>6. CASE MarkFails(p) \/ Crash(p)
    <3>1. UNCHANGED <<rows, claim>>
      BY <2>6 DEF MarkFails, Crash
    <3> QED
      BY <2>1, <2>4, <3>1 DEF Guards, Owns, RowOf
  <2>7. CASE ~MarkSucceeded(p) /\ ~MarkFails(p) /\ ~Crash(p)
    <3>1. ASSUME NEW r \in Requests, Request(r), r # p PROVE req'[p] = req[p]
      <4>1. CASE \E id : Claim(r, id)
        BY <1>0, <1>1, <3>1, <4>1 DEF Claim, TypeOK
      <4>2. CASE Operate(r) \/ Renew(r) \/ RenewalDeadline(r)
        BY <1>0, <1>1, <3>1, <4>2 DEF Operate, Renew, RenewalDeadline, TypeOK
      <4>3. CASE ~Claims(r) /\ ~Operate(r) /\ ~Renew(r) /\ ~RenewalDeadline(r)
        BY <1>0, <1>1, <3>1, <4>3, Passive DEF Request, NoAdvance
      <4>4. CASE Claims(r)
        BY <1>0, <1>1, <3>1, <4>4, FrameStep DEF Frame
      <4> QED
        BY <4>1, <4>2, <4>3, <4>4
    <3>2. ASSUME Request(p) PROVE req'[p] = req[p]
      BY <2>1, <2>7, <3>2 DEF Request, Begin, CreateProcessing, CreateFails, GetExisting,
         GetLatest, GetFails, TryReclaim, ReclaimFails, Operate, MarkFailedRetryable,
         Renew, RenewalDeadline, StopRenewal
    <3>3. req'[p] = req[p]
      BY <3>1, <3>2 DEF Next, CleanupOnce, Tick, vars
    <3> QED
      BY <1>4, <3>3 DEF Executing
  <2> QED
    BY <2>5, <2>6, <2>7
\* It had left it before.
<1>5. CASE ~Executing(p)
  <2>1. claim'[p] = claim[p] /\ now < claim[p].lease
    <3>1. Frame(p) /\ now' \in {now, now + 1}
      BY <1>0, <1>1, FrameStep
    <3>2. claim'[p] = claim[p]
      BY <1>2, <1>5, <3>1 DEF Frame
    <3> QED
      BY <1>0, <1>3, <3>1, <3>2
  <2>2. Guards(p)
    BY <1>0, <1>1, <1>5, <2>1 DEF GuardInv
  <2>3. \A q \in Requests : Rival(p, q) => ~Executing(q)'
    <3>1. ASSUME NEW q \in Requests, Rival(p, q), Executing(q)' PROVE FALSE
      <4>1. Claims(q)
        BY <1>0, <2>2, <3>1, FrameStep DEF Frame, Guards
      <4>2. claim[p].lease <= now
        BY <1>1, <1>5, <3>1, <4>1, NoClaimWhileGuarded
      <4> QED
        BY <1>0, <1>3, <2>1, <4>2
    <3> QED
      BY <3>1
  <2> SUFFICES /\ RowOf(p)'.id # 0
               /\ RowOf(p)'.status \in {"processing", "succeeded"}
               /\ claim[p].lease <= RowOf(p)'.expiresAt
    BY <2>1, <2>3 DEF Guards
  <2> DEFINE Goal == /\ RowOf(p)'.id # 0
                     /\ RowOf(p)'.status \in {"processing", "succeeded"}
                     /\ claim[p].lease <= RowOf(p)'.expiresAt
  <2>4. ASSUME rows'[KeyOf[p]] = rows[KeyOf[p]] PROVE Goal
    BY <2>2, <2>4 DEF Guards, RowOf
  <2>5. ASSUME NEW r \in Requests, NEW row, WriteRow(r, row), KeyOf[p] # KeyOf[r]
        PROVE  Goal
    <3>1. rows'[KeyOf[p]] = rows[KeyOf[p]]
      BY <1>0, <1>3, <2>5 DEF WriteRow, TypeOK
    <3> QED
      BY <2>4, <3>1
  <2>6. ASSUME NEW r \in Requests, CreateProcessing(r) \/ CreateFails(r) PROVE Goal
    <3>1. CASE UNCHANGED rows
      BY <2>4, <3>1
    <3>2. CASE RowOf(r).id = 0 /\ WriteRow(r, InsertedRow(r))
      BY <2>2, <2>5, <3>2 DEF Guards, RowOf
    <3> QED
      BY <2>6, <3>1, <3>2 DEF CreateProcessing, CreateFails
  <2>7. ASSUME NEW r \in Requests, TryReclaim(r) \/ ReclaimFails(r) PROVE Goal
    <3>1. CASE UNCHANGED rows
      BY <2>4, <3>1
    <3>2. CASE Reclaimable(r) /\ WriteRow(r, ReclaimedRow(r)) /\ Retake(r)
      <4>1. req[r].pc \in {"reclaimExpired", "reclaimFailed"}
        BY <2>7 DEF TryReclaim, ReclaimFails
      <4>2. KeyOf[p] # KeyOf[r]
        BY <1>0, <1>1, <2>1, <2>2, <3>2, <4>1, GuardHolds DEF Clean
      <4> QED
        BY <2>5, <3>2, <4>2
    <3> QED
      BY <2>7, <3>1, <3>2 DEF TryReclaim, ReclaimFails
  <2>8. ASSUME NEW r \in Requests, MarkSucceeded(r) \/ MarkFailedRetryable(r) PROVE Goal
    <3>1. Executing(r)
      BY <2>8 DEF MarkSucceeded, MarkFailedRetryable, Executing
    <3>2. KeyOf[p] # KeyOf[r]
      BY <1>5, <2>2, <3>1 DEF Guards, Rival
    <3> QED
      BY <2>4, <2>5, <2>8, <3>2 DEF MarkSucceeded, MarkFailedRetryable
  <2>9. ASSUME NEW r \in Requests, Renew(r) PROVE Goal
    <3>1. CASE UNCHANGED rows
      BY <2>4, <3>1
    <3>2. CASE WriteRow(r, [RowOf(r) EXCEPT !.lockedUntil = now + ProcessingTimeout,
                                            !.expiresAt = now + TTL])
      <4>1. CASE KeyOf[p] # KeyOf[r]
        BY <2>5, <3>2, <4>1
      <4>2. CASE KeyOf[p] = KeyOf[r]
        <5>1. RowOf(p)' = [RowOf(p) EXCEPT !.lockedUntil = now + ProcessingTimeout,
                                           !.expiresAt = now + TTL]
          BY <1>0, <1>3, <3>2, <4>2 DEF WriteRow, RowOf, TypeOK
        <5>2. /\ RowOf(p)'.id = RowOf(p).id /\ RowOf(p)'.status = RowOf(p).status
              /\ RowOf(p)'.expiresAt = now + TTL
          BY <1>3, <5>1 DEF Row
        <5>3. claim[p].lease <= now + TTL
          BY <1>0, <1>1 DEF ClockInv
        <5> QED
          BY <2>2, <5>2, <5>3 DEF Guards
      <4> QED
        BY <4>1, <4>2
    <3> QED
      BY <2>9, <3>1, <3>2 DEF Renew
  <2>10. ASSUME CleanupOnce PROVE Goal
    <3>1. KeyOf[p] \notin Expired
      BY <1>0, <1>3, <2>1, <2>2 DEF Expired, Guards, RowOf
    <3>2. rows'[KeyOf[p]] = rows[KeyOf[p]]
      BY <1>3, <2>10, <3>1 DEF CleanupOnce
    <3> QED
      BY <2>4, <3>2
  <2>11. ASSUME NEW r \in Requests,
                \/ Begin(r) \/ GetExisting(r) \/ GetLatest(r) \/ GetFails(r) \/ Operate(r)
                \/ MarkFails(r) \/ RenewalDeadline(r) \/ StopRenewal(r) \/ Crash(r)
         PROVE  Goal
    BY <2>4, <2>11 DEF Begin, GetExisting, GetLatest, GetFails, Operate, MarkFails,
                       RenewalDeadline, StopRenewal, Crash
  <2>12. ASSUME Tick \/ UNCHANGED vars PROVE Goal
    BY <2>4, <2>12 DEF Tick, vars
  <2> QED
    BY <2>6, <2>7, <2>8, <2>9, <2>10, <2>11, <2>12 DEF Next, Request
<1> QED
  BY <1>4, <1>5

(* An executing request claimed its key last, after every earlier effect. *)
LEMMA OrderStep == RetryInv /\ [Next]_vars => OrderInv'
<1> SUFFICES ASSUME RetryInv, [Next]_vars, NEW p \in Requests, NEW q \in Requests,
                    Rival(p, q), Executing(p)', Clean(p)'
             PROVE  /\ claim'[q].at <= claim'[p].at
                    /\ q \in effect' => claim'[q].lease <= claim'[p].at
  BY DEF OrderInv, Rival
<1>0. /\ Inv /\ TypeOK /\ OwnerInv /\ ClockInv /\ OrderInv /\ now \in Nat
      /\ KeyOf[p] = KeyOf[q] /\ p # q
  BY DEF RetryInv, Inv, TypeOK, Rival
<1>1. Frame(p) /\ Frame(q) /\ Clean(p) /\ Clean(q) /\ Clean(q)' /\ Rival(q, p)
  BY <1>0, FrameStep DEF Clean, Rival
<1>2. CASE Claims(p)
  <2>1. /\ claim'[p].at = now /\ claim'[q] = claim[q] /\ req'[q] = req[q]
        /\ effect' = effect
    BY <1>0, <1>1, <1>2 DEF Frame
  <2>2. ~Executing(q)
    <3>1. Owns(p)'
      BY <1>0, OwnerStep DEF OwnerInv, Clean
    <3>2. ~Executing(q)'
      BY <1>0, <3>1 DEF Owns
    <3> QED
      BY <2>1, <3>2 DEF Executing
  <2>3. claim[q].at <= now
    BY <1>0 DEF ClockInv
  <2>4. q \in effect => claim[q].lease <= now
    BY <1>1, <1>2, <2>2, NoClaimWhileGuarded
  <2> QED
    BY <2>1, <2>3, <2>4
<1>3. CASE ~Claims(p)
  <2>1. Executing(p) /\ claim'[p].at = claim[p].at
    BY <1>1, <1>3 DEF Frame
  <2>2. ~Executing(q) /\ ~Executing(q)'
    <3>1. Owns(p) /\ Owns(p)'
      BY <1>0, <1>1, <2>1, OwnerStep DEF OwnerInv, Clean
    <3> QED
      BY <1>0, <3>1 DEF Owns
  <2>3. claim'[q] = claim[q] /\ (q \in effect' => q \in effect)
    BY <1>1, <2>2 DEF Frame, Claims
  <2>4. /\ claim[q].at <= claim[p].at
        /\ q \in effect => claim[q].lease <= claim[p].at
    BY <1>0, <1>1, <2>1 DEF OrderInv, Rival
  <2> QED
    BY <2>1, <2>3, <2>4
<1> QED
  BY <1>2, <1>3

LEMMA SuppressStep == RetryInv /\ [Next]_vars => RetrySuppressed'
<1> SUFFICES ASSUME RetryInv, [Next]_vars, NEW p \in effect', NEW q \in Requests,
                    Rival(p, q), Clean(p)', claim'[q].at # -1,
                    claim'[q].entered > claim'[p].at
             PROVE  claim'[q].at >= claim'[p].lease
  BY DEF RetrySuppressed, Rival, Clean
<1>0. /\ Inv /\ TypeOK /\ TypeOK' /\ OwnerInv /\ ClockInv /\ PhaseInv /\ OrderInv
      /\ RetrySuppressed /\ now \in Nat /\ KeyOf[p] = KeyOf[q] /\ p # q
  BY TypeStep DEF RetryInv, Inv, TypeOK, Rival
<1>1. p \in Requests
  BY <1>0 DEF TypeOK
<1>2. Frame(p) /\ Frame(q) /\ Clean(p) /\ Clean(q) /\ Clean(q)'
  BY <1>0, <1>1, FrameStep DEF Clean
<1>3. /\ claim[p].lease \in Nat /\ claim[p].at \in Int
      /\ claim[q].entered \in Nat /\ claim[q].at \in Int
  BY <1>0, <1>1, ClaimFields
<1>4. CASE Executing(p)
  <2>1. ~Claims(p) /\ claim'[p].at = claim[p].at
    BY <1>2, <1>4 DEF Claims, CreateProcessing, TryReclaim, Executing, Frame
  <2>2. ~Claims(q)
    <3>1. ASSUME Claims(q) PROVE FALSE
      <4>1. Owns(q)'
        BY <1>0, <1>2, <3>1, OwnerStep DEF OwnerInv, Clean, Claims
      <4>2. ~Executing(p)' /\ req'[p] = req[p]
        BY <1>0, <1>1, <1>2, <3>1, <4>1 DEF Owns, Frame
      <4> QED
        BY <1>4, <4>2 DEF Executing
    <3> QED
      BY <3>1
  <2>3. claim'[q].at = claim[q].at /\ claim'[q].entered = claim[q].entered
    BY <1>2, <2>2 DEF Frame
  <2>4. claim[q].at <= claim[p].at /\ claim[q].entered <= claim[q].at
    BY <1>0, <1>1, <1>2, <1>4, <2>3 DEF OrderInv, ClockInv, Rival
  <2> QED
    BY <1>3, <2>1, <2>3, <2>4
<1>5. CASE ~Executing(p)
  <2>1. p \in effect
    BY <1>2, <1>5 DEF Frame
  <2>2. ~Claims(p)
    BY <1>0, <1>1, <1>2, <2>1 DEF PhaseInv, Frame
  <2>3. claim'[p] = claim[p]
    BY <1>2, <1>5, <2>2 DEF Frame
  <2>4. CASE Claims(q)
    <3>1. claim[p].lease <= now
      BY <1>5, <2>1, <2>4, NoClaimWhileGuarded
    <3>2. claim'[q].at = now
      BY <1>2, <2>4 DEF Frame
    <3> QED
      BY <1>0, <1>3, <2>3, <3>1, <3>2
  <2>5. CASE ~Claims(q)
    <3>1. claim'[q].at = claim[q].at /\ claim'[q].entered = claim[q].entered
      BY <1>2, <2>5 DEF Frame
    <3> QED
      BY <1>0, <1>2, <2>1, <2>3, <3>1 DEF RetrySuppressed, Clean
  <2> QED
    BY <2>4, <2>5
<1> QED
  BY <1>4, <1>5

LEMMA RepeatStep == RetryInv /\ [Next]_vars => OnlyRetakenRepeats'
<1> SUFFICES ASSUME RetryInv, [Next]_vars, NEW p \in effect', NEW q \in effect',
                    Rival(p, q), Clean(p)'
             PROVE  \/ claim'[q].at >= claim'[p].lease
                    \/ claim'[p].at >= claim'[q].lease
  BY DEF OnlyRetakenRepeats, Rival, Clean
<1>0. /\ Inv /\ TypeOK /\ TypeOK' /\ OwnerInv /\ PhaseInv /\ OrderInv
      /\ OnlyRetakenRepeats /\ KeyOf[p] = KeyOf[q] /\ p # q
  BY TypeStep DEF RetryInv, Inv, Rival
<1>1. p \in Requests /\ q \in Requests
  BY <1>0 DEF TypeOK
\* The one that still executes claimed its key after the other's effect.
<1>2. ASSUME NEW x \in Requests, NEW y \in Requests, x \in effect', y \in effect',
             Rival(x, y), Clean(x)', Executing(x)
      PROVE  claim'[x].at >= claim'[y].lease
  <2>1. Frame(x) /\ Frame(y) /\ Clean(x)
    BY <1>0, <1>2, FrameStep
  <2>2. Owns(x) /\ ~Executing(y)
    BY <1>0, <1>2, <2>1 DEF OwnerInv, Owns, Rival, Clean
  <2>3. y \in effect /\ ~Claims(x)
    BY <1>2, <2>1, <2>2 DEF Frame, Claims, CreateProcessing, TryReclaim, Executing
  <2>4. ~Claims(y)
    BY <1>0, <1>2, <2>1, <2>3 DEF PhaseInv, Frame
  <2>5. claim'[y] = claim[y] /\ claim'[x].at = claim[x].at
    BY <2>1, <2>2, <2>3, <2>4 DEF Frame
  <2>6. claim[y].lease <= claim[x].at
    BY <1>0, <1>2, <2>1, <2>3 DEF OrderInv
  <2>7. claim[y].lease \in Int /\ claim[x].at \in Int
    BY <1>0, <1>2, ClaimFields
  <2> QED
    BY <2>5, <2>6, <2>7
<1>3. CASE Executing(p)
  BY <1>1, <1>2, <1>3
<1>4. CASE Executing(q)
  <2>1. Rival(q, p) /\ Clean(q)'
    BY <1>0 DEF Rival, Clean
  <2> QED
    BY <1>1, <1>2, <1>4, <2>1
<1>5. CASE ~Executing(p) /\ ~Executing(q)
  <2>1. Frame(p) /\ Frame(q) /\ Clean(p)
    BY <1>0, <1>1, FrameStep
  <2>2. p \in effect /\ q \in effect
    BY <1>5, <2>1 DEF Frame
  <2>3. ~Claims(p) /\ ~Claims(q)
    BY <1>0, <1>1, <2>1, <2>2 DEF PhaseInv, Frame
  <2>4. claim'[p] = claim[p] /\ claim'[q] = claim[q]
    BY <1>5, <2>1, <2>3 DEF Frame
  <2> QED
    BY <1>0, <2>1, <2>2, <2>4 DEF OnlyRetakenRepeats, Clean
<1> QED
  BY <1>3, <1>4, <1>5

LEMMA RetryInvariant == Spec => []RetryInv
<1>1. Init => RetryInv
  <2> SUFFICES ASSUME Init PROVE RetryInv
    OBVIOUS
  <2>1. TypeOK
    BY DEF Init, TypeOK, NoRow, At, Row, Local, Statuses, Replies
  <2>2. Inv
    BY <2>1 DEF Init, Inv, LocalInv, OwnerInv, Executing, At
  <2>3. ClockInv /\ PhaseInv
    BY TimeAssumption DEF Init, ClockInv, PhaseInv, At
  <2>4. GuardInv /\ OrderInv /\ RetrySuppressed /\ OnlyRetakenRepeats
    BY DEF Init, GuardInv, OrderInv, RetrySuppressed, OnlyRetakenRepeats, Executing, At
  <2> QED
    BY <2>2, <2>3, <2>4 DEF RetryInv
<1>2. RetryInv /\ [Next]_vars => RetryInv'
  <2>1. RetryInv /\ [Next]_vars => Inv'
    BY TypeStep, LocalStep, OwnerStep DEF Inv, RetryInv
  <2>2. RetryInv /\ [Next]_vars => ClockInv' /\ PhaseInv'
    BY ClockStep, PhaseStep DEF RetryInv, Inv
  <2> QED
    BY <2>1, <2>2, GuardStep, OrderStep, SuppressStep, RepeatStep DEF RetryInv
<1> QED
  BY <1>1, <1>2, PTL DEF Spec

(* A retry that enters Execute after the claim of a request whose          *)
(* operation took effect does not claim the row before the time to live    *)
(* has passed, whatever was lost, failed or crashed in between, unless an  *)
(* operation outlived its lease or an outdated TryReclaim took the row.    *)
THEOREM RetriesAreSuppressed == Spec => []RetrySuppressed
<1>1. RetryInv => RetrySuppressed
  BY DEF RetryInv
<1> QED
  BY <1>1, RetryInvariant, PTL

(* Two effects of one key within a time to live have only two causes: an   *)
(* operation that outlived its lease, or a TryReclaim that did not notice  *)
(* that the row it had read as expired was claimed again.                  *)
THEOREM RepeatsAreRetaken == Spec => []OnlyRetakenRepeats
<1>1. RetryInv => OnlyRetakenRepeats
  BY DEF RetryInv
<1> QED
  BY <1>1, RetryInvariant, PTL

-----------------------------------------------------------------------------
(***************************************************************************)
(* Replays.  A row id is never used twice, so a request that finds its id  *)
(* in the row finds its own payload there, and a stored response stays     *)
(* with the payload it was produced for.                                   *)
(***************************************************************************)
IdInv ==
    /\ \A k \in Keys : rows[k].id < nextID
    /\ \A p \in Requests :
         /\ req[p].id < nextID
         /\ Executing(p) => req[p].id # 0
         /\ req[p].id # 0 /\ RowOf(p).id = req[p].id =>
              RowOf(p).fingerprint = FingerprintOf[p]

\* The response b belongs in a row of key k with fingerprint f.
Fits(b, k, f) == b \in Requests => b \in effect /\ KeyOf[b] = k /\ FingerprintOf[b] = f

BodyInv == \A k \in Keys : Fits(rows[k].body, k, rows[k].fingerprint)

ReplayInv == Inv /\ PhaseInv /\ IdInv /\ BodyInv /\ ReplayFaithful

\* What a step may do to the id a request holds, and to a row.
IdFrame(p) ==
    \/ req'[p].id = req[p].id /\ (Executing(p)' => Executing(p) \/ req[p].id # 0)
    \/ req'[p].id = 0 /\ ~Executing(p)'
    \/ req'[p].id = RowOf(p).id /\ Matches(p, RowOf(p)) /\ ~Executing(p)'
    \/ req'[p].id = nextID /\ RowOf(p)' = InsertedRow(p)

RowFrame(k) ==
    \/ rows'[k].id = rows[k].id /\ rows'[k].fingerprint = rows[k].fingerprint
    \/ rows'[k].id = 0
    \/ rows'[k].id = nextID /\ nextID' = nextID + 1

LEMMA IdFrameStep ==
  ASSUME Inv, [Next]_vars, NEW p \in Requests
  PROVE  IdFrame(p)
<1> USE DEF IdFrame
<1>0. TypeOK /\ LocalInv /\ req[p] \in Local
  BY Fields DEF Inv
<1>1. ASSUME NEW r \in Requests, NEW x, Return(r, x) \/ Leave(r, x) PROVE IdFrame(p)
  <2>1. CASE req' = [req EXCEPT ![r] = At("done")]
    BY <1>0, <2>1 DEF At, Executing, TypeOK
  <2>2. CASE req' = [req EXCEPT ![r].pc = "stopping"]
    BY <1>0, <2>2 DEF Executing, TypeOK, Local
  <2> QED
    BY <1>1, <2>1, <2>2 DEF Return, Leave
<1>2. ASSUME NEW r \in Requests, NEW l \in {"get", "reget"}, GoTo(r, l) PROVE IdFrame(p)
  BY <1>0, <1>2 DEF GoTo, Executing, TypeOK, Local
<1>3. ASSUME NEW r \in Requests, NEW l \in {"reclaimExpired", "reclaimFailed"},
             AttemptReclaim(r, RowOf(r), l), Matches(r, RowOf(r))
      PROVE  IdFrame(p)
  BY <1>0, <1>3 DEF AttemptReclaim, Executing, TypeOK, Local
<1>4. ASSUME UNCHANGED req PROVE IdFrame(p)
  BY <1>4 DEF Executing
<1>5. ASSUME NEW r \in Requests, Begin(r) \/ Operate(r) PROVE IdFrame(p)
  <2>1. CASE Begin(r)
    BY <1>0, <2>1 DEF Begin, Executing, TypeOK, Local
  <2>2. CASE Operate(r)
    <3>1. req'[p].id = req[p].id
      BY <1>0, <2>2 DEF Operate, TypeOK, Local
    <3>2. Executing(p)' => Executing(p)
      BY <1>0, <2>2 DEF Operate, Executing, TypeOK, Local
    <3> QED
      BY <3>1, <3>2
  <2> QED
    BY <1>5, <2>1, <2>2
<1>6. ASSUME NEW r \in Requests, CreateProcessing(r) PROVE IdFrame(p)
  <2>1. CASE Claim(r, nextID) /\ WriteRow(r, InsertedRow(r))
    <3>1. CASE p = r
      <4>1. req'[p].id = nextID
        BY <1>0, <2>1, <3>1 DEF Claim, TypeOK, Local
      <4>2. RowOf(p)' = InsertedRow(p)
        BY <1>0, <2>1, <3>1, Fields DEF WriteRow, RowOf, TypeOK
      <4> QED
        BY <4>1, <4>2
    <3>2. CASE p # r
      BY <1>0, <2>1, <3>2 DEF Claim, Executing, TypeOK
    <3> QED
      BY <3>1, <3>2
  <2> QED
    BY <1>2, <1>6, <2>1 DEF CreateProcessing
<1>7. ASSUME NEW r \in Requests, TryReclaim(r) PROVE IdFrame(p)
  <2>1. CASE Claim(r, req[r].id)
    <3>1. req[r].id # 0
      BY <1>0, <1>7 DEF TryReclaim, LocalInv
    <3>2. req'[p].id = req[p].id /\ (Executing(p)' => Executing(p) \/ p = r)
      BY <1>0, <2>1 DEF Claim, Executing, TypeOK, Local
    <3> QED
      BY <3>1, <3>2
  <2> QED
    BY <1>1, <1>2, <1>7, <2>1 DEF TryReclaim
<1>8. ASSUME NEW r \in Requests, CreateFails(r) \/ GetFails(r) \/ ReclaimFails(r)
             \/ StopRenewal(r) \/ Crash(r)
      PROVE IdFrame(p)
  BY <1>1, <1>8 DEF CreateFails, GetFails, ReclaimFails, StopRenewal, Crash
<1>9. ASSUME NEW r \in Requests,
             MarkSucceeded(r) \/ MarkFailedRetryable(r) \/ MarkFails(r)
      PROVE IdFrame(p)
  BY <1>1, <1>9 DEF MarkSucceeded, MarkFailedRetryable, MarkFails
<1>10. ASSUME NEW r \in Requests, GetExisting(r) PROVE IdFrame(p)
  BY <1>1, <1>3, <1>10 DEF GetExisting, Refuse, Resolve
<1>11. ASSUME NEW r \in Requests, GetLatest(r) PROVE IdFrame(p)
  BY <1>1, <1>3, <1>11 DEF GetLatest, Refuse, Resolve
<1>12. ASSUME \/ \E r \in Requests : Renew(r) \/ RenewalDeadline(r)
              \/ CleanupOnce \/ Tick \/ UNCHANGED vars
       PROVE  IdFrame(p)
  BY <1>4, <1>12 DEF Renew, RenewalDeadline, CleanupOnce, Tick, vars
<1> QED
  BY <1>5, <1>6, <1>7, <1>8, <1>9, <1>10, <1>11, <1>12 DEF Next, Request

(* A stored response stays with its payload, and ids are not used again. *)
LEMMA RowFrameStep ==
  ASSUME ReplayInv, [Next]_vars, NEW k \in Keys
  PROVE  /\ RowFrame(k)
         /\ Fits(rows[k].body, k, rows[k].fingerprint)'
         /\ nextID' \in {nextID, nextID + 1}
<1> DEFINE Goal == RowFrame(k) /\ Fits(rows[k].body, k, rows[k].fingerprint)'
<1>0. /\ TypeOK /\ IdInv /\ PhaseInv /\ rows[k] \in Row
      /\ Fits(rows[k].body, k, rows[k].fingerprint)
      /\ "none" \notin Requests /\ "unreadable" \notin Requests
  BY RequestAssumption DEF ReplayInv, Inv, TypeOK, BodyInv
<1>1. effect \subseteq effect'
  BY DEF Next, Request, vars, Begin, CreateProcessing, CreateFails, GetExisting,
         GetLatest, GetFails, TryReclaim, ReclaimFails, Operate, MarkSucceeded,
         MarkFailedRetryable, MarkFails, Renew, RenewalDeadline, StopRenewal,
         Crash, CleanupOnce, Tick, Claim
<1>2. ASSUME /\ rows'[k].id = rows[k].id
             /\ rows'[k].fingerprint = rows[k].fingerprint
             /\ rows'[k].body = rows[k].body
      PROVE  Goal
  BY <1>0, <1>1, <1>2 DEF RowFrame, Fits
<1>3. ASSUME NEW r \in Requests, NEW row, WriteRow(r, row), KeyOf[r] # k PROVE Goal
  BY <1>0, <1>2, <1>3, Fields DEF WriteRow, TypeOK
<1>4. ASSUME NEW r \in Requests, NEW row, WriteRow(r, row), KeyOf[r] = k
      PROVE  rows'[k] = row /\ RowOf(r) = rows[k]
  BY <1>0, <1>4 DEF WriteRow, TypeOK, RowOf
<1>5. ASSUME NEW r \in Requests, WriteRow(r, InsertedRow(r)), nextID' = nextID + 1 PROVE Goal
  <2>1. CASE KeyOf[r] = k
    <3>1. rows'[k].id = nextID /\ rows'[k].body = "none"
      BY <1>4, <1>5, <2>1 DEF InsertedRow
    <3> QED
      BY <1>0, <1>5, <3>1 DEF RowFrame, Fits
  <2> QED
    BY <1>3, <1>5, <2>1
<1>6. ASSUME NEW r \in Requests, WriteRow(r, ReclaimedRow(r)) PROVE Goal
  <2>1. CASE KeyOf[r] = k
    <3>1. /\ ReclaimedRow(r).id = rows[k].id
          /\ ReclaimedRow(r).fingerprint = rows[k].fingerprint
          /\ ReclaimedRow(r).body = rows[k].body
      BY <1>0, <2>1 DEF ReclaimedRow, Row, RowOf
    <3> QED
      BY <1>2, <1>4, <1>6, <2>1, <3>1
  <2> QED
    BY <1>3, <1>6, <2>1
<1>7. ASSUME NEW r \in Requests, MarkSucceeded(r) PROVE Goal
  <2>1. CASE RowOf(r).id = req[r].id /\ KeyOf[r] = k
    <3>1. PICK body \in {r, "unreadable"} :
            WriteRow(r, [RowOf(r) EXCEPT !.status = "succeeded", !.body = body,
                                         !.lockedUntil = 0,
                                         !.expiresAt = FinalExpiry(r)])
      BY <1>7, <2>1 DEF MarkSucceeded
    <3>2. /\ rows'[k].id = rows[k].id
          /\ rows'[k].fingerprint = rows[k].fingerprint
          /\ rows'[k].body = body
      <4>1. rows'[k] = [rows[k] EXCEPT !.status = "succeeded", !.body = body,
                                       !.lockedUntil = 0, !.expiresAt = FinalExpiry(r)]
        BY <1>4, <2>1, <3>1
      <4> QED
        BY <1>0, <4>1 DEF Row
    <3>3. r \in effect /\ rows[k].fingerprint = FingerprintOf[r]
      BY <1>0, <1>7, <2>1 DEF MarkSucceeded, PhaseInv, IdInv, RowOf, Executing
    <3> QED
      BY <1>0, <1>1, <2>1, <3>1, <3>2, <3>3 DEF RowFrame, Fits
  <2>2. CASE ~(RowOf(r).id = req[r].id) \/ KeyOf[r] # k
    BY <1>2, <1>3, <1>7, <2>2 DEF MarkSucceeded
  <2> QED
    BY <2>1, <2>2
<1>8. ASSUME NEW r \in Requests, MarkFailedRetryable(r) PROVE Goal
  <2>1. CASE UNCHANGED rows
    BY <1>2, <2>1
  <2>2. CASE WriteRow(r, [RowOf(r) EXCEPT
                             !.status = "failed_retryable",
                             !.lockedUntil = req[r].finished + RetryBackoff,
                             !.expiresAt = FinalExpiry(r)])
    <3>1. CASE KeyOf[r] = k
      <4>1. rows'[k] = [rows[k] EXCEPT !.status = "failed_retryable",
                                       !.lockedUntil = req[r].finished + RetryBackoff,
                                       !.expiresAt = FinalExpiry(r)]
        BY <1>4, <2>2, <3>1
      <4>2. /\ rows'[k].id = rows[k].id
            /\ rows'[k].fingerprint = rows[k].fingerprint
            /\ rows'[k].body = rows[k].body
        BY <1>0, <4>1 DEF Row
      <4> QED
        BY <1>2, <4>2
    <3> QED
      BY <1>3, <2>2, <3>1
  <2> QED
    BY <1>8, <2>1, <2>2 DEF MarkFailedRetryable
<1>9. ASSUME NEW r \in Requests, Renew(r) PROVE Goal
  <2>1. CASE UNCHANGED rows
    BY <1>2, <2>1
  <2>2. CASE WriteRow(r, [RowOf(r) EXCEPT !.lockedUntil = now + ProcessingTimeout,
                                          !.expiresAt = now + TTL])
    <3>1. CASE KeyOf[r] = k
      <4>1. rows'[k] = [rows[k] EXCEPT !.lockedUntil = now + ProcessingTimeout,
                                       !.expiresAt = now + TTL]
        BY <1>4, <2>2, <3>1
      <4>2. /\ rows'[k].id = rows[k].id
            /\ rows'[k].fingerprint = rows[k].fingerprint
            /\ rows'[k].body = rows[k].body
        BY <1>0, <4>1 DEF Row
      <4> QED
        BY <1>2, <4>2
    <3> QED
      BY <1>3, <2>2, <3>1
  <2> QED
    BY <1>9, <2>1, <2>2 DEF Renew
<1>10. ASSUME CleanupOnce PROVE Goal
  <2>1. CASE rows'[k] = rows[k]
    BY <1>2, <2>1
  <2>2. CASE rows'[k] = NoRow
    BY <1>0, <2>2 DEF NoRow, RowFrame, Fits
  <2> QED
    BY <1>10, <2>1, <2>2 DEF CleanupOnce
<1>11. ASSUME NEW r \in Requests, CreateProcessing(r) \/ CreateFails(r) PROVE Goal
  <2>1. CASE UNCHANGED rows
    BY <1>2, <2>1
  <2> QED
    BY <1>5, <1>11, <2>1 DEF CreateProcessing, CreateFails
<1>12. ASSUME NEW r \in Requests, TryReclaim(r) \/ ReclaimFails(r) PROVE Goal
  <2>1. CASE UNCHANGED rows
    BY <1>2, <2>1
  <2> QED
    BY <1>6, <1>12, <2>1 DEF TryReclaim, ReclaimFails
<1>13. ASSUME NEW r \in Requests,
              \/ Begin(r) \/ GetExisting(r) \/ GetLatest(r) \/ GetFails(r) \/ Operate(r)
              \/ MarkFails(r) \/ RenewalDeadline(r) \/ StopRenewal(r) \/ Crash(r)
       PROVE  Goal
  BY <1>2, <1>13 DEF Begin, GetExisting, GetLatest, GetFails, Operate, MarkFails,
                     RenewalDeadline, StopRenewal, Crash
<1>14. ASSUME Tick \/ UNCHANGED vars PROVE Goal
  BY <1>2, <1>14 DEF Tick, vars
<1>15. nextID' \in {nextID, nextID + 1}
  BY DEF Next, Request, vars, Begin, CreateProcessing, CreateFails, GetExisting,
         GetLatest, GetFails, TryReclaim, ReclaimFails, Operate, MarkSucceeded,
         MarkFailedRetryable, MarkFails, Renew, RenewalDeadline, StopRenewal,
         Crash, CleanupOnce, Tick, Claim
<1>16. Goal
  BY <1>7, <1>8, <1>9, <1>10, <1>11, <1>12, <1>13, <1>14 DEF Next, Request
<1> QED
  BY <1>15, <1>16

LEMMA IdStep == ReplayInv /\ [Next]_vars => IdInv' /\ BodyInv'
<1> SUFFICES ASSUME ReplayInv, [Next]_vars PROVE IdInv' /\ BodyInv'
  OBVIOUS
<1>0. /\ Inv /\ TypeOK /\ TypeOK' /\ IdInv /\ nextID \in Nat \ {0}
  BY TypeStep DEF ReplayInv, Inv, TypeOK
<1>1. BodyInv'
  BY RowFrameStep DEF BodyInv
<1>2. ASSUME NEW k \in Keys PROVE rows'[k].id < nextID'
  <2>1. rows[k].id \in Nat /\ rows[k].id < nextID
    BY <1>0 DEF TypeOK, Row, IdInv
  <2> QED
    BY <1>0, <2>1, RowFrameStep DEF RowFrame
<1>3. ASSUME NEW p \in Requests
      PROVE  /\ req'[p].id < nextID'
             /\ Executing(p)' => req'[p].id # 0
             /\ req'[p].id # 0 /\ RowOf(p)'.id = req'[p].id =>
                  RowOf(p)'.fingerprint = FingerprintOf[p]
  <2>1. /\ req[p].id \in Nat /\ req[p].id < nextID /\ KeyOf[p] \in Keys
        /\ RowOf(p).id \in Nat /\ RowOf(p).id < nextID
        /\ Executing(p) => req[p].id # 0
        /\ req[p].id # 0 /\ RowOf(p).id = req[p].id => RowOf(p).fingerprint = FingerprintOf[p]
    BY <1>0, Fields DEF IdInv, RowOf
  <2>2. IdFrame(p) /\ RowFrame(KeyOf[p]) /\ nextID' \in {nextID, nextID + 1}
    BY <1>0, <2>1, IdFrameStep, RowFrameStep
  <2>3. /\ \/ RowOf(p)'.id = RowOf(p).id /\ RowOf(p)'.fingerprint = RowOf(p).fingerprint
           \/ RowOf(p)'.id = 0
           \/ RowOf(p)'.id = nextID /\ nextID' = nextID + 1
    BY <2>2 DEF RowFrame, RowOf
  <2>4. CASE req'[p].id = req[p].id /\ (Executing(p)' => Executing(p) \/ req[p].id # 0)
    <3>1. req'[p].id < nextID'
      BY <1>0, <2>1, <2>2, <2>4
    <3>2. Executing(p)' => req'[p].id # 0
      BY <2>1, <2>4
    <3>3. RowOf(p)'.id = req'[p].id /\ req'[p].id # 0 =>
            RowOf(p)'.fingerprint = FingerprintOf[p]
      BY <1>0, <2>1, <2>3, <2>4
    <3> QED
      BY <3>1, <3>2, <3>3
  <2>5. CASE req'[p].id = 0 /\ ~Executing(p)'
    BY <1>0, <2>2, <2>5
  <2>6. CASE req'[p].id = RowOf(p).id /\ Matches(p, RowOf(p)) /\ ~Executing(p)'
    <3>1. RowOf(p)'.id = req'[p].id /\ req'[p].id # 0 =>
            RowOf(p)'.fingerprint = FingerprintOf[p]
      BY <1>0, <2>1, <2>3, <2>6 DEF Matches
    <3> QED
      BY <1>0, <2>1, <2>2, <2>6, <3>1
  <2>7. CASE req'[p].id = nextID /\ RowOf(p)' = InsertedRow(p)
    <3>1. RowOf(p)'.id = nextID /\ RowOf(p)'.fingerprint = FingerprintOf[p]
      BY <2>7 DEF InsertedRow
    <3>2. nextID' = nextID + 1
      BY <1>0, <2>1, <2>3, <3>1
    <3> QED
      BY <1>0, <2>7, <3>1, <3>2
  <2> QED
    BY <2>2, <2>4, <2>5, <2>6, <2>7 DEF IdFrame
<1>4. IdInv'
  BY <1>2, <1>3 DEF IdInv
<1> QED
  BY <1>1, <1>4

LEMMA ReplayStep == ReplayInv /\ [Next]_vars => ReplayFaithful'
<1> SUFFICES ASSUME ReplayInv, [Next]_vars, NEW q \in Requests, reply'[q] \in Requests
             PROVE  /\ reply'[q] \in effect'
                    /\ KeyOf[reply'[q]] = KeyOf[q]
                    /\ FingerprintOf[reply'[q]] = FingerprintOf[q]
  BY DEF ReplayFaithful
<1> DEFINE Goal == /\ reply'[q] \in effect'
                   /\ KeyOf[reply'[q]] = KeyOf[q]
                   /\ FingerprintOf[reply'[q]] = FingerprintOf[q]
<1>0. /\ TypeOK /\ BodyInv /\ ReplayFaithful
      /\ "none" \notin Requests /\ "executed" \notin Requests
  BY RequestAssumption DEF ReplayInv, Inv
<1>1. effect \subseteq effect'
  BY DEF Next, Request, vars, Begin, CreateProcessing, CreateFails, GetExisting,
         GetLatest, GetFails, TryReclaim, ReclaimFails, Operate, MarkSucceeded,
         MarkFailedRetryable, MarkFails, Renew, RenewalDeadline, StopRenewal,
         Crash, CleanupOnce, Tick, Claim
<1>2. ASSUME reply'[q] = reply[q] PROVE Goal
  BY <1>0, <1>1, <1>2 DEF ReplayFaithful
<1>3. ASSUME UNCHANGED reply PROVE Goal
  BY <1>2, <1>3
\* An answer that is not a replay.
<1>4. ASSUME NEW r \in Requests, NEW x \in {"none", "executed", reply[r]},
             Return(r, x) \/ Leave(r, x)
      PROVE  Goal
  <2>1. reply' = [reply EXCEPT ![r] = x]
    BY <1>4 DEF Return, Leave
  <2>2. reply'[q] = reply[q]
    BY <1>0, <1>4, <2>1 DEF TypeOK
  <2> QED
    BY <1>2, <2>2
\* A replay.
<1>5. ASSUME NEW r \in Requests, Matches(r, RowOf(r)), Resolve(r, RowOf(r)) PROVE Goal
  <2>1. CASE RowOf(r).body \in Requests /\ Return(r, RowOf(r).body)
    <3>1. CASE q = r
      <4>1. reply'[q] = RowOf(q).body /\ RowOf(q).fingerprint = FingerprintOf[q]
        BY <1>0, <1>5, <2>1, <3>1 DEF Return, Matches, TypeOK
      <4>2. Fits(RowOf(q).body, KeyOf[q], RowOf(q).fingerprint)
        BY <1>0, Fields DEF BodyInv, RowOf
      <4> QED
        BY <1>1, <4>1, <4>2 DEF Fits
    <3>2. CASE q # r
      BY <1>0, <1>2, <2>1, <3>2 DEF Return, TypeOK
    <3> QED
      BY <3>1, <3>2
  <2> QED
    BY <1>3, <1>4, <1>5, <2>1 DEF Resolve, AttemptReclaim
<1>6. ASSUME NEW r \in Requests, GetExisting(r) \/ GetLatest(r) PROVE Goal
  BY <1>3, <1>4, <1>5, <1>6 DEF GetExisting, GetLatest, Refuse, AttemptReclaim
<1>7. ASSUME NEW r \in Requests, CreateProcessing(r) \/ TryReclaim(r) PROVE Goal
  BY <1>3, <1>4, <1>7 DEF CreateProcessing, TryReclaim, Claim, GoTo
<1>8. ASSUME NEW r \in Requests,
             \/ CreateFails(r) \/ GetFails(r) \/ ReclaimFails(r)
             \/ MarkSucceeded(r) \/ MarkFailedRetryable(r) \/ MarkFails(r)
             \/ StopRenewal(r) \/ Crash(r)
      PROVE  Goal
  BY <1>4, <1>8 DEF CreateFails, GetFails, ReclaimFails, MarkSucceeded,
                    MarkFailedRetryable, MarkFails, StopRenewal, Crash
<1>9. ASSUME NEW r \in Requests, Begin(r) \/ Operate(r) \/ Renew(r) \/ RenewalDeadline(r)
      PROVE  Goal
  BY <1>3, <1>9 DEF Begin, Operate, Renew, RenewalDeadline
<1>10. ASSUME CleanupOnce \/ Tick \/ UNCHANGED vars PROVE Goal
  BY <1>3, <1>10 DEF CleanupOnce, Tick, vars
<1> QED
  BY <1>6, <1>7, <1>8, <1>9, <1>10 DEF Next, Request

(* Execute replays only the response of a request with the same key and    *)
(* payload whose operation did take effect: no mark that lands on another  *)
(* owner's claim, no reclaim, deletion or new insert of the row mixes up   *)
(* responses.                                                              *)
THEOREM ReplaysAreFaithful == Spec => []ReplayFaithful
<1>1. Init => ReplayInv
  <2> SUFFICES ASSUME Init PROVE ReplayInv
    OBVIOUS
  <2>1. TypeOK
    BY DEF Init, TypeOK, NoRow, At, Row, Local, Statuses, Replies
  <2>2. Inv /\ PhaseInv
    BY <2>1 DEF Init, Inv, LocalInv, OwnerInv, PhaseInv, Executing, At
  <2>3. IdInv
    BY RequestAssumption DEF Init, IdInv, Executing, At, NoRow
  <2>4. BodyInv /\ ReplayFaithful
    BY RequestAssumption DEF Init, BodyInv, Fits, ReplayFaithful, NoRow
  <2> QED
    BY <2>2, <2>3, <2>4 DEF ReplayInv
<1>2. ReplayInv /\ [Next]_vars => ReplayInv'
  <2>1. ReplayInv /\ [Next]_vars => Inv' /\ PhaseInv'
    BY TypeStep, LocalStep, OwnerStep, PhaseStep DEF Inv, ReplayInv
  <2> QED
    BY <2>1, IdStep, ReplayStep DEF ReplayInv
<1>3. ReplayInv => ReplayFaithful
  BY DEF ReplayInv
<1> QED
  BY <1>1, <1>2, <1>3, PTL DEF Spec

=============================================================================

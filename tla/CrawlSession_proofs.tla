------------------------ MODULE CrawlSession_proofs ------------------------
(***************************************************************************)
(* Theorems about CrawlSession and about Applications, which extends it,   *)
(* for any sessions, requests, versions, deletions and schedule changes.   *)
(*                                                                         *)
(* CrawlSession:                                                           *)
(*   TypeCorrect          - every behaviour is well typed, all faults;     *)
(*   ClaimIsExclusive     - the compare-and-set of startSession is a lock, *)
(*                          all faults;                                    *)
(*   QueuedInOneStretch, RevivedByPauseOnly - what a late write cannot do, *)
(*                          all faults;                                    *)
(*   QueuedSessionCarried - no session waits for nothing, as long as the   *)
(*                          API does not crash, removeCrawlJob does not    *)
(*                          fail and no job key expires;                   *)
(*   AbortsReachStarts    - an abort leaves a mark for a start under way,  *)
(*                          as long as Redis fails neither an enqueue nor  *)
(*                          a removal.                                     *)
(*                                                                         *)
(* Applications:                                                           *)
(*   AppTypeCorrect       - every behaviour is well typed, all faults;     *)
(*   AppAbortsReachStarts - the abort of a deletion leaves a mark too;     *)
(*   DeletionsAbortFirst  - a row goes once its session is past its start, *)
(*                          and leaves no start that would run it;         *)
(*   SchedulesCanRun      - a schedule that is switched on can run, but    *)
(*                          for the two exceptions its property names;     *)
(*                          all faults.                                    *)
(***************************************************************************)
EXTENDS Applications, TLAPS

-----------------------------------------------------------------------------
(* Type correctness                                                        *)

\* The initial state is well typed.
LEMMA TypeInit == Init => TypeOK
  BY DEF Init, TypeOK, NoRow, Request

\* Every step of a new request keeps the state well typed.
LEMMA TypeArrive ==
  ASSUME TypeOK, NEW r \in Requests, NEW s \in Sessions, Arrive(r, s)
  PROVE  TypeOK'
<1> USE DEF TypeOK, Request, StartReq, ManualReq, PauseReq, AbortReq, DeleteReq,
            redis, SetRow, Status, NoRow, Active, Terminal
<1>1. CASE CreateManual(r, s) BY <1>1 DEF CreateManual
<1>2. CASE StartRead(r, s) BY <1>2 DEF StartRead
<1>3. CASE PauseRead(r, s) BY <1>3 DEF PauseRead
<1>4. CASE AbortRead(r, s) BY <1>4 DEF AbortRead
<1>5. CASE DeleteRead(r, s) BY <1>5 DEF DeleteRead
<1> QED BY <1>1, <1>2, <1>3, <1>4, <1>5 DEF Arrive

\* What a request in flight is made of follows from the handler it is in.
LEMMA KindOfRequest ==
  ASSUME TypeOK, NEW r \in Requests
  PROVE  /\ req[r].op = "start"  => req[r] \in StartReq
         /\ req[r].op = "manual" => req[r] \in ManualReq
         /\ req[r].op = "pause"  => req[r] \in PauseReq
         /\ req[r].op = "abort"  => req[r] \in AbortReq
         /\ req[r].op = "delete" => req[r] \in DeleteReq
  BY DEF TypeOK, Request, StartReq, ManualReq, PauseReq, AbortReq, DeleteReq, Idle

\* Every step of a request in flight keeps the state well typed.
LEMMA TypeAdvance ==
  ASSUME TypeOK, NEW r \in Requests, Advance(r)
  PROVE  TypeOK'
<1> USE KindOfRequest
    DEF TypeOK, Request, StartReq, ManualReq, PauseReq, AbortReq, DeleteReq, redis,
        SetRow, Goto, Done, At, Status, NoRow, Active, Terminal
<1>1. CASE ManualEnqueue(r) BY <1>1 DEF ManualEnqueue, EnqueueArqJob
<1>2. CASE ManualEnqueueThrows(r) BY <1>2 DEF ManualEnqueueThrows, EnqueueArqJob
<1>3. CASE ManualFail(r) BY <1>3 DEF ManualFail
<1>4. CASE StartClaim(r) BY <1>4 DEF StartClaim, Claimed
<1>5. CASE StartEnqueue(r) BY <1>5 DEF StartEnqueue, EnqueueArqJob
<1>6. CASE StartEnqueueThrows(r) BY <1>6 DEF StartEnqueueThrows, EnqueueArqJob
<1>7. CASE StartUndo(r) BY <1>7 DEF StartUndo
<1>8. CASE PauseWrite(r) BY <1>8 DEF PauseWrite
<1>9. CASE AbortWrite(r) BY <1>9 DEF AbortWrite
<1>10. CASE AbortRemove(r) BY <1>10 DEF AbortRemove, AbortCrawlSession
<1>11. CASE DeleteRemove(r) BY <1>11 DEF DeleteRemove, AbortCrawlSession
<1>12. CASE DeleteWrite(r) BY <1>12 DEF DeleteWrite
<1>13. CASE DeleteDrop(r) BY <1>13 DEF DeleteDrop
<1>14. CASE RemoveThrows(r) BY <1>14 DEF RemoveThrows, AbortCrawlSession
<1> QED
  BY <1>1, <1>2, <1>3, <1>4, <1>5, <1>6, <1>7, <1>8, <1>9, <1>10, <1>11, <1>12,
     <1>13, <1>14 DEF Advance

\* So does every step of the worker and of Redis, and a creation.
LEMMA TypeOutside ==
  ASSUME TypeOK, NEW s \in Sessions,
         CreateSession(s) \/ Worker(s) \/ ResultExpires(s) \/ JobExpires(s)
  PROVE  TypeOK'
<1> USE DEF TypeOK, redis, SetRow, Status, NoRow, Active, Terminal, FinishJob
<1>1. CASE CreateSession(s) BY <1>1 DEF CreateSession
<1>2. CASE WorkerTake(s) BY <1>2 DEF WorkerTake
<1>3. CASE WorkerBegin(s) BY <1>3 DEF WorkerBegin
<1>4. CASE WorkerEnd(s) BY <1>4 DEF WorkerEnd
<1>5. CASE WorkerCancel(s) BY <1>5 DEF WorkerCancel
<1>6. CASE ResultExpires(s) BY <1>6 DEF ResultExpires
<1>7. CASE JobExpires(s) BY <1>7 DEF JobExpires
<1> QED BY <1>1, <1>2, <1>3, <1>4, <1>5, <1>6, <1>7 DEF Worker

\* Every step keeps the state well typed.
LEMMA TypeStep == TypeOK /\ [Next]_vars => TypeOK'
<1> SUFFICES ASSUME TypeOK, [Next]_vars PROVE TypeOK'
  OBVIOUS
<1>1. CASE \E s \in Sessions : CreateSession(s) \/ Worker(s) \/ ResultExpires(s) \/ JobExpires(s)
  BY <1>1, TypeOutside
<1>2. CASE \E r \in Requests, s \in Sessions : Arrive(r, s) BY <1>2, TypeArrive
<1>3. CASE \E r \in Requests : Advance(r) BY <1>3, TypeAdvance
<1>4. CASE Crash BY <1>4 DEF Crash, TypeOK, redis, Request
<1>5. CASE UNCHANGED vars BY <1>5 DEF vars, TypeOK
<1> QED BY <1>1, <1>2, <1>3, <1>4, <1>5 DEF Next

\* The state is well typed in every behaviour, whatever goes wrong.
THEOREM TypeCorrect == Spec => []TypeOK
  BY TypeInit, TypeStep, PTL DEF Spec

-----------------------------------------------------------------------------
(* The compare-and-set of startSession is a lock                           *)

\* Strengthening: while a start holds its claim the row cannot be claimed, so
\* it is neither NEW nor about to be created.
NewIsUnclaimed ==
    \A r \in Requests, s \in Sessions : StartsNew(r, s) => row[s] \notin {"absent", "NEW"}

ClaimInv == TypeOK /\ StartClaimExclusive /\ NewIsUnclaimed

\* A request that takes a step without entering a claim, over rows that do not
\* go back to NEW, keeps the lock.
LEMMA ClaimKept ==
  ASSUME ClaimInv,
         \A r \in Requests, s \in Sessions : StartsNew(r, s)' => StartsNew(r, s),
         \A s \in Sessions : row'[s] \in {"absent", "NEW"} => row'[s] = row[s]
  PROVE  (StartClaimExclusive /\ NewIsUnclaimed)'
  BY DEF ClaimInv, StartClaimExclusive, NewIsUnclaimed

\* Every step of a request in flight keeps the lock.
LEMMA ClaimAdvance ==
  ASSUME ClaimInv, NEW r \in Requests, Advance(r)
  PROVE  (StartClaimExclusive /\ NewIsUnclaimed)'
<1> USE KindOfRequest
    DEF ClaimInv, TypeOK, StartReq, ManualReq, PauseReq, AbortReq, DeleteReq,
        SetRow, Goto, Done, At, StartsNew, Idle
<1>1. CASE ManualEnqueue(r) BY <1>1, ClaimKept DEF ManualEnqueue
<1>2. CASE ManualEnqueueThrows(r) BY <1>2, ClaimKept DEF ManualEnqueueThrows
<1>3. CASE ManualFail(r) BY <1>3, ClaimKept DEF ManualFail
<1>4. CASE StartClaim(r)
  <2> DEFINE s == req[r].sess
  <2>1. CASE row[s] = "NEW" /\ req[r].seen = "NEW"
    BY <1>4, <2>1 DEF StartClaim, Claimed, StartClaimExclusive, NewIsUnclaimed
  <2>2. CASE ~(row[s] = "NEW" /\ req[r].seen = "NEW")
    BY <1>4, <2>2, ClaimKept DEF StartClaim, Claimed
  <2> QED BY <2>1, <2>2
<1>5. CASE StartEnqueue(r) BY <1>5, ClaimKept DEF StartEnqueue
<1>6. CASE StartEnqueueThrows(r) BY <1>6, ClaimKept DEF StartEnqueueThrows
<1>7. CASE StartUndo(r)
  <2> DEFINE s == req[r].sess
  <2>1. CASE req[r].seen = "NEW"
    BY <1>7, <2>1 DEF StartUndo, Claimed, StartClaimExclusive, NewIsUnclaimed
  <2>2. CASE req[r].seen = "PAUSED" BY <1>7, <2>2, ClaimKept DEF StartUndo, Claimed
  <2> QED BY <1>7, <2>1, <2>2 DEF StartUndo
<1>8. CASE PauseWrite(r) BY <1>8, ClaimKept DEF PauseWrite
<1>9. CASE AbortWrite(r) BY <1>9, ClaimKept DEF AbortWrite
<1>10. CASE AbortRemove(r) BY <1>10, ClaimKept DEF AbortRemove
<1>11. CASE DeleteRemove(r) BY <1>11, ClaimKept DEF DeleteRemove
<1>12. CASE DeleteWrite(r) BY <1>12, ClaimKept DEF DeleteWrite
<1>13. CASE DeleteDrop(r) BY <1>13, ClaimKept DEF DeleteDrop
<1>14. CASE RemoveThrows(r) BY <1>14, ClaimKept DEF RemoveThrows
<1> QED
  BY <1>1, <1>2, <1>3, <1>4, <1>5, <1>6, <1>7, <1>8, <1>9, <1>10, <1>11, <1>12,
     <1>13, <1>14 DEF Advance

\* New requests, the worker, Redis and a crash keep it too.
LEMMA ClaimStep == ClaimInv /\ [Next]_vars => ClaimInv'
<1> SUFFICES ASSUME ClaimInv, [Next]_vars PROVE (StartClaimExclusive /\ NewIsUnclaimed)'
  BY TypeStep DEF ClaimInv
<1> USE DEF ClaimInv, TypeOK, SetRow, StartsNew, Idle
<1>1. ASSUME NEW s \in Sessions, CreateSession(s) PROVE (StartClaimExclusive /\ NewIsUnclaimed)'
  BY <1>1 DEF CreateSession, StartClaimExclusive, NewIsUnclaimed
<1>2. ASSUME NEW r \in Requests, NEW s \in Sessions, Arrive(r, s)
      PROVE  (StartClaimExclusive /\ NewIsUnclaimed)'
  BY <1>2, ClaimKept DEF Arrive, CreateManual, StartRead, PauseRead, AbortRead, DeleteRead
<1>3. CASE \E r \in Requests : Advance(r) BY <1>3, ClaimAdvance
<1>4. ASSUME NEW s \in Sessions, Worker(s) \/ ResultExpires(s) \/ JobExpires(s)
      PROVE  (StartClaimExclusive /\ NewIsUnclaimed)'
  BY <1>4, ClaimKept
     DEF Worker, WorkerTake, WorkerBegin, WorkerEnd, WorkerCancel, ResultExpires, JobExpires
<1>5. CASE Crash BY <1>5, ClaimKept DEF Crash
<1>6. CASE UNCHANGED vars BY <1>6, ClaimKept DEF vars
<1> QED BY <1>1, <1>2, <1>3, <1>4, <1>5, <1>6 DEF Next

\* Of any number of concurrent starts of a NEW session, at most one is between
\* its claim and its enqueue, whatever fails or crashes.
THEOREM ClaimIsExclusive == Spec => []StartClaimExclusive
<1>1. Init => ClaimInv
  BY TypeInit DEF Init, ClaimInv, StartClaimExclusive, NewIsUnclaimed, StartsNew, Idle
<1>2. ClaimInv => StartClaimExclusive BY DEF ClaimInv
<1> QED BY <1>1, <1>2, ClaimStep, PTL DEF Spec

-----------------------------------------------------------------------------
(* What a late write cannot do                                             *)

\* No step takes a session back to NEW or QUEUED once it has moved on, and no
\* step but the write of a pause takes it out of a terminal status.
LEMMA RowStep ==
  ASSUME TypeOK, [Next]_vars, NEW s \in Sessions
  PROVE  /\ row[s] \notin {"absent", "NEW", "QUEUED"} => row'[s] \notin {"NEW", "QUEUED"}
         /\ row[s] \in Terminal => row'[s] \in Terminal \cup {"PAUSED", "gone"}
<1> USE DEF TypeOK, SetRow, Terminal
<1>1. ASSUME NEW t \in Sessions, CreateSession(t) \/ Worker(t) \/ ResultExpires(t) \/ JobExpires(t)
      PROVE  row'[s] = row[s] \/ row[s] = "absent"
                \/ (row[s] \in {"NEW", "QUEUED", "RUNNING"} /\ row'[s] \in Terminal \cup {"RUNNING"})
  BY <1>1 DEF CreateSession, Worker, WorkerTake, WorkerBegin, WorkerEnd, WorkerCancel,
              ResultExpires, JobExpires
<1>2. ASSUME NEW r \in Requests, NEW t \in Sessions, Arrive(r, t)
      PROVE  row'[s] = row[s] \/ row[s] = "absent"
  BY <1>2 DEF Arrive, CreateManual, StartRead, PauseRead, AbortRead, DeleteRead
<1>3. ASSUME NEW r \in Requests, Advance(r)
      PROVE  \/ row'[s] = row[s]
             \/ row[s] = "NEW" /\ row'[s] = "QUEUED"
             \/ row[s] = "PAUSED" /\ row'[s] = "RUNNING"
             \/ row[s] = "QUEUED" /\ row'[s] = "NEW"
             \/ row[s] = "RUNNING" /\ row'[s] = "PAUSED"
             \/ row'[s] \in Terminal \cup {"PAUSED", "gone"}
  <2> USE KindOfRequest
      DEF At, StartReq, ManualReq, PauseReq, AbortReq, DeleteReq
  <2>1. CASE StartClaim(r) BY <1>3, <2>1 DEF StartClaim, Claimed
  <2>2. CASE StartUndo(r) BY <1>3, <2>2 DEF StartUndo, Claimed
  <2>3. CASE ~StartClaim(r) /\ ~StartUndo(r)
    BY <1>3, <2>3
       DEF Advance, ManualEnqueue, ManualEnqueueThrows, ManualFail, StartEnqueue,
           StartEnqueueThrows, PauseWrite, AbortWrite, AbortRemove, DeleteRemove,
           DeleteWrite, DeleteDrop, RemoveThrows
  <2> QED BY <2>1, <2>2, <2>3
<1>4. CASE Crash \/ UNCHANGED vars BY <1>4 DEF Crash, vars
<1> QED BY <1>1, <1>2, <1>3, <1>4 DEF Next

\* A session is queued in one stretch of its life, whatever fails or crashes.
THEOREM QueuedInOneStretch == Spec => StartedOnce
<1>1. TypeOK /\ [Next]_vars =>
        [\A s \in Sessions : row[s] \notin {"absent", "NEW", "QUEUED"}
                               => row'[s] \notin {"NEW", "QUEUED"}]_vars
  BY RowStep
<1> QED BY <1>1, TypeCorrect, PTL DEF Spec, StartedOnce

\* A session that ended is revived by a late pause or not at all.
THEOREM RevivedByPauseOnly == Spec => OnlyPauseRevives
<1>1. TypeOK /\ [Next]_vars =>
        [\A s \in Sessions : row[s] \in Terminal
                               => row'[s] \in Terminal \cup {"PAUSED", "gone"}]_vars
  BY RowStep
<1> QED BY <1>1, TypeCorrect, PTL DEF Spec, OnlyPauseRevives

-----------------------------------------------------------------------------
(* No session waits for nothing                                            *)

\* Not yet run.
Early(s) == row[s] \in {"NEW", "QUEUED"}

\* A deletion that has removed the job of s and is about to write ABORTED.
Deleting(s) == \E r \in Requests : At(r, "delete", "write") /\ req[r].sess = s

\* What would make the worker drop a job of s, or the script refuse a new one.
Disturbed(s) == s \in aborts \/ s \in results \/ (s \in queued /\ s \notin jobKeys)

\* Only a deletion disturbs the queue under a session not yet run.
Undisturbed == \A s \in Sessions : Early(s) /\ Disturbed(s) => Deleting(s)

\* A running job, and an abort about to remove a job, found the row moved on.
RunIsLate   == \A s \in Sessions : worker[s] = "running" => ~Early(s)
AbortIsLate == \A r \in Requests : At(r, "abort", "remove") => ~Early(req[r].sess)

\* A session that is not created has left no trace.
Fresh ==
    \A s \in Sessions : row[s] = "absent" =>
        /\ s \notin aborts \cup results \cup queued
        /\ worker[s] = "idle"
        /\ \A r \in Requests : req[r] # Idle => req[r].sess # s

CarriedInv ==
    /\ TypeOK
    /\ QueuedIsCarried
    /\ Undisturbed
    /\ jobKeys \subseteq queued
    /\ RunIsLate
    /\ AbortIsLate
    /\ Fresh

\* New requests keep the invariant.
LEMMA CarriedArrive ==
  ASSUME CarriedInv, NEW r \in Requests, NEW s \in Sessions, Arrive(r, s), TypeOK'
  PROVE  CarriedInv'
<1> USE DEF CarriedInv, QueuedIsCarried, Undisturbed, RunIsLate, AbortIsLate, Fresh,
            Early, Deleting, Disturbed, HasJob, Settling, StartsNew, At, Idle, redis,
            SetRow, TypeOK
<1>1. CASE CreateManual(r, s) BY <1>1 DEF CreateManual
<1>2. CASE StartRead(r, s) BY <1>2 DEF StartRead
<1>3. CASE PauseRead(r, s) BY <1>3 DEF PauseRead
<1>4. CASE AbortRead(r, s) BY <1>4 DEF AbortRead, Active
<1>5. CASE DeleteRead(r, s) BY <1>5 DEF DeleteRead, Exists, NoRow
<1> QED BY <1>1, <1>2, <1>3, <1>4, <1>5 DEF Arrive

\* Requests in flight keep it, as long as no removal fails half-way.
LEMMA CarriedAdvance ==
  ASSUME CarriedInv, NEW r \in Requests, Advance(r), TypeOK', "remove" \notin Faults
  PROVE  CarriedInv'
<1> USE KindOfRequest
    DEF CarriedInv, QueuedIsCarried, Undisturbed, RunIsLate, AbortIsLate, Fresh,
        Early, Deleting, Disturbed, HasJob, Settling, StartsNew, At, Idle, redis,
        SetRow, Goto, Done, TypeOK, StartReq, ManualReq, PauseReq, AbortReq, DeleteReq
<1>1. CASE ManualEnqueue(r) BY <1>1 DEF ManualEnqueue, EnqueueArqJob
<1>2. CASE ManualEnqueueThrows(r) BY <1>2 DEF ManualEnqueueThrows, EnqueueArqJob
<1>3. CASE ManualFail(r) BY <1>3 DEF ManualFail, Exists, NoRow
<1>4. CASE StartClaim(r) BY <1>4 DEF StartClaim, Claimed
<1>5. CASE StartEnqueue(r) BY <1>5 DEF StartEnqueue, EnqueueArqJob
<1>6. CASE StartEnqueueThrows(r) BY <1>6 DEF StartEnqueueThrows, EnqueueArqJob
<1>7. CASE StartUndo(r) BY <1>7 DEF StartUndo, Claimed
<1>8. CASE PauseWrite(r) BY <1>8 DEF PauseWrite, Exists, NoRow
<1>9. CASE AbortWrite(r) BY <1>9 DEF AbortWrite, Exists, NoRow
<1>10. CASE AbortRemove(r) BY <1>10 DEF AbortRemove, AbortCrawlSession
<1>11. CASE DeleteRemove(r) BY <1>11 DEF DeleteRemove, AbortCrawlSession
<1>12. CASE DeleteWrite(r) BY <1>12 DEF DeleteWrite, Exists, NoRow
<1>13. CASE DeleteDrop(r) BY <1>13 DEF DeleteDrop
<1>14. ~RemoveThrows(r) BY DEF RemoveThrows
<1> QED
  BY <1>1, <1>2, <1>3, <1>4, <1>5, <1>6, <1>7, <1>8, <1>9, <1>10, <1>11, <1>12,
     <1>13, <1>14 DEF Advance

\* What a step outside the API does to the rows and the queue: it makes no row
\* early, and takes nothing from an early row but what a deletion disturbed.
SparesEarly ==
    /\ UNCHANGED req
    /\ (jobKeys \subseteq queued)'
    /\ \A t \in Sessions :
         /\ Early(t)' => Early(t) /\ worker'[t] # "running"
         /\ row'[t] = "QUEUED" => row[t] = "QUEUED"
         /\ Early(t)' /\ Disturbed(t)' => Disturbed(t)
         /\ row'[t] = "QUEUED" /\ HasJob(t) => HasJob(t)' \/ Disturbed(t)
         /\ row'[t] = "absent" =>
              /\ row[t] = "absent"
              /\ t \notin (aborts \cup results \cup queued)'
              /\ worker'[t] = "idle"

\* Such a step keeps the invariant.
LEMMA CarriedSpared ==
  ASSUME CarriedInv, TypeOK', SparesEarly
  PROVE  CarriedInv'
<1> USE DEF CarriedInv, SparesEarly
<1>1. \A t \in Sessions : Deleting(t)' <=> Deleting(t)
  BY DEF Deleting, At
<1>2. \A t \in Sessions : (Settling(t) => Settling(t)') /\ (Deleting(t) => Settling(t)')
  BY DEF Settling, StartsNew, Deleting, At
<1>3. QueuedIsCarried' BY <1>2 DEF QueuedIsCarried, Undisturbed, Early
<1>4. Undisturbed' BY <1>1 DEF Undisturbed
<1>5. RunIsLate' BY DEF RunIsLate
<1>6. AbortIsLate'
  <2> SUFFICES ASSUME NEW r \in Requests, At(r, "abort", "remove") PROVE ~Early(req[r].sess)'
    BY DEF AbortIsLate, At
  <2>1. req[r].sess \in Sessions BY KindOfRequest DEF At, AbortReq
  <2> QED BY <2>1 DEF AbortIsLate, Early
<1>7. Fresh' BY DEF Fresh
<1> QED BY <1>3, <1>4, <1>5, <1>6, <1>7

\* Every step of the worker is such a step, and so is a result that expires.
LEMMA CarriedOutside ==
  ASSUME CarriedInv, NEW s \in Sessions, TypeOK', Worker(s) \/ ResultExpires(s)
  PROVE  CarriedInv'
<1>1. RunIsLate /\ Fresh /\ TypeOK /\ jobKeys \subseteq queued
  BY DEF CarriedInv
<1> USE <1>1 DEF redis, SetRow, FinishJob, TypeOK, Early, Disturbed, HasJob, Fresh,
                 RunIsLate, SparesEarly
<1>2. ASSUME WorkerTake(s) PROVE SparesEarly BY <1>2 DEF WorkerTake
<1>3. ASSUME WorkerBegin(s) PROVE SparesEarly BY <1>3 DEF WorkerBegin
<1>4. ASSUME WorkerEnd(s) PROVE SparesEarly BY <1>4 DEF WorkerEnd
<1>5. ASSUME WorkerCancel(s) PROVE SparesEarly BY <1>5 DEF WorkerCancel
<1>6. ASSUME ResultExpires(s) PROVE SparesEarly BY <1>6 DEF ResultExpires
<1>7. SparesEarly BY <1>2, <1>3, <1>4, <1>5, <1>6 DEF Worker
<1> QED BY <1>7, CarriedSpared

\* A created row is NEW, and nothing disturbs it.
LEMMA CarriedCreate ==
  ASSUME CarriedInv, NEW s \in Sessions, TypeOK', CreateSession(s)
  PROVE  CarriedInv'
  BY DEF CreateSession, CarriedInv, QueuedIsCarried, Undisturbed, RunIsLate, AbortIsLate,
         Fresh, Early, Deleting, Disturbed, HasJob, Settling, StartsNew, At, Idle,
         redis, SetRow, TypeOK

\* Without a crash, a failing removal or an expired key, a QUEUED session always
\* has a job the worker can take or a request that settles it - even when
\* enqueues fail, and whether or not the script had run when they did.
THEOREM QueuedSessionCarried ==
  ASSUME Faults \subseteq {"enqueue"}
  PROVE  Spec => []QueuedIsCarried
<1>1. Init => CarriedInv
  BY TypeInit
     DEF Init, CarriedInv, QueuedIsCarried, Undisturbed, RunIsLate, AbortIsLate, Fresh,
         Early, Disturbed, At, Idle
<1>2. ASSUME CarriedInv, [Next]_vars PROVE CarriedInv'
  <2>1. TypeOK' BY <1>2, TypeStep DEF CarriedInv
  <2>2. CASE \E s \in Sessions : CreateSession(s) \/ Worker(s) \/ ResultExpires(s)
    BY <1>2, <2>1, <2>2, CarriedOutside, CarriedCreate
  <2>3. CASE \E r \in Requests, s \in Sessions : Arrive(r, s)
    BY <1>2, <2>1, <2>3, CarriedArrive
  <2>4. CASE \E r \in Requests : Advance(r) BY <1>2, <2>1, <2>4, CarriedAdvance
  <2>5. CASE UNCHANGED vars
    BY <1>2, <2>1, <2>5
       DEF vars, CarriedInv, QueuedIsCarried, Undisturbed, RunIsLate, AbortIsLate, Fresh,
           Early, Deleting, Disturbed, HasJob, Settling, StartsNew, At
  <2> QED BY <1>2, <2>2, <2>3, <2>4, <2>5 DEF Next, JobExpires, Crash
<1>3. CarriedInv => QueuedIsCarried BY DEF CarriedInv
<1> QED BY <1>1, <1>2, <1>3, PTL DEF Spec
-----------------------------------------------------------------------------
(* An abort reaches the start under way                                    *)

\* A start about to enqueue the first job of s, and a session before that job.
Starting(r, s)    == StartsNew(r, s) /\ req[r].pc = "enqueue"
BeforeItsJob(s)   == row[s] \in {"absent", "NEW"} \/ \E r \in Requests : Starting(r, s)

\* Up to there a session has left nothing the worker could take, and nobody
\* resumes or pauses it.
Untouched(s) ==
    /\ s \notin queued \cup jobKeys \cup results
    /\ worker[s] = "idle"
    /\ \A r \in Requests :
         req[r] # Idle /\ req[r].sess = s =>
            /\ req[r].op # "pause"
            /\ req[r].op = "start" => req[r].seen = "NEW"

\* The claim of a start is given up by its enqueue only, and the starts and the
\* manual creations are of different sessions.
NoUndo ==
    \A r \in Requests :
        /\ ~ At(r, "start", "undo")
        /\ ~ At(r, "manual", "fail")
        /\ req[r].op = "start" => req[r].sess \notin ManualSessions
        /\ req[r].op = "manual" =>
              /\ req[r].sess \in ManualSessions
              /\ row[req[r].sess] \notin {"absent", "NEW"}

\* A deletion writes ABORTED after it has marked the job.
DeletionMarks ==
    \A r \in Requests :
        At(r, "delete", "write") /\ BeforeItsJob(req[r].sess) => req[r].sess \in aborts

StartInv ==
    /\ ClaimInv
    /\ NoUndo
    /\ \A s \in Sessions : BeforeItsJob(s) => Untouched(s)
    /\ \A r \in Requests, s \in Sessions :
          Starting(r, s) => row[s] \in {"QUEUED", "ABORTED", "gone"}
    /\ DeletionMarks
    /\ AbortReachesStart

\* What every step does to a session before its job: it makes none so, and takes
\* no abort mark away.
StaysMarked ==
    \A s \in Sessions : BeforeItsJob(s)' =>
        BeforeItsJob(s) /\ (s \in aborts => s \in aborts')

\* New requests.
LEMMA StartArrive ==
  ASSUME StartInv, NEW r \in Requests, NEW s \in Sessions, Arrive(r, s), ClaimInv'
  PROVE  StartInv' /\ StaysMarked
<1> USE DEF StartInv, ClaimInv, NoUndo, BeforeItsJob, Starting, Untouched, DeletionMarks,
            AbortReachesStart, StaysMarked, StartsNew, At, Idle, redis, SetRow, TypeOK
<1>1. CASE CreateManual(r, s) BY <1>1 DEF CreateManual
<1>2. CASE StartRead(r, s) BY <1>2 DEF StartRead
<1>3. CASE PauseRead(r, s) BY <1>3 DEF PauseRead
<1>4. CASE AbortRead(r, s) BY <1>4 DEF AbortRead
<1>5. CASE DeleteRead(r, s) BY <1>5 DEF DeleteRead
<1> QED BY <1>1, <1>2, <1>3, <1>4, <1>5 DEF Arrive

\* Requests in flight.
LEMMA StartAdvance ==
  ASSUME StartInv, NEW r \in Requests, Advance(r), ClaimInv',
         Faults \cap {"enqueue", "remove"} = {}
  PROVE  StartInv' /\ StaysMarked
<1> USE KindOfRequest
    DEF StartInv, ClaimInv, NoUndo, BeforeItsJob, Starting, Untouched, DeletionMarks,
        AbortReachesStart, StaysMarked, StartsNew, At, Idle, redis, SetRow, Goto, Done,
        TypeOK, StartReq, ManualReq, PauseReq, AbortReq, DeleteReq
<1>1. CASE ManualEnqueue(r) BY <1>1 DEF ManualEnqueue, EnqueueArqJob
<1>3. CASE ManualFail(r) BY <1>3 DEF ManualFail
<1>4. CASE StartClaim(r) BY <1>4 DEF StartClaim, Claimed, NewIsUnclaimed
<1>5. CASE StartEnqueue(r)
  BY <1>5 DEF StartEnqueue, EnqueueArqJob, StartClaimExclusive, NewIsUnclaimed
<1>7. CASE StartUndo(r) BY <1>7 DEF StartUndo
<1>8. CASE PauseWrite(r) BY <1>8 DEF PauseWrite, Exists, NoRow
<1>9. CASE AbortWrite(r) BY <1>9 DEF AbortWrite, Exists, NoRow
<1>10. CASE AbortRemove(r) BY <1>10 DEF AbortRemove, AbortCrawlSession
<1>11. CASE DeleteRemove(r) BY <1>11 DEF DeleteRemove, AbortCrawlSession
<1>12. CASE DeleteWrite(r) BY <1>12 DEF DeleteWrite, Exists, NoRow
<1>13. CASE DeleteDrop(r) BY <1>13 DEF DeleteDrop
<1> QED
  BY <1>1, <1>3, <1>4, <1>5, <1>7, <1>8, <1>9, <1>10, <1>11, <1>12, <1>13
  DEF Advance, ManualEnqueueThrows, StartEnqueueThrows, RemoveThrows

\* Creations, the worker, Redis and a crash.
LEMMA StartOutside ==
  ASSUME StartInv, NEW s \in Sessions, ClaimInv',
         \/ CreateSession(s) \/ Worker(s) \/ ResultExpires(s) \/ JobExpires(s)
         \/ Crash \/ UNCHANGED vars
  PROVE  StartInv' /\ StaysMarked
<1> USE DEF StartInv, ClaimInv, NoUndo, BeforeItsJob, Starting, Untouched, DeletionMarks,
            AbortReachesStart, StaysMarked, StartsNew, At, Idle, redis, SetRow, FinishJob,
            TypeOK
<1>1. CASE CreateSession(s) BY <1>1 DEF CreateSession
<1>2. CASE WorkerTake(s) BY <1>2 DEF WorkerTake
<1>3. CASE worker[s] # "idle" /\ (WorkerBegin(s) \/ WorkerEnd(s))
  <2>1. /\ ~ BeforeItsJob(s)
        /\ UNCHANGED <<aborts, req>>
        /\ results' \subseteq results \cup {s} /\ jobKeys' \subseteq jobKeys
        /\ queued' \subseteq queued
        /\ \A t \in Sessions \ {s} : row'[t] = row[t] /\ worker'[t] = worker[t]
        /\ row'[s] \notin {"absent", "NEW"} /\ (row'[s] = "ABORTED" <=> row[s] = "ABORTED")
    BY <1>3 DEF WorkerBegin, WorkerEnd
  <2>2. \A t \in Sessions : BeforeItsJob(t)' => BeforeItsJob(t) /\ t # s BY <2>1
  <2>3. \A t \in Sessions : BeforeItsJob(t)' => Untouched(t)' BY <2>1, <2>2
  <2>9. \A r \in Requests : req[r].op \in {"manual", "delete"} => req[r].sess \in Sessions
    BY KindOfRequest DEF ManualReq, DeleteReq
  <2>4. NoUndo' BY <2>1, <2>9
  <2>5. DeletionMarks' BY <2>1, <2>2, <2>9
  <2>6. AbortReachesStart' BY <2>1
  <2>7. \A r \in Requests, t \in Sessions : Starting(r, t)' => row'[t] \in {"QUEUED", "ABORTED", "gone"}
    BY <2>1
  <2>8. StaysMarked BY <2>1, <2>2
  <2> QED BY <2>3, <2>4, <2>5, <2>6, <2>7, <2>8
<1>5. CASE WorkerCancel(s) BY <1>5 DEF WorkerCancel
<1>6. CASE ResultExpires(s) \/ JobExpires(s) BY <1>6 DEF ResultExpires, JobExpires
<1>7. CASE Crash BY <1>7 DEF Crash
<1>8. CASE UNCHANGED vars BY <1>8 DEF vars
<1> QED
  BY <1>1, <1>2, <1>3, <1>5, <1>6, <1>7, <1>8 DEF Worker, WorkerBegin, WorkerEnd

\* So every step keeps the invariant.
LEMMA StartStep ==
  ASSUME StartInv, [Next]_vars, Faults \subseteq {"crash", "expire"}
  PROVE  StartInv' /\ StaysMarked
<1>1. ClaimInv' BY ClaimStep DEF StartInv
<1>2. Faults \cap {"enqueue", "remove"} = {} OBVIOUS
<1>3. CASE \E r \in Requests, s \in Sessions : Arrive(r, s) BY <1>1, <1>3, StartArrive
<1>4. CASE \E r \in Requests : Advance(r) BY <1>1, <1>2, <1>4, StartAdvance
<1>5. CASE \E s \in Sessions : \/ CreateSession(s) \/ Worker(s)
                               \/ ResultExpires(s) \/ JobExpires(s)
  BY <1>1, <1>5, StartOutside
<1>6. CASE Crash \/ UNCHANGED vars
  <2>1. CASE Sessions # {}
    BY <1>1, <1>6, <2>1, StartOutside
  <2>2. CASE Sessions = {}
    BY <1>1, <1>6, <2>2
    DEF StartInv, StaysMarked, NoUndo, DeletionMarks, AbortReachesStart, Crash, vars, At, Idle, BeforeItsJob, Starting, StartsNew
  <2> QED BY <2>1, <2>2
<1> QED BY <1>3, <1>4, <1>5, <1>6 DEF Next

LEMMA StartInit == Init => StartInv
  BY TypeInit DEF Init, StartInv, ClaimInv, StartClaimExclusive, NewIsUnclaimed, NoUndo,
     BeforeItsJob, Starting, Untouched, DeletionMarks, AbortReachesStart, StartsNew, At, Idle

\* An abort that lands between the claim and the enqueue of a start leaves a mark
\* for the job that start will enqueue, though the API crash and keys expire.
THEOREM AbortsReachStarts ==
  ASSUME Faults \subseteq {"crash", "expire"}
  PROVE  Spec => []AbortReachesStart
<1>1. StartInv => AbortReachesStart BY DEF StartInv
<1>2. StartInv /\ [Next]_vars => StartInv' BY StartStep
<1> QED BY <1>1, <1>2, StartInit, PTL DEF Spec

-----------------------------------------------------------------------------
(* Applications: type correctness                                          *)

\* A deletion in flight, by what it deletes.
LEMMA DeletionTypes ==
  ASSUME AppTypeOK, NEW d \in Deleters, deletion[d] # NoDeletion
  PROVE  /\ deletion[d] \in Deletion
         /\ deletion[d].there \subseteq Sessions
         /\ deletion[d].step \in [Sessions -> Branch]
         /\ deletion[d].of \in {"version", "app", "project"}
         /\ deletion[d].of = "version" => deletion[d].version \in Versions
         /\ DeletionAt(d, "deactivate") => deletion[d].of = "version"
         /\ DeletionAt(d, "artifacts") => deletion[d].of # "version"
  BY DEF AppTypeOK, Deletion, DeletionAt

\* What a deletion may turn into: another step, or the same with branches moved.
LEMMA DeletionMoves ==
  ASSUME NEW x \in Deletion
  PROVE  /\ [x EXCEPT !.pc = "drop"] \in Deletion
         /\ x.of = "version" => [x EXCEPT !.pc = "deactivate"] \in Deletion
         /\ x.of # "version" => [x EXCEPT !.pc = "artifacts"] \in Deletion
         /\ \A s \in Sessions, b \in Branch : [x EXCEPT !.step[s] = b] \in Deletion
         /\ \A there \in SUBSET Sessions, step \in [Sessions -> Branch] :
              [x EXCEPT !.pc = "abort", !.there = there, !.step = step] \in Deletion
  BY DEF Deletion, Branch

\* The part of the state that is not about sessions.
RestTypeOK ==
    /\ app \in {"live", "gone"}
    /\ version \in [Versions -> {"absent", "live", "gone"}]
    /\ deletion \in [Deleters -> Deletion \cup {NoDeletion}]
    /\ schedule \in Schedule \cup {NoSchedule}
    /\ edit \in [Editors -> Edit \cup {NoEdit}]

\* A deletion writes rows and the queue as the requests do.
LEMMA DeletionSessionType ==
  ASSUME AppTypeOK, NEW d \in Deleters, DeletionStep(d)
  PROVE  TypeOK'
<1> USE DEF AppTypeOK, TypeOK, redis, Status, NoRow, Terminal
<1>1. ASSUME NEW s \in Sessions, RemoveJob(d, s) PROVE TypeOK'
  BY <1>1 DEF RemoveJob, AbortCrawlSession
<1>2. ASSUME NEW s \in Sessions, WriteAborted(d, s) PROVE TypeOK'
  BY <1>2 DEF WriteAborted, SetRow
<1>3. CASE DropVersion(d) BY <1>3 DEF DropVersion, Cascade
<1>4. CASE DropApp(d) BY <1>4 DEF DropApp, Cascade
<1>5. CASE UNCHANGED sessionVars BY <1>5 DEF sessionVars, vars
<1>6. ASSUME ~ UNCHANGED sessionVars
      PROVE  (\E s \in Sessions : RemoveJob(d, s) \/ WriteAborted(d, s))
             \/ DropVersion(d) \/ DropApp(d)
  BY <1>6 DEF DeletionStep, DeleteVersionRead, DeleteAppRead, DeleteProjectRead, ListSessions,
              AllAborted, Deactivate, DeleteArtifacts
<1> QED BY <1>1, <1>2, <1>3, <1>4, <1>5, <1>6

\* What a deletion makes of its own slot.
LEMMA DeletionSlot ==
  ASSUME AppTypeOK, NEW d \in Deleters, DeletionStep(d)
  PROVE  \E x \in Deletion \cup {NoDeletion} : deletion' = [deletion EXCEPT ![d] = x]
<1> DEFINE x == deletion[d]
<1>1. NothingListed \in [Sessions -> Branch] BY DEF NothingListed, Branch
<1>2. CASE DeletionEnds(d) BY <1>2 DEF DeletionEnds
<1>3. ASSUME NEW v \in Versions, DeleteVersionRead(d, v)
      PROVE  \E y \in Deletion : deletion' = [deletion EXCEPT ![d] = y]
  <2>1. [of |-> "version", version |-> v, pc |-> "list", there |-> {},
         step |-> NothingListed] \in Deletion
    BY <1>1 DEF Deletion
  <2> QED BY <1>3, <2>1 DEF DeleteVersionRead
<1>4. ASSUME DeleteAppRead(d) PROVE \E y \in Deletion : deletion' = [deletion EXCEPT ![d] = y]
  <2>1. [of |-> "app", pc |-> "list", there |-> {}, step |-> NothingListed] \in Deletion
    BY <1>1 DEF Deletion
  <2> QED BY <1>4, <2>1 DEF DeleteAppRead
<1>5. ASSUME DeleteProjectRead(d)
      PROVE  \E y \in Deletion : deletion' = [deletion EXCEPT ![d] = y]
  <2>1. [of |-> "project", pc |-> "artifacts", there |-> {}, step |-> NothingListed] \in Deletion
    BY <1>1 DEF Deletion
  <2> QED BY <1>5, <2>1 DEF DeleteProjectRead
<1>6. ASSUME x \in Deletion, NEW pc \in {"deactivate", "artifacts", "drop"}, DeletionTo(d, pc),
             pc = "deactivate" => x.of = "version", pc = "artifacts" => x.of # "version"
      PROVE  \E y \in Deletion : deletion' = [deletion EXCEPT ![d] = y]
  <2>1. [x EXCEPT !.pc = pc] \in Deletion BY <1>6, DeletionMoves
  <2> QED BY <1>6, <2>1 DEF DeletionTo
<1>7. ASSUME ListSessions(d) PROVE \E y \in Deletion : deletion' = [deletion EXCEPT ![d] = y]
  <2> DEFINE there == {s \in Concerned(d) : Exists(s)}
             step  == [s \in Sessions |-> IF s \in Concerned(d) /\ row[s] \in AbortedStatus
                                            THEN "remove" ELSE "unlisted"]
  <2>1. there \in SUBSET Sessions /\ step \in [Sessions -> Branch]
    BY DEF Concerned, SessionsOf, Branch
  <2>2. x \in Deletion BY <1>7, DeletionTypes DEF ListSessions, DeletionAt
  <2>3. deletion' = [deletion EXCEPT ![d] = [x EXCEPT !.pc = "abort", !.there = there, !.step = step]]
    BY <1>7 DEF ListSessions
  <2> HIDE DEF there, step, x
  <2> QED BY <2>1, <2>2, <2>3, DeletionMoves
<1>8. ASSUME NEW s \in Sessions, NEW b \in Branch, x \in Deletion,
             deletion' = [deletion EXCEPT ![d].step[s] = b]
      PROVE  \E y \in Deletion : deletion' = [deletion EXCEPT ![d] = y]
  <2>1. [x EXCEPT !.step[s] = b] \in Deletion BY <1>8, DeletionMoves
  <2> QED BY <1>8, <2>1
<1>9. ASSUME NEW s \in Sessions, RemoveJob(d, s) \/ WriteAborted(d, s)
      PROVE  \E y \in Deletion : deletion' = [deletion EXCEPT ![d] = y]
  <2>1. x \in Deletion BY <1>9, DeletionTypes DEF RemoveJob, WriteAborted, DeletionAt
  <2>2. \E b \in Branch : deletion' = [deletion EXCEPT ![d].step[s] = b]
    BY <1>9 DEF RemoveJob, WriteAborted, Branch
  <2> HIDE DEF x
  <2> QED BY <1>8, <2>1, <2>2
<1>10. CASE AllAborted(d) \/ Deactivate(d) \/ DeleteArtifacts(d)
  <2>1. x \in Deletion BY <1>10, DeletionTypes DEF AllAborted, Deactivate, DeleteArtifacts, DeletionAt
  <2> QED BY <1>2, <1>6, <1>10, <2>1 DEF AllAborted, Deactivate, DeleteArtifacts
<1> HIDE DEF x
<1> QED
  BY <1>2, <1>3, <1>4, <1>5, <1>7, <1>9, <1>10 DEF DeletionStep, DropVersion, DropApp

\* What a request for a schedule makes of the columns.
LEMMA MergedTypes ==
  ASSUME NEW i \in Input, NEW seen \in Schedule
  PROVE  Merged(i, seen) \in Schedule
  BY DEF Merged, Or, Input, Schedule, Types, Modes

LEMMA BlankTypes ==
  ASSUME NEW i \in Creations
  PROVE  i \in Updates /\ i \in Input /\ Blank(i) \in Schedule
  BY InputsAssumption DEF Blank, Creations, Updates, Input, Schedule, Types, Modes

\* A change of the schedule in flight, by where it stands.
LEMMA EditTypes ==
  ASSUME AppTypeOK, NEW e \in Editors, edit[e] # NoEdit
  PROVE  edit[e] \in Edit /\ edit[e].new \in Schedule
  BY DEF AppTypeOK, Edit

\* The write of a schedule.
LEMMA WriteTypes ==
  ASSUME AppTypeOK, NEW new \in Schedule, WriteSchedule(new)
  PROVE  schedule' \in Schedule \cup {NoSchedule}
<1>1. \A b \in BOOLEAN : [new EXCEPT !.late = b] \in Schedule BY DEF Schedule
<1>2. (new.version = "none" \/ BeingDeleted(new.version)) \in BOOLEAN OBVIOUS
<1> QED BY <1>1, <1>2 DEF WriteSchedule, AppTypeOK

\* A change of the schedule keeps the types.
LEMMA ScheduleStepType ==
  ASSUME AppTypeOK, NEW e \in Editors, ScheduleStep(e)
  PROVE  RestTypeOK'
<1> USE DEF AppTypeOK, RestTypeOK
<1>1. ASSUME NEW op \in {"create", "update"}, NEW i \in Input, NEW seen \in Schedule,
             EditEnter(e, op, i, seen)
      PROVE  RestTypeOK'
  <2> DEFINE x == [op  |-> op,
                   pc  |-> IF i.mode = "FIXED_VERSION" /\ i.version # "same"
                             THEN "version" ELSE "write",
                   new |-> Merged(i, seen)]
  <2>1. x \in Edit BY MergedTypes DEF Edit
  <2> QED BY <1>1, <2>1 DEF EditEnter, EditSet
<1>2. ASSUME NEW i \in Creations, CreateScheduleEnter(e, i) PROVE RestTypeOK'
  BY <1>1, <1>2, BlankTypes DEF CreateScheduleEnter
<1>3. ASSUME NEW i \in Updates, UpdateScheduleEnter(e, i) PROVE RestTypeOK'
  <2>1. i \in Input /\ [schedule EXCEPT !.late = FALSE] \in Schedule
    BY <1>3, InputsAssumption DEF UpdateScheduleEnter, Updates, Schedule
  <2> QED BY <1>1, <1>3, <2>1 DEF UpdateScheduleEnter
<1>4. CASE RequireVersion(e)
  <2>1. edit[e] \in Edit BY <1>4, EditTypes DEF RequireVersion
  <2>2. [edit[e] EXCEPT !.pc = "write"] \in Edit BY <2>1 DEF Edit
  <2> QED BY <1>4, <2>2 DEF RequireVersion, EditEnds, EditSet
<1>5. CASE CreateScheduleWrite(e) \/ UpdateScheduleWrite(e)
  <2>1. edit[e] # NoEdit BY <1>5 DEF CreateScheduleWrite, UpdateScheduleWrite, EditAt, NoEdit
  <2>2. edit[e].new \in Schedule BY <2>1, EditTypes
  <2>3. schedule' \in Schedule \cup {NoSchedule}
    BY <1>5, <2>2, WriteTypes DEF CreateScheduleWrite, UpdateScheduleWrite
  <2> QED
    BY <1>5, <2>3 DEF CreateScheduleWrite, UpdateScheduleWrite, EditEnds, EditSet
<1> QED BY <1>2, <1>3, <1>4, <1>5 DEF ScheduleStep

\* So does a deletion.
LEMMA DeletionRestType ==
  ASSUME AppTypeOK, NEW d \in Deleters, DeletionStep(d)
  PROVE  RestTypeOK'
<1>1. deletion' \in [Deleters -> Deletion \cup {NoDeletion}]
  BY DeletionSlot DEF AppTypeOK
<1>2. schedule' \in Schedule \cup {NoSchedule}
  <2>1. CASE UNCHANGED schedule BY <2>1 DEF AppTypeOK
  <2>2. CASE Deactivate(d)
    BY <2>2 DEF Deactivate, ForVersion, AppTypeOK, Schedule
  <2>3. CASE DropVersion(d)
    BY <2>3 DEF DropVersion, ForVersion, AppTypeOK, Schedule
  <2>4. CASE DropApp(d) BY <2>4 DEF DropApp, AppTypeOK
  <2> QED
    BY <2>1, <2>2, <2>3, <2>4
    DEF DeletionStep, DeleteVersionRead, DeleteAppRead, DeleteProjectRead, ListSessions,
        RemoveJob, WriteAborted, AllAborted, DeleteArtifacts
<1>3. /\ app' \in {"live", "gone"}
      /\ version' \in [Versions -> {"absent", "live", "gone"}]
      /\ edit' = edit
  BY DEF DeletionStep, DeleteVersionRead, DeleteAppRead, DeleteProjectRead, ListSessions,
         RemoveJob, WriteAborted, AllAborted, Deactivate, DeleteArtifacts, DropVersion, DropApp,
         AppTypeOK
<1> QED BY <1>1, <1>2, <1>3 DEF RestTypeOK, AppTypeOK

LEMMA AppTypeInit == AppInit => AppTypeOK
  BY TypeInit DEF AppInit, AppTypeOK

LEMMA AppTypeStep == AppTypeOK /\ [AppNext]_appVars => AppTypeOK'
<1> SUFFICES ASSUME AppTypeOK, [AppNext]_appVars PROVE AppTypeOK'
  OBVIOUS
<1>1. TypeOK' /\ RestTypeOK' => AppTypeOK' BY DEF AppTypeOK, RestTypeOK
<1>2. CASE SessionStep
  <2>1. TypeOK' BY <1>2, TypeStep DEF SessionStep, AppTypeOK
  <2>2. RestTypeOK' BY <1>2 DEF SessionStep, rest, AppTypeOK, RestTypeOK
  <2> QED BY <1>1, <2>1, <2>2
<1>3. ASSUME NEW d \in Deleters, DeletionStep(d) PROVE AppTypeOK'
  BY <1>1, <1>3, DeletionSessionType, DeletionRestType
<1>4. ASSUME UNCHANGED sessionVars, RestTypeOK' PROVE AppTypeOK'
  <2>1. TypeOK' BY <1>4 DEF sessionVars, vars, TypeOK, AppTypeOK
  <2> QED BY <1>1, <1>4, <2>1
<1>5. ASSUME NEW e \in Editors, ScheduleStep(e) PROVE AppTypeOK'
  <2>1. UNCHANGED sessionVars
    BY <1>5 DEF ScheduleStep, CreateScheduleEnter, UpdateScheduleEnter, EditEnter,
                RequireVersion, CreateScheduleWrite, UpdateScheduleWrite
  <2> QED BY <1>4, <1>5, <2>1, ScheduleStepType
<1>6. CASE DeleteSchedule \/ (\E v \in Versions : CreateVersion(v)) \/ UNCHANGED appVars
  <2>1. UNCHANGED sessionVars BY <1>6 DEF DeleteSchedule, CreateVersion, appVars, sessionVars
  <2>2. RestTypeOK'
    BY <1>6 DEF DeleteSchedule, CreateVersion, appVars, RestTypeOK, AppTypeOK
  <2> QED BY <1>4, <2>1, <2>2
<1> QED BY <1>2, <1>3, <1>5, <1>6 DEF AppNext

\* The state is well typed in every behaviour, whatever goes wrong.
THEOREM AppTypeCorrect == AppSpec => []AppTypeOK
  BY AppTypeInit, AppTypeStep, PTL DEF AppSpec
-----------------------------------------------------------------------------
(* The abort of a deletion reaches the start under way                     *)

\* As the deletion of a session does, that of a version or of the application
\* writes ABORTED after it has marked the job.
AppDeletionMarks ==
    \A d \in Deleters, s \in Sessions :
        DeletionAt(d, "abort") /\ deletion[d].step[s] = "write" /\ BeforeItsJob(s)
            => s \in aborts

AppStartInv == AppTypeOK /\ StartInv /\ AppDeletionMarks

\* Rows that end in this step: a marked one may become ABORTED, any may go.
LEMMA RowsEnd ==
  ASSUME TypeOK, TypeOK', StartInv, UNCHANGED <<redis, worker, req>>,
         \A s \in Sessions : \/ row'[s] = row[s]
                             \/ Exists(s) /\ row'[s] = "gone"
                             \/ Exists(s) /\ row'[s] = "ABORTED" /\ (BeforeItsJob(s) => s \in aborts)
  PROVE  StartInv' /\ StaysMarked
<1> USE DEF redis
<1>1. ClaimInv'
  BY DEF StartInv, ClaimInv, StartClaimExclusive, NewIsUnclaimed, StartsNew, Exists, NoRow
<1>2. \A r \in Requests, s \in Sessions : Starting(r, s)' <=> Starting(r, s)
  BY DEF Starting, StartsNew
<1>3. \A s \in Sessions : BeforeItsJob(s)' => BeforeItsJob(s)
  BY <1>2 DEF BeforeItsJob, Exists, NoRow
<1>4. \A s \in Sessions : Untouched(s) => Untouched(s)' BY DEF Untouched
<1>5. NoUndo'
  <2>1. \A r \in Requests : req[r].op = "manual" => req[r].sess \in Sessions
    BY KindOfRequest DEF ManualReq
  <2> QED BY <2>1 DEF NoUndo, StartInv, At, Exists, NoRow
<1>6. \A r \in Requests, s \in Sessions : Starting(r, s)' => row'[s] \in {"QUEUED", "ABORTED", "gone"}
  BY <1>2 DEF StartInv
<1>7. DeletionMarks'
  <2>1. \A r \in Requests : At(r, "delete", "write") => req[r].sess \in Sessions
    BY KindOfRequest DEF DeleteReq, At
  <2> QED BY <1>3, <2>1 DEF DeletionMarks, StartInv, At
<1>8. AbortReachesStart'
  <2> SUFFICES ASSUME NEW r \in Requests, NEW s \in Sessions, Starting(r, s), row'[s] = "ABORTED"
               PROVE  s \in aborts \/ \E q \in Requests : At(q, "abort", "remove") /\ req[q].sess = s
    BY DEF AbortReachesStart, Starting, StartsNew, At
  <2>1. CASE row[s] = "ABORTED" BY <2>1 DEF StartInv, AbortReachesStart, Starting
  <2>2. CASE row[s] # "ABORTED" BY <2>2 DEF BeforeItsJob
  <2> QED BY <2>1, <2>2
<1> QED BY <1>1, <1>3, <1>4, <1>5, <1>6, <1>7, <1>8 DEF StartInv, StaysMarked

\* A job removed with its mark.
LEMMA JobGoes ==
  ASSUME TypeOK, TypeOK', StartInv, NEW s \in Sessions, UNCHANGED <<row, worker, req>>,
         AbortCrawlSession(s) \/ UNCHANGED redis
  PROVE  StartInv' /\ StaysMarked
<1>1. UNCHANGED results /\ aborts \subseteq aborts' /\ jobKeys' \subseteq jobKeys /\ queued' \subseteq queued
  BY DEF AbortCrawlSession, redis
<1> USE <1>1 DEF StartsNew, At
<1>2. ClaimInv' BY DEF StartInv, ClaimInv, StartClaimExclusive, NewIsUnclaimed
<1>3. \A t \in Sessions : (BeforeItsJob(t)' <=> BeforeItsJob(t)) /\ (Untouched(t) => Untouched(t)')
  BY DEF BeforeItsJob, Starting, Untouched
<1>4. NoUndo' BY DEF NoUndo, StartInv
<1>5. DeletionMarks'
  <2>1. \A r \in Requests : At(r, "delete", "write") => req[r].sess \in Sessions
    BY KindOfRequest DEF DeleteReq, At
  <2> QED BY <1>3, <2>1 DEF DeletionMarks, StartInv
<1>6. AbortReachesStart' BY DEF AbortReachesStart, StartInv
<1> QED BY <1>2, <1>3, <1>4, <1>5, <1>6 DEF StartInv, Starting, StaysMarked

\* A deletion keeps the sessions it aborts marked.
LEMMA DeletionStart ==
  ASSUME AppStartInv, TypeOK', NEW d \in Deleters, DeletionStep(d)
  PROVE  StartInv' /\ StaysMarked
<1> USE DEF AppStartInv, AppTypeOK
<1>1. ASSUME NEW s \in Sessions, RemoveJob(d, s) PROVE StartInv' /\ StaysMarked
  BY <1>1, JobGoes DEF RemoveJob
<1>2. ASSUME NEW s \in Sessions, WriteAborted(d, s) PROVE StartInv' /\ StaysMarked
  <2>1. BeforeItsJob(s) => s \in aborts BY <1>2 DEF WriteAborted, AppDeletionMarks
  <2>2. \A t \in Sessions : \/ row'[t] = row[t]
                            \/ t = s /\ Exists(t) /\ row'[t] = "ABORTED"
    BY <1>2 DEF WriteAborted, SetRow, TypeOK
  <2>3. UNCHANGED <<redis, worker, req>> BY <1>2 DEF WriteAborted
  <2> QED BY <2>1, <2>2, <2>3, RowsEnd
<1>3. CASE DropVersion(d) \/ DropApp(d)
  <2>1. \A t \in Sessions : row'[t] = row[t] \/ (Exists(t) /\ row'[t] = "gone")
    BY <1>3 DEF DropVersion, DropApp, Cascade
  <2>2. UNCHANGED <<redis, worker, req>> BY <1>3 DEF DropVersion, DropApp
  <2> QED BY <2>1, <2>2, RowsEnd
<1>4. CASE UNCHANGED sessionVars
  BY <1>4, RowsEnd DEF sessionVars, vars, redis
<1>5. ASSUME ~ UNCHANGED sessionVars
      PROVE  (\E s \in Sessions : RemoveJob(d, s) \/ WriteAborted(d, s))
             \/ DropVersion(d) \/ DropApp(d)
  BY <1>5 DEF DeletionStep, DeleteVersionRead, DeleteAppRead, DeleteProjectRead, ListSessions,
              AllAborted, Deactivate, DeleteArtifacts
<1> QED BY <1>1, <1>2, <1>3, <1>4, <1>5

\* A branch that is about to write has just marked its job.
LEMMA BranchMarks ==
  ASSUME AppTypeOK, [AppNext]_appVars, NEW d \in Deleters, NEW s \in Sessions,
         (DeletionAt(d, "abort") /\ deletion[d].step[s] = "write")'
  PROVE  \/ DeletionAt(d, "abort") /\ deletion[d].step[s] = "write"
         \/ s \in aborts'
<1>1. CASE deletion'[d] = deletion[d] BY <1>1 DEF DeletionAt
<1>2. CASE deletion'[d] # deletion[d]
  <2>1. DeletionStep(d)
    <3>1. PICK c \in Deleters : DeletionStep(c)
      BY <1>2 DEF AppNext, SessionStep, rest, CreateVersion, DeleteSchedule, ScheduleStep,
                  CreateScheduleEnter, UpdateScheduleEnter, EditEnter, RequireVersion,
                  CreateScheduleWrite, UpdateScheduleWrite, appVars
    <3>2. PICK x \in Deletion \cup {NoDeletion} : deletion' = [deletion EXCEPT ![c] = x]
      BY <3>1, DeletionSlot
    <3> QED BY <1>2, <3>1, <3>2 DEF AppTypeOK
  <2> USE DEF DeletionAt, AppTypeOK, NothingListed, DeletionTo, DeletionEnds
  <2>2. ASSUME NEW v \in Versions, DeleteVersionRead(d, v) PROVE FALSE
    BY <2>2 DEF DeleteVersionRead
  <2>3. CASE DeleteAppRead(d) \/ DeleteProjectRead(d)
    BY <2>3 DEF DeleteAppRead, DeleteProjectRead
  <2>4. CASE ListSessions(d)
    <3>1. deletion[d] \in Deletion BY <2>4, DeletionTypes DEF ListSessions
    <3> QED BY <2>4, <3>1 DEF ListSessions, Deletion
  <2>5. ASSUME NEW t \in Sessions, RemoveJob(d, t)
        PROVE  \/ DeletionAt(d, "abort") /\ deletion[d].step[s] = "write"
               \/ s \in aborts'
    <3>1. deletion[d] \in Deletion BY <2>5, DeletionTypes DEF RemoveJob
    <3> QED BY <2>5, <3>1 DEF RemoveJob, AbortCrawlSession, Deletion
  <2>6. ASSUME NEW t \in Sessions, WriteAborted(d, t)
        PROVE  DeletionAt(d, "abort") /\ deletion[d].step[s] = "write"
    <3>1. deletion[d] \in Deletion BY <2>6, DeletionTypes DEF WriteAborted
    <3> QED BY <2>6, <3>1 DEF WriteAborted, Deletion
  <2>7. CASE AllAborted(d) \/ Deactivate(d) \/ DeleteArtifacts(d) \/ DropVersion(d) \/ DropApp(d)
    <3>1. deletion[d] \in Deletion
      BY <2>7, DeletionTypes DEF AllAborted, Deactivate, DeleteArtifacts, DropVersion, DropApp
    <3> QED
      BY <2>7, <3>1 DEF AllAborted, Deactivate, DeleteArtifacts, DropVersion, DropApp, Deletion
  <2> QED BY <2>1, <2>2, <2>3, <2>4, <2>5, <2>6, <2>7 DEF DeletionStep
<1> QED BY <1>1, <1>2

\* So every step keeps the marks.
LEMMA AppStartStep ==
  ASSUME AppStartInv, [AppNext]_appVars, Faults \subseteq {"crash", "expire"}
  PROVE  AppStartInv'
<1>1. AppTypeOK' BY AppTypeStep DEF AppStartInv
<1>2. StartInv' /\ StaysMarked
  <2>1. CASE [Next]_vars BY <2>1, StartStep DEF AppStartInv
  <2>2. ASSUME NEW d \in Deleters, DeletionStep(d) PROVE StartInv' /\ StaysMarked
    BY <1>1, <2>2, DeletionStart DEF AppTypeOK
  <2>3. CASE ~ [Next]_vars /\ ~ (\E d \in Deleters : DeletionStep(d))
    <3>1. UNCHANGED sessionVars
      BY <2>3 DEF AppNext, SessionStep, CreateVersion, DeleteSchedule, ScheduleStep,
                  CreateScheduleEnter, UpdateScheduleEnter, EditEnter, RequireVersion,
                  CreateScheduleWrite, UpdateScheduleWrite, appVars, sessionVars
    <3> QED BY <2>3, <3>1 DEF sessionVars
  <2> QED BY <2>1, <2>2, <2>3
<1>3. AppDeletionMarks'
  <2> SUFFICES ASSUME NEW d \in Deleters, NEW s \in Sessions, BeforeItsJob(s)',
                      (DeletionAt(d, "abort") /\ deletion[d].step[s] = "write")'
               PROVE  s \in aborts'
    BY DEF AppDeletionMarks
  <2> QED BY <1>2, BranchMarks DEF AppStartInv, AppDeletionMarks, StaysMarked
<1> QED BY <1>1, <1>2, <1>3 DEF AppStartInv

LEMMA AppStartInit == AppInit => AppStartInv
  BY StartInit, AppTypeInit DEF AppInit, AppStartInv, AppDeletionMarks, DeletionAt

\* Also the abort of a deletion leaves a mark for a start between its claim and
\* its enqueue, though the API crash and keys expire.
THEOREM AppAbortsReachStarts ==
  ASSUME Faults \subseteq {"crash", "expire"}
  PROVE  AppSpec => []AbortReachesStart
<1>1. AppStartInv => AbortReachesStart BY DEF AppStartInv, StartInv
<1>2. AppStartInv /\ [AppNext]_appVars => AppStartInv' BY AppStartStep
<1> QED BY <1>1, <1>2, AppStartInit, PTL DEF AppSpec
-----------------------------------------------------------------------------
(* Deletions abort first                                                   *)

\* Once a session is neither absent, NEW nor QUEUED it stays so.
Past(s) == row[s] \notin {"absent", "NEW", "QUEUED"}

\* What a deletion has come to: a session it found is past its start when it was
\* not worth aborting or is aborted, and all are when the last step is near.
DeletionSound(d) ==
    /\ DeletionAt(d, "list") => deletion[d].there = {}
    /\ DeletionAt(d, "abort") =>
         \A s \in deletion[d].there : deletion[d].step[s] \in {"unlisted", "done"} => Past(s)
    /\ \A pc \in {"deactivate", "artifacts", "drop"} :
         DeletionAt(d, pc) => \A s \in deletion[d].there : Past(s)

DeletionsSound == \A d \in Deleters : DeletionSound(d)

\* No step takes a session back.
LEMMA PastStays ==
  ASSUME AppTypeOK, [AppNext]_appVars, NEW s \in Sessions, Past(s)
  PROVE  Past(s)'
<1> USE DEF AppTypeOK, TypeOK, Past
<1>1. CASE [Next]_vars
  <2>1. row'[s] \notin {"NEW", "QUEUED"} BY <1>1, RowStep
  <2>2. row'[s] # "absent"
    <3> USE DEF SetRow, Claimed
    <3>1. ASSUME NEW r \in Requests, Advance(r) PROVE row'[s] # "absent"
      BY <3>1, KindOfRequest
      DEF Advance, ManualEnqueue, ManualEnqueueThrows, ManualFail, StartClaim, StartEnqueue,
          StartEnqueueThrows, StartUndo, PauseWrite, AbortWrite, AbortRemove, DeleteRemove,
          DeleteWrite, DeleteDrop, RemoveThrows, At, StartReq
    <3>2. CASE ~ \E r \in Requests : Advance(r)
      BY <1>1, <3>2
      DEF Next, CreateSession, Arrive, CreateManual, StartRead, PauseRead, AbortRead, DeleteRead,
          Worker, WorkerTake, WorkerBegin, WorkerEnd, WorkerCancel, ResultExpires, JobExpires,
          Crash, vars
    <3> QED BY <3>1, <3>2
  <2> QED BY <2>1, <2>2
<1>2. ASSUME NEW d \in Deleters, DeletionStep(d) PROVE Past(s)'
  <2>1. row'[s] \in {row[s], "ABORTED", "gone"}
    BY <1>2 DEF DeletionStep, DeleteVersionRead, DeleteAppRead, DeleteProjectRead, ListSessions,
                RemoveJob, WriteAborted, SetRow, AllAborted, Deactivate, DeleteArtifacts,
                DropVersion, DropApp, Cascade, sessionVars, vars
  <2> QED BY <2>1
<1>3. CASE UNCHANGED row BY <1>3
<1>4. ASSUME NEW e \in Editors, ScheduleStep(e) PROVE UNCHANGED row
  BY <1>4 DEF ScheduleStep, CreateScheduleEnter, UpdateScheduleEnter, EditEnter, RequireVersion,
              CreateScheduleWrite, UpdateScheduleWrite, sessionVars, vars
<1> QED
  BY <1>1, <1>2, <1>3, <1>4
  DEF AppNext, SessionStep, CreateVersion, DeleteSchedule, appVars, sessionVars, vars

\* A deletion that another step does not touch stays sound.
LEMMA OtherDeletions ==
  ASSUME AppTypeOK, DeletionsSound, [AppNext]_appVars, NEW d \in Deleters,
         deletion'[d] = deletion[d]
  PROVE  DeletionSound(d)'
<1>1. deletion[d] # NoDeletion => deletion[d].there \subseteq Sessions BY DeletionTypes
<1> QED BY <1>1, PastStays DEF DeletionsSound, DeletionSound, DeletionAt

\* The steps of a deletion.
LEMMA OwnDeletion ==
  ASSUME AppTypeOK, DeletionsSound, NEW d \in Deleters, DeletionStep(d), [AppNext]_appVars
  PROVE  DeletionSound(d)'
<1> USE DEF DeletionsSound, DeletionSound, DeletionAt
<1>1. deletion \in [Deleters -> Deletion \cup {NoDeletion}] BY DEF AppTypeOK
<1>2. deletion[d] # NoDeletion =>
        /\ deletion[d] \in Deletion
        /\ deletion[d].there \subseteq Sessions
        /\ deletion[d].step \in [Sessions -> Branch]
  BY DeletionTypes
<1>3. CASE DeletionEnds(d) BY <1>1, <1>3 DEF DeletionEnds
<1>4. ASSUME NEW v \in Versions, DeleteVersionRead(d, v) PROVE DeletionSound(d)'
  BY <1>1, <1>4 DEF DeleteVersionRead
<1>5. CASE DeleteAppRead(d) \/ DeleteProjectRead(d)
  BY <1>1, <1>5 DEF DeleteAppRead, DeleteProjectRead
<1>6. CASE ListSessions(d)
  <2>1. deletion[d] \in Deletion BY <1>2, <1>6 DEF ListSessions
  <2>2. /\ deletion'[d].pc = "abort"
        /\ deletion'[d].there = {s \in Concerned(d) : Exists(s)}
        /\ deletion'[d].step = [s \in Sessions |->
                                  IF s \in Concerned(d) /\ row[s] \in AbortedStatus
                                    THEN "remove" ELSE "unlisted"]
        /\ UNCHANGED row
    BY <1>1, <1>6, <2>1 DEF ListSessions, sessionVars, vars, Deletion
  <2>3. Concerned(d) \subseteq Sessions BY DEF Concerned, SessionsOf
  <2> QED BY <2>2, <2>3 DEF Past, Exists, NoRow, AbortedStatus, Active
<1>7. ASSUME NEW s \in Sessions, RemoveJob(d, s) PROVE DeletionSound(d)'
  <2>1. deletion[d] \in Deletion BY <1>2, <1>7 DEF RemoveJob
  <2>2. /\ deletion'[d].pc = "abort" /\ deletion'[d].there = deletion[d].there
        /\ deletion'[d].step[s] \in {"write", "failed"}
        /\ \A t \in Sessions \ {s} : deletion'[d].step[t] = deletion[d].step[t]
        /\ deletion[d].pc = "abort" /\ UNCHANGED row
    BY <1>1, <1>2, <1>7, <2>1 DEF RemoveJob, Deletion
  <2> QED BY <1>2, <1>7, <2>2 DEF Past, RemoveJob
<1>8. ASSUME NEW s \in Sessions, WriteAborted(d, s) PROVE DeletionSound(d)'
  <2>1. deletion[d] \in Deletion BY <1>2, <1>8 DEF WriteAborted
  <2>2. /\ deletion'[d].pc = "abort" /\ deletion'[d].there = deletion[d].there
        /\ deletion'[d].step[s] = "done" => row'[s] = "ABORTED"
        /\ deletion'[d].step[s] \in {"done", "failed"}
        /\ \A t \in Sessions \ {s} : deletion'[d].step[t] = deletion[d].step[t]
        /\ deletion[d].pc = "abort"
    BY <1>1, <1>2, <1>8, <2>1 DEF WriteAborted, Deletion, SetRow, AppTypeOK, TypeOK
  <2>3. \A t \in Sessions : Past(t) => Past(t)' BY PastStays
  <2> HIDE DEF Past
  <2>4. deletion'[d].step[s] = "done" => Past(s)' BY <2>2 DEF Past
  <2> QED BY <1>2, <1>8, <2>2, <2>3, <2>4 DEF WriteAborted
<1>9. CASE AllAborted(d) /\ ~ DeletionEnds(d)
  <2>1. deletion[d] \in Deletion BY <1>2, <1>9 DEF AllAborted
  <2>2. /\ deletion'[d].pc \in {"deactivate", "artifacts"}
        /\ deletion'[d].there = deletion[d].there
        /\ \A s \in Sessions : deletion[d].step[s] \in {"unlisted", "done"}
        /\ deletion[d].pc = "abort" /\ UNCHANGED row
    BY <1>1, <1>9, <2>1 DEF AllAborted, DeletionTo, Deletion, sessionVars, vars
  <2> QED BY <1>2, <1>9, <2>2 DEF Past, AllAborted
<1>10. CASE (Deactivate(d) \/ DeleteArtifacts(d)) /\ ~ DeletionEnds(d)
  <2>1. deletion[d] \in Deletion BY <1>2, <1>10 DEF Deactivate, DeleteArtifacts
  <2>2. /\ deletion'[d].pc = "drop" /\ deletion'[d].there = deletion[d].there
        /\ deletion[d].pc \in {"deactivate", "artifacts"} /\ UNCHANGED row
    BY <1>1, <1>10, <2>1 DEF Deactivate, DeleteArtifacts, DeletionTo, Deletion, sessionVars, vars
  <2> QED BY <1>2, <1>10, <2>2 DEF Past, Deactivate, DeleteArtifacts
<1> QED
  BY <1>3, <1>4, <1>5, <1>6, <1>7, <1>8, <1>9, <1>10
  DEF DeletionStep, DropVersion, DropApp

\* Every step keeps every deletion sound.
LEMMA DeletionsStaySound ==
  ASSUME AppTypeOK, DeletionsSound, [AppNext]_appVars
  PROVE  DeletionsSound'
<1> SUFFICES ASSUME NEW d \in Deleters PROVE DeletionSound(d)'
  BY DEF DeletionsSound
<1>1. CASE deletion'[d] = deletion[d] BY <1>1, OtherDeletions
<1>2. CASE deletion'[d] # deletion[d]
  <2>1. PICK c \in Deleters : DeletionStep(c)
    BY <1>2 DEF AppNext, SessionStep, rest, CreateVersion, DeleteSchedule, ScheduleStep,
                CreateScheduleEnter, UpdateScheduleEnter, EditEnter, RequireVersion,
                CreateScheduleWrite, UpdateScheduleWrite, appVars
  <2>2. PICK x \in Deletion \cup {NoDeletion} : deletion' = [deletion EXCEPT ![c] = x]
    BY <2>1, DeletionSlot
  <2>3. c = d BY <1>2, <2>2 DEF AppTypeOK
  <2> QED BY <2>1, <2>3, OwnDeletion
<1> QED BY <1>1, <1>2

\* A row that goes with its version or application is that of a session past its
\* start, and leaves no start that would run it: an abort mark awaits that one.
THEOREM DeletionsAbortFirst ==
  ASSUME Faults \subseteq {"crash", "expire"}
  PROVE  AppSpec => DroppedWasAborted
<1> DEFINE DropsAborted == \A d \in Deleters, s \in Sessions : Drops(d, s) =>
             /\ row[s] \notin {"NEW", "QUEUED"}
             /\ \A r \in Requests : StartsNew(r, s) /\ req[r].pc = "enqueue" =>
                   \/ s \in aborts \/ row[s] # "ABORTED"
                   \/ \E q \in Requests : At(q, "abort", "remove") /\ req[q].sess = s
<1>1. AppInit => AppStartInv /\ DeletionsSound
  BY AppStartInit DEF AppInit, DeletionsSound, DeletionSound, DeletionAt
<1>2. AppStartInv /\ DeletionsSound /\ [AppNext]_appVars => (AppStartInv /\ DeletionsSound)'
  BY AppStartStep, DeletionsStaySound DEF AppStartInv
<1>3. AppStartInv /\ DeletionsSound => DropsAborted
  <2> SUFFICES ASSUME AppStartInv, DeletionsSound, NEW d \in Deleters, NEW s \in Sessions, Drops(d, s)
               PROVE  /\ row[s] \notin {"NEW", "QUEUED"}
                      /\ \A r \in Requests : StartsNew(r, s) /\ req[r].pc = "enqueue" =>
                            \/ s \in aborts \/ row[s] # "ABORTED"
                            \/ \E q \in Requests : At(q, "abort", "remove") /\ req[q].sess = s
    OBVIOUS
  <2>1. Past(s) BY DEF Drops, DeletionsSound, DeletionSound
  <2>2. AbortReachesStart BY DEF AppStartInv, StartInv
  <2> QED BY <2>1, <2>2 DEF Past, AbortReachesStart
<1>4. AppStartInv /\ DeletionsSound => [DropsAborted]_appVars BY <1>3
<1> QED BY <1>1, <1>2, <1>4, PTL DEF AppSpec, DroppedWasAborted
-----------------------------------------------------------------------------
(* A schedule that is switched on can run                                  *)

\* A date for ONCE and an expression for CRON, unless an update took that away; the
\* next run is that date.
Timed(x)  == /\ x.type = "ONCE" => x.runAt
             /\ x.type = "CRON" => x.cron \/ x.emptied
WithRun(x) == Timed(x) /\ (x.type = "ONCE" => x.next)

\* The row: switched off without a next run by a deletion of its version, which
\* then drops that version; switched on late when that has happened already.
ScheduleSound ==
    schedule # NoSchedule =>
        /\ Timed(schedule)
        /\ schedule.active => WithRun(schedule)
        /\ schedule.active /\ schedule.mode = "FIXED_VERSION" =>
              schedule.version # "none" \/ schedule.late
        /\ schedule.active /\ BeingDeleted(schedule.version) => schedule.late

\* What the requests in flight are about to write.
EditsSound == \A e \in Editors : edit[e] # NoEdit => WithRun(edit[e].new)

SchedulesSound == ScheduleSound /\ EditsSound

\* What a request makes of a sound row, or of none, can run.
LEMMA MergedRuns ==
  ASSUME NEW i \in Updates, NEW seen \in Schedule, i.type = "same" => Timed(seen)
  PROVE  WithRun(Merged(i, seen))
  BY InputsAssumption DEF Updates, Merged, Or, WithRun, Timed, Input, Schedule, Types

\* A write of such columns: late if the version is missing or on its way out.
LEMMA WriteRuns ==
  ASSUME AppTypeOK, ScheduleSound, NEW new \in Schedule, WithRun(new), WriteSchedule(new),
         UNCHANGED deletion
  PROVE  ScheduleSound'
<1>1. CASE Referable(new)
  <2> DEFINE late == new.version = "none" \/ BeingDeleted(new.version)
  <2>1. schedule' = [new EXCEPT !.late = late] BY <1>1 DEF WriteSchedule
  <2>2. /\ schedule'.late = late /\ schedule'.version = new.version
        /\ schedule'.type = new.type /\ schedule'.runAt = new.runAt
        /\ schedule'.cron = new.cron /\ schedule'.emptied = new.emptied
        /\ schedule'.next = new.next
    BY <2>1 DEF Schedule
  <2>3. BeingDeleted(schedule.version)' => BeingDeleted(new.version)
    BY <2>2 DEF BeingDeleted, DeletionAt
  <2> HIDE DEF late
  <2>4. (new.version = "none" => late) /\ (BeingDeleted(new.version) => late) BY DEF late
  <2> QED BY <2>2, <2>3, <2>4 DEF ScheduleSound, WithRun, Timed
<1>2. CASE ~ Referable(new)
  BY <1>2 DEF WriteSchedule, ScheduleSound, BeingDeleted, DeletionAt, WithRun, Timed
<1> QED BY <1>1, <1>2

\* A change of the schedule.
LEMMA ScheduleStepSound ==
  ASSUME AppTypeOK, SchedulesSound, NEW e \in Editors, ScheduleStep(e)
  PROVE  SchedulesSound'
<1> USE DEF SchedulesSound
<1>1. UNCHANGED deletion
  BY DEF ScheduleStep, CreateScheduleEnter, UpdateScheduleEnter, EditEnter, RequireVersion,
         CreateScheduleWrite, UpdateScheduleWrite
<1>2. ASSUME UNCHANGED schedule PROVE ScheduleSound'
  BY <1>1, <1>2 DEF ScheduleSound, BeingDeleted, DeletionAt, WithRun, Timed
<1>3. edit \in [Editors -> Edit \cup {NoEdit}] BY DEF AppTypeOK
<1>4. ASSUME NEW op, NEW i \in Updates, NEW seen \in Schedule, i.type = "same" => Timed(seen),
             EditEnter(e, op, i, seen)
      PROVE  SchedulesSound'
  <2>1. WithRun(Merged(i, seen)) BY <1>4, MergedRuns
  <2>2. edit'[e].new = Merged(i, seen) /\ \A f \in Editors \ {e} : edit'[f] = edit[f]
    BY <1>3, <1>4 DEF EditEnter, EditSet
  <2>3. EditsSound' BY <2>1, <2>2 DEF EditsSound, WithRun, Timed
  <2> QED BY <1>2, <1>4, <2>3 DEF EditEnter
<1>5. ASSUME NEW i \in Creations, CreateScheduleEnter(e, i) PROVE SchedulesSound'
  <2>1. i.type # "same" /\ i \in Updates /\ Blank(i) \in Schedule
    BY BlankTypes DEF Creations
  <2> QED BY <1>4, <1>5, <2>1 DEF CreateScheduleEnter
<1>6. ASSUME NEW i \in Updates, UpdateScheduleEnter(e, i) PROVE SchedulesSound'
  <2> DEFINE seen == [schedule EXCEPT !.late = FALSE]
  <2>1. schedule \in Schedule
    BY <1>6 DEF UpdateScheduleEnter, AppTypeOK
  <2>2. seen \in Schedule /\ seen.type = schedule.type /\ seen.runAt = schedule.runAt
        /\ seen.cron = schedule.cron /\ seen.emptied = schedule.emptied
    BY <2>1 DEF Schedule
  <2>3. Timed(seen) BY <1>6, <2>2 DEF UpdateScheduleEnter, ScheduleSound, Timed
  <2> HIDE DEF seen
  <2>4. EditEnter(e, "update", i, seen) BY <1>6 DEF UpdateScheduleEnter, seen
  <2> QED BY <1>4, <2>1, <2>2, <2>3, <2>4
<1>7. CASE RequireVersion(e)
  <2>1. edit[e] \in Edit BY <1>7, EditTypes DEF RequireVersion
  <2>2. /\ edit'[e] = NoEdit \/ edit'[e].new = edit[e].new
        /\ \A f \in Editors \ {e} : edit'[f] = edit[f]
    BY <1>3, <1>7, <2>1 DEF RequireVersion, EditEnds, EditSet, Edit
  <2>3. EditsSound' BY <1>7, <2>2 DEF EditsSound, WithRun, Timed, RequireVersion
  <2> QED BY <1>2, <1>7, <2>3 DEF RequireVersion
<1>8. CASE CreateScheduleWrite(e) \/ UpdateScheduleWrite(e)
  <2>1. edit[e] # NoEdit BY <1>8 DEF CreateScheduleWrite, UpdateScheduleWrite, EditAt, NoEdit
  <2>2. edit[e].new \in Schedule /\ WithRun(edit[e].new) BY <2>1, EditTypes DEF EditsSound
  <2>3. ScheduleSound'
    BY <1>1, <1>2, <1>8, <2>2, WriteRuns DEF CreateScheduleWrite, UpdateScheduleWrite
  <2>4. EditsSound'
    BY <1>3, <1>8 DEF CreateScheduleWrite, UpdateScheduleWrite, EditEnds, EditSet, EditsSound,
                      WithRun, Timed
  <2> QED BY <2>3, <2>4
<1> QED BY <1>5, <1>6, <1>7, <1>8 DEF ScheduleStep

\* A deletion: the schedules of a version are off before the version goes.
LEMMA DeletionSchedules ==
  ASSUME AppTypeOK, SchedulesSound, NEW d \in Deleters, DeletionStep(d)
  PROVE  SchedulesSound'
<1> USE DEF SchedulesSound
<1>1. EditsSound'
  <2>1. UNCHANGED edit
    BY DEF DeletionStep, DeleteVersionRead, DeleteAppRead, DeleteProjectRead, ListSessions,
           RemoveJob, WriteAborted, AllAborted, Deactivate, DeleteArtifacts, DropVersion, DropApp
  <2> QED BY <2>1 DEF EditsSound, WithRun, Timed
<1>2. PICK x \in Deletion \cup {NoDeletion} : deletion' = [deletion EXCEPT ![d] = x]
  BY DeletionSlot
<1>3. ASSUME UNCHANGED schedule, ~ DeletionAt(d, "drop")' PROVE ScheduleSound'
  <2>1. BeingDeleted(schedule.version)' => BeingDeleted(schedule.version)
    BY <1>2, <1>3 DEF BeingDeleted, DeletionAt, AppTypeOK
  <2> QED BY <1>3, <2>1 DEF ScheduleSound, WithRun, Timed
<1>4. ASSUME Deactivate(d) PROVE ScheduleSound'
  <2> DEFINE v == deletion[d].version
  <2>1. deletion[d] \in Deletion /\ deletion[d].of = "version"
    BY <1>4, DeletionTypes DEF Deactivate, DeletionAt
  <2>2. deletion'[d].version = v /\ \A c \in Deleters \ {d} : deletion'[c] = deletion[c]
    BY <1>4, <2>1 DEF Deactivate, DeletionTo, AppTypeOK, Deletion
  <2>3. CASE ForVersion(v)
    <3>1. schedule' = [schedule EXCEPT !.active = FALSE, !.next = FALSE] /\ schedule \in Schedule
      BY <1>4, <2>3 DEF Deactivate, ForVersion, AppTypeOK
    <3> QED BY <2>3, <3>1 DEF ScheduleSound, Schedule, Timed, ForVersion
  <2>4. CASE ~ ForVersion(v)
    <3>1. UNCHANGED schedule BY <1>4, <2>4 DEF Deactivate
    <3>2. schedule # NoSchedule /\ BeingDeleted(schedule.version)' => BeingDeleted(schedule.version)
      BY <2>2, <2>4, <3>1 DEF BeingDeleted, DeletionAt, ForVersion
    <3> QED BY <3>1, <3>2 DEF ScheduleSound, WithRun, Timed
  <2> QED BY <2>3, <2>4
<1>5. ASSUME DropVersion(d), ~ UNCHANGED schedule PROVE ScheduleSound'
  <2> DEFINE v == deletion[d].version
  <2>1. /\ schedule # NoSchedule /\ schedule.version = v /\ schedule \in Schedule
        /\ schedule' = [schedule EXCEPT !.version = "none"]
    BY <1>5 DEF DropVersion, ForVersion, AppTypeOK
  <2>2. BeingDeleted(schedule.version) BY <1>5, <2>1 DEF DropVersion, BeingDeleted
  <2>3. schedule.active => schedule.late BY <2>1, <2>2 DEF ScheduleSound
  <2> QED BY <2>1, <2>3 DEF ScheduleSound, Schedule, WithRun, Timed
<1>6. ASSUME DropApp(d), ~ UNCHANGED schedule PROVE ScheduleSound'
  BY <1>6 DEF DropApp, ScheduleSound
<1>7. ASSUME DropVersion(d) \/ DropApp(d), UNCHANGED schedule PROVE ScheduleSound'
  BY <1>3, <1>7 DEF DropVersion, DropApp, DeletionEnds, DeletionAt, AppTypeOK
<1>8. ASSUME DeleteArtifacts(d) PROVE ScheduleSound'
  <2>1. deletion[d] \in Deletion /\ deletion[d].of # "version"
    BY <1>8, DeletionTypes DEF DeleteArtifacts, DeletionAt
  <2>2. \A c \in Deleters : DeletionAt(c, "drop")' =>
           (DeletionAt(c, "drop") /\ deletion'[c] = deletion[c]) \/ deletion'[c].of # "version"
    BY <1>8, <2>1 DEF DeleteArtifacts, DeletionTo, DeletionEnds, DeletionAt, AppTypeOK, Deletion
  <2>3. UNCHANGED schedule BY <1>8 DEF DeleteArtifacts
  <2>4. BeingDeleted(schedule.version)' => BeingDeleted(schedule.version)
    BY <2>2, <2>3 DEF BeingDeleted
  <2> QED BY <2>3, <2>4 DEF ScheduleSound, WithRun, Timed
<1>9. ASSUME ~ (Deactivate(d) \/ DeleteArtifacts(d) \/ DropVersion(d) \/ DropApp(d))
      PROVE  ScheduleSound'
  <2> USE DEF DeletionAt, AppTypeOK
  <2>1. ~ DeletionAt(d, "drop")'
    <3>1. deletion[d] # NoDeletion => deletion[d] \in Deletion BY DeletionTypes
    <3>2. ASSUME NEW s \in Sessions, RemoveJob(d, s) \/ WriteAborted(d, s)
          PROVE  ~ DeletionAt(d, "drop")'
      BY <3>1, <3>2 DEF RemoveJob, WriteAborted, Deletion
    <3>3. CASE ListSessions(d) BY <3>1, <3>3 DEF ListSessions, Deletion
    <3>5. CASE AllAborted(d)
      BY <3>1, <3>5 DEF AllAborted, DeletionTo, DeletionEnds, Deletion
    <3>4. CASE DeleteAppRead(d) \/ DeleteProjectRead(d) \/ \E w \in Versions : DeleteVersionRead(d, w)
      BY <3>4 DEF DeleteAppRead, DeleteProjectRead, DeleteVersionRead
    <3> QED BY <1>9, <3>2, <3>3, <3>4, <3>5 DEF DeletionStep
  <2>2. UNCHANGED schedule
    BY <1>9 DEF DeletionStep, DeleteVersionRead, DeleteAppRead, DeleteProjectRead, ListSessions,
                RemoveJob, WriteAborted, AllAborted
  <2> QED BY <1>3, <2>1, <2>2
<1>10. ScheduleSound' BY <1>4, <1>5, <1>6, <1>7, <1>8, <1>9
<1> QED BY <1>1, <1>10

\* A schedule that is switched on has what it takes to run, its version included,
\* unless it was switched on while that was being deleted, or afterwards, or an
\* update that named no type took its expression.
THEOREM SchedulesCanRun == AppSpec => []ActiveScheduleCanRun
<1>1. AppInit => AppTypeOK /\ SchedulesSound
  BY AppTypeInit DEF AppInit, SchedulesSound, ScheduleSound, EditsSound
<1>2. ASSUME AppTypeOK, SchedulesSound, [AppNext]_appVars PROVE SchedulesSound'
  <2>1. CASE UNCHANGED <<deletion, schedule, edit>>
    BY <1>2, <2>1 DEF SchedulesSound, ScheduleSound, EditsSound, BeingDeleted, DeletionAt,
                      WithRun, Timed
  <2>2. CASE DeleteSchedule
    BY <1>2, <2>2 DEF DeleteSchedule, SchedulesSound, ScheduleSound, EditsSound, WithRun, Timed
  <2> QED
    BY <1>2, <2>1, <2>2, ScheduleStepSound, DeletionSchedules
    DEF AppNext, SessionStep, rest, CreateVersion, appVars
<1>3. SchedulesSound => ActiveScheduleCanRun
  BY DEF SchedulesSound, ScheduleSound, ActiveScheduleCanRun, WithRun, Timed
<1>4. AppTypeOK /\ SchedulesSound /\ [AppNext]_appVars => (AppTypeOK /\ SchedulesSound)'
  BY <1>2, AppTypeStep
<1> QED BY <1>1, <1>3, <1>4, PTL DEF AppSpec
=============================================================================

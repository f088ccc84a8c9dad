---------------------------- MODULE CrawlSession ----------------------------
(***************************************************************************)
(* The life of crawl sessions: the row Prisma keeps in Postgres, the ARQ   *)
(* job the API keeps for it in Redis, and the requests that move both.     *)
(*                                                                         *)
(* A handler of services/crawlSession.service.ts reads the row, awaits,    *)
(* writes the row, awaits, and touches the queue.  Every await is a point  *)
(* where another request or the worker may run, so each handler is a       *)
(* sequence of actions and req[r] holds where request r stands and the     *)
(* status it read.  Postgres runs each statement atomically (READ          *)
(* COMMITTED, one row), Redis runs each script and each MULTI atomically.  *)
(*                                                                         *)
(* The worker is outside the repository.  It is modelled as a charitable   *)
(* ARQ consumer: it never overwrites a status it should respect, so that   *)
(* what goes wrong here is the API's doing.                                *)
(*                                                                         *)
(* Abstracted: the row's other columns, authorisation, job payloads and    *)
(* time.  A session id is a fresh UUID, so a deleted row never comes back. *)
(***************************************************************************)
EXTENDS Naturals, FiniteSets

CONSTANTS
    Sessions,        \* session ids
    ManualSessions,  \* those made by createManualSession
    Requests,        \* slots of requests the API has in flight
    KeepResult,      \* TRUE when the worker keeps a result key per job
    Faults           \* what may go wrong: a subset of FaultKinds

FaultKinds == {"crash", "enqueue", "remove", "expire"}

ASSUME ConstantsAssumption ==
    /\ ManualSessions \subseteq Sessions
    /\ KeepResult \in BOOLEAN
    /\ Faults \subseteq FaultKinds

VARIABLES
    row,       \* crawl_sessions.status, or absent / gone
    jobKeys,   \* ids with an arq:job:<id> key
    results,   \* ids with an arq:result:<id> key
    queued,    \* members of the queue's sorted set
    aborts,    \* members of arq:abort
    worker,    \* what the worker is doing with a session
    req        \* requests in flight

vars == <<row, jobKeys, results, queued, aborts, worker, req>>
redis == <<jobKeys, results, queued, aborts>>

-----------------------------------------------------------------------------
(* Types                                                                   *)

Active   == {"NEW", "QUEUED", "RUNNING", "PAUSED"}
Terminal == {"COMPLETED", "FAILED", "ABORTED"}
Status   == Active \cup Terminal
NoRow    == {"absent", "gone"}

Idle == [op |-> "none"]

\* A start or resume in flight: claim, then enqueue, then undo on an error.
StartReq == [op : {"start"}, sess : Sessions, seen : {"NEW", "PAUSED"},
             pc : {"claim", "enqueue", "undo"}]

\* A manual creation in flight: the row exists, the job may not yet.
ManualReq == [op : {"manual"}, sess : Sessions, pc : {"enqueue", "fail"}]

PauseReq  == [op : {"pause"},  sess : Sessions, pc : {"write"}]
AbortReq  == [op : {"abort"},  sess : Sessions, pc : {"write", "remove"}]
DeleteReq == [op : {"delete"}, sess : Sessions, pc : {"remove", "write", "drop"}]

Request == {Idle} \cup StartReq \cup ManualReq \cup PauseReq \cup AbortReq
                  \cup DeleteReq

TypeOK ==
    /\ row \in [Sessions -> Status \cup NoRow]
    /\ jobKeys \subseteq Sessions
    /\ results \subseteq Sessions
    /\ queued \subseteq Sessions
    /\ aborts \subseteq Sessions
    /\ worker \in [Sessions -> {"idle", "taken", "running"}]
    /\ req \in [Requests -> Request]

-----------------------------------------------------------------------------
(* Queue operations: queues/arq                                            *)

\* Slip: the job key is written, its id never added to the queue.
EnqueueKeyOnly(s) ==
    /\ jobKeys' = jobKeys \cup {s}
    /\ UNCHANGED <<results, queued, aborts>>

\* The Lua script: a no-op, still answered as a success, when the job or the
\* result of an earlier one is there.
EnqueueArqJob(s) ==
    /\ IF s \in jobKeys \cup results
         THEN UNCHANGED <<jobKeys, queued>>
         ELSE /\ jobKeys' = jobKeys \cup {s}
              /\ queued'  = queued \cup {s}
    /\ UNCHANGED <<results, aborts>>

\* Slip: the job is removed without an abort mark.
AbortUnmarked(s) ==
    /\ queued'  = queued \ {s}
    /\ jobKeys' = jobKeys \ {s}
    /\ UNCHANGED <<results, aborts>>

\* The MULTI: it names the crawl queue whatever the session's kind, so the
\* entry of a manual session stays in the manual queue without its job key.
AbortCrawlSession(s) ==
    /\ queued'  = IF s \in ManualSessions THEN queued ELSE queued \ {s}
    /\ jobKeys' = jobKeys \ {s}
    /\ aborts'  = aborts \cup {s}
    /\ UNCHANGED results

-----------------------------------------------------------------------------
(* Requests                                                                *)

Exists(s) == row[s] \notin NoRow

At(r, op, pc) == req[r].op = op /\ req[r].pc = pc

Goto(r, pc) == req' = [req EXCEPT ![r].pc = pc]
Done(r)     == req' = [req EXCEPT ![r] = Idle]

SetRow(s, status) == row' = [row EXCEPT ![s] = status]

\* createSession: a row in its default status.
CreateSession(s) ==
    /\ s \notin ManualSessions
    /\ row[s] = "absent"
    /\ SetRow(s, "NEW")
    /\ UNCHANGED <<redis, worker, req>>

\* createManualSession: the row is QUEUED before the job exists.
CreateManual(r, s) ==
    /\ req[r] = Idle
    /\ s \in ManualSessions
    /\ row[s] = "absent"
    /\ SetRow(s, "QUEUED")
    /\ req' = [req EXCEPT ![r] = [op |-> "manual", sess |-> s, pc |-> "enqueue"]]
    /\ UNCHANGED <<redis, worker>>

ManualEnqueue(r) ==
    /\ At(r, "manual", "enqueue")
    /\ EnqueueArqJob(req[r].sess)
    /\ Done(r)
    /\ UNCHANGED <<row, worker>>

\* Redis failed; the script may have run all the same.
ManualEnqueueThrows(r) ==
    /\ "enqueue" \in Faults
    /\ At(r, "manual", "enqueue")
    /\ EnqueueArqJob(req[r].sess) \/ UNCHANGED redis
    /\ Goto(r, "fail")
    /\ UNCHANGED <<row, worker>>

\* The catch block writes FAILED whatever the status is by now; a row that is
\* gone makes the update throw.
ManualFail(r) ==
    /\ At(r, "manual", "fail")
    /\ IF Exists(req[r].sess) THEN SetRow(req[r].sess, "FAILED") ELSE UNCHANGED row
    /\ Done(r)
    /\ UNCHANGED <<redis, worker>>

\* startSession reads the row.  QUEUED and RUNNING answer "already started",
\* a manual session and the terminal statuses are refused: no effect.
StartRead(r, s) ==
    /\ req[r] = Idle
    /\ s \notin ManualSessions
    /\ row[s] \in {"NEW", "PAUSED"}
    /\ req' = [req EXCEPT ![r] = [op |-> "start", sess |-> s,
                                  seen |-> row[s], pc |-> "claim"]]
    /\ UNCHANGED <<row, redis, worker>>

\* Slip: a status that is not in the enum.
ClaimedUnknown(seen) == IF seen = "NEW" THEN "STARTED" ELSE "RUNNING"

\* What a start that saw this status makes of the row.
Claimed(seen) == IF seen = "NEW" THEN "QUEUED" ELSE "RUNNING"

\* Slip: an update by id only, whatever the status is by now.
StartClaimBlind(r) ==
    /\ At(r, "start", "claim")
    /\ IF Exists(req[r].sess)
         THEN SetRow(req[r].sess, Claimed(req[r].seen)) /\ Goto(r, "enqueue")
         ELSE UNCHANGED row /\ Done(r)
    /\ UNCHANGED <<redis, worker>>

\* updateMany where status is still what was read; count # 1 ends the request.
StartClaim(r) ==
    /\ At(r, "start", "claim")
    /\ LET s == req[r].sess
           seen == req[r].seen
       IN IF row[s] = seen
            THEN SetRow(s, Claimed(seen)) /\ Goto(r, "enqueue")
            ELSE UNCHANGED row /\ Done(r)
    /\ UNCHANGED <<redis, worker>>

StartEnqueue(r) ==
    /\ At(r, "start", "enqueue")
    /\ EnqueueArqJob(req[r].sess)
    /\ Done(r)
    /\ UNCHANGED <<row, worker>>

StartEnqueueThrows(r) ==
    /\ "enqueue" \in Faults
    /\ At(r, "start", "enqueue")
    /\ EnqueueArqJob(req[r].sess) \/ UNCHANGED redis
    /\ Goto(r, "undo")
    /\ UNCHANGED <<row, worker>>

\* Slip: the error is answered, the claim stays.
StartUndoForgotten(r) ==
    /\ At(r, "start", "undo")
    /\ Done(r)
    /\ UNCHANGED <<row, redis, worker>>

\* Slip: the undo writes what was read whether or not the claim still stands.
StartUndoBlind(r) ==
    /\ At(r, "start", "undo")
    /\ SetRow(req[r].sess, req[r].seen)
    /\ Done(r)
    /\ UNCHANGED <<redis, worker>>

\* The catch block: back to what was read, if the claim still stands.
StartUndo(r) ==
    /\ At(r, "start", "undo")
    /\ LET s == req[r].sess
           seen == req[r].seen
       IN IF row[s] = Claimed(seen) THEN SetRow(s, seen) ELSE UNCHANGED row
    /\ Done(r)
    /\ UNCHANGED <<redis, worker>>

\* pauseSession: only a RUNNING row passes the check, any row takes the write.
PauseRead(r, s) ==
    /\ req[r] = Idle
    /\ row[s] = "RUNNING"
    /\ req' = [req EXCEPT ![r] = [op |-> "pause", sess |-> s, pc |-> "write"]]
    /\ UNCHANGED <<row, redis, worker>>

PauseWrite(r) ==
    /\ At(r, "pause", "write")
    /\ IF Exists(req[r].sess) THEN SetRow(req[r].sess, "PAUSED") ELSE UNCHANGED row
    /\ Done(r)
    /\ UNCHANGED <<redis, worker>>

\* abortSession: the row first, then the job.
AbortRead(r, s) ==
    /\ req[r] = Idle
    /\ row[s] \in Active
    /\ req' = [req EXCEPT ![r] = [op |-> "abort", sess |-> s, pc |-> "write"]]
    /\ UNCHANGED <<row, redis, worker>>

AbortWrite(r) ==
    /\ At(r, "abort", "write")
    /\ IF Exists(req[r].sess)
         THEN SetRow(req[r].sess, "ABORTED") /\ Goto(r, "remove")
         ELSE UNCHANGED row /\ Done(r)
    /\ UNCHANGED <<redis, worker>>

AbortRemove(r) ==
    /\ At(r, "abort", "remove")
    /\ AbortCrawlSession(req[r].sess)
    /\ Done(r)
    /\ UNCHANGED <<row, worker>>

\* deleteSession: an active session loses its job first and then becomes
\* ABORTED; only a terminal one is deleted.
DeleteRead(r, s) ==
    /\ req[r] = Idle
    /\ Exists(s)
    /\ req' = [req EXCEPT ![r] =
                 [op |-> "delete", sess |-> s,
                  pc |-> IF row[s] \in Active THEN "remove" ELSE "drop"]]
    /\ UNCHANGED <<row, redis, worker>>

DeleteRemove(r) ==
    /\ At(r, "delete", "remove")
    /\ AbortCrawlSession(req[r].sess)
    /\ Goto(r, "write")
    /\ UNCHANGED <<row, worker>>

DeleteWrite(r) ==
    /\ At(r, "delete", "write")
    /\ IF Exists(req[r].sess) THEN SetRow(req[r].sess, "ABORTED") ELSE UNCHANGED row
    /\ Done(r)
    /\ UNCHANGED <<redis, worker>>

DeleteDrop(r) ==
    /\ At(r, "delete", "drop")
    /\ SetRow(req[r].sess, "gone")
    /\ Done(r)
    /\ UNCHANGED <<redis, worker>>

\* A Redis failure inside removeCrawlJob ends the request with what it has
\* written so far.
RemoveThrows(r) ==
    /\ "remove" \in Faults
    /\ At(r, "abort", "remove") \/ At(r, "delete", "remove")
    /\ AbortCrawlSession(req[r].sess) \/ UNCHANGED redis
    /\ Done(r)
    /\ UNCHANGED <<row, worker>>

-----------------------------------------------------------------------------
(* The worker and Redis, outside the repository                            *)

\* The end of a job: its key and queue entry go, a result may stay.
FinishJob(s) ==
    /\ worker'  = [worker EXCEPT ![s] = "idle"]
    /\ jobKeys' = jobKeys \ {s}
    /\ queued'  = queued \ {s}
    /\ results' = IF KeepResult THEN results \cup {s} ELSE results

\* The worker takes a queued job; an aborted one, or one whose key is gone, ends
\* there and its abort mark with it.
WorkerTake(s) ==
    /\ worker[s] = "idle"
    /\ s \in queued
    /\ IF s \in jobKeys /\ s \notin aborts
         THEN worker' = [worker EXCEPT ![s] = "taken"] /\ UNCHANGED redis
         ELSE FinishJob(s) /\ aborts' = aborts \ {s}
    /\ UNCHANGED <<row, req>>

\* It runs only a session that is still to be run.
WorkerBegin(s) ==
    /\ worker[s] = "taken"
    /\ IF row[s] \in {"NEW", "QUEUED", "RUNNING"}
         THEN /\ SetRow(s, "RUNNING")
              /\ worker' = [worker EXCEPT ![s] = "running"]
              /\ UNCHANGED redis
         ELSE FinishJob(s) /\ UNCHANGED <<row, aborts>>
    /\ UNCHANGED req

\* It ends a session that is still RUNNING, and otherwise stops silently.
WorkerEnd(s) ==
    /\ worker[s] = "running"
    /\ IF row[s] = "RUNNING"
         THEN \E status \in {"COMPLETED", "FAILED"} : SetRow(s, status)
         ELSE UNCHANGED row
    /\ FinishJob(s)
    /\ UNCHANGED <<aborts, req>>

\* An abort mark cancels the task under way.
WorkerCancel(s) ==
    /\ worker[s] # "idle"
    /\ s \in aborts
    /\ FinishJob(s)
    /\ aborts' = aborts \ {s}
    /\ UNCHANGED <<row, req>>

\* A result key lives for a while.
ResultExpires(s) ==
    /\ s \in results
    /\ results' = results \ {s}
    /\ UNCHANGED <<row, jobKeys, queued, aborts, worker, req>>

\* So does a job key (psetex), with no worker to take the job.
JobExpires(s) ==
    /\ "expire" \in Faults
    /\ s \in jobKeys
    /\ worker[s] = "idle"
    /\ jobKeys' = jobKeys \ {s}
    /\ UNCHANGED <<row, results, queued, aborts, worker, req>>

\* The API process dies: every request in flight stops where it stands.
Crash ==
    /\ "crash" \in Faults
    /\ req' = [r \in Requests |-> Idle]
    /\ UNCHANGED <<row, redis, worker>>

-----------------------------------------------------------------------------
(* Specification                                                           *)

Init ==
    /\ row = [s \in Sessions |-> "absent"]
    /\ jobKeys = {} /\ results = {} /\ queued = {} /\ aborts = {}
    /\ worker = [s \in Sessions |-> "idle"]
    /\ req = [r \in Requests |-> Idle]

\* A new request reaches its handler.
Arrive(r, s) ==
    \/ CreateManual(r, s)
    \/ StartRead(r, s)
    \/ PauseRead(r, s)
    \/ AbortRead(r, s)
    \/ DeleteRead(r, s)

\* A request in flight takes its next step.
Advance(r) ==
    \/ ManualEnqueue(r) \/ ManualEnqueueThrows(r) \/ ManualFail(r)
    \/ StartClaim(r) \/ StartEnqueue(r) \/ StartEnqueueThrows(r) \/ StartUndo(r)
    \/ PauseWrite(r)
    \/ AbortWrite(r) \/ AbortRemove(r)
    \/ DeleteRemove(r) \/ DeleteWrite(r) \/ DeleteDrop(r)
    \/ RemoveThrows(r)

Worker(s) == WorkerTake(s) \/ WorkerBegin(s) \/ WorkerEnd(s) \/ WorkerCancel(s)

Next ==
    \/ \E s \in Sessions : CreateSession(s)
    \/ \E r \in Requests, s \in Sessions : Arrive(r, s)
    \/ \E r \in Requests : Advance(r)
    \/ \E s \in Sessions : Worker(s)
    \/ \E s \in Sessions : ResultExpires(s) \/ JobExpires(s)
    \/ Crash

Spec == Init /\ [][Next]_vars

\* Handlers run to their end and the worker keeps consuming; nobody has to call
\* the API again, and no key has to expire.
Fairness ==
    /\ \A r \in Requests : WF_vars(Advance(r))
    /\ \A s \in Sessions : WF_vars(Worker(s))

FairSpec == Spec /\ Fairness
-----------------------------------------------------------------------------
(* Properties                                                              *)

\* A start request that has won NEW -> QUEUED and still owes the queue a job.
StartsNew(r, s) ==
    /\ req[r].op = "start"
    /\ req[r].sess = s
    /\ req[r].seen = "NEW"
    /\ req[r].pc \in {"enqueue", "undo"}

\* startSession's updateMany is a lock: of any number of concurrent starts of a
\* NEW session, at most one is ever between its claim and its enqueue, so only
\* one answers "started" - also across failed enqueues, their undo, crashes and
\* aborts in between.
StartClaimExclusive ==
    \A s \in Sessions : \A r1, r2 \in Requests :
        StartsNew(r1, s) /\ StartsNew(r2, s) => r1 = r2

\* The worker has a job to take for s, or has taken it.
HasJob(s) == (s \in queued /\ s \in jobKeys) \/ worker[s] # "idle"

\* A request that still has to enqueue, undo, or write ABORTED for s.
Settling(s) ==
    \E r \in Requests :
        \/ StartsNew(r, s)
        \/ req[r].op = "manual" /\ req[r].sess = s
        \/ req[r].op = "delete" /\ req[r].sess = s /\ req[r].pc = "write"

\* No session waits for nothing: a QUEUED row has a job the worker can take, or
\* a request in flight that is about to enqueue it, undo the claim, or end it.
QueuedIsCarried == \A s \in Sessions : row[s] = "QUEUED" => HasJob(s) \/ Settling(s)

\* An abort (or a deletion) that lands between the claim and the enqueue of a
\* start finds no job to remove; the abort mark is all that will stop the job the
\* start is about to enqueue.  The mark is there, or about to be, and nothing
\* uses it up before.
AbortReachesStart ==
    \A r \in Requests, s \in Sessions :
        StartsNew(r, s) /\ req[r].pc = "enqueue" /\ row[s] = "ABORTED" =>
            \/ s \in aborts
            \/ \E q \in Requests : At(q, "abort", "remove") /\ req[q].sess = s

\* A session is queued in one stretch of its life: once its row has moved on,
\* no late claim, undo or retry puts it back to NEW or QUEUED.
StartedOnce ==
    [][\A s \in Sessions :
         row[s] \notin {"absent", "NEW", "QUEUED"} => row'[s] \notin {"NEW", "QUEUED"}]_vars

\* A finished session is not started again by a request that read it earlier:
\* the one write that takes a row out of a terminal status, other than its
\* deletion, is that of pauseSession.
OnlyPauseRevives ==
    [][\A s \in Sessions :
         row[s] \in Terminal => row'[s] \in Terminal \cup {"PAUSED", "gone"}]_vars

\* A queued session gets its turn: with handlers that finish and a worker that
\* consumes, a row does not stay QUEUED.
QueuedIsServed == \A s \in Sessions : (row[s] = "QUEUED") ~> (row[s] # "QUEUED")

\* Resuming "marks running and enqueues a worker job": once every request on a
\* session has been answered, a RUNNING row has a job or a worker.
ResumedHasJob ==
    \A s \in Sessions :
        row[s] = "RUNNING" /\ (\A r \in Requests : req[r] = Idle) => HasJob(s)
=============================================================================

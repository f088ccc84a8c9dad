-------------------------- MODULE RegressionIngest --------------------------
(***************************************************************************)
(* How the events of a test run become counts and a verdict: ingestEvents  *)
(* and completeRun of services/regressionRun.service.ts, for one run whose *)
(* row exists (RunNaming creates it).                                      *)
(*                                                                         *)
(* A request carries a batch of events and takes them one by one.  An      *)
(* event touches its scenario, is stored under its own id - a second       *)
(* delivery stops there - and then the scenario and the run are recounted: *)
(* the stored assertions are read, and the counts written one await later, *)
(* the run's together with a status computed from a third read.  Clients   *)
(* retry and several reporters may post at once, so requests interleave at *)
(* every await, and one may fail at any of them.                           *)
(*                                                                         *)
(* Abstracted: authentication, versions, texts, times and the summary's    *)
(* other fields.  Each Prisma call is one atomic statement.                *)
(***************************************************************************)
EXTENDS Naturals, FiniteSets, Sequences

CONSTANTS
    Events,      \* event ids
    Assertions,  \* those of type assertion.result
    Outcomes,    \* what each assertion counts as: a subset of Outcome
    Verdicts,    \* status a scenario.status event carries, for those events
    Scenarios,   \* scenario keys of the run
    ScenarioOf,  \* the scenario an event belongs to, or NoScenario
    NoScenario,
    Requests,    \* slots of requests in flight
    Batches,     \* the batches a client may post
    MayFail      \* TRUE when a request may fail half-way

Outcome == {"passed", "failed", "warning"}
RunStatus == {"RUNNING", "PASSED", "FAILED"}

ASSUME IngestAssumption ==
    /\ IsFiniteSet(Events)
    /\ Assertions \subseteq Events
    /\ Outcomes \in [Assertions -> SUBSET Outcome]
    /\ \A e \in Assertions : ~({"passed", "failed"} \subseteq Outcomes[e])
    /\ DOMAIN Verdicts \subseteq Events \ Assertions
    /\ \A e \in DOMAIN Verdicts : Verdicts[e] \in RunStatus
    /\ NoScenario \notin Scenarios
    /\ ScenarioOf \in [Events -> Scenarios \cup {NoScenario}]
    /\ Batches \subseteq Seq(Events) \ {<<>>}
    /\ MayFail \in BOOLEAN

VARIABLES
    stored,    \* ids in regression_events
    scenario,  \* rows of regression_scenarios
    run,       \* status and counts of the regression_runs row
    req,       \* requests in flight
    reported,  \* history: statuses completeRun was ever called with
    serial     \* history: requests came one at a time, and none failed

\* A request about to write the run's row also keeps, as history, whether another
\* request has ended the run since it read the status: `overtaken`.

vars == <<stored, scenario, run, req, reported, serial>>

-----------------------------------------------------------------------------
(* Types                                                                   *)

Counts == [Outcome -> Nat]
None   == [o \in Outcome |-> 0]

Idle == [pc |-> "idle"]

\* What is left of a request's batch.
Batch == Seq(Events) \ {<<>>}

Working == [pc : {"upsert", "store", "readScenario", "readRun"}, batch : Batch]
Writing == [pc : {"writeScenario", "readStatus"}, batch : Batch, counts : Counts]
Closing == [pc : {"writeRun"}, batch : Batch, counts : Counts, status : RunStatus,
            overtaken : BOOLEAN]

TypeOK ==
    /\ stored \subseteq Events
    /\ scenario \in [Scenarios -> [status : RunStatus \cup {"absent"}, counts : Counts]]
    /\ run \in [status : RunStatus, counts : Counts]
    /\ req \in [Requests -> {Idle} \cup Working \cup Writing \cup Closing]
    /\ reported \subseteq RunStatus
    /\ serial \in BOOLEAN

-----------------------------------------------------------------------------
(* Counting                                                                *)

\* Slip: every assertion that did not pass is a failure, warnings too.
CountNotPassed(found) ==
    [o \in Outcome |->
        Cardinality({e \in found \cap Assertions :
            IF o = "failed" THEN "passed" \notin Outcomes[e] ELSE o \in Outcomes[e]})]

\* countAssertions over the assertion.result events among `found`.
CountAssertions(found) ==
    [o \in Outcome |-> Cardinality({e \in found \cap Assertions : o \in Outcomes[e]})]

InScenario(s) == {e \in stored : ScenarioOf[e] = s}

\* Slip: a run that has ended is running again at the next event.
StatusReopened(counts, status) ==
    IF counts["failed"] > 0 THEN "FAILED" ELSE "RUNNING"

\* The status updateRunCounts computes: a failure decides; otherwise a run that
\* has ended keeps its status and any other is RUNNING, which it was.
StatusFor(counts, status) ==
    IF counts["failed"] > 0 THEN "FAILED" ELSE status

-----------------------------------------------------------------------------
(* Requests                                                                *)

At(r, pc) == req[r].pc = pc

Now(r) == Head(req[r].batch)

\* The request goes on with the rest of its batch, or is answered.
Rest(r) ==
    IF Len(req[r].batch) = 1 THEN Idle
    ELSE [pc |-> "upsert", batch |-> Tail(req[r].batch)]

NextEvent(r) == req' = [req EXCEPT ![r] = Rest(r)]

\* A write of `status` that ends the run overtakes every request which has read
\* the status and not written it back yet.
Overtaken(status) ==
    [q \in Requests |->
        IF At(q, "writeRun") /\ run.status = "RUNNING" /\ status # "RUNNING"
        THEN [req[q] EXCEPT !.overtaken = TRUE]
        ELSE req[q]]

Goto(r, pc) == req' = [req EXCEPT ![r] = [pc |-> pc, batch |-> req[r].batch]]

Quiet == \A r \in Requests : req[r] = Idle

\* ingestEvents: a batch arrives, for the first time or again.
Ingest(r, batch) ==
    /\ req[r] = Idle
    /\ req' = [req EXCEPT ![r] = [pc |-> "upsert", batch |-> batch]]
    /\ serial' = (serial /\ Quiet)
    /\ UNCHANGED <<stored, scenario, run, reported>>

\* upsertScenario: a scenario.status event sets the status, also when it is a
\* second delivery; any other event leaves it, or creates it RUNNING.
UpsertScenario(r) ==
    /\ At(r, "upsert")
    /\ LET e == Now(r)
           s == ScenarioOf[e]
       IN scenario' =
            IF s = NoScenario THEN scenario
            ELSE [scenario EXCEPT ![s].status =
                    IF e \in DOMAIN Verdicts THEN Verdicts[e]
                    ELSE IF @ = "absent" THEN "RUNNING" ELSE @]
    /\ Goto(r, "store")
    /\ UNCHANGED <<stored, run, reported, serial>>

\* Slip: a stored event is counted for the run only.
StoreEventForRun(r) ==
    /\ At(r, "store")
    /\ stored' = stored \cup {Now(r)}
    /\ IF Now(r) \in stored THEN NextEvent(r) ELSE Goto(r, "readRun")
    /\ UNCHANGED <<scenario, run, reported, serial>>

\* regressionEvent.create: the primary key refuses an event that is stored, and
\* nothing is recounted for it.
StoreEvent(r) ==
    /\ At(r, "store")
    /\ stored' = stored \cup {Now(r)}
    /\ IF Now(r) \in stored THEN NextEvent(r)
       ELSE Goto(r, IF ScenarioOf[Now(r)] = NoScenario THEN "readRun" ELSE "readScenario")
    /\ UNCHANGED <<scenario, run, reported, serial>>

\* updateScenarioCounts, the read.
ReadScenario(r) ==
    /\ At(r, "readScenario")
    /\ req' = [req EXCEPT ![r] = [pc |-> "writeScenario", batch |-> req[r].batch,
                  counts |-> CountAssertions(InScenario(ScenarioOf[Now(r)]))]]
    /\ UNCHANGED <<stored, scenario, run, reported, serial>>

\* Slip: what was read is added to the counts instead of replacing them.
WriteScenarioAdding(r) ==
    /\ At(r, "writeScenario")
    /\ scenario' = [scenario EXCEPT ![ScenarioOf[Now(r)]].counts =
                      [o \in Outcome |-> @[o] + req[r].counts[o]]]
    /\ Goto(r, "readRun")
    /\ UNCHANGED <<stored, run, reported, serial>>

\* updateScenarioCounts, the write.
WriteScenario(r) ==
    /\ At(r, "writeScenario")
    /\ scenario' = [scenario EXCEPT ![ScenarioOf[Now(r)]].counts = req[r].counts]
    /\ Goto(r, "readRun")
    /\ UNCHANGED <<stored, run, reported, serial>>

\* updateRunCounts reads the assertions, ...
ReadRun(r) ==
    /\ At(r, "readRun")
    /\ req' = [req EXCEPT ![r] = [pc |-> "readStatus", batch |-> req[r].batch,
                                  counts |-> CountAssertions(stored)]]
    /\ UNCHANGED <<stored, scenario, run, reported, serial>>

\* ... then the status, ...
ReadStatus(r) ==
    /\ At(r, "readStatus")
    /\ req' = [req EXCEPT ![r] = [pc |-> "writeRun", batch |-> req[r].batch,
                                  counts |-> req[r].counts,
                                  status |-> StatusFor(req[r].counts, run.status),
                                  overtaken |-> FALSE]]
    /\ UNCHANGED <<stored, scenario, run, reported, serial>>

\* ... and writes both, whatever the row holds by now.
WriteRun(r) ==
    /\ At(r, "writeRun")
    /\ run' = [status |-> req[r].status, counts |-> req[r].counts]
    /\ req' = [Overtaken(req[r].status) EXCEPT ![r] = Rest(r)]
    /\ UNCHANGED <<stored, scenario, reported, serial>>

\* completeRun: the summary's status and totals replace the row's.  A client
\* sends the totals of all its assertions, or leaves them out.
CompleteRun(r, status, totals) ==
    /\ req[r] = Idle
    /\ run' = [status |-> status, counts |-> totals]
    /\ reported' = reported \cup {status}
    /\ req' = Overtaken(status)
    /\ serial' = (serial /\ Quiet)
    /\ UNCHANGED <<stored, scenario>>

\* A statement throws or the process dies: the rest of the batch is not done.
Fail(r) ==
    /\ MayFail
    /\ req[r] # Idle
    /\ req' = [req EXCEPT ![r] = Idle]
    /\ serial' = FALSE
    /\ UNCHANGED <<stored, scenario, run, reported>>

-----------------------------------------------------------------------------
(* Specification                                                           *)

Init ==
    /\ stored = {}
    /\ scenario = [s \in Scenarios |-> [status |-> "absent", counts |-> None]]
    /\ run = [status |-> "RUNNING", counts |-> None]
    /\ req = [r \in Requests |-> Idle]
    /\ reported = {}
    /\ serial = TRUE

Advance(r) ==
    \/ UpsertScenario(r) \/ StoreEvent(r)
    \/ ReadScenario(r) \/ WriteScenario(r)
    \/ ReadRun(r) \/ ReadStatus(r) \/ WriteRun(r)

Next ==
    \/ \E r \in Requests, batch \in Batches : Ingest(r, batch)
    \/ \E r \in Requests : Advance(r) \/ Fail(r)
    \/ \E r \in Requests, status \in RunStatus,
          totals \in {None, CountAssertions(Assertions)} : CompleteRun(r, status, totals)

Spec == Init /\ [][Next]_vars

-----------------------------------------------------------------------------
(* Properties                                                              *)

AtMost(counts, bound) == \A o \in Outcome : counts[o] <= bound[o]

\* Retries and overlapping batches never count an assertion twice: a scenario
\* shows at most what is stored for it, and so does the run until a summary
\* brings totals of its own - also while requests race and fail half-way.
NeverOvercounts ==
    /\ \A s \in Scenarios : AtMost(scenario[s].counts, CountAssertions(InScenario(s)))
    /\ reported = {} => AtMost(run.counts, CountAssertions(stored))

\* A verdict has a reason: a run is FAILED only when a failed assertion is stored
\* or a summary said so, and PASSED only when a summary said so - never by a
\* warning, or a status read before and written after the row changed.
VerdictHasReason ==
    /\ run.status = "FAILED" =>
         "FAILED" \in reported \/ \E e \in stored \cap Assertions : "failed" \in Outcomes[e]
    /\ run.status = "PASSED" => "PASSED" \in reported

\* As long as requests come one at a time and none fails, the counts are those of
\* what is stored whenever no request is in flight, however often batches are
\* retried, and a failed assertion has made the run FAILED.
CountsExact ==
    serial /\ Quiet =>
        /\ \A s \in Scenarios : scenario[s].counts = CountAssertions(InScenario(s))
        /\ reported = {} =>
             /\ run.counts = CountAssertions(stored)
             /\ run.counts["failed"] > 0 <=> run.status = "FAILED"

Reopened == run.status # "RUNNING" /\ run'.status = "RUNNING"

\* "does not downgrade a completed run to running": a request that delivers events
\* leaves a run that has ended ended ...
CompletedStaysCompleted == [][\A r \in Requests : WriteRun(r) => ~Reopened]_vars

\* ... unless the run was ended - by a summary, or by another request that stored
\* a failure - between this request's read of the status and its write.  However
\* requests overlap, fail and are retried, an event that comes to a run which has
\* ended before its status is read never reopens it.
LateEventsKeepVerdict ==
    [][\A r \in Requests : WriteRun(r) /\ Reopened => req[r].overtaken]_vars
=============================================================================

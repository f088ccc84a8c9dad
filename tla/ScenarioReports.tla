-------------------------- MODULE ScenarioReports --------------------------
(***************************************************************************)
(* How a failed scenario becomes an issue in Jira:                         *)
(* services/scenarioReports.service.ts.  A user asks for a report, which   *)
(* is a row PENDING; workers poll the API to claim one, create the issue,  *)
(* and patch the row with the outcome; the reporter gets a mail.  A claim  *)
(* reads a candidate and then compares and sets; a user's request reads    *)
(* the row and then writes it in one transaction at READ COMMITTED, so     *)
(* that a claim may fall in between.                                       *)
(*                                                                         *)
(* A report of a bug found by hand (manual) is not claimed: a docgen job   *)
(* delivers it, and claims have to look past it.                           *)
(*                                                                         *)
(* The workers are outside the repository and charitable: one patches      *)
(* "failed" only when it made no issue, and patches once.                  *)
(*                                                                         *)
(* Abstracted: texts, artifacts, provider data, Jira access, the mail of   *)
(* an issue that was created, and the checks that refuse a request without *)
(* effect.  One provider.  Two queued jobs of one report count as one.     *)
(* CREATING stands for ATTACHING too, a worker's second stage: every guard *)
(* treats the two alike.                                                   *)
(***************************************************************************)
EXTENDS Naturals, FiniteSets

CONSTANTS
    Reports,      \* one for each scenario that may be reported
    Manual,       \* those of bugs found by hand
    Users,        \* requests for reports the API has in flight
    Pollers,      \* workers that claim reports
    Docgen,       \* workers that run the jobs of manual reports
    MaxAttempts,  \* MAX_REPORT_ATTEMPTS
    Take          \* candidates a claim reads: MAX_REPORT_ATTEMPTS * 5

ASSUME ReportsAssumption ==
    /\ IsFiniteSet(Reports)
    /\ Manual \subseteq Reports
    /\ Pollers \cap Docgen = {}
    /\ MaxAttempts \in Nat \ {0}
    /\ Take \in Nat \ {0}

VARIABLES
    report,   \* status and attemptCount of each row
    born,     \* order of createdAt: 0 when there is no row
    jobs,     \* manual reports with a docgen job
    user,     \* requests for reports in flight
    work,     \* what each worker is doing
    told,     \* reports whose reporter was sent the mail of a final failure
    unsent,   \* history: those for which that mail could not be enqueued
    issues,   \* history: issues made for each claimed report
    overrun   \* history: reports asked for again that were no longer FAILED

vars == <<report, born, jobs, user, work, told, unsent, issues, overrun>>
history == <<issues, overrun>>

Workers == Pollers \cup Docgen

-----------------------------------------------------------------------------
(* Types                                                                   *)

ReportStatus == {"PENDING", "CREATING", "CREATED", "FAILED"}
Row == [status : ReportStatus \cup {"absent"}, attempts : Nat]

Idle == [pc |-> "idle"]

UserRequest == [pc : {"create", "update"}, rep : Reports] \cup [pc : {"enqueue"}, rep : Manual]
Task ==
    [pc : {"claim", "deliver"}, rep : Reports]
      \cup [pc : {"patch"}, rep : Reports, outcome : {"created", "failed"}]
      \cup [pc : {"notify"}, rep : Reports, row : Row]

TypeOK ==
    /\ report \in [Reports -> Row]
    /\ born \in [Reports -> Nat]
    /\ jobs \subseteq Manual
    /\ user \in [Users -> {Idle} \cup UserRequest]
    /\ work \in [Workers -> {Idle} \cup Task]
    /\ told \subseteq Reports
    /\ unsent \subseteq Reports
    /\ issues \in [Reports -> Nat]
    /\ overrun \subseteq Reports

-----------------------------------------------------------------------------
(* Requests for reports                                                    *)

Exists(r) == report[r].status # "absent"

SetStatus(r, status) == report' = [report EXCEPT ![r].status = status]

Await(u, pc, r) == user' = [user EXCEPT ![u] = [pc |-> pc, rep |-> r]]
Answer(u)       == user' = [user EXCEPT ![u] = Idle]

\* A new row is the youngest.
Append(r) == born' = [born EXCEPT ![r] = Cardinality({q \in Reports : Exists(q)}) + 1]

\* createScenarioReport looks for the scenario's report.  One that is PENDING,
\* CREATING or CREATED is returned as it is; a manual report has a scenario to
\* report only once it exists.
CreateReportRead(u, r) ==
    /\ user[u] = Idle
    /\ \/ ~Exists(r) /\ r \notin Manual /\ Await(u, "create", r)
       \/ report[r].status = "FAILED" /\ Await(u, "update", r)
    /\ UNCHANGED <<report, born, jobs, work, told, unsent, history>>

\* The row is created; when another request was first, the unique key refuses it.
CreateReport(u) ==
    /\ user[u].pc = "create"
    /\ LET r == user[u].rep
       IN IF Exists(r) THEN UNCHANGED <<report, born>>
          ELSE SetStatus(r, "PENDING") /\ Append(r)
    /\ Answer(u)
    /\ UNCHANGED <<jobs, work, told, unsent, history>>

\* A report that was read FAILED is PENDING again, whatever it is by now; its
\* attempts stay counted.
ReopenReport(u) ==
    /\ user[u].pc = "update"
    /\ LET r == user[u].rep
       IN /\ SetStatus(r, "PENDING")
          /\ overrun' = IF report[r].status = "FAILED" THEN overrun
                        ELSE overrun \cup {r}
    /\ Answer(u)
    /\ UNCHANGED <<born, jobs, work, told, unsent, issues>>

\* createManualBugReport's transaction: it holds the run's row from its first
\* statement, so it is one step; the job follows the commit.
CreateManualReport(u, r) ==
    /\ user[u] = Idle
    /\ r \in Manual
    /\ SetStatus(r, "PENDING")
    /\ IF Exists(r) THEN UNCHANGED born ELSE Append(r)
    /\ Await(u, "enqueue", r)
    /\ UNCHANGED <<jobs, work, told, unsent, history>>

EnqueueManual(u) ==
    /\ user[u].pc = "enqueue"
    /\ jobs' = jobs \cup {user[u].rep}
    /\ Answer(u)
    /\ UNCHANGED <<report, born, work, told, unsent, history>>

\* Redis fails: the row stays, the request is answered with an error.
EnqueueManualThrows(u) ==
    /\ user[u].pc = "enqueue"
    /\ Answer(u)
    /\ UNCHANGED <<report, born, jobs, work, told, unsent, history>>

-----------------------------------------------------------------------------
(* Claims                                                                  *)

Goto(w, task) == work' = [work EXCEPT ![w] = task]

Claimable(r) == report[r].status \in {"PENDING", "FAILED"} /\ report[r].attempts < MaxAttempts

\* The reports a claim reads: the oldest claimable ones, as many as it takes.
Window == {r \in Reports : /\ Claimable(r)
                           /\ Cardinality({q \in Reports : Claimable(q) /\ born[q] < born[r]}) < Take}

Oldest(S) == {r \in S : \A q \in S : born[r] <= born[q]}

\* Slip: the oldest report is looked at, manual or not.
CandidatesUnsearched == Oldest(Window) \ Manual

\* The first of them that is not manual.
Candidates == Oldest(Window \ Manual)

\* A claim for any report.
ClaimRead(p) ==
    /\ work[p] = Idle
    /\ \E r \in Candidates : Goto(p, [pc |-> "claim", rep |-> r])
    /\ UNCHANGED <<report, born, jobs, user, told, unsent, history>>

\* A claim that names its report.
ClaimNamed(p, r) ==
    /\ work[p] = Idle
    /\ Claimable(r) /\ r \notin Manual
    /\ Goto(p, [pc |-> "claim", rep |-> r])
    /\ UNCHANGED <<report, born, jobs, user, told, unsent, history>>

Claimed(row) == [status |-> "CREATING", attempts |-> row.attempts + 1]

\* Slip: the candidate is updated by id.
ClaimById(p) ==
    /\ work[p].pc = "claim"
    /\ report' = [report EXCEPT ![work[p].rep] = Claimed(@)]
    /\ Goto(p, [pc |-> "deliver", rep |-> work[p].rep])
    /\ UNCHANGED <<born, jobs, user, told, unsent, history>>

\* Slip: the limit is checked only when the candidate is read.
ClaimUnlimited(p) ==
    /\ work[p].pc = "claim"
    /\ LET r == work[p].rep
       IN IF report[r].status \in {"PENDING", "FAILED"}
            THEN report' = [report EXCEPT ![r] = Claimed(@)] /\ Goto(p, [pc |-> "deliver", rep |-> r])
            ELSE UNCHANGED report /\ Goto(p, Idle)
    /\ UNCHANGED <<born, jobs, user, told, unsent, history>>

\* updateMany where it is still claimable; count # 1 answers that there is none.
ClaimWrite(p) ==
    /\ work[p].pc = "claim"
    /\ LET r == work[p].rep
       IN IF Claimable(r)
            THEN report' = [report EXCEPT ![r] = Claimed(@)] /\ Goto(p, [pc |-> "deliver", rep |-> r])
            ELSE UNCHANGED report /\ Goto(p, Idle)
    /\ UNCHANGED <<born, jobs, user, told, unsent, history>>

-----------------------------------------------------------------------------
(* Delivery: the workers, outside the repository, and their patch requests *)

\* A docgen worker takes the job of a manual report.
TakeJob(d, r) ==
    /\ work[d] = Idle
    /\ r \in jobs
    /\ jobs' = jobs \ {r}
    /\ Goto(d, [pc |-> "deliver", rep |-> r])
    /\ UNCHANGED <<report, born, user, told, unsent, history>>

\* The provider makes an issue, or refuses.
Deliver(w) ==
    /\ work[w].pc = "deliver"
    /\ LET r == work[w].rep
       IN \E outcome \in {"created", "failed"} :
            /\ Goto(w, [pc |-> "patch", rep |-> r, outcome |-> outcome])
            /\ issues' = IF outcome = "created" /\ r \notin Manual
                           THEN [issues EXCEPT ![r] = @ + 1] ELSE issues
    /\ UNCHANGED <<report, born, jobs, user, told, unsent, overrun>>

\* A worker dies with what it holds; another takes its place.
Die(w) ==
    /\ work[w].pc \in {"deliver", "patch"}
    /\ Goto(w, Idle)
    /\ UNCHANGED <<report, born, jobs, user, told, unsent, history>>

ToDbReportStatus(outcome) == IF outcome = "created" THEN "CREATED" ELSE "FAILED"

\* patchScenarioReport: an update by id, and the row it returns.
Patch(w) ==
    /\ work[w].pc = "patch"
    /\ LET r == work[w].rep
           status == ToDbReportStatus(work[w].outcome)
       IN /\ SetStatus(r, status)
          /\ Goto(w, [pc |-> "notify", rep |-> r,
                      row |-> [status |-> status, attempts |-> report[r].attempts]])
    /\ UNCHANGED <<born, jobs, user, told, unsent, history>>

\* Slip: past the limit, not at it.
GivenUpPastLimit(row) == row.status = "FAILED" /\ row.attempts > MaxAttempts

\* A patched row that calls for the mail of a final failure.
GivenUp(row) == row.status = "FAILED" /\ row.attempts >= MaxAttempts

\* notifyScenarioReportUpdated: an error of the mail queue is logged, no more.
Notify(w) ==
    /\ work[w].pc = "notify"
    /\ LET about == IF GivenUp(work[w].row) THEN {work[w].rep} ELSE {}
       IN \/ told' = told \cup about /\ UNCHANGED unsent
          \/ unsent' = unsent \cup about /\ UNCHANGED told
    /\ Goto(w, Idle)
    /\ UNCHANGED <<report, born, jobs, user, history>>

-----------------------------------------------------------------------------
(* Specification                                                           *)

Init ==
    /\ report = [r \in Reports |-> [status |-> "absent", attempts |-> 0]]
    /\ born = [r \in Reports |-> 0]
    /\ jobs = {}
    /\ user = [u \in Users |-> Idle]
    /\ work = [w \in Workers |-> Idle]
    /\ told = {} /\ unsent = {}
    /\ issues = [r \in Reports |-> 0]
    /\ overrun = {}

User(u) ==
    \/ \E r \in Reports : CreateReportRead(u, r) \/ CreateManualReport(u, r)
    \/ CreateReport(u) \/ ReopenReport(u)
    \/ EnqueueManual(u) \/ EnqueueManualThrows(u)

Claim(p) == ClaimRead(p) \/ ClaimWrite(p)

Finish(w) == Deliver(w) \/ Patch(w) \/ Notify(w)

Next ==
    \/ \E u \in Users : User(u)
    \/ \E p \in Pollers : Claim(p) \/ \E r \in Reports : ClaimNamed(p, r)
    \/ \E d \in Docgen, r \in Reports : TakeJob(d, r)
    \/ \E w \in Workers : Finish(w) \/ Die(w)

Spec == Init /\ [][Next]_vars

\* Workers go on polling and finish what they hold, unless they die.
Fairness ==
    /\ \A p \in Pollers : WF_vars(Claim(p))
    /\ \A w \in Workers : WF_vars(Finish(w))

FairSpec == Spec /\ Fairness

-----------------------------------------------------------------------------
(* Properties                                                              *)

\* A scenario gets one issue: of all the workers that claim, retry and die, one at
\* most makes an issue for a report, as long as no request that read the report
\* FAILED puts it back to PENDING after a claim of it.
OneIssue == \A r \in Reports : r \notin overrun => issues[r] <= 1

\* MAX_REPORT_ATTEMPTS is the limit of claims of one report, also for claims that
\* read it before others used the last attempt up, and after it was asked for
\* again.
AttemptsBounded == \A r \in Reports : report[r].attempts <= MaxAttempts

\* Nobody waits for a report that has been given up: once it is FAILED with no
\* attempt left, its reporter has been sent the mail, unless the mail queue
\* failed or the mail is being sent.
GiveUpTold ==
    \A r \in Reports :
        report[r].status = "FAILED" /\ report[r].attempts >= MaxAttempts =>
            \/ r \in told \cup unsent
            \/ \E w \in Workers : work[w].pc = "notify" /\ work[w].rep = r

\* With fewer manual reports than a claim takes, they hold up no other: each
\* report with attempts left is claimed in the end, whatever is older than it.
ClaimableIsClaimed == \A r \in Reports \ Manual : Claimable(r) ~> ~Claimable(r)
=============================================================================

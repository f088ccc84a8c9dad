----------------------------- MODULE TestFlows -----------------------------
(***************************************************************************)
(* Test flows: what an editor saves, what docgen is asked to generate, the *)
(* notification that marks a flow as generated, and the mail about it.     *)
(*                                                                         *)
(* The status of a flow is not stored: it is read off two dates of the API *)
(* process, modifiedAt and generatedAt.  Saving, generating and marking    *)
(* each read or compute something, wait, and write.                        *)
(*                                                                         *)
(* Abstracted: the steps of a flow are the number of the save they are     *)
(* from; labels, codebases, scopes and payloads.  docgen is another        *)
(* program: it writes the code of one job and notifies, once, or again     *)
(* after an answer that was lost.                                          *)
(***************************************************************************)
EXTENDS Naturals, FiniteSets

CONSTANTS
    Flows,      \* test flows of one application
    FlowSession,\* [Flows -> the crawl session a flow is from]
    FlowType,   \* [Flows -> testFlowType]
    Slots,      \* slots of requests in flight
    Jobs,       \* docgen jobs
    MaxTime,    \* bound: the last millisecond
    MaxSaves    \* bound: how often flows are saved

ASSUME TestFlowsAssumption ==
    IsFiniteSet(Flows) /\ MaxTime \in Nat \ {0} /\ MaxSaves \in Nat

VARIABLES
    flow,       \* [Flows -> the row in test_flows], or none
    now,        \* the clock of the API
    saves,      \* number of the last save
    flowReq,    \* requests in flight
    job,        \* [Jobs -> a docgen job], or unused
    code,       \* [Flows -> {the steps the generated code is from}], or {}
    mails,      \* jobs the mail queue has ever got: it keeps the finished ones
    overlapped  \* (ghost) flows saved during a generation or with a date not after
                \* the mark's, or generated twice at once

flowVars == <<flow, now, saves, flowReq, job, code, mails, overlapped>>

-----------------------------------------------------------------------------
(* Types                                                                   *)

Times == 0 .. MaxTime
Steps == 0 .. MaxSaves

NoFlow == [id |-> "none"]

\* generated = 0: generatedAt is null.
FlowRow == [steps : Steps, modified : Times, generated : Times]

NoRequest == [op |-> "none"]
FlowRequest ==
    [op : {"save"}, flow : Flows, steps : Steps, at : Times]
    \cup [op : {"generate"}, flow : Flows, steps : Steps]
    \cup [op : {"notify"}, job : Jobs, pc : {"mark", "mail"}]

NoJob == [state |-> "unused"]
Job   == [state : {"queued", "generated", "failed", "done"}, flow : Flows, steps : Steps]

Mail == {"framework-generated", "framework-generation-failed"}
        \X {FlowSession[f] : f \in Flows}

FlowsTypeOK ==
    /\ flow \in [Flows -> FlowRow \cup {NoFlow}]
    /\ now \in Times \ {0}
    /\ saves \in Steps
    /\ flowReq \in [Slots -> FlowRequest \cup {NoRequest}]
    /\ job \in [Jobs -> Job \cup {NoJob}]
    /\ code \in [Flows -> SUBSET Steps]
    /\ mails \subseteq Mail
    /\ overlapped \subseteq Flows

-----------------------------------------------------------------------------
(* Rows                                                                    *)

HasFlow(f) == flow[f] # NoFlow

TestFlowStatus(f) ==
    IF flow[f].generated = 0 THEN "NEEDS_GENERATION"
    ELSE IF flow[f].modified > flow[f].generated THEN "STALE" ELSE "GENERATED"

\* The crawler writes a flow.
FlowFound(f) ==
    /\ ~HasFlow(f)
    /\ flow' = [flow EXCEPT ![f] = [steps |-> 0, modified |-> now, generated |-> 0]]
    /\ UNCHANGED <<now, saves, flowReq, job, code, mails, overlapped>>

Tick ==
    /\ now < MaxTime
    /\ now' = now + 1
    /\ UNCHANGED <<flow, saves, flowReq, job, code, mails, overlapped>>

-----------------------------------------------------------------------------
(* Requests                                                                *)

Enter(r, x) == flowReq[r] = NoRequest /\ flowReq' = [flowReq EXCEPT ![r] = x]
Leave(r)    == flowReq' = [flowReq EXCEPT ![r] = NoRequest]

\* A generation of f that was begun and is not marked yet.
Generating(f) ==
    \/ \E r \in Slots : flowReq[r].op = "generate" /\ flowReq[r].flow = f
    \/ \E j \in Jobs : job[j].state \in {"queued", "generated"} /\ job[j].flow = f
    \/ \E r \in Slots : flowReq[r].op = "notify" /\ flowReq[r].pc = "mark"
                        /\ job[flowReq[r].job].flow = f

\* saveFlowEditorSteps: the date is taken before the write.
SaveRead(r, f) ==
    /\ HasFlow(f)
    /\ saves < MaxSaves
    /\ saves' = saves + 1
    /\ Enter(r, [op |-> "save", flow |-> f, steps |-> saves + 1, at |-> now])
    /\ UNCHANGED <<flow, now, job, code, mails, overlapped>>

\* Slip: the steps without the date.
SavedUndated(row, q) == [row EXCEPT !.steps = q.steps]

Saved(row, q) == [row EXCEPT !.steps = q.steps, !.modified = q.at]

\* getTestFlowStatus compares milliseconds with >: a save that is not dated after
\* the mark does not show.  Its date was taken before the mark was made, or else
\* in the mark's very millisecond, be it that the save came wholly after it.
Hidden(row, q) == row.generated >= q.at

SaveWrite(r) ==
    /\ flowReq[r].op = "save"
    /\ LET f == flowReq[r].flow
       IN /\ flow' = [flow EXCEPT ![f] = Saved(flow[f], flowReq[r])]
          /\ overlapped' = IF Generating(f) \/ Hidden(flow[f], flowReq[r])
                             THEN overlapped \cup {f} ELSE overlapped
    /\ Leave(r)
    /\ UNCHANGED <<now, saves, job, code, mails>>

\* generateTestFlow: refused when the flow is generated; else its steps as they
\* are now are what the job will carry.
GenerateRead(r, f) ==
    /\ HasFlow(f)
    /\ TestFlowStatus(f) # "GENERATED"
    /\ Enter(r, [op |-> "generate", flow |-> f, steps |-> flow[f].steps])
    /\ overlapped' = IF Generating(f) THEN overlapped \cup {f} ELSE overlapped \ {f}
    /\ UNCHANGED <<flow, now, saves, job, code, mails>>

\* Every job has an id of its own: two requests make two jobs.  Or Redis fails.
GenerateEnqueue(r) ==
    /\ flowReq[r].op = "generate"
    /\ \/ \E j \in Jobs :
             /\ job[j] = NoJob
             /\ job' = [job EXCEPT ![j] = [state |-> "queued", flow |-> flowReq[r].flow,
                                           steps |-> flowReq[r].steps]]
       \/ UNCHANGED job
    /\ Leave(r)
    /\ UNCHANGED <<flow, now, saves, code, mails, overlapped>>

\* docgen runs a job.
DocgenRuns(j) ==
    /\ job[j].state = "queued"
    /\ \/ /\ job' = [job EXCEPT ![j].state = "generated"]
          /\ code' = [code EXCEPT ![job[j].flow] = {job[j].steps}]
       \/ /\ job' = [job EXCEPT ![j].state = "failed"]
          /\ UNCHANGED code
    /\ UNCHANGED <<flow, now, saves, flowReq, mails, overlapped>>

\* Its notification arrives and finds the session; only a success marks flows.
NotifyRead(r, j) ==
    /\ job[j].state \in {"generated", "failed"}
    /\ \A q \in Slots : flowReq[q].op = "notify" => flowReq[q].job # j
    /\ Enter(r, [op |-> "notify", job |-> j,
                 pc |-> IF job[j].state = "generated" THEN "mark" ELSE "mail"])
    /\ UNCHANGED <<flow, now, saves, job, code, mails, overlapped>>

\* markTestFlowsGenerated: the date of the mark, whatever was generated.
NotifyMark(r) ==
    /\ flowReq[r].op = "notify" /\ flowReq[r].pc = "mark"
    /\ LET f == job[flowReq[r].job].flow
       IN flow' = [flow EXCEPT ![f].generated = now]
    /\ flowReq' = [flowReq EXCEPT ![r].pc = "mail"]
    /\ UNCHANGED <<now, saves, job, code, mails, overlapped>>

MailId(x) ==
    <<IF x.state = "failed" THEN "framework-generation-failed" ELSE "framework-generated",
      FlowSession[x.flow]>>

\* A job id the queue has had before adds nothing; a failure to add is logged.
\* The answer may be lost: docgen notifies again.
NotifyMail(r) ==
    /\ flowReq[r].op = "notify" /\ flowReq[r].pc = "mail"
    /\ LET j == flowReq[r].job
       IN /\ mails' = mails \cup {MailId(job[j])} \/ UNCHANGED mails
          /\ job' = [job EXCEPT ![j].state = "done"] \/ UNCHANGED job
    /\ Leave(r)
    /\ UNCHANGED <<flow, now, saves, code, overlapped>>

-----------------------------------------------------------------------------
(* The dashboard's count of flows                                          *)

\* Slip: a flow marked in the millisecond of its last change counts as pending.
IsGeneratedStrictly(row) == row.generated # 0 /\ row.generated > row.modified

IsGenerated(row) == row.generated # 0 /\ row.generated >= row.modified

IsStale(row) == row.generated # 0 /\ row.modified > row.generated

\* getTestFlowBreakdown, for one type.
Breakdown(type) ==
    LET rows == {f \in Flows : HasFlow(f) /\ FlowType[f] = type}
        gen  == {f \in rows : IsGenerated(flow[f])}
        old  == {f \in rows \ gen : IsStale(flow[f])}
    IN [count     |-> Cardinality(rows),
        generated |-> Cardinality(gen),
        stale     |-> Cardinality(old),
        pending   |-> Cardinality(rows \ (gen \cup old))]

-----------------------------------------------------------------------------
(* Specification                                                           *)

FlowsInit ==
    /\ flow = [f \in Flows |-> NoFlow]
    /\ now = 1
    /\ saves = 0
    /\ flowReq = [r \in Slots |-> NoRequest]
    /\ job = [j \in Jobs |-> NoJob]
    /\ code = [f \in Flows |-> {}]
    /\ mails = {}
    /\ overlapped = {}

FlowsNext ==
    \/ Tick
    \/ \E f \in Flows : FlowFound(f)
    \/ \E r \in Slots, f \in Flows : SaveRead(r, f) \/ GenerateRead(r, f)
    \/ \E r \in Slots : SaveWrite(r) \/ GenerateEnqueue(r)
    \/ \E j \in Jobs : DocgenRuns(j)
    \/ \E r \in Slots, j \in Jobs : NotifyRead(r, j)
    \/ \E r \in Slots : NotifyMark(r) \/ NotifyMail(r)

FlowsSpec == FlowsInit /\ [][FlowsNext]_flowVars

-----------------------------------------------------------------------------
(* Properties                                                              *)

\* A flow that reads GENERATED, and can therefore not be generated again, has code
\* made from the steps it now has.  There are four exceptions, where the code
\* reads GENERATED over older code: it was saved between the reading of its steps
\* and the mark; its save took its date before the mark and wrote after it; it was
\* saved after the mark but in the same millisecond; or it was generated twice at
\* once.  Those are the flows in overlapped, until a generation of them is accepted
\* with no other under way: while they read GENERATED only another save makes one.
GeneratedIsCurrent ==
    \A f \in Flows :
        HasFlow(f) /\ TestFlowStatus(f) = "GENERATED" /\ f \notin overlapped =>
            code[f] = {flow[f].steps}

\* The dashboard decides by rules of its own what the list of flows decides by
\* getTestFlowStatus: of every type, both count the same flows under each status.
DashboardAgrees ==
    \A type \in {FlowType[f] : f \in Flows} :
        LET With(status) == Cardinality({f \in Flows : /\ HasFlow(f)
                                                       /\ FlowType[f] = type
                                                       /\ TestFlowStatus(f) = status})
            b == Breakdown(type)
        IN /\ b.generated = With("GENERATED")
           /\ b.stale = With("STALE")
           /\ b.pending = With("NEEDS_GENERATION")
           /\ b.count = b.generated + b.stale + b.pending
=============================================================================

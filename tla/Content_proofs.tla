--------------------------- MODULE Content_proofs ---------------------------
(***************************************************************************)
(* Theorems about TestFlows, Artifacts, Listings and HttpSurface.          *)
(*                                                                         *)
(* TestFlows, for any flows, requests and docgen jobs:                     *)
(*   FlowsTypeCorrect    - every behaviour is well typed;                  *)
(*   GeneratedIsTheSaved - a flow that reads GENERATED has code made from  *)
(*                         the steps it now has, unless it was saved       *)
(*                         during a generation, saved with a date not      *)
(*                         after the mark's (Hidden), or generated twice   *)
(*                         at once: as long as it is not in overlapped,    *)
(*                         whatever is on its way to its code carries the  *)
(*                         steps of its row;                               *)
(*   CountsAgree         - the dashboard and the list of flows count the   *)
(*                         same flows under each status.                   *)
(*                                                                         *)
(* Artifacts, for any uploads, keys, paths, page size and failures:        *)
(*   ArtifactsTypeCorrect - every behaviour is well typed;                 *)
(*   NothingIsLeft        - the clean-up leaves in the bucket only what    *)
(*                          was uploaded since it began: up to the token   *)
(*                          everything older has been deleted, for a page  *)
(*                          leaves out no key before its last;             *)
(*   TreeIsWhole          - the tree of a listing holds each artifact      *)
(*                          once, where its path says, and counts right:   *)
(*                          the loops make TreeOf, which says what is in   *)
(*                          which folder, and what is beneath a folder is  *)
(*                          divided among its children.                    *)
(*                                                                         *)
(* Listings, for any rows, times and page size:                            *)
(*   ListingsTypeCorrect - every behaviour is well typed;                  *)
(*   PagesAreExact       - the pages show what they should, and nothing    *)
(*                         twice: each kind of cursor separates what was   *)
(*                         shown from what was not.                        *)
(*                                                                         *)
(* HttpSurface, for every call, credential, body and role:                 *)
(*   HttpTypeCorrect     - every behaviour is well typed;                  *)
(*   RefusalsAndRows     - a guard refuses for a reason, and a change      *)
(*                         recorded as an activity is one that was made;   *)
(*   OperationsAreServed - if the tables of routes and of documents fit,   *)
(*                         which takes no behaviour to tell, then every    *)
(*                         call is served as documented.                   *)
(*                                                                         *)
(*   ContentTypeCorrect  - the four side by side are well typed.           *)
(***************************************************************************)
EXTENDS MCContent, FiniteSetTheorems, SequenceTheorems, TLAPS

-----------------------------------------------------------------------------
(* Type correctness                                                        *)

\* What is in flight is for a flow that exists; a notification is for a job that
\* has run, marks only after a success, and is the only one for its job.
InFlightSound ==
    /\ \A r \in Slots : flowReq[r].op \in {"save", "generate"} => HasFlow(flowReq[r].flow)
    /\ \A j \in Jobs : job[j] # NoJob => HasFlow(job[j].flow)
    /\ \A r \in Slots : flowReq[r].op = "notify" =>
         /\ job[flowReq[r].job].state \in {"generated", "failed"}
         /\ flowReq[r].pc = "mark" => job[flowReq[r].job].state = "generated"
         /\ \A q \in Slots : flowReq[q].op = "notify" /\ flowReq[q].job = flowReq[r].job => q = r

FlowsSound == FlowsTypeOK /\ InFlightSound

\* A request and a job, by what they are.
LEMMA RequestTypes ==
  ASSUME FlowsTypeOK, NEW r \in Slots
  PROVE  /\ flowReq[r].op = "save" =>
              flowReq[r] \in [op : {"save"}, flow : Flows, steps : Steps, at : Times]
         /\ flowReq[r].op = "generate" =>
              flowReq[r] \in [op : {"generate"}, flow : Flows, steps : Steps]
         /\ flowReq[r].op = "notify" =>
              flowReq[r] \in [op : {"notify"}, job : Jobs, pc : {"mark", "mail"}]
  BY DEF FlowsTypeOK, FlowRequest, NoRequest

LEMMA JobTypes ==
  ASSUME FlowsTypeOK, NEW j \in Jobs
  PROVE  /\ job[j] # NoJob => job[j] \in Job
         /\ job[j].state # "unused" => job[j] \in Job
  BY DEF FlowsTypeOK, NoJob, Job

LEMMA FlowTypes ==
  ASSUME FlowsTypeOK, NEW f \in Flows, HasFlow(f)
  PROVE  flow[f] \in FlowRow
  BY DEF FlowsTypeOK, HasFlow

LEMMA FlowsTypeInit == FlowsInit => FlowsSound
  BY TestFlowsAssumption
  DEF FlowsInit, FlowsSound, FlowsTypeOK, InFlightSound, Times, Steps, NoRequest, NoJob

\* Saving and generating, the clock and the crawler.
LEMMA SavesType ==
  ASSUME FlowsSound,
         \/ Tick \/ (\E f \in Flows : FlowFound(f))
         \/ \E r \in Slots : \/ \E f \in Flows : SaveRead(r, f) \/ GenerateRead(r, f)
                             \/ SaveWrite(r) \/ GenerateEnqueue(r)
  PROVE  FlowsSound'
<1> USE TestFlowsAssumption
    DEF FlowsSound, FlowsTypeOK, InFlightSound, HasFlow, Times, Steps, Enter, Leave
<1>1. CASE Tick BY <1>1 DEF Tick
<1>2. ASSUME NEW f \in Flows, FlowFound(f) PROVE FlowsSound'
  <2>1. [steps |-> 0, modified |-> now, generated |-> 0] \in FlowRow BY DEF FlowRow
  <2>2. \A g \in Flows : HasFlow(g) => HasFlow(g)' BY <1>2, <2>1 DEF FlowFound, FlowRow, NoFlow
  <2>3. FlowsTypeOK' BY <1>2, <2>1 DEF FlowFound
  <2> QED BY <1>2, <2>2, <2>3, RequestTypes, JobTypes DEF FlowFound, Job
<1>3. ASSUME NEW r \in Slots, NEW f \in Flows, SaveRead(r, f) PROVE FlowsSound'
  <2> DEFINE x == [op |-> "save", flow |-> f, steps |-> saves + 1, at |-> now]
  <2>1. x \in FlowRequest BY <1>3 DEF FlowRequest, SaveRead
  <2>2. x.op = "save" /\ x.flow = f OBVIOUS
  <2> HIDE DEF x
  <2>3. flowReq' = [flowReq EXCEPT ![r] = x] BY <1>3 DEF SaveRead, x
  <2> QED BY <1>3, <2>1, <2>2, <2>3 DEF SaveRead
<1>4. ASSUME NEW r \in Slots, NEW f \in Flows, GenerateRead(r, f) PROVE FlowsSound'
  <2> DEFINE x == [op |-> "generate", flow |-> f, steps |-> flow[f].steps]
  <2>1. flow[f].steps \in Steps BY <1>4, FlowTypes DEF GenerateRead, FlowRow
  <2>2. x \in FlowRequest BY <2>1 DEF FlowRequest
  <2>3. x.op = "generate" /\ x.flow = f OBVIOUS
  <2> HIDE DEF x
  <2>4. flowReq' = [flowReq EXCEPT ![r] = x] BY <1>4 DEF GenerateRead, x
  <2> QED BY <1>4, <2>2, <2>3, <2>4 DEF GenerateRead
<1>5. ASSUME NEW r \in Slots, SaveWrite(r) PROVE FlowsSound'
  <2> DEFINE f == flowReq[r].flow
             x == Saved(flow[f], flowReq[r])
  <2>1. flowReq[r] \in [op : {"save"}, flow : Flows, steps : Steps, at : Times]
    BY <1>5, RequestTypes DEF SaveWrite
  <2>2. flow[f] \in FlowRow BY <1>5, <2>1, FlowTypes DEF SaveWrite
  <2>3. x \in FlowRow /\ x # NoFlow BY <2>1, <2>2 DEF Saved, FlowRow, NoFlow
  <2>4. flow' = [flow EXCEPT ![f] = x] BY <1>5 DEF SaveWrite
  <2>5. overlapped' \subseteq Flows BY <1>5, <2>1 DEF SaveWrite
  <2>6. \A g \in Flows : HasFlow(g) => HasFlow(g)' BY <2>3, <2>4
  <2> HIDE DEF x
  <2>7. FlowsTypeOK' BY <1>5, <2>1, <2>3, <2>4, <2>5 DEF SaveWrite
  <2> QED
    BY <1>5, <2>6, <2>7, RequestTypes, JobTypes DEF SaveWrite, NoRequest, Job
<1>6. ASSUME NEW r \in Slots, GenerateEnqueue(r) PROVE FlowsSound'
  <2>1. flowReq[r] \in [op : {"generate"}, flow : Flows, steps : Steps]
    BY <1>6, RequestTypes DEF GenerateEnqueue
  <2>2. CASE UNCHANGED job BY <1>6, <2>2 DEF GenerateEnqueue, NoRequest
  <2>3. ASSUME NEW j \in Jobs, job[j] = NoJob,
               job' = [job EXCEPT ![j] = [state |-> "queued", flow |-> flowReq[r].flow,
                                          steps |-> flowReq[r].steps]]
        PROVE  FlowsSound'
    <3>1. \A q \in Slots : flowReq[q].op = "notify" => flowReq[q].job # j
      BY <2>3 DEF NoJob
    <3>2. job'[j] \in Job /\ job'[j].flow = flowReq[r].flow BY <2>1, <2>3 DEF Job
    <3>3. FlowsTypeOK' BY <1>6, <2>1, <2>3, <3>2 DEF GenerateEnqueue
    <3> QED BY <1>6, <2>1, <2>3, <3>1, <3>2, <3>3 DEF GenerateEnqueue, NoRequest
  <2> QED BY <1>6, <2>2, <2>3 DEF GenerateEnqueue
<1> QED BY <1>1, <1>2, <1>3, <1>4, <1>5, <1>6

\* docgen and its notifications.
LEMMA NotifiesType ==
  ASSUME FlowsSound,
         \/ \E j \in Jobs : DocgenRuns(j)
         \/ \E r \in Slots : (\E j \in Jobs : NotifyRead(r, j)) \/ NotifyMark(r) \/ NotifyMail(r)
  PROVE  FlowsSound'
<1> USE TestFlowsAssumption
    DEF FlowsSound, FlowsTypeOK, InFlightSound, HasFlow, Times, Steps, Enter, Leave
<1>1. ASSUME NEW j \in Jobs, DocgenRuns(j) PROVE FlowsSound'
  <2>1. job[j] \in Job BY <1>1, JobTypes DEF DocgenRuns
  <2>2. PICK st \in {"generated", "failed"} : job' = [job EXCEPT ![j].state = st]
    BY <1>1 DEF DocgenRuns
  <2>3. job'[j] \in Job /\ job'[j].flow = job[j].flow /\ job[j] # NoJob
    BY <2>1, <2>2 DEF Job, NoJob
  <2>4. code' \in [Flows -> SUBSET Steps] BY <1>1, <2>1 DEF DocgenRuns, Job
  <2>5. \A q \in Slots : flowReq[q].op = "notify" => flowReq[q].job # j
    BY <1>1 DEF DocgenRuns
  <2>6. FlowsTypeOK' BY <1>1, <2>2, <2>3, <2>4 DEF DocgenRuns
  <2> QED BY <1>1, <2>2, <2>3, <2>5, <2>6 DEF DocgenRuns
<1>2. ASSUME NEW r \in Slots, NEW j \in Jobs, NotifyRead(r, j) PROVE FlowsSound'
  <2> DEFINE x == [op |-> "notify", job |-> j,
                   pc |-> IF job[j].state = "generated" THEN "mark" ELSE "mail"]
  <2>1. x \in FlowRequest BY DEF FlowRequest
  <2>2. x.op = "notify" /\ x.job = j /\ (x.pc = "mark" => job[j].state = "generated") OBVIOUS
  <2> HIDE DEF x
  <2>3. flowReq' = [flowReq EXCEPT ![r] = x] BY <1>2 DEF NotifyRead, x
  <2> QED BY <1>2, <2>1, <2>2, <2>3 DEF NotifyRead
<1>3. ASSUME NEW r \in Slots, NotifyMark(r) PROVE FlowsSound'
  <2> DEFINE j == flowReq[r].job
             f == job[j].flow
             x == [flowReq[r] EXCEPT !.pc = "mail"]
  <2>1. flowReq[r] \in [op : {"notify"}, job : Jobs, pc : {"mark", "mail"}]
    BY <1>3, RequestTypes DEF NotifyMark
  <2>2. job[j] \in Job /\ job[j] # NoJob BY <1>3, <2>1, JobTypes DEF NotifyMark, NoJob
  <2>3. f \in Flows /\ flow[f] \in FlowRow BY <2>1, <2>2, FlowTypes DEF Job
  <2>4. [flow[f] EXCEPT !.generated = now] \in FlowRow BY <2>3 DEF FlowRow
  <2>5. x \in FlowRequest /\ x.op = "notify" /\ x.job = j /\ x.pc = "mail"
    BY <2>1 DEF FlowRequest
  <2>6. flow' = [flow EXCEPT ![f] = [flow[f] EXCEPT !.generated = now]] BY <1>3 DEF NotifyMark
  <2>7. flowReq' = [flowReq EXCEPT ![r] = x] BY <1>3 DEF NotifyMark
  <2>8. \A g \in Flows : HasFlow(g) => HasFlow(g)' BY <2>4, <2>6 DEF NoFlow, FlowRow
  <2> HIDE DEF x
  <2>9. flow' \in [Flows -> FlowRow \cup {NoFlow}] BY <2>3, <2>4, <2>6
  <2>10. flowReq' \in [Slots -> FlowRequest \cup {NoRequest}] BY <2>5, <2>7
  <2>11. UNCHANGED <<now, saves, job, code, mails, overlapped>> BY <1>3 DEF NotifyMark
  <2>12. FlowsTypeOK' BY <2>9, <2>10, <2>11
  <2>13. \A q \in Slots : flowReq'[q].op = flowReq[q].op
    BY <2>1, <2>5, <2>7
  <2>14. \A q \in Slots : flowReq[q].op = "notify" => flowReq'[q].job = flowReq[q].job
    BY <2>1, <2>5, <2>7
  <2>15. \A q \in Slots : flowReq[q].op \in {"save", "generate"} => flowReq'[q].flow = flowReq[q].flow
    BY <2>1, <2>7
  <2>16. \A q \in Slots : flowReq'[q].op = "notify" /\ flowReq'[q].pc = "mark" =>
            flowReq[q].pc = "mark"
    BY <1>3, <2>5, <2>7 DEF NotifyMark
  <2>17. /\ \A q \in Slots : flowReq[q].op \in {"save", "generate"} => flowReq[q].flow \in Flows
         /\ \A i \in Jobs : job[i] # NoJob => job[i].flow \in Flows
    BY RequestTypes, JobTypes DEF Job
  <2> HIDE DEF HasFlow
  <2>18. InFlightSound'
    BY <2>8, <2>13, <2>14, <2>15, <2>11, <2>16, <2>17
  <2> QED BY <2>12, <2>18
<1>4. ASSUME NEW r \in Slots, NotifyMail(r) PROVE FlowsSound'
  <2> DEFINE j == flowReq[r].job
  <2>1. flowReq[r] \in [op : {"notify"}, job : Jobs, pc : {"mark", "mail"}]
    BY <1>4, RequestTypes DEF NotifyMail
  <2>2. job[j] \in Job BY <1>4, <2>1, JobTypes DEF NotifyMail, NoJob
  <2>3. MailId(job[j]) \in Mail BY <2>2 DEF MailId, Mail, Job
  <2>4. mails' \subseteq Mail BY <1>4, <2>3 DEF NotifyMail
  <2>5. job' = job \/ job' = [job EXCEPT ![j].state = "done"] BY <1>4 DEF NotifyMail
  <2>6. /\ job'[j] \in Job /\ job'[j].flow = job[j].flow
        /\ \A i \in Jobs \ {j} : job'[i] = job[i]
    BY <2>1, <2>2, <2>5 DEF Job
  <2>7. job' \in [Jobs -> Job \cup {NoJob}] BY <2>1, <2>5, <2>6
  <2>8. \A q \in Slots \ {r} : flowReq'[q] = flowReq[q] BY <1>4 DEF NotifyMail
  <2>9. flowReq'[r] = NoRequest BY <1>4 DEF NotifyMail
  <2>10. \A q \in Slots \ {r} : flowReq[q].op = "notify" => flowReq[q].job # j
    BY <1>4, <2>1 DEF NotifyMail
  <2>11. FlowsTypeOK' BY <1>4, <2>4, <2>7 DEF NotifyMail
  <2>12. InFlightSound'
    BY <1>4, <2>1, <2>2, <2>6, <2>8, <2>9, <2>10, RequestTypes DEF NotifyMail, NoRequest, NoJob, Job
  <2> QED BY <2>11, <2>12
<1> QED BY <1>1, <1>2, <1>3, <1>4

LEMMA FlowsTypeStep == FlowsSound /\ [FlowsNext]_flowVars => FlowsSound'
<1>1. ASSUME FlowsSound, UNCHANGED flowVars PROVE FlowsSound'
  BY <1>1 DEF FlowsSound, FlowsTypeOK, InFlightSound, HasFlow, flowVars
<1> QED BY <1>1, SavesType, NotifiesType DEF FlowsNext

\* The state is well typed in every behaviour.
THEOREM FlowsTypeCorrect == FlowsSpec => []FlowsTypeOK
<1>1. FlowsSound => FlowsTypeOK BY DEF FlowsSound
<1> QED BY <1>1, FlowsTypeInit, FlowsTypeStep, PTL DEF FlowsSpec
-----------------------------------------------------------------------------
(* A flow that reads GENERATED                                             *)

\* What is on its way to the code of f, and the code once it is there, is from
\* the steps that f now has.
Current(f) ==
    /\ \A r \in Slots : flowReq[r].op = "generate" /\ flowReq[r].flow = f =>
         flowReq[r].steps = flow[f].steps
    /\ \A j \in Jobs : job[j].state \in {"queued", "generated"} /\ job[j].flow = f =>
         /\ job[j].steps = flow[f].steps
         /\ job[j].state = "generated" => code[f] = {flow[f].steps}
    /\ HasFlow(f) /\ TestFlowStatus(f) = "GENERATED" => code[f] = {flow[f].steps}

CurrentUnlessOverlapped == \A f \in Flows : f \notin overlapped => Current(f)

\* Nothing is under way for f, and it does not read GENERATED.
LEMMA NothingUnderWay ==
  ASSUME NEW f \in Flows, ~ Generating(f), HasFlow(f) => TestFlowStatus(f) # "GENERATED"
  PROVE  Current(f)
  BY DEF Current, Generating

\* A step that leaves the row and the code of f alone and starts nothing for it.
LEMMA CurrentKept ==
  ASSUME NEW f \in Flows, Current(f),
         HasFlow(f)' => HasFlow(f) /\ flow'[f] = flow[f],
         flow'[f].steps = flow[f].steps, code'[f] = code[f],
         \A r \in Slots : flowReq'[r].op = "generate" => flowReq'[r] = flowReq[r],
         \A j \in Jobs : job'[j].state \in {"queued", "generated"} => job'[j] = job[j]
  PROVE  Current(f)'
  BY DEF Current, HasFlow, TestFlowStatus

LEMMA CurrentStep ==
  ASSUME FlowsSound, FlowsSound', CurrentUnlessOverlapped, [FlowsNext]_flowVars
  PROVE  CurrentUnlessOverlapped'
<1> SUFFICES ASSUME NEW f \in Flows, f \notin overlapped' PROVE Current(f)'
  BY DEF CurrentUnlessOverlapped
<1> USE DEF FlowsSound
<1>1. CASE Tick \/ UNCHANGED flowVars
  <2>1. UNCHANGED <<flow, flowReq, job, code, overlapped>> BY <1>1 DEF Tick, flowVars
  <2> QED BY <2>1, CurrentKept DEF CurrentUnlessOverlapped, HasFlow
<1>2. ASSUME NEW g \in Flows, FlowFound(g) PROVE Current(f)'
  <2>1. UNCHANGED <<flowReq, job, code, overlapped>> BY <1>2 DEF FlowFound
  <2>2. CASE f = g
    <3>1. flow'[f] = [steps |-> 0, modified |-> now, generated |-> 0]
      BY <1>2, <2>2 DEF FlowFound, FlowsTypeOK
    <3>2. ~ HasFlow(f) BY <1>2, <2>2 DEF FlowFound
    <3>3. \A j \in Jobs : job[j].state \in {"queued", "generated"} => job[j].flow # f
      BY <3>2 DEF InFlightSound, NoJob
    <3>4. \A r \in Slots : flowReq[r].op = "generate" => flowReq[r].flow # f
      BY <3>2 DEF InFlightSound
    <3> QED BY <2>1, <3>1, <3>3, <3>4 DEF Current, TestFlowStatus
  <2>3. CASE f # g
    BY <1>2, <2>1, <2>3, CurrentKept DEF FlowFound, FlowsTypeOK, CurrentUnlessOverlapped, HasFlow
  <2> QED BY <2>2, <2>3
<1>3. ASSUME NEW r \in Slots, NEW g \in Flows, SaveRead(r, g) PROVE Current(f)'
  <2>1. UNCHANGED <<flow, job, code, overlapped>> BY <1>3 DEF SaveRead
  <2>2. \A q \in Slots : flowReq'[q].op = "generate" => flowReq'[q] = flowReq[q]
    BY <1>3 DEF SaveRead, Enter, FlowsTypeOK
  <2> QED BY <2>1, <2>2, CurrentKept DEF CurrentUnlessOverlapped, HasFlow
<1>4. ASSUME NEW r \in Slots, NEW g \in Flows, GenerateRead(r, g) PROVE Current(f)'
  <2>1. UNCHANGED <<flow, job, code>> BY <1>4 DEF GenerateRead
  <2>2. /\ flowReq'[r] = [op |-> "generate", flow |-> g, steps |-> flow[g].steps]
        /\ \A q \in Slots \ {r} : flowReq'[q] = flowReq[q]
    BY <1>4 DEF GenerateRead, Enter, FlowsTypeOK
  <2>3. Current(f)
    <3>1. CASE f \notin overlapped BY <3>1 DEF CurrentUnlessOverlapped
    <3>2. CASE f \in overlapped
      <4>1. f = g /\ ~ Generating(f) BY <1>4, <3>2 DEF GenerateRead
      <4>2. TestFlowStatus(f) # "GENERATED" BY <1>4, <4>1 DEF GenerateRead
      <4> QED BY <4>1, <4>2, NothingUnderWay
    <3> QED BY <3>1, <3>2
  <2>4. \A q \in Slots : flowReq'[q].op = "generate" /\ flowReq'[q].flow = f =>
           flowReq'[q].steps = flow[f].steps
    BY <2>2, <2>3 DEF Current
  <2> QED BY <2>1, <2>3, <2>4 DEF Current, HasFlow, TestFlowStatus
<1>5. ASSUME NEW r \in Slots, SaveWrite(r) PROVE Current(f)'
  <2> DEFINE g == flowReq[r].flow
  <2>1. flowReq[r] \in [op : {"save"}, flow : Flows, steps : Steps, at : Times]
    BY <1>5, RequestTypes DEF SaveWrite
  <2>2. UNCHANGED <<job, code>> BY <1>5 DEF SaveWrite
  <2>3. \A q \in Slots : flowReq'[q].op = "generate" => flowReq'[q] = flowReq[q]
    BY <1>5 DEF SaveWrite, Leave, NoRequest, FlowsTypeOK
  <2>4. f \notin overlapped BY <1>5 DEF SaveWrite
  <2>5. CASE f # g
    BY <1>5, <2>2, <2>3, <2>4, <2>5, CurrentKept
    DEF SaveWrite, FlowsTypeOK, CurrentUnlessOverlapped, HasFlow
  <2>6. CASE f = g
    <3>1. ~ Generating(f) /\ ~ (flow[f].generated >= flowReq[r].at)
      BY <1>5, <2>6 DEF SaveWrite, Hidden
    <3>2. flow[f] \in FlowRow BY <1>5, <2>1, <2>6, FlowTypes DEF SaveWrite, InFlightSound
    <3>3. flow'[f] = Saved(flow[f], flowReq[r]) BY <1>5, <2>1, <2>6 DEF SaveWrite, FlowsTypeOK
    <3>4. flow'[f].modified > flow'[f].generated
      BY <2>1, <3>1, <3>2, <3>3, TestFlowsAssumption DEF Saved, FlowRow, Times
    <3>5. TestFlowStatus(f)' # "GENERATED" BY <3>4 DEF TestFlowStatus
    <3>6. /\ \A j \in Jobs : job'[j].state \in {"queued", "generated"} => job'[j].flow # f
          /\ \A q \in Slots : flowReq'[q].op = "generate" => flowReq'[q].flow # f
      BY <2>2, <2>3, <3>1 DEF Generating
    <3> QED BY <3>5, <3>6 DEF Current
  <2> QED BY <2>5, <2>6
<1>6. ASSUME NEW r \in Slots, GenerateEnqueue(r) PROVE Current(f)'
  <2>1. UNCHANGED <<flow, code, overlapped>> BY <1>6 DEF GenerateEnqueue
  <2>2. \A q \in Slots : flowReq'[q].op = "generate" => flowReq'[q] = flowReq[q]
    BY <1>6 DEF GenerateEnqueue, Leave, NoRequest, FlowsTypeOK
  <2>3. Current(f) BY <2>1 DEF CurrentUnlessOverlapped
  <2>4. ASSUME NEW j \in Jobs, job'[j] # job[j]
        PROVE  job'[j].state = "queued"
               /\ (job'[j].flow = f => job'[j].steps = flow[f].steps)
    <3>1. job'[j] = [state |-> "queued", flow |-> flowReq[r].flow, steps |-> flowReq[r].steps]
      BY <1>6, <2>4 DEF GenerateEnqueue, FlowsTypeOK
    <3> QED BY <1>6, <2>3, <3>1 DEF Current, GenerateEnqueue
  <2>5. \A j \in Jobs : job'[j].state \in {"queued", "generated"} /\ job'[j].flow = f =>
           /\ job'[j].steps = flow[f].steps
           /\ job'[j].state = "generated" => code[f] = {flow[f].steps}
    BY <2>3, <2>4 DEF Current
  <2>6. HasFlow(f)' /\ TestFlowStatus(f)' = "GENERATED" => code[f] = {flow[f].steps}
    BY <2>1, <2>3 DEF Current, HasFlow, TestFlowStatus
  <2> QED BY <2>1, <2>2, <2>3, <2>5, <2>6 DEF Current
<1>7. ASSUME NEW i \in Jobs, DocgenRuns(i) PROVE Current(f)'
  <2>1. UNCHANGED <<flow, flowReq, overlapped>> BY <1>7 DEF DocgenRuns
  <2>2. Current(f) BY <2>1 DEF CurrentUnlessOverlapped
  <2>3. job[i] \in Job BY <1>7, JobTypes DEF DocgenRuns
  <2>4. /\ job'[i].flow = job[i].flow /\ job'[i].steps = job[i].steps
        /\ \A j \in Jobs \ {i} : job'[j] = job[j]
    BY <1>7, <2>3 DEF DocgenRuns, FlowsTypeOK, Job
  <2>5. \/ job'[i].state = "generated" /\ code' = [code EXCEPT ![job[i].flow] = {job[i].steps}]
        \/ job'[i].state = "failed" /\ UNCHANGED code
    BY <1>7, <2>3 DEF DocgenRuns, FlowsTypeOK, Job
  <2>6. CASE job[i].flow = f /\ job'[i].state = "generated"
    <3>1. code'[f] = {flow[f].steps}
      BY <1>7, <2>2, <2>5, <2>6 DEF DocgenRuns, Current, FlowsTypeOK
    <3> QED BY <1>7, <2>1, <2>2, <2>4, <3>1 DEF Current, DocgenRuns, HasFlow, TestFlowStatus
  <2>7. CASE ~ (job[i].flow = f /\ job'[i].state = "generated")
    <3>1. code'[f] = code[f] BY <2>3, <2>5, <2>7 DEF FlowsTypeOK, Job
    <3> QED BY <2>1, <2>2, <2>4, <2>5, <2>7, <3>1 DEF Current, HasFlow, TestFlowStatus
  <2> QED BY <2>6, <2>7
<1>8. ASSUME NEW r \in Slots, NEW j \in Jobs, NotifyRead(r, j) PROVE Current(f)'
  <2>1. UNCHANGED <<flow, job, code, overlapped>> BY <1>8 DEF NotifyRead
  <2>2. \A q \in Slots : flowReq'[q].op = "generate" => flowReq'[q] = flowReq[q]
    BY <1>8 DEF NotifyRead, Enter, FlowsTypeOK
  <2> QED BY <2>1, <2>2, CurrentKept DEF CurrentUnlessOverlapped, HasFlow
<1>9. ASSUME NEW r \in Slots, NotifyMark(r) PROVE Current(f)'
  <2> DEFINE j == flowReq[r].job
             g == job[j].flow
  <2>1. UNCHANGED <<job, code, overlapped>> BY <1>9 DEF NotifyMark
  <2>2. flowReq[r] \in [op : {"notify"}, job : Jobs, pc : {"mark", "mail"}]
    BY <1>9, RequestTypes DEF NotifyMark
  <2>3. \A q \in Slots : flowReq'[q].op = "generate" => flowReq'[q] = flowReq[q]
    BY <1>9, <2>2 DEF NotifyMark, FlowsTypeOK
  <2>4. Current(f) BY <2>1 DEF CurrentUnlessOverlapped
  <2>5. CASE f = g
    <3>1. job[j].state = "generated" /\ job[j] # NoJob
      BY <1>9 DEF NotifyMark, InFlightSound, NoJob
    <3>2. code[f] = {flow[f].steps} BY <2>2, <2>4, <2>5, <3>1 DEF Current
    <3>3. flow[f] \in FlowRow BY <2>2, <2>5, <3>1, FlowTypes DEF InFlightSound
    <3>4. flow'[f].steps = flow[f].steps BY <1>9, <2>5, <3>3 DEF NotifyMark, FlowsTypeOK, FlowRow
    <3> QED BY <2>1, <2>3, <2>4, <3>2, <3>4 DEF Current
  <2>6. CASE f # g
    BY <1>9, <2>1, <2>3, <2>4, <2>6, CurrentKept DEF NotifyMark, FlowsTypeOK, HasFlow
  <2> QED BY <2>5, <2>6
<1>10. ASSUME NEW r \in Slots, NotifyMail(r) PROVE Current(f)'
  <2>1. UNCHANGED <<flow, code, overlapped>> BY <1>10 DEF NotifyMail
  <2>2. \A q \in Slots : flowReq'[q].op = "generate" => flowReq'[q] = flowReq[q]
    BY <1>10 DEF NotifyMail, Leave, NoRequest, FlowsTypeOK
  <2>3. \A j \in Jobs : job'[j].state \in {"queued", "generated"} => job'[j] = job[j]
    <3>1. flowReq[r].job \in Jobs /\ job[flowReq[r].job] \in Job
      BY <1>10, RequestTypes, JobTypes DEF NotifyMail, InFlightSound
    <3> QED BY <1>10, <3>1 DEF NotifyMail, FlowsTypeOK, Job
  <2> QED BY <2>1, <2>2, <2>3, CurrentKept DEF CurrentUnlessOverlapped, HasFlow
<1> QED
  BY <1>1, <1>2, <1>3, <1>4, <1>5, <1>6, <1>7, <1>8, <1>9, <1>10 DEF FlowsNext

\* A flow that reads GENERATED has code from the steps it now has, however saves,
\* generations and notifications interleave, but for the flows in overlapped: saved
\* while a generation of them was under way; saved with a date not after the mark's,
\* which a save after the mark has too if it comes within the same millisecond; or
\* generated twice at once.
THEOREM GeneratedIsTheSaved == FlowsSpec => []GeneratedIsCurrent
<1>1. FlowsInit => CurrentUnlessOverlapped
  BY DEF FlowsInit, CurrentUnlessOverlapped, Current, NoRequest, NoJob, HasFlow
<1>2. FlowsSound /\ CurrentUnlessOverlapped /\ [FlowsNext]_flowVars
        => (FlowsSound /\ CurrentUnlessOverlapped)'
  BY FlowsTypeStep, CurrentStep
<1>3. CurrentUnlessOverlapped => GeneratedIsCurrent
  BY DEF CurrentUnlessOverlapped, Current, GeneratedIsCurrent
<1> QED BY <1>1, <1>2, <1>3, FlowsTypeInit, PTL DEF FlowsSpec

-----------------------------------------------------------------------------
(* The dashboard                                                           *)

\* The two ways to decide the status of a flow are one.
LEMMA SameStatus ==
  ASSUME FlowsTypeOK, NEW f \in Flows, HasFlow(f)
  PROVE  /\ IsGenerated(flow[f]) <=> TestFlowStatus(f) = "GENERATED"
         /\ IsStale(flow[f]) <=> TestFlowStatus(f) = "STALE"
         /\ TestFlowStatus(f) \in {"GENERATED", "STALE", "NEEDS_GENERATION"}
<1>1. flow[f].generated \in Nat /\ flow[f].modified \in Nat
  BY FlowTypes, TestFlowsAssumption DEF FlowRow, Times
<1> QED BY <1>1 DEF IsGenerated, IsStale, TestFlowStatus

\* So both count the same flows, and every flow once.
LEMMA CountsOfTypes == FlowsTypeOK => DashboardAgrees
<1> SUFFICES ASSUME FlowsTypeOK, NEW type \in {FlowType[f] : f \in Flows}
             PROVE  LET With(status) == Cardinality({f \in Flows : /\ HasFlow(f)
                                                       /\ FlowType[f] = type
                                                       /\ TestFlowStatus(f) = status})
                        b == Breakdown(type)
                    IN /\ b.generated = With("GENERATED")
                       /\ b.stale = With("STALE")
                       /\ b.pending = With("NEEDS_GENERATION")
                       /\ b.count = b.generated + b.stale + b.pending
  BY DEF DashboardAgrees
<1> DEFINE Of(status) == {f \in Flows : /\ HasFlow(f)
                                        /\ FlowType[f] = type
                                        /\ TestFlowStatus(f) = status}
           rows == {f \in Flows : HasFlow(f) /\ FlowType[f] = type}
           gen  == {f \in rows : IsGenerated(flow[f])}
           old  == {f \in rows \ gen : IsStale(flow[f])}
           left == rows \ (gen \cup old)
<1>1. gen = Of("GENERATED") BY SameStatus
<1>2. old = Of("STALE") BY SameStatus
<1>3. left = Of("NEEDS_GENERATION") BY <1>1, <1>2, SameStatus
<1>4. IsFiniteSet(rows) /\ IsFiniteSet(gen) /\ IsFiniteSet(old) /\ IsFiniteSet(left)
  BY TestFlowsAssumption, FS_Subset
<1>5. Cardinality(rows) = Cardinality(gen) + Cardinality(old) + Cardinality(left)
  <2>1. ASSUME NEW S, NEW T, IsFiniteSet(S), IsFiniteSet(T), S \cap T = {}
        PROVE  /\ IsFiniteSet(S \cup T)
               /\ Cardinality(S \cup T) = Cardinality(S) + Cardinality(T)
    <3>1. Cardinality(S) \in Nat /\ Cardinality(T) \in Nat BY <2>1, FS_CardinalityType
    <3>2. Cardinality(S \cap T) = 0 BY <2>1, FS_EmptySet
    <3>3. /\ IsFiniteSet(S \cup T)
          /\ Cardinality(S \cup T) = Cardinality(S) + Cardinality(T) - Cardinality(S \cap T)
      BY <2>1, FS_Union
    <3> QED BY <3>1, <3>2, <3>3
  <2>2. gen \cap old = {} /\ rows = (gen \cup old) \cup left /\ (gen \cup old) \cap left = {}
    OBVIOUS
  <2> HIDE DEF rows, gen, old, left
  <2>3. /\ IsFiniteSet(gen \cup old)
        /\ Cardinality(gen \cup old) = Cardinality(gen) + Cardinality(old)
    BY <1>4, <2>1, <2>2
  <2>4. Cardinality((gen \cup old) \cup left) = Cardinality(gen \cup old) + Cardinality(left)
    BY <1>4, <2>1, <2>2, <2>3
  <2> QED BY <2>2, <2>3, <2>4
<1>6. Breakdown(type) = [count |-> Cardinality(rows), generated |-> Cardinality(gen),
                         stale |-> Cardinality(old), pending |-> Cardinality(left)]
  BY DEF Breakdown
<1> HIDE DEF rows, gen, old, left, Of
<1>7. /\ Breakdown(type).generated = Cardinality(Of("GENERATED"))
      /\ Breakdown(type).stale = Cardinality(Of("STALE"))
      /\ Breakdown(type).pending = Cardinality(Of("NEEDS_GENERATION"))
      /\ Breakdown(type).count =
           Breakdown(type).generated + Breakdown(type).stale + Breakdown(type).pending
  BY <1>1, <1>2, <1>3, <1>5, <1>6
<1> QED BY <1>7 DEF Of

\* The dashboard and the list of flows agree in every state, on any flows.
THEOREM CountsAgree == FlowsSpec => []DashboardAgrees
  BY FlowsTypeCorrect, CountsOfTypes, PTL

-----------------------------------------------------------------------------
(* The clean-up of the bucket                                              *)

\* The stored keys between the token and x.
Ahead(token, x) == {l \in Stored : l > token /\ l < x}

LEMMA KeysArePositive == \A k \in Keys : k \in Nat /\ k > 0
BY ArtifactsAssumption DEF Keys

\* They are finitely many, however many keys the bucket holds.
LEMMA AheadFinite ==
    ASSUME NEW token \in Nat, NEW x \in Keys
    PROVE  IsFiniteSet(Ahead(token, x)) /\ Cardinality(Ahead(token, x)) \in Nat
<1>1. Ahead(token, x) \in SUBSET Nat /\ x \in Nat /\ \A l \in Ahead(token, x) : l <= x
  BY KeysArePositive DEF Ahead, Stored
<1>2. IsFiniteSet(Ahead(token, x))
  BY <1>1, FS_BoundedSetOfNaturals
<1>. QED BY <1>2, FS_CardinalityType

LEMMA AheadGrows ==
    ASSUME NEW token \in Nat, NEW x \in Stored, x > token, NEW y \in Keys, x < y
    PROVE  Cardinality(Ahead(token, x)) < Cardinality(Ahead(token, y))
<1>1. x \in Keys /\ x \in Nat /\ y \in Nat
  BY KeysArePositive DEF Stored
<1>2. /\ IsFiniteSet(Ahead(token, x)) /\ Cardinality(Ahead(token, x)) \in Nat
      /\ IsFiniteSet(Ahead(token, y)) /\ Cardinality(Ahead(token, y)) \in Nat
  BY <1>1, AheadFinite
<1>3. Ahead(token, x) \cup {x} \in SUBSET Ahead(token, y)
  <2>. SUFFICES ASSUME NEW l \in Ahead(token, x) \cup {x} PROVE l \in Ahead(token, y)
    OBVIOUS
  <2>1. CASE l = x
    BY <2>1 DEF Ahead
  <2>2. CASE l \in Ahead(token, x)
    <3>1. l \in Stored /\ l > token /\ l < x /\ l \in Nat
      BY <2>2, KeysArePositive DEF Ahead, Stored
    <3>. QED BY <1>1, <3>1 DEF Ahead
  <2>. QED BY <2>1, <2>2
<1>4. x \notin Ahead(token, x)
  BY <1>1 DEF Ahead
<1>5. Cardinality(Ahead(token, x) \cup {x}) = Cardinality(Ahead(token, x)) + 1
  BY <1>2, <1>4, FS_AddElement
<1>6. Cardinality(Ahead(token, x) \cup {x}) <= Cardinality(Ahead(token, y))
  BY <1>2, <1>3, FS_Subset
<1>. QED BY <1>2, <1>5, <1>6

\* A page that is not empty has a last key.
LEMMA PageHasLast ==
    ASSUME NEW token \in Nat, Page(token) # {}
    PROVE  Max(Page(token)) \in Page(token) /\ \A k \in Page(token) : k <= Max(Page(token))
<1>. DEFINE Room(x) == PageSize - Cardinality(Ahead(token, x))
            Rooms   == {Room(x) : x \in Page(token)}
            R       == OpToRel(<, Nat)
<1>1. \A x \in Page(token) :
         /\ x \in Stored /\ x \in Keys /\ x \in Nat /\ x > token
         /\ Cardinality(Ahead(token, x)) \in Nat
         /\ Room(x) \in Nat
  <2>. SUFFICES ASSUME NEW x \in Page(token)
                PROVE  /\ x \in Stored /\ x \in Keys /\ x \in Nat /\ x > token
                       /\ Cardinality(Ahead(token, x)) \in Nat
                       /\ Room(x) \in Nat
    OBVIOUS
  <2>1. x \in Stored /\ x > token /\ Cardinality(Ahead(token, x)) < PageSize
    BY DEF Page, Ahead
  <2>2. x \in Keys /\ x \in Nat
    BY <2>1, KeysArePositive DEF Stored
  <2>3. Cardinality(Ahead(token, x)) \in Nat
    BY <2>2, AheadFinite
  <2>. QED BY <2>1, <2>2, <2>3, ArtifactsAssumption
<1>2. Rooms \subseteq Nat /\ Rooms # {}
  BY <1>1
<1>3. \E n \in Rooms : \A m \in Rooms : ~ (<<m, n>> \in R)
  <2>. HIDE DEF Rooms, R
  <2>1. IsWellFoundedOn(R, Nat)
    BY NatLessThanWellFounded DEF R
  <2>. QED BY <1>2, <2>1, WFMin
<1>4. PICK last \in Page(token) : \A m \in Rooms : ~ (m < Room(last))
  <2>1. PICK n \in Rooms : \A m \in Rooms : ~ (<<m, n>> \in R)
    BY <1>3
  <2>2. PICK x \in Page(token) : n = Room(x)
    BY <2>1
  <2>3. \A m \in Rooms : ~ (m < n)
    BY <1>2, <2>1 DEF OpToRel
  <2>. QED BY <2>2, <2>3
<1>5. \A y \in Page(token) : last >= y
  <2>. SUFFICES ASSUME NEW y \in Page(token), last < y PROVE FALSE
    BY <1>1
  <2>1. Cardinality(Ahead(token, last)) < Cardinality(Ahead(token, y))
    BY <1>1, AheadGrows
  <2>2. ~ (Room(y) < Room(last))
    BY <1>4
  <2>. QED BY <1>1, <2>1, <2>2, ArtifactsAssumption
<1>6. Max(Page(token)) \in Page(token) /\ \A y \in Page(token) : Max(Page(token)) >= y
  BY <1>5 DEF Max
<1>. QED BY <1>1, <1>6

\* A page leaves nothing out before its last key.
LEMMA PageIsPrefix ==
    ASSUME NEW token \in Nat, NEW k \in Stored, k > token,
           NEW last \in Page(token), k <= last
    PROVE  k \in Page(token)
<1>1. k \in Keys /\ k \in Nat /\ last \in Stored /\ last \in Keys /\ last \in Nat
  BY KeysArePositive DEF Page, Stored
<1>2. CASE k = last
  BY <1>2
<1>3. CASE k < last
  <2>1. Cardinality(Ahead(token, k)) < Cardinality(Ahead(token, last))
    BY <1>1, <1>3, AheadGrows
  <2>2. Cardinality(Ahead(token, last)) < PageSize
    BY DEF Page, Ahead
  <2>3. Cardinality(Ahead(token, k)) \in Nat /\ Cardinality(Ahead(token, last)) \in Nat
    BY <1>1, AheadFinite
  <2>4. Cardinality(Ahead(token, k)) < PageSize
    BY <2>1, <2>2, <2>3, ArtifactsAssumption
  <2>. QED BY <2>4 DEF Page, Ahead
<1>. QED BY <1>1, <1>2, <1>3

\* Up to the token, up to the listed keys, and in the end everywhere, the bucket
\* holds nothing but what came after the clean-up had begun.
Swept(k) == bucket[k] \subseteq late

CleanupSound ==
    /\ cleanup # NoCleanup => appRow = "live"
    /\ cleanup.pc = "list" =>
         \A k \in Keys : k <= cleanup.token => Swept(k)
    /\ cleanup.pc = "delete" =>
         /\ \A k \in Keys \ cleanup.keys : k <= cleanup.token => Swept(k)
         /\ ~cleanup.truncated => \A k \in Keys \ cleanup.keys : Swept(k)
    /\ cleanup.pc = "drop" => \A k \in Keys : Swept(k)
    /\ CleanupLeavesNothing

ArtifactsSound == ArtifactsTypeOK /\ CleanupSound

LEMMA SoundAtFirst == ArtifactsInit => ArtifactsSound
BY DEF ArtifactsInit, ArtifactsSound, ArtifactsTypeOK, CleanupSound, CleanupLeavesNothing,
       NoCleanup, Cleanup, ArtifactRow

\* What an upload puts into the bucket while a clean-up is under way, or after
\* one, is late.
LEMMA PutKeeps ==
    ASSUME ArtifactsSound, NEW u \in Uploads, PutObject(u), UNCHANGED <<appRow, cleanup>>
    PROVE  CleanupSound' /\ bucket' \in [Keys -> SUBSET Uploads] /\ late' \subseteq Uploads
<1>1. bucket' \in [Keys -> SUBSET Uploads] /\ late' \subseteq Uploads
  BY DEF ArtifactsSound, ArtifactsTypeOK, PutObject, Keys
<1>2. cleanup # NoCleanup \/ appRow = "gone" =>
         \A k \in Keys : Swept(k) => Swept(k)'
  BY DEF ArtifactsSound, ArtifactsTypeOK, PutObject, Swept
<1>3. cleanup.pc \in {"list", "delete", "drop"} => cleanup # NoCleanup
  BY DEF NoCleanup
<1>. QED
  <2>1. CASE cleanup # NoCleanup \/ appRow = "gone"
    BY <1>1, <1>2, <2>1 DEF ArtifactsSound, CleanupSound, CleanupLeavesNothing, Swept
  <2>2. CASE ~ (cleanup # NoCleanup \/ appRow = "gone")
    BY <1>1, <1>3, <2>2 DEF CleanupSound, CleanupLeavesNothing
  <2>. QED BY <2>1, <2>2

\* Nothing the clean-up depends on is touched.
LEMMA NothingSwept ==
    ASSUME ArtifactsSound, UNCHANGED <<appRow, bucket, cleanup, late>>
    PROVE  CleanupSound'
BY DEF ArtifactsSound, CleanupSound, CleanupLeavesNothing, Swept

LEMMA CreateKeeps ==
    ASSUME ArtifactsSound, NEW u \in Uploads, NEW status \in {"UPLOADED", "FAILED"},
           Create(u, status)
    PROVE  artifacts' \in Seq(ArtifactRow)
<1>1. [upload |-> u, uploadStatus |-> status] \in ArtifactRow
  BY DEF ArtifactRow
<1>2. artifacts \in Seq(ArtifactRow)
  BY DEF ArtifactsSound, ArtifactsTypeOK
<1>. QED BY <1>1, <1>2 DEF Create

LEMMA UploadsKeep ==
    ASSUME ArtifactsSound, NEW u \in Uploads,
           UploadRead(u) \/ UploadPut(u) \/ UploadRow(u) \/ UploadCatch(u)
    PROVE  ArtifactsSound'
<1>1. CASE UploadRead(u)
  <2>1. CleanupSound'
    BY <1>1, NothingSwept DEF UploadRead
  <2>. QED BY <1>1, <2>1 DEF UploadRead, UploadTo, ArtifactsSound, ArtifactsTypeOK
<1>2. CASE UploadPut(u)
  <2>1. CASE PutObject(u)
    <3>1. CleanupSound' /\ bucket' \in [Keys -> SUBSET Uploads] /\ late' \subseteq Uploads
      BY <1>2, <2>1, PutKeeps DEF UploadPut
    <3>. QED BY <1>2, <3>1 DEF UploadPut, UploadTo, ArtifactsSound, ArtifactsTypeOK
  <2>2. CASE UNCHANGED <<bucket, late>>
    <3>1. CleanupSound'
      BY <1>2, <2>2, NothingSwept DEF UploadPut
    <3>. QED BY <1>2, <2>2, <3>1 DEF UploadPut, UploadTo, ArtifactsSound, ArtifactsTypeOK
  <2>. QED BY <1>2, <2>1, <2>2 DEF UploadPut
<1>3. CASE UploadRow(u)
  <2>1. CleanupSound'
    BY <1>3, NothingSwept DEF UploadRow
  <2>2. artifacts' \in Seq(ArtifactRow)
    BY <1>3, CreateKeeps DEF UploadRow, ArtifactsSound, ArtifactsTypeOK
  <2>. QED BY <1>3, <2>1, <2>2 DEF UploadRow, UploadTo, ArtifactsSound, ArtifactsTypeOK
<1>4. CASE UploadCatch(u)
  <2>1. CleanupSound'
    BY <1>4, NothingSwept DEF UploadCatch
  <2>2. artifacts' \in Seq(ArtifactRow)
    BY <1>4, CreateKeeps DEF UploadCatch, ArtifactsSound, ArtifactsTypeOK
  <2>. QED BY <1>4, <2>1, <2>2 DEF UploadCatch, UploadTo, ArtifactsSound, ArtifactsTypeOK
<1>. QED BY <1>1, <1>2, <1>3, <1>4

LEMMA StartKeeps == ASSUME ArtifactsSound, CleanupStart PROVE ArtifactsSound'
<1>1. ArtifactsTypeOK'
  BY DEF CleanupStart, ArtifactsSound, ArtifactsTypeOK, Cleanup
<1>2. \A k \in Keys : ~ (k <= cleanup'.token)
  BY KeysArePositive DEF CleanupStart
<1>3. CleanupSound'
  BY <1>2 DEF CleanupStart, CleanupSound, CleanupLeavesNothing
<1>. QED BY <1>1, <1>3 DEF ArtifactsSound

\* A page is read: what is behind it has been swept, or is on it.
LEMMA ListKeeps == ASSUME ArtifactsSound, CleanupList PROVE ArtifactsSound'
<1>1. CASE cleanup' = NoCleanup
  BY <1>1 DEF CleanupList, ArtifactsSound, ArtifactsTypeOK, CleanupSound, CleanupLeavesNothing,
              Cleanup, NoCleanup, Swept
<1>2. CASE cleanup' # NoCleanup
  <2>. DEFINE page == Page(cleanup.token)
              last == IF page = {} THEN cleanup.token ELSE Max(page)
  <2>1. /\ cleanup.pc = "list" /\ appRow = "live"
        /\ cleanup.token \in Nat
        /\ \A k \in Keys : k <= cleanup.token => Swept(k)
    BY <1>2 DEF CleanupList, ArtifactsSound, ArtifactsTypeOK, CleanupSound, Cleanup, NoCleanup
  <2>2. /\ cleanup' = [pc |-> "delete", keys |-> page, token |-> last,
                       truncated |-> \E k \in Stored \ page : k > cleanup.token]
        /\ UNCHANGED <<appRow, upload, bucket, artifacts, late>>
    BY <1>2 DEF CleanupList
  <2>3. page \in SUBSET Keys
    BY DEF Page, Stored
  <2>4. last \in Nat
    BY <2>1, <2>3, PageHasLast, KeysArePositive
  <2>5. ASSUME NEW k \in Keys \ page, k <= last
        PROVE  Swept(k)
    <3>1. CASE k <= cleanup.token
      BY <2>1, <3>1
    <3>2. CASE k > cleanup.token /\ k \in Stored
      <4>1. page # {}
        BY <2>1, <2>5, <3>2, KeysArePositive
      <4>2. last \in page
        BY <2>1, <4>1, PageHasLast
      <4>. QED BY <2>1, <2>5, <3>2, <4>2, PageIsPrefix
    <3>3. CASE k \notin Stored
      BY <3>3 DEF Stored, Swept
    <3>. QED BY <2>1, <2>5, <3>1, <3>2, <3>3, KeysArePositive
  <2>6. ASSUME ~cleanup'.truncated, NEW k \in Keys \ page
        PROVE  Swept(k)
    <3>1. CASE k <= cleanup.token
      BY <2>1, <3>1
    <3>2. CASE k > cleanup.token
      <4>1. k \notin Stored
        BY <2>2, <2>6, <3>2
      <4>. QED BY <4>1 DEF Stored, Swept
    <3>. QED BY <2>1, <3>1, <3>2, KeysArePositive
  <2>. HIDE DEF page, last
  <2>7. ArtifactsTypeOK'
    <3>1. cleanup' \in Cleanup
      BY <2>2, <2>3, <2>4 DEF Cleanup
    <3>. QED BY <2>2, <3>1 DEF ArtifactsSound, ArtifactsTypeOK
  <2>8. CleanupSound'
    BY <2>1, <2>2, <2>5, <2>6 DEF CleanupSound, CleanupLeavesNothing, Swept
  <2>. QED BY <2>7, <2>8 DEF ArtifactsSound
<1>. QED BY <1>1, <1>2

LEMMA DeleteKeeps == ASSUME ArtifactsSound, CleanupDelete PROVE ArtifactsSound'
<1>1. CASE cleanup' = NoCleanup /\ UNCHANGED bucket
  BY <1>1 DEF CleanupDelete, ArtifactsSound, ArtifactsTypeOK, CleanupSound, CleanupLeavesNothing,
              Cleanup, NoCleanup, Swept
<1>2. CASE /\ bucket' = [bucket EXCEPT ![Min(cleanup.keys)] = {}]
           /\ cleanup' = [cleanup EXCEPT !.keys = @ \ {Min(cleanup.keys)}]
  <2>. DEFINE key == Min(cleanup.keys)
  <2>1. /\ cleanup \in [pc : {"delete"}, keys : SUBSET Keys, token : Nat, truncated : BOOLEAN]
        /\ appRow = "live"
        /\ UNCHANGED <<appRow, upload, artifacts, late>>
        /\ bucket \in [Keys -> SUBSET Uploads]
    BY DEF CleanupDelete, ArtifactsSound, ArtifactsTypeOK, CleanupSound, Cleanup, NoCleanup
  <2>2. /\ bucket' = [bucket EXCEPT ![key] = {}]
        /\ cleanup' = [cleanup EXCEPT !.keys = @ \ {key}]
    BY <1>2
  <2>. HIDE DEF key
  <2>3. ArtifactsTypeOK'
    BY <2>1, <2>2 DEF ArtifactsSound, ArtifactsTypeOK, Cleanup
  <2>4. /\ cleanup'.pc = "delete"
        /\ cleanup'.keys = cleanup.keys \ {key}
        /\ cleanup'.token = cleanup.token
        /\ cleanup'.truncated = cleanup.truncated
    BY <2>1, <2>2
  <2>5. \A k \in Keys : Swept(k) \/ k = key => Swept(k)'
    BY <2>1, <2>2 DEF Swept
  <2>6. CleanupSound'
    BY <2>1, <2>4, <2>5 DEF ArtifactsSound, CleanupSound, CleanupLeavesNothing
  <2>. QED BY <2>3, <2>6 DEF ArtifactsSound
<1>. QED BY <1>1, <1>2 DEF CleanupDelete

LEMMA NextKeeps == ASSUME ArtifactsSound, CleanupNext PROVE ArtifactsSound'
<1>1. /\ cleanup \in [pc : {"delete"}, keys : SUBSET Keys, token : Nat, truncated : BOOLEAN]
      /\ appRow = "live"
      /\ UNCHANGED <<appRow, upload, bucket, artifacts, late>>
      /\ \A k \in Keys : k <= cleanup.token => Swept(k)
      /\ ~cleanup.truncated => \A k \in Keys : Swept(k)
  BY DEF CleanupNext, ArtifactsSound, ArtifactsTypeOK, CleanupSound, Cleanup, NoCleanup
<1>2. CASE cleanup.truncated
  BY <1>1, <1>2 DEF CleanupNext, ArtifactsSound, ArtifactsTypeOK, CleanupSound,
                    CleanupLeavesNothing, Cleanup, Swept
<1>3. CASE ~cleanup.truncated
  BY <1>1, <1>3 DEF CleanupNext, ArtifactsSound, ArtifactsTypeOK, CleanupSound,
                    CleanupLeavesNothing, Cleanup, Swept
<1>. QED BY <1>2, <1>3

LEMMA DropKeeps == ASSUME ArtifactsSound, CleanupDrop PROVE ArtifactsSound'
BY DEF CleanupDrop, ArtifactsSound, ArtifactsTypeOK, CleanupSound, CleanupLeavesNothing,
       NoCleanup, Swept

\* All that holds of the bucket at each step of the clean-up, together.
LEMMA ArtifactsStepSound ==
    ArtifactsSound /\ [ArtifactsNext]_artifactVars => ArtifactsSound'
<1>. SUFFICES ASSUME ArtifactsSound, [ArtifactsNext]_artifactVars PROVE ArtifactsSound'
  OBVIOUS
<1>1. CASE \E u \in Uploads : UploadRead(u) \/ UploadPut(u) \/ UploadRow(u) \/ UploadCatch(u)
  BY <1>1, UploadsKeep
<1>2. CASE CleanupStart
  BY <1>2, StartKeeps
<1>3. CASE CleanupList
  BY <1>3, ListKeeps
<1>4. CASE CleanupDelete
  BY <1>4, DeleteKeeps
<1>5. CASE CleanupNext
  BY <1>5, NextKeeps
<1>6. CASE CleanupDrop
  BY <1>6, DropKeeps
<1>7. CASE UNCHANGED artifactVars
  <2>1. CleanupSound'
    BY <1>7, NothingSwept DEF artifactVars
  <2>. QED BY <1>7, <2>1 DEF artifactVars, ArtifactsSound, ArtifactsTypeOK
<1>. QED BY <1>1, <1>2, <1>3, <1>4, <1>5, <1>6, <1>7 DEF ArtifactsNext

LEMMA ArtifactsStaySound == ArtifactsSpec => []ArtifactsSound
<1>. QED BY SoundAtFirst, ArtifactsStepSound, PTL DEF ArtifactsSpec

\* Uploads and the clean-up keep the bucket, the rows and the requests well typed,
\* for any uploads, keys and page size.
THEOREM ArtifactsTypeCorrect == ArtifactsSpec => []ArtifactsTypeOK
<1>1. ArtifactsSound => ArtifactsTypeOK
  BY DEF ArtifactsSound
<1>. QED BY <1>1, ArtifactsStaySound, PTL

\* deleteByPrefix, page by page, leaves nothing behind but what was uploaded since
\* it began, for any number of keys, any page size and any failures.
THEOREM NothingIsLeft == ArtifactsSpec => []CleanupLeavesNothing
<1>1. ArtifactsSound => CleanupLeavesNothing
  BY DEF ArtifactsSound, CleanupSound
<1>. QED BY <1>1, ArtifactsStaySound, PTL

-----------------------------------------------------------------------------
(* The tree of artifacts                                                   *)

LEMMA LeastIsThere ==
    ASSUME NEW S, S \subseteq Nat, S # {}
    PROVE  Min(S) \in S /\ \A x \in S : Min(S) <= x
<1>1. IsWellFoundedOn(OpToRel(<, Nat), Nat) BY NatLessThanWellFounded
<1>2. PICK n \in S : \A m \in S : ~ (<<m, n>> \in OpToRel(<, Nat))
  <2>. DEFINE R == OpToRel(<, Nat)
  <2>1. IsWellFoundedOn(R, Nat) BY <1>1
  <2>. HIDE DEF R
  <2>2. \E n \in S : \A m \in S : ~ (<<m, n>> \in R) BY <2>1, WFMin
  <2>. QED BY <2>2 DEF R
<1>3. ASSUME NEW m \in S PROVE n <= m
  <2>1. m \in Nat /\ n \in Nat OBVIOUS
  <2>2. ~ (m < n) BY <1>2, <2>1 DEF OpToRel
  <2>. QED BY <2>1, <2>2
<1>. QED BY <1>3 DEF Min

\* What holds of 0, and of every number up to n if of the one before, holds up to n.
LEMMA StepByStep ==
    ASSUME NEW n \in Nat, NEW S, 0 \in S, \A k \in 1 .. n : k - 1 \in S => k \in S
    PROVE  \A k \in 0 .. n : k \in S
<1>. DEFINE Out == (0 .. n) \ S
<1>1. Out \subseteq Nat OBVIOUS
<1>2. ASSUME Out # {} PROVE FALSE
  <2>. DEFINE k == Min(Out)
  <2>1. k \in Out /\ \A x \in Out : k <= x BY <1>1, <1>2, LeastIsThere
  <2>. HIDE DEF k
  <2>2. k \in 1 .. n /\ k - 1 \in 0 .. n BY <2>1
  <2>3. ~(k <= k - 1) BY <2>2
  <2>4. k - 1 \in S BY <2>1, <2>2, <2>3
  <2>. QED BY <2>1, <2>2, <2>4
<1>. QED BY <1>2

Paths == Seq(STRING)

\* Beginnings of paths.
LEMMA Beginnings ==
    ASSUME NEW p \in Paths, NEW k \in 0 .. Len(p)
    PROVE  /\ FolderKey(p, k) \in Paths /\ Len(FolderKey(p, k)) = k
           /\ \A j \in 0 .. k : FolderKey(FolderKey(p, k), j) = FolderKey(p, j)
           /\ k > 0 => Front(FolderKey(p, k)) = FolderKey(p, k - 1)
           /\ k > 0 => FolderKey(p, k) # Root
  BY DEF Paths, FolderKey, Front, Root

LEMMA Ends ==
    ASSUME NEW p \in Paths
    PROVE  /\ Len(p) \in Nat
           /\ FolderKey(p, 0) = Root
           /\ FolderKey(p, Len(p)) = p
           /\ p = Root <=> Len(p) = 0
           /\ p # Root => Front(p) = FolderKey(p, Len(p) - 1)
  BY DEF Paths, FolderKey, Front, Root

LEMMA StrictPrefix ==
    ASSUME NEW s \in Paths, NEW t \in Paths
    PROVE  IsStrictPrefix(s, t) <=> Len(s) < Len(t) /\ s = FolderKey(t, Len(s))
  BY DEF Paths, FolderKey, IsStrictPrefix, IsPrefix

PathOf(a) == RelativePath[a.upload]

LEMMA PathsAre ==
    ASSUME NEW a \in ArtifactRow
    PROVE  PathOf(a) \in Paths /\ PathOf(a) # Root /\ Len(PathOf(a)) \in Nat \ {0}
  BY ArtifactsAssumption DEF Paths, PathOf, ArtifactRow, Root

\* The folders on the way to some artifacts, and the tree that holds these.
WayTo(p)    == {FolderKey(p, k) : k \in 0 .. Len(p) - 1}
Folders(as) == {Root} \cup UNION {WayTo(PathOf(a)) : a \in as}

TreeOf(as, folders) ==
    [key \in folders |-> {FolderNode(f) : f \in {g \in folders : g # Root /\ Front(g) = key}}
                         \cup {FileNode(a) : a \in {b \in as : Front(PathOf(b)) = key}}]

\* Every folder but the root is in one that is there, and so is every artifact.
Rooted(as, folders) ==
    /\ as \subseteq ArtifactRow /\ folders \subseteq Paths /\ Root \in folders
    /\ \A f \in folders : f # Root => Front(f) \in folders
    /\ \A a \in as : Front(PathOf(a)) \in folders

LEMMA FolderEntered ==
    ASSUME NEW as, NEW folders, Rooted(as, folders),
           NEW key \in Paths, key # Root, Front(key) \in folders
    PROVE  /\ IntoFolder([at |-> Front(key), tree |-> TreeOf(as, folders)], key)
                  = [at |-> key, tree |-> TreeOf(as, folders \cup {key})]
           /\ Rooted(as, folders \cup {key})
<1>. DEFINE before == TreeOf(as, folders)
            after  == TreeOf(as, folders \cup {key})
            made   == AddFolder(AddChild(before, Front(key), FolderNode(key)), key)
<1>1. Rooted(as, folders \cup {key}) BY DEF Rooted
<1>2. DOMAIN before = folders BY DEF TreeOf
<1>3. CASE key \in folders
  <2>1. folders \cup {key} = folders BY <1>3
  <2>. QED BY <1>1, <1>2, <1>3, <2>1 DEF IntoFolder
<1>4. CASE key \notin folders
  <2>1. /\ made = [k \in folders \cup {key} |->
                      IF k = key THEN {}
                      ELSE IF k = Front(key) THEN before[k] \cup {FolderNode(key)} ELSE before[k]]
    BY <1>2, <1>4 DEF AddFolder, AddChild, TreeOf
  <2>2. after[key] = {}
    <3>1. \A g \in folders \cup {key} : g # Root => Front(g) # key
      <4>1. Front(key) # key BY <1>4
      <4>. QED BY <1>4, <4>1 DEF Rooted
    <3>2. \A a \in as : Front(PathOf(a)) # key BY <1>4 DEF Rooted
    <3>. QED BY <3>1, <3>2 DEF TreeOf
  <2>3. ASSUME NEW k \in folders
        PROVE  after[k] = IF k = Front(key) THEN before[k] \cup {FolderNode(key)} ELSE before[k]
    BY <1>4 DEF TreeOf
  <2>4. after = made BY <1>4, <2>1, <2>2, <2>3 DEF TreeOf
  <2>. QED BY <1>1, <1>2, <1>4, <2>4 DEF IntoFolder
<1>. QED BY <1>3, <1>4

LEMMA WalkDefined ==
    ASSUME NEW tree, NEW parts
    PROVE  Walk(tree, parts) = (CHOOSE walk : walk = [k \in 0 .. Len(parts) - 1 |->
               IF k = 0 THEN [at |-> Root, tree |-> tree]
               ELSE IntoFolder(walk[k - 1], FolderKey(parts, k))])[Len(parts) - 1]
  BY DEF Walk

\* The way down a path makes what is missing of it.
LEMMA WalkMade ==
    ASSUME NEW as, NEW folders, Rooted(as, folders), NEW p \in Paths, p # Root
    PROVE  /\ Walk(TreeOf(as, folders), p)
                  = [at |-> Front(p), tree |-> TreeOf(as, folders \cup WayTo(p))]
           /\ Rooted(as, folders \cup WayTo(p))
<1>. DEFINE n == Len(p) - 1
            upTo(k) == folders \cup {FolderKey(p, j) : j \in 0 .. k}
            made == [k \in 0 .. n |-> [at |-> FolderKey(p, k), tree |-> TreeOf(as, upTo(k))]]
            Made(walk) == walk = [k \in 0 .. n |->
                              IF k = 0 THEN [at |-> Root, tree |-> TreeOf(as, folders)]
                              ELSE IntoFolder(walk[k - 1], FolderKey(p, k))]
<1>1. n \in Nat /\ Len(p) \in Nat BY Ends
<1>2. upTo(0) = folders /\ made[0] = [at |-> Root, tree |-> TreeOf(as, folders)]
  <2>1. FolderKey(p, 0) = Root BY Ends
  <2>2. {FolderKey(p, j) : j \in 0 .. 0} = {Root} BY <2>1
  <2>3. upTo(0) = folders BY <2>2 DEF Rooted
  <2>4. made[0] = [at |-> FolderKey(p, 0), tree |-> TreeOf(as, upTo(0))] BY <1>1
  <2>. HIDE DEF made, upTo
  <2>. QED BY <2>1, <2>3, <2>4
<1>3. ASSUME NEW k \in 1 .. n, Rooted(as, upTo(k - 1))
      PROVE  /\ IntoFolder(made[k - 1], FolderKey(p, k)) = made[k]
             /\ Rooted(as, upTo(k))
  <2>. DEFINE key == FolderKey(p, k)
  <2>1. k \in 0 .. Len(p) /\ k - 1 \in 0 .. Len(p) /\ k - 1 \in 0 .. n /\ k \in 0 .. n BY <1>1
  <2>2. key \in Paths /\ key # Root /\ Front(key) = FolderKey(p, k - 1)
    BY <2>1, Beginnings
  <2>3. Front(key) \in upTo(k - 1) BY <2>1, <2>2
  <2>4. upTo(k) = upTo(k - 1) \cup {key}
    <3>1. \A j : j \in 0 .. k <=> j \in 0 .. k - 1 \/ j = k BY <2>1
    <3>. QED BY <3>1
  <2>5. /\ made[k - 1] = [at |-> Front(key), tree |-> TreeOf(as, upTo(k - 1))]
        /\ made[k] = [at |-> key, tree |-> TreeOf(as, upTo(k))]
    BY <2>1, <2>2
  <2>. DEFINE there == upTo(k - 1)
  <2>6. Rooted(as, there) /\ Front(key) \in there BY <1>3, <2>3
  <2>7. upTo(k) = there \cup {key} /\ made[k - 1] = [at |-> Front(key), tree |-> TreeOf(as, there)]
    BY <2>4, <2>5
  <2>. HIDE DEF made, upTo, key, there
  <2>8. /\ IntoFolder([at |-> Front(key), tree |-> TreeOf(as, there)], key)
               = [at |-> key, tree |-> TreeOf(as, there \cup {key})]
        /\ Rooted(as, there \cup {key})
    BY <2>2, <2>6, FolderEntered
  <2>. QED BY <2>5, <2>7, <2>8 DEF key
<1>4. \A k \in 0 .. n : Rooted(as, upTo(k))
  <2>. DEFINE good == {k \in 0 .. n : Rooted(as, upTo(k))}
  <2>. HIDE DEF upTo, made
  <2>1. 0 \in good
    <3>1. 0 \in 0 .. n BY <1>1
    <3>2. upTo(0) = folders BY <1>2
    <3>3. Rooted(as, upTo(0)) BY <3>2
    <3>. QED BY <3>1, <3>3
  <2>2. \A k \in 1 .. n : k - 1 \in good => k \in good
    <3>1. \A k \in 1 .. n : k \in 0 .. n BY <1>1
    <3>. QED BY <1>3, <3>1
  <2>. HIDE DEF good, n
  <2>3. \A k \in 0 .. n : k \in good BY <1>1, <2>1, <2>2, StepByStep
  <2>. QED BY <2>3 DEF good
<1>5. Made(made)
  <2>1. \A k \in 0 .. n : k # 0 => k \in 1 .. n /\ k - 1 \in 0 .. n BY <1>1
  <2>2. \A k \in 0 .. n : made[k] = IF k = 0 THEN [at |-> Root, tree |-> TreeOf(as, folders)]
                                   ELSE IntoFolder(made[k - 1], FolderKey(p, k))
    <3>. HIDE DEF made, upTo
    <3>. QED BY <1>2, <1>3, <1>4, <2>1
  <2>. QED BY <2>2
<1>. DEFINE walk == CHOOSE w : Made(w)
<1>6. Made(walk) BY <1>5
<1>7. walk[n] = made[n]
  <2>. HIDE DEF made, walk, upTo
  <2>1. 0 \in 0 .. n /\ n \in 0 .. n BY <1>1
  <2>2. walk[0] = made[0] BY <1>2, <1>6, <2>1
  <2>. DEFINE same == {k \in 0 .. n : walk[k] = made[k]}
  <2>3. \A k \in 1 .. n : k - 1 \in same => k \in same
    <3>1. \A k \in 1 .. n : k \in 0 .. n /\ k - 1 \in 0 .. n /\ k # 0 BY <1>1
    <3>. QED BY <1>3, <1>4, <1>6, <3>1
  <2>. HIDE DEF same, n
  <2>4. \A k \in 0 .. n : k \in same BY <1>1, <2>1, <2>2, <2>3, StepByStep DEF same
  <2>. QED BY <2>1, <2>4 DEF same
<1>8. Walk(TreeOf(as, folders), p) = walk[n]
  <2>1. Walk(TreeOf(as, folders), p) = (CHOOSE w : Made(w))[n] BY WalkDefined
  <2>. QED BY <2>1
<1>9. upTo(n) = folders \cup WayTo(p) /\ FolderKey(p, n) = Front(p)
  BY <1>1, Ends DEF WayTo
<1>10. made[n] = [at |-> FolderKey(p, n), tree |-> TreeOf(as, upTo(n))] BY <1>1
<1>11. n \in 0 .. n BY <1>1
<1>. HIDE DEF made, walk, upTo, n
<1>12. Rooted(as, upTo(n)) BY <1>4, <1>11
<1>. QED BY <1>7, <1>8, <1>9, <1>10, <1>12


LEMMA ArtifactAdded ==
    ASSUME NEW as, NEW folders, Rooted(as, folders), NEW a \in ArtifactRow
    PROVE  /\ AddArtifact(TreeOf(as, folders), a)
                  = TreeOf(as \cup {a}, folders \cup WayTo(PathOf(a)))
           /\ Rooted(as \cup {a}, folders \cup WayTo(PathOf(a)))
<1>. DEFINE p == PathOf(a)  there == folders \cup WayTo(p)  last == Front(p)
<1>1. p \in Paths /\ p # Root /\ Len(p) \in Nat \ {0} BY PathsAre
<1>2. /\ Walk(TreeOf(as, folders), p) = [at |-> last, tree |-> TreeOf(as, there)]
      /\ Rooted(as, there)
  <2>. HIDE DEF p
  <2>. QED BY <1>1, WalkMade
<1>3. last \in there
  <2>1. last = FolderKey(p, Len(p) - 1) /\ Len(p) - 1 \in 0 .. Len(p) - 1 BY <1>1, Ends
  <2>. QED BY <2>1 DEF WayTo
<1>4. AddArtifact(TreeOf(as, folders), a) = AddChild(TreeOf(as, there), last, FileNode(a))
  BY <1>2 DEF AddArtifact, PathOf
<1>. HIDE DEF p, there, last
<1>5. AddChild(TreeOf(as, there), last, FileNode(a))
        = [key \in there |-> IF key = last THEN TreeOf(as, there)[key] \cup {FileNode(a)}
                             ELSE TreeOf(as, there)[key]]
  BY <1>3 DEF AddChild, TreeOf
<1>6. ASSUME NEW key \in there
      PROVE  TreeOf(as \cup {a}, there)[key]
               = IF key = last THEN TreeOf(as, there)[key] \cup {FileNode(a)}
                 ELSE TreeOf(as, there)[key]
  <2>1. {FileNode(b) : b \in {c \in as \cup {a} : Front(PathOf(c)) = key}}
          = {FileNode(b) : b \in {c \in as : Front(PathOf(c)) = key}}
            \cup (IF key = last THEN {FileNode(a)} ELSE {})
    BY DEF last, p
  <2>. QED BY <2>1 DEF TreeOf
<1>7. TreeOf(as \cup {a}, there) = AddChild(TreeOf(as, there), last, FileNode(a))
  <2>1. DOMAIN TreeOf(as \cup {a}, there) = there
        /\ TreeOf(as \cup {a}, there) = [key \in there |-> TreeOf(as \cup {a}, there)[key]]
    BY DEF TreeOf
  <2>. QED BY <1>5, <1>6, <2>1
<1>8. Rooted(as \cup {a}, there) BY <1>2, <1>3 DEF Rooted, last, p
<1>. QED BY <1>4, <1>7, <1>8 DEF there, p

LEMMA TreeDefined ==
    ASSUME NEW list
    PROVE  ArtifactTree(list) = (CHOOSE tree : tree = [n \in 0 .. Len(list) |->
               IF n = 0 THEN [k \in {Root} |-> {}]
               ELSE AddArtifact(tree[n - 1], list[n])])[Len(list)]
  BY DEF ArtifactTree

\* buildRegressionArtifactTree makes the tree of its artifacts.
LEMMA TreeMade ==
    ASSUME NEW n \in Nat, NEW list \in [1 .. n -> ArtifactRow],
           NEW as, as = {list[i] : i \in 1 .. n}
    PROVE  ArtifactTree(list) = TreeOf(as, Folders(as)) /\ Rooted(as, Folders(as))
<1>. DEFINE some(k) == {list[i] : i \in 1 .. k}
            made == [k \in 0 .. n |-> TreeOf(some(k), Folders(some(k)))]
            Made(tree) == tree = [k \in 0 .. n |->
                              IF k = 0 THEN [key \in {Root} |-> {}]
                              ELSE AddArtifact(tree[k - 1], list[k])]
<1>1. list \in Seq(ArtifactRow) /\ Len(list) = n OBVIOUS
<1>2. made[0] = [key \in {Root} |-> {}] /\ Rooted(some(0), Folders(some(0)))
  <2>1. some(0) = {} /\ 0 \in 0 .. n OBVIOUS
  <2>2. Folders({}) = {Root} BY DEF Folders
  <2>3. TreeOf({}, {Root}) = [key \in {Root} |-> {}] BY DEF TreeOf
  <2>4. Root \in Paths BY DEF Root, Paths
  <2>5. Rooted({}, {Root}) BY <2>4 DEF Rooted
  <2>. HIDE DEF some
  <2>. QED BY <2>1, <2>2, <2>3, <2>5
<1>3. ASSUME NEW k \in 1 .. n, Rooted(some(k - 1), Folders(some(k - 1)))
      PROVE  /\ AddArtifact(made[k - 1], list[k]) = made[k]
             /\ Rooted(some(k), Folders(some(k)))
  <2>. DEFINE few == some(k - 1)  a == list[k]
  <2>1. k \in 0 .. n /\ k - 1 \in 0 .. n OBVIOUS
  <2>2. some(k) = few \cup {a}
    <3>1. \A i : i \in 1 .. k <=> i \in 1 .. k - 1 \/ i = k BY <2>1
    <3>. QED BY <3>1
  <2>3. a \in ArtifactRow OBVIOUS
  <2>. HIDE DEF some, a
  <2>4. /\ made[k - 1] = TreeOf(few, Folders(few))
        /\ made[k] = TreeOf(few \cup {a}, Folders(few \cup {a}))
    BY <2>1, <2>2
  <2>. HIDE DEF few, made
  <2>5. Rooted(few, Folders(few)) BY <1>3 DEF few
  <2>6. Folders(few \cup {a}) = Folders(few) \cup WayTo(PathOf(a)) BY DEF Folders
  <2>7. /\ AddArtifact(TreeOf(few, Folders(few)), a)
              = TreeOf(few \cup {a}, Folders(few) \cup WayTo(PathOf(a)))
        /\ Rooted(few \cup {a}, Folders(few) \cup WayTo(PathOf(a)))
    BY <2>3, <2>5, ArtifactAdded
  <2>. QED BY <2>2, <2>4, <2>6, <2>7 DEF a
<1>4. \A k \in 0 .. n : Rooted(some(k), Folders(some(k)))
  <2>. DEFINE good == {k \in 0 .. n : Rooted(some(k), Folders(some(k)))}
  <2>. HIDE DEF some, made
  <2>1. 0 \in good BY <1>2
  <2>2. \A k \in 1 .. n : k - 1 \in good => k \in good
    <3>1. \A k \in 1 .. n : k \in 0 .. n OBVIOUS
    <3>. QED BY <1>3, <3>1
  <2>. HIDE DEF good
  <2>3. \A k \in 0 .. n : k \in good BY <2>1, <2>2, StepByStep
  <2>. QED BY <2>3 DEF good
<1>5. Made(made)
  <2>1. \A k \in 0 .. n : k # 0 => k \in 1 .. n OBVIOUS
  <2>2. \A k \in 0 .. n : made[k] = IF k = 0 THEN [key \in {Root} |-> {}]
                                   ELSE AddArtifact(made[k - 1], list[k])
    <3>. HIDE DEF made, some
    <3>. QED BY <1>2, <1>3, <1>4, <2>1
  <2>. QED BY <2>2
<1>. DEFINE tree == CHOOSE t : Made(t)
<1>6. Made(tree) BY <1>5
<1>7. tree[n] = made[n]
  <2>. HIDE DEF made, tree, some
  <2>1. 0 \in 0 .. n /\ n \in 0 .. n OBVIOUS
  <2>2. tree[0] = made[0] BY <1>2, <1>6, <2>1
  <2>. DEFINE same == {k \in 0 .. n : tree[k] = made[k]}
  <2>3. \A k \in 1 .. n : k - 1 \in same => k \in same
    <3>1. \A k \in 1 .. n : k \in 0 .. n /\ k - 1 \in 0 .. n /\ k # 0 OBVIOUS
    <3>. QED BY <1>3, <1>4, <1>6, <3>1
  <2>. HIDE DEF same
  <2>4. \A k \in 0 .. n : k \in same BY <2>1, <2>2, <2>3, StepByStep DEF same
  <2>. QED BY <2>1, <2>4 DEF same
<1>8. ArtifactTree(list) = tree[n]
  <2>1. ArtifactTree(list) = (CHOOSE t : Made(t))[n] BY <1>1, TreeDefined
  <2>. QED BY <2>1
<1>9. made[n] = TreeOf(as, Folders(as)) /\ some(n) = as OBVIOUS
<1>10. n \in 0 .. n OBVIOUS
<1>. HIDE DEF made, tree, some
<1>11. Rooted(as, Folders(as)) BY <1>4, <1>9, <1>10
<1>. QED BY <1>7, <1>8, <1>9, <1>11


LEMMA ImageIsFinite ==
    ASSUME NEW S, IsFiniteSet(S), NEW f, DOMAIN f = S
    PROVE  IsFiniteSet({f[x] : x \in S})
<1>. DEFINE T == {f[x] : x \in S}  g == [x \in S |-> f[x]]
<1>1. g \in Surjection(S, T) BY DEF Surjection
<1>. QED BY <1>1, FS_Surjection

Total(h, T) == MapThenSumSet(LAMBDA c : h[c], T)

\* The sum of the sizes of disjoint sets is the size of their union.
LEMMA SumIsUnion ==
    ASSUME NEW T, IsFiniteSet(T), NEW h, NEW U, DOMAIN U = T,
           \A c \in T : IsFiniteSet(U[c]) /\ h[c] = Cardinality(U[c]),
           \A c, d \in T : c # d => U[c] \cap U[d] = {}
    PROVE  Total(h, T) = Cardinality(UNION {U[c] : c \in T})
<1>. DEFINE all(s) == UNION {U[c] : c \in s}
            one(s) == CHOOSE x \in s : TRUE
            made == [s \in SUBSET T |-> Cardinality(all(s))]
            Made(f) == f = [s \in SUBSET T |-> IF s = {} THEN 0 ELSE h[one(s)] + f[s \ {one(s)}]]
<1>1. ASSUME NEW s \in SUBSET T PROVE IsFiniteSet(s) /\ Cardinality(s) \in Nat
  BY FS_Subset, FS_CardinalityType
<1>2. ASSUME NEW s \in SUBSET T PROVE IsFiniteSet(all(s)) /\ Cardinality(all(s)) \in Nat
  <2>. DEFINE V == [c \in s |-> U[c]]
  <2>1. IsFiniteSet({V[c] : c \in s})
    <3>1. DOMAIN V = s OBVIOUS
    <3>. HIDE DEF V
    <3>. QED BY <1>1, <3>1, ImageIsFinite
  <2>2. \A W \in {V[c] : c \in s} : IsFiniteSet(W) OBVIOUS
  <2>3. IsFiniteSet(UNION {V[c] : c \in s})
    <3>. DEFINE Vs == {V[c] : c \in s}
    <3>1. IsFiniteSet(Vs) /\ \A W \in Vs : IsFiniteSet(W) BY <2>1, <2>2
    <3>. HIDE DEF Vs
    <3>2. IsFiniteSet(UNION Vs) BY <3>1, FS_UNION
    <3>. QED BY <3>2 DEF Vs
  <2>4. UNION {V[c] : c \in s} = all(s) OBVIOUS
  <2>. HIDE DEF V, all
  <2>. QED BY <2>3, <2>4, FS_CardinalityType
<1>3. made[{}] = 0
  <2>1. all({}) = {} OBVIOUS
  <2>. QED BY <2>1, FS_EmptySet
<1>4. ASSUME NEW s \in SUBSET T, s # {}
      PROVE  /\ one(s) \in s /\ s \ {one(s)} \in SUBSET T
             /\ made[s] = h[one(s)] + made[s \ {one(s)}]
  <2>. DEFINE x == one(s)  r == s \ {x}
  <2>1. x \in s /\ r \in SUBSET T BY <1>4
  <2>. HIDE DEF one, x
  <2>2. all(s) = U[x] \cup all(r) BY <2>1
  <2>3. U[x] \cap all(r) = {} BY <2>1
  <2>4. IsFiniteSet(U[x]) /\ h[x] = Cardinality(U[x]) BY <2>1
  <2>5. IsFiniteSet(all(r)) /\ Cardinality(all(r)) \in Nat BY <1>2, <2>1
  <2>6. Cardinality(U[x]) \in Nat BY <2>4, FS_CardinalityType
  <2>. DEFINE rest == all(r)
  <2>7. IsFiniteSet(rest) /\ Cardinality(rest) \in Nat BY <2>5
  <2>. HIDE DEF all, rest, r
  <2>8. Cardinality(U[x] \cup rest)
          = Cardinality(U[x]) + Cardinality(rest) - Cardinality(U[x] \cap rest)
    BY <2>4, <2>7, FS_Union
  <2>9. Cardinality(U[x] \cap rest) = 0 BY <2>3, FS_EmptySet DEF rest
  <2>10. Cardinality(all(s)) = h[x] + Cardinality(rest) BY <2>2, <2>4, <2>6, <2>7, <2>8, <2>9 DEF rest
  <2>. QED BY <2>1, <2>10 DEF rest, r, x
<1>5. Made(made)
  <2>1. \A s \in SUBSET T : made[s] = IF s = {} THEN 0 ELSE h[one(s)] + made[s \ {one(s)}]
    <3>. HIDE DEF made, one
    <3>. QED BY <1>3, <1>4
  <2>. QED BY <2>1
<1>. DEFINE sum == CHOOSE f : Made(f)
<1>6. Made(sum) BY <1>5
<1>7. \A s \in SUBSET T : sum[s] = made[s]
  <2>. DEFINE same == {m \in 0 .. Cardinality(T) :
                          \A s \in SUBSET T : Cardinality(s) = m => sum[s] = made[s]}
  <2>. HIDE DEF made, sum, one
  <2>1. Cardinality(T) \in Nat BY FS_CardinalityType
  <2>2. 0 \in same
    <3>1. \A s \in SUBSET T : Cardinality(s) = 0 => s = {} BY <1>1, FS_EmptySet
    <3>2. sum[{}] = made[{}] BY <1>3, <1>6
    <3>. QED BY <2>1, <3>1, <3>2
  <2>3. ASSUME NEW m \in 1 .. Cardinality(T), m - 1 \in same PROVE m \in same
    <3>1. SUFFICES ASSUME NEW s \in SUBSET T, Cardinality(s) = m PROVE sum[s] = made[s] BY <2>1
    <3>2. s # {} BY <3>1, FS_EmptySet
    <3>3. one(s) \in s /\ s \ {one(s)} \in SUBSET T BY <1>4, <3>2
    <3>4. Cardinality(s \ {one(s)}) = m - 1 BY <1>1, <3>1, <3>3, FS_RemoveElement
    <3>5. sum[s \ {one(s)}] = made[s \ {one(s)}] BY <2>3, <3>3, <3>4
    <3>6. sum[s] = h[one(s)] + sum[s \ {one(s)}] BY <1>6, <3>2
    <3>7. made[s] = h[one(s)] + made[s \ {one(s)}] BY <1>4, <3>2
    <3>. QED BY <3>5, <3>6, <3>7
  <2>. HIDE DEF same
  <2>4. \A m \in 0 .. Cardinality(T) : m \in same BY <2>1, <2>2, <2>3, StepByStep
  <2>5. \A s \in SUBSET T : Cardinality(s) \in 0 .. Cardinality(T) BY <1>1, <2>1, FS_Subset
  <2>. QED BY <2>4, <2>5 DEF same
<1>8. Total(h, T) = sum[T]
  <2>1. Total(h, T) = (CHOOSE f : Made(f))[T]
    BY DEF Total, MapThenSumSet, MapThenFoldSet
  <2>. QED BY <2>1
<1>9. made[T] = Cardinality(UNION {U[c] : c \in T}) OBVIOUS
<1>. HIDE DEF sum, made
<1>. QED BY <1>7, <1>8, <1>9


\* The artifacts under a folder, and those a node stands for.
Beneath(as, key) == {a \in as : IsStrictPrefix(key, PathOf(a))}
StandsFor(as, node) == IF node.type = "file" THEN {node.artifact} ELSE Beneath(as, node.path)

LEMMA FoldersFinite ==
    ASSUME NEW as, as \subseteq ArtifactRow, IsFiniteSet(as)
    PROVE  IsFiniteSet(Folders(as))
<1>1. ASSUME NEW a \in as PROVE IsFiniteSet(WayTo(PathOf(a)))
  <2>. DEFINE n == Len(PathOf(a)) - 1  f == [k \in 0 .. n |-> FolderKey(PathOf(a), k)]
  <2>1. n \in Nat
    <3>1. Len(PathOf(a)) \in Nat \ {0} BY PathsAre
    <3>. QED BY <3>1
  <2>2. IsFiniteSet(0 .. n) BY <2>1, FS_Interval
  <2>3. DOMAIN f = 0 .. n OBVIOUS
  <2>4. WayTo(PathOf(a)) = {f[k] : k \in 0 .. n} BY DEF WayTo
  <2>. HIDE DEF f, n
  <2>5. IsFiniteSet({f[k] : k \in 0 .. n}) BY <2>2, <2>3, ImageIsFinite
  <2>. QED BY <2>4, <2>5
<1>. DEFINE ways == [a \in as |-> WayTo(PathOf(a))]  all == {ways[a] : a \in as}
<1>2. IsFiniteSet(all)
  <2>1. DOMAIN ways = as OBVIOUS
  <2>. HIDE DEF ways
  <2>. QED BY <2>1, ImageIsFinite
<1>3. \A W \in all : IsFiniteSet(W) BY <1>1
<1>4. UNION all = UNION {WayTo(PathOf(a)) : a \in as} OBVIOUS
<1>. HIDE DEF all
<1>5. IsFiniteSet(UNION all) BY <1>2, <1>3, FS_UNION
<1>6. IsFiniteSet({Root}) BY FS_Singleton
<1>7. IsFiniteSet({Root} \cup UNION all) BY <1>5, <1>6, FS_Union
<1>. QED BY <1>4, <1>7 DEF Folders

\* The children of a folder, and what of a folder is in which.
LEMMA ChildrenAre ==
    ASSUME NEW as, Rooted(as, Folders(as)), NEW key \in Folders(as)
    PROVE  \A n : n \in TreeOf(as, Folders(as))[key] <=>
              \/ \E f \in Folders(as) : f # Root /\ Front(f) = key /\ n = FolderNode(f)
              \/ \E a \in as : Front(PathOf(a)) = key /\ n = FileNode(a)
  BY DEF TreeOf

LEMMA ChildOf ==
    ASSUME NEW f \in Paths, f # Root
    PROVE  Front(f) \in Paths /\ Len(f) = Len(Front(f)) + 1 /\ Len(Front(f)) \in Nat
<1>. DEFINE n == Len(f)
<1>1. n \in Nat \ {0} /\ Front(f) = FolderKey(f, n - 1) BY Ends
<1>2. n - 1 \in 0 .. n BY <1>1
<1>. HIDE DEF n
<1>3. FolderKey(f, n - 1) \in Paths /\ Len(FolderKey(f, n - 1)) = n - 1 BY <1>2, Beginnings DEF n
<1>. QED BY <1>1, <1>3 DEF n

LEMMA BeneathIsDivided ==
    ASSUME NEW as, Rooted(as, Folders(as)), NEW key \in Folders(as)
    PROVE  LET kids == TreeOf(as, Folders(as))[key]
           IN /\ Beneath(as, key) = UNION {StandsFor(as, c) : c \in kids}
              /\ \A c, d \in kids : c # d => StandsFor(as, c) \cap StandsFor(as, d) = {}
<1>. DEFINE kids == TreeOf(as, Folders(as))[key]
<1>1. key \in Paths /\ Len(key) \in Nat BY Ends DEF Rooted
\* An artifact in a child is under the folder; which child that is, its path tells.
<1>2. ASSUME NEW f \in Folders(as), f # Root, Front(f) = key, NEW a \in Beneath(as, f)
      PROVE  /\ a \in Beneath(as, key)
             /\ Len(PathOf(a)) > Len(key) + 1 /\ f = FolderKey(PathOf(a), Len(key) + 1)
  <2>. DEFINE p == PathOf(a)  m == Len(key)
  <2>1. p \in Paths /\ Len(p) \in Nat BY PathsAre DEF Rooted, Beneath
  <2>2. f \in Paths /\ Len(f) = m + 1 BY <1>2, ChildOf DEF Rooted
  <2>3. Len(f) < Len(p) /\ f = FolderKey(p, Len(f))
    <3>1. IsStrictPrefix(f, p) BY DEF Beneath
    <3>. HIDE DEF p
    <3>. QED BY <2>1, <2>2, <3>1, StrictPrefix
  <2>. DEFINE n == m + 1
  <2>4. n \in 0 .. Len(p) /\ n > 0 /\ n - 1 = m BY <1>1, <2>1, <2>2, <2>3
  <2>. HIDE DEF p, m, n
  <2>5. Front(FolderKey(p, n)) = FolderKey(p, n - 1) BY <2>1, <2>4, Beginnings
  <2>6. key = FolderKey(p, m) BY <1>2, <2>2, <2>3, <2>4, <2>5 DEF n
  <2>7. IsStrictPrefix(key, p) BY <1>1, <2>1, <2>2, <2>3, <2>6, StrictPrefix DEF m
  <2>. QED BY <2>2, <2>3, <2>7 DEF Beneath, p, m
<1>3. ASSUME NEW a \in as, Front(PathOf(a)) = key
      PROVE  a \in Beneath(as, key) /\ Len(PathOf(a)) = Len(key) + 1
  <2>. DEFINE p == PathOf(a)
  <2>1. p \in Paths /\ p # Root BY PathsAre DEF Rooted
  <2>. HIDE DEF p
  <2>2. Front(p) = FolderKey(p, Len(p) - 1) /\ Len(p) \in Nat BY <2>1, Ends
  <2>3. Front(p) = key BY <1>3 DEF p
  <2>4. Len(p) = Len(key) + 1 BY <2>1, <2>3, ChildOf
  <2>5. Len(key) < Len(p) /\ key = FolderKey(p, Len(key))
    <3>1. Len(p) - 1 = Len(key) BY <1>1, <2>4
    <3>. QED BY <1>1, <2>2, <2>3, <2>4, <3>1
  <2>6. IsStrictPrefix(key, p) BY <1>1, <2>1, <2>5, StrictPrefix
  <2>. QED BY <2>4, <2>6 DEF Beneath, p
<1>4. ASSUME NEW a \in Beneath(as, key)
      PROVE  \E c \in kids : a \in StandsFor(as, c)
  <2>. DEFINE p == PathOf(a)  m == Len(key)
  <2>1. a \in as /\ p \in Paths /\ p # Root /\ Len(p) \in Nat BY PathsAre DEF Rooted, Beneath
  <2>2. m < Len(p) /\ key = FolderKey(p, m)
    <3>1. IsStrictPrefix(key, p) BY DEF Beneath
    <3>. HIDE DEF p
    <3>. QED BY <1>1, <2>1, <3>1, StrictPrefix
  <2>3. CASE m + 1 = Len(p)
    <3>1. Front(p) = key
      <4>1. Len(p) - 1 = m BY <1>1, <2>3
      <4>. HIDE DEF p, m
      <4>. QED BY <2>1, <2>2, <4>1, Ends
    <3>2. FileNode(a) \in kids BY <2>1, <3>1, ChildrenAre
    <3>3. a \in StandsFor(as, FileNode(a)) BY DEF StandsFor, FileNode
    <3>. QED BY <3>2, <3>3
  <2>4. CASE m + 1 < Len(p)
    <3>. DEFINE n == m + 1  f == FolderKey(p, n)
    <3>1. n \in 0 .. Len(p) /\ n \in 0 .. Len(p) - 1 /\ n > 0 /\ n - 1 = m
      BY <1>1, <2>1, <2>4
    <3>2. f \in WayTo(p) BY <3>1 DEF WayTo
    <3>3. f \in Folders(as) BY <2>1, <3>2 DEF Folders
    <3>. HIDE DEF p, m, n
    <3>4. f \in Paths /\ Len(f) = n /\ f # Root /\ Front(f) = FolderKey(p, n - 1)
      BY <2>1, <3>1, Beginnings
    <3>5. Front(f) = key BY <2>2, <3>1, <3>4
    <3>. HIDE DEF f
    <3>6. FolderNode(f) \in kids BY <3>3, <3>4, <3>5, ChildrenAre
    <3>7. IsStrictPrefix(f, p) BY <2>1, <2>4, <3>4, StrictPrefix DEF f, n
    <3>8. a \in StandsFor(as, FolderNode(f))
      BY <2>1, <3>7 DEF StandsFor, FolderNode, Beneath, p
    <3>. QED BY <3>6, <3>8
  <2>5. m + 1 = Len(p) \/ m + 1 < Len(p) BY <1>1, <2>1, <2>2
  <2>. HIDE DEF kids, p, m
  <2>. QED BY <2>3, <2>4, <2>5
\* What a child stands for, by what it is.
<1>5. ASSUME NEW c \in kids
      PROVE  \/ \E f \in Folders(as) : /\ f # Root /\ Front(f) = key /\ c = FolderNode(f)
                                      /\ StandsFor(as, c) = Beneath(as, f)
             \/ \E a \in as : /\ Front(PathOf(a)) = key /\ c = FileNode(a)
                              /\ StandsFor(as, c) = {a}
  <2>1. \A f : StandsFor(as, FolderNode(f)) = Beneath(as, f) BY DEF StandsFor, FolderNode
  <2>2. \A a : StandsFor(as, FileNode(a)) = {a} BY DEF StandsFor, FileNode
  <2>3. c \in TreeOf(as, Folders(as))[key] OBVIOUS
  <2>. HIDE DEF kids
  <2>4. \/ \E f \in Folders(as) : f # Root /\ Front(f) = key /\ c = FolderNode(f)
        \/ \E a \in as : Front(PathOf(a)) = key /\ c = FileNode(a)
    BY <2>3 DEF TreeOf
  <2>. QED BY <2>1, <2>2, <2>4
<1>6. ASSUME NEW c \in kids PROVE StandsFor(as, c) \subseteq Beneath(as, key)
  BY <1>2, <1>3, <1>5
<1>7. ASSUME NEW c \in kids, NEW d \in kids, NEW a \in StandsFor(as, c), a \in StandsFor(as, d)
      PROVE  c = d
  <2>. DEFINE n == Len(PathOf(a))  m == Len(key)  f == FolderKey(PathOf(a), m + 1)
              Deep(x) == n > m + 1 /\ x = FolderNode(f)
              Here(x) == n = m + 1 /\ x = FileNode(a)
  <2>1. ASSUME NEW x \in kids, a \in StandsFor(as, x) PROVE Deep(x) \/ Here(x)
    <3>1. CASE \E g \in Folders(as) : /\ g # Root /\ Front(g) = key /\ x = FolderNode(g)
                                      /\ StandsFor(as, x) = Beneath(as, g)
      <4>1. PICK g \in Folders(as) : /\ g # Root /\ Front(g) = key /\ x = FolderNode(g)
                                     /\ StandsFor(as, x) = Beneath(as, g)
        BY <3>1
      <4>2. a \in Beneath(as, g) BY <2>1, <4>1
      <4>3. n > m + 1 /\ g = f BY <1>2, <4>1, <4>2
      <4>. QED BY <4>1, <4>3
    <3>2. CASE \E b \in as : /\ Front(PathOf(b)) = key /\ x = FileNode(b)
                             /\ StandsFor(as, x) = {b}
      BY <1>3, <2>1, <3>2
    <3>. QED BY <1>5, <3>1, <3>2
  <2>2. n \in Nat
    <3>1. a \in as BY <1>6 DEF Beneath
    <3>. QED BY <3>1, PathsAre DEF Rooted
  <2>3. (Deep(c) \/ Here(c)) /\ (Deep(d) \/ Here(d)) BY <1>7, <2>1
  <2>. HIDE DEF n, m, f
  <2>4. m \in Nat BY <1>1 DEF m
  <2>. QED BY <2>2, <2>3, <2>4
<1>. HIDE DEF kids
<1>8. Beneath(as, key) = UNION {StandsFor(as, c) : c \in kids} BY <1>4, <1>6
<1>. QED BY <1>7, <1>8 DEF kids


LEMMA ChildrenFinite ==
    ASSUME NEW as, IsFiniteSet(as), Rooted(as, Folders(as)), NEW key \in Folders(as)
    PROVE  IsFiniteSet(TreeOf(as, Folders(as))[key])
<1>. DEFINE folders == Folders(as)  kids == TreeOf(as, folders)[key]
            folderNodes == [f \in folders |-> FolderNode(f)]
            fileNodes   == [a \in as |-> FileNode(a)]
            some == {folderNodes[f] : f \in folders} \cup {fileNodes[a] : a \in as}
<1>1. IsFiniteSet(folders) BY FoldersFinite DEF Rooted
<1>2. DOMAIN folderNodes = folders /\ DOMAIN fileNodes = as OBVIOUS
<1>3. kids \subseteq some BY DEF TreeOf
<1>. HIDE DEF folders, folderNodes, fileNodes, kids
<1>4. IsFiniteSet({folderNodes[f] : f \in folders}) BY <1>1, <1>2, ImageIsFinite
<1>5. IsFiniteSet({fileNodes[a] : a \in as}) BY <1>2, ImageIsFinite
<1>6. IsFiniteSet(some)
  <2>. DEFINE one == {folderNodes[f] : f \in folders}  other == {fileNodes[a] : a \in as}
  <2>1. IsFiniteSet(one) /\ IsFiniteSet(other) BY <1>4, <1>5
  <2>. HIDE DEF one, other
  <2>2. IsFiniteSet(one \cup other) BY <2>1, FS_Union
  <2>. QED BY <2>2 DEF one, other
<1>. HIDE DEF some
<1>. QED BY <1>3, <1>6, FS_Subset DEF kids, folders

\* If the children are counted right, so is the folder.
LEMMA CountedFromChildren ==
    ASSUME NEW as, IsFiniteSet(as), Rooted(as, Folders(as)), NEW key \in Folders(as), NEW h,
           \A c \in TreeOf(as, Folders(as))[key] : h[c] = Cardinality(StandsFor(as, c))
    PROVE  Total(h, TreeOf(as, Folders(as))[key]) = Cardinality(Beneath(as, key))
<1>. DEFINE kids == TreeOf(as, Folders(as))[key]  U == [c \in kids |-> StandsFor(as, c)]
<1>1. IsFiniteSet(kids) BY ChildrenFinite
<1>2. /\ Beneath(as, key) = UNION {StandsFor(as, c) : c \in kids}
      /\ \A c, d \in kids : c # d => StandsFor(as, c) \cap StandsFor(as, d) = {}
  BY BeneathIsDivided
<1>3. \A c \in kids : h[c] = Cardinality(StandsFor(as, c)) OBVIOUS
<1>. HIDE DEF kids
<1>4. \A c \in kids : U[c] = StandsFor(as, c) OBVIOUS
<1>5. \A c \in kids : StandsFor(as, c) \subseteq Beneath(as, key) BY <1>2
<1>6. IsFiniteSet(Beneath(as, key))
  <2>1. Beneath(as, key) \in SUBSET as BY DEF Beneath
  <2>. QED BY <2>1, FS_Subset
<1>7. \A c \in kids : IsFiniteSet(StandsFor(as, c)) BY <1>5, <1>6, FS_Subset
<1>8. \A c \in kids : IsFiniteSet(U[c]) /\ h[c] = Cardinality(U[c]) BY <1>3, <1>4, <1>7
<1>9. \A c, d \in kids : c # d => U[c] \cap U[d] = {} BY <1>2, <1>4
<1>10. UNION {U[c] : c \in kids} = Beneath(as, key) BY <1>2, <1>4
<1>11. DOMAIN U = kids OBVIOUS
<1>. HIDE DEF U
<1>12. Total(h, kids) = Cardinality(UNION {U[c] : c \in kids})
  BY <1>1, <1>8, <1>9, <1>11, SumIsUnion
<1>. QED BY <1>10, <1>12 DEF kids

\* finalizeArtifactTreeNode counts what is under a folder.
LEMMA CountMade ==
    ASSUME NEW as, IsFiniteSet(as), Rooted(as, Folders(as)), NEW key \in Folders(as)
    PROVE  ArtifactCount(TreeOf(as, Folders(as)), FolderNode(key)) = Cardinality(Beneath(as, key))
<1>. DEFINE folders == Folders(as)
            tree == TreeOf(as, folders)
            nodes == {FolderNode(key)} \cup UNION {tree[k] : k \in DOMAIN tree}
            made == [n \in nodes |-> Cardinality(StandsFor(as, n))]
            Made(f) == f = [n \in nodes |-> IF n.type = "file" THEN 1 ELSE Total(f, tree[n.path])]
<1>1. DOMAIN tree = folders BY DEF TreeOf
<1>2. \A k \in folders : tree[k] \subseteq nodes BY <1>1
<1>3. ASSUME NEW n \in nodes
      PROVE  \/ \E f \in folders : n = FolderNode(f)
             \/ \E a \in as : n = FileNode(a)
  BY <1>1 DEF TreeOf
<1>4. \A f : /\ FolderNode(f).type # "file" /\ FolderNode(f).path = f
             /\ StandsFor(as, FolderNode(f)) = Beneath(as, f)
  BY DEF FolderNode, StandsFor
<1>5. \A a : FileNode(a).type = "file" /\ StandsFor(as, FileNode(a)) = {a}
  BY DEF FileNode, StandsFor
<1>6. Made(made)
  <2>1. ASSUME NEW n \in nodes
        PROVE  made[n] = IF n.type = "file" THEN 1 ELSE Total(made, tree[n.path])
    <3>1. CASE \E a \in as : n = FileNode(a)
      <4>1. n.type = "file" /\ \E a \in as : StandsFor(as, n) = {a} BY <1>5, <3>1
      <4>2. made[n] = 1 BY <4>1, FS_Singleton
      <4>. QED BY <4>1, <4>2
    <3>2. CASE \E f \in folders : n = FolderNode(f)
      <4>1. PICK f \in folders : n = FolderNode(f) BY <3>2
      <4>2. \A c \in tree[f] : made[c] = Cardinality(StandsFor(as, c)) BY <1>2
      <4>. HIDE DEF made
      <4>3. Total(made, tree[f]) = Cardinality(Beneath(as, f)) BY <4>2, CountedFromChildren
      <4>4. made[n] = Cardinality(Beneath(as, f)) BY <1>4, <4>1 DEF made
      <4>. QED BY <1>4, <4>1, <4>3, <4>4
    <3>. QED BY <1>3, <3>1, <3>2
  <2>. HIDE DEF nodes, tree
  <2>. QED BY <2>1
<1>. DEFINE count == CHOOSE f : Made(f)
<1>7. Made(count) BY <1>6
\* A folder with the fewest folders below that was counted wrong would have none
\* such among its children.
<1>8. \A f \in folders : FolderNode(f) \in nodes => count[FolderNode(f)] = made[FolderNode(f)]
  <2>. DEFINE Below(f) == {g \in folders : IsStrictPrefix(f, g)}
              Rank(f) == Cardinality(Below(f))
              wrong == {f \in folders : /\ FolderNode(f) \in nodes
                                        /\ count[FolderNode(f)] # made[FolderNode(f)]}
              ranks == {Rank(f) : f \in wrong}
  <2>1. IsFiniteSet(folders) BY FoldersFinite DEF Rooted
  <2>2. ASSUME NEW f \in folders PROVE IsFiniteSet(Below(f)) /\ Rank(f) \in Nat
    <3>1. Below(f) \in SUBSET folders OBVIOUS
    <3>. HIDE DEF Below, folders
    <3>2. IsFiniteSet(Below(f)) BY <2>1, <3>1, FS_Subset
    <3>. QED BY <3>2, FS_CardinalityType
  <2>3. ASSUME NEW f \in folders, NEW g \in folders, g # Root, Front(g) = f
        PROVE  Rank(g) < Rank(f)
    <3>1. f \in Paths /\ g \in Paths BY DEF Rooted
    <3>2. Len(g) = Len(f) + 1 /\ Len(f) \in Nat BY <2>3, <3>1, ChildOf
    <3>3. f = FolderKey(g, Len(f))
      <4>1. Front(g) = FolderKey(g, Len(g) - 1) BY <2>3, <3>1, Ends
      <4>2. Len(g) - 1 = Len(f) BY <3>2
      <4>. QED BY <2>3, <4>1, <4>2
    <3>4. IsStrictPrefix(f, g) BY <3>1, <3>2, <3>3, StrictPrefix
    <3>5. ASSUME NEW k \in folders, IsStrictPrefix(g, k) PROVE IsStrictPrefix(f, k)
      <4>1. k \in Paths /\ Len(k) \in Nat BY Ends DEF Rooted
      <4>2. Len(g) < Len(k) /\ g = FolderKey(k, Len(g)) BY <3>1, <3>5, <4>1, StrictPrefix
      <4>3. Len(g) \in 0 .. Len(k) /\ Len(f) \in 0 .. Len(g) /\ Len(f) < Len(k)
        BY <3>2, <4>1, <4>2
      <4>4. FolderKey(FolderKey(k, Len(g)), Len(f)) = FolderKey(k, Len(f))
        BY <4>1, <4>3, Beginnings
      <4>. QED BY <3>1, <3>3, <4>1, <4>2, <4>3, <4>4, StrictPrefix
    <3>6. ~ IsStrictPrefix(g, g) BY DEF IsStrictPrefix
    <3>7. Below(g) \in SUBSET Below(f) /\ Below(g) # Below(f) BY <3>4, <3>5, <3>6
    <3>. HIDE DEF Below
    <3>8. /\ Cardinality(Below(g)) <= Cardinality(Below(f))
          /\ Cardinality(Below(f)) # Cardinality(Below(g))
      BY <2>2, <3>7, FS_Subset
    <3>9. Cardinality(Below(f)) \in Nat /\ Cardinality(Below(g)) \in Nat BY <2>2
    <3>. QED BY <3>8, <3>9
  <2>. HIDE DEF Rank
  <2>4. ASSUME wrong # {} PROVE FALSE
    <3>1. ranks \subseteq Nat /\ ranks # {} BY <2>2, <2>4
    <3>2. Min(ranks) \in ranks /\ \A x \in ranks : Min(ranks) <= x BY <3>1, LeastIsThere
    <3>3. PICK f \in wrong : \A g \in wrong : Rank(f) <= Rank(g) BY <3>2
    <3>4. f \in folders /\ FolderNode(f) \in nodes OBVIOUS
    <3>5. ASSUME NEW c \in tree[f] PROVE count[c] = Cardinality(StandsFor(as, c))
      <4>1. c \in nodes BY <1>2, <3>4
      <4>2. made[c] = Cardinality(StandsFor(as, c)) BY <4>1
      <4>3. CASE \E a \in as : c = FileNode(a)
        <5>1. c.type = "file" /\ \E a \in as : StandsFor(as, c) = {a} BY <1>5, <4>3
        <5>2. Cardinality(StandsFor(as, c)) = 1 BY <5>1, FS_Singleton
        <5>. HIDE DEF nodes, tree, count
        <5>. QED BY <1>7, <4>1, <5>1, <5>2
      <4>4. CASE \E g \in folders : g # Root /\ Front(g) = f /\ c = FolderNode(g)
        <5>1. PICK g \in folders : g # Root /\ Front(g) = f /\ c = FolderNode(g) BY <4>4
        <5>2. Rank(g) < Rank(f) BY <2>3, <3>4, <5>1
        <5>3. Rank(g) \in Nat /\ Rank(f) \in Nat BY <2>2, <3>4
        <5>4. g \notin wrong
          <6>. HIDE DEF wrong
          <6>. QED BY <3>3, <5>2, <5>3
        <5>5. count[c] = made[c] BY <4>1, <5>1, <5>4
        <5>. QED BY <4>2, <5>5
      <4>5. \/ \E a \in as : c = FileNode(a)
            \/ \E g \in folders : g # Root /\ Front(g) = f /\ c = FolderNode(g)
        BY <3>4 DEF TreeOf
      <4>. QED BY <4>3, <4>4, <4>5
    <3>6. Total(count, tree[f]) = Cardinality(Beneath(as, f))
      <4>. HIDE DEF count
      <4>. QED BY <3>4, <3>5, CountedFromChildren
    <3>7. count[FolderNode(f)] = Total(count, tree[f])
      <4>. HIDE DEF nodes, tree, count
      <4>. QED BY <1>4, <1>7, <3>4
    <3>8. made[FolderNode(f)] = Cardinality(Beneath(as, f)) BY <1>4, <3>4
    <3>9. count[FolderNode(f)] # made[FolderNode(f)] OBVIOUS
    <3>. QED BY <3>6, <3>7, <3>8, <3>9
  <2>. QED BY <2>4
<1>9. ArtifactCount(tree, FolderNode(key)) = count[FolderNode(key)]
  <2>1. ArtifactCount(tree, FolderNode(key)) = (CHOOSE f : Made(f))[FolderNode(key)]
    BY DEF ArtifactCount, Total
  <2>. QED BY <2>1
<1>10. made[FolderNode(key)] = Cardinality(Beneath(as, key)) BY <1>4
<1>11. FolderNode(key) \in nodes /\ key \in folders OBVIOUS
<1>. HIDE DEF count, made, nodes
<1>. QED BY <1>8, <1>9, <1>10, <1>11


\* The first n of a list are some artifacts.
Arranges(list, n, as) ==
    n \in Nat /\ list \in [1 .. n -> ArtifactRow] /\ as = {list[i] : i \in 1 .. n}

LEMMA OrderIsWhole ==
    ASSUME NEW as, as \subseteq ArtifactRow, IsFiniteSet(as), NEW list \in SetToSeqs(as)
    PROVE  Arranges(list, Cardinality(as), as)
<1>. DEFINE n == Cardinality(as)
<1>1. list \in [1 .. n -> as] /\ \A i, j \in 1 .. n : i # j => list[i] # list[j]
  BY DEF SetToSeqs
<1>2. n \in Nat BY FS_CardinalityType
<1>3. list \in Injection(1 .. n, as) BY <1>1 DEF Injection, IsInjective
<1>4. Cardinality(1 .. n) = n
  <2>. HIDE DEF n
  <2>1. 1 \in Int /\ n \in Int BY <1>2
  <2>2. Cardinality(1 .. n) = IF 1 > n THEN 0 ELSE n - 1 + 1 BY <2>1, FS_Interval
  <2>. QED BY <1>2, <2>2
<1>5. list \in Surjection(1 .. n, as) BY <1>3, <1>4, FS_Injection
<1>6. as = {list[i] : i \in 1 .. n} BY <1>1, <1>5 DEF Surjection
<1>. QED BY <1>1, <1>2, <1>6 DEF Arranges

\* An artifact's node is in its folder, and in no other.
LEMMA FileIsPlaced ==
    ASSUME NEW as, Rooted(as, Folders(as)), NEW a \in as
    PROVE  LET tree == TreeOf(as, Folders(as))
           IN {key \in DOMAIN tree : FileNode(a) \in tree[key]} = {Front(PathOf(a))}
<1>. DEFINE folders == Folders(as)  tree == TreeOf(as, folders)
<1>1. DOMAIN tree = folders BY DEF TreeOf
<1>2. Front(PathOf(a)) \in folders BY DEF Rooted
<1>3. ASSUME NEW key \in folders
      PROVE  FileNode(a) \in tree[key] <=> key = Front(PathOf(a))
  <2>1. \A f : FolderNode(f) # FileNode(a) BY DEF FolderNode, FileNode
  <2>2. \A b : FileNode(b) = FileNode(a) <=> b = a BY DEF FileNode
  <2>. QED BY <2>1, <2>2 DEF TreeOf
<1>. HIDE DEF tree, folders
<1>4. {key \in DOMAIN tree : FileNode(a) \in tree[key]} = {Front(PathOf(a))} BY <1>1, <1>2, <1>3
<1>. QED BY <1>4 DEF tree, folders

LEMMA TreeHolds ==
    ASSUME NEW as, as \subseteq ArtifactRow, IsFiniteSet(as), NEW list \in SetToSeqs(as)
    PROVE  LET tree == ArtifactTree(list)
           IN /\ \A a \in as :
                    {key \in DOMAIN tree : FileNode(a) \in tree[key]} = {Front(PathOf(a))}
              /\ \A key \in DOMAIN tree :
                    ArtifactCount(tree, FolderNode(key)) = Cardinality(Beneath(as, key))
<1>1. Arranges(list, Cardinality(as), as) BY OrderIsWhole
<1>2. ArtifactTree(list) = TreeOf(as, Folders(as)) /\ Rooted(as, Folders(as))
  BY <1>1, TreeMade DEF Arranges
<1>3. DOMAIN TreeOf(as, Folders(as)) = Folders(as) BY DEF TreeOf
<1>4. \A a \in as : {key \in DOMAIN TreeOf(as, Folders(as)) :
                       FileNode(a) \in TreeOf(as, Folders(as))[key]} = {Front(PathOf(a))}
  BY <1>2, FileIsPlaced
<1>5. \A key \in Folders(as) : ArtifactCount(TreeOf(as, Folders(as)), FolderNode(key))
                                = Cardinality(Beneath(as, key))
  BY <1>2, CountMade
<1>. QED BY <1>2, <1>3, <1>4, <1>5

LEMMA ListedIsFinite ==
    ASSUME ArtifactsTypeOK
    PROVE  Listed \subseteq ArtifactRow /\ IsFiniteSet(Listed)
<1>1. artifacts \in Seq(ArtifactRow) BY DEF ArtifactsTypeOK
<1>. DEFINE n == Len(artifacts)  all == {artifacts[i] : i \in 1 .. n}
<1>2. n \in Nat /\ DOMAIN artifacts = 1 .. n BY <1>1
<1>3. IsFiniteSet(1 .. n) BY <1>2, FS_Interval
<1>. HIDE DEF n
<1>4. IsFiniteSet(all) BY <1>2, <1>3, ImageIsFinite
<1>5. \A i \in 1 .. n : artifacts[i] \in ArtifactRow BY <1>1, <1>2, ElementOfSeq DEF n
<1>6. Listed \subseteq all /\ Listed \subseteq ArtifactRow BY <1>2, <1>5 DEF Listed
<1>. HIDE DEF all
<1>. QED BY <1>4, <1>6, FS_Subset

\* The tree of a listing holds every artifact once, where its path says, and counts
\* right: for any artifacts, any paths, and any order and choice of the rows.
THEOREM TreeIsWhole == ArtifactsSpec => []TreeHoldsAll
<1>1. ArtifactsTypeOK => TreeHoldsAll
  <2>. SUFFICES ASSUME ArtifactsTypeOK, NEW chosen \in SUBSET Listed, NEW list \in SetToSeqs(chosen)
       PROVE  LET tree == ArtifactTree(list)
                  Under(key) == {a \in chosen : IsStrictPrefix(key, RelativePath[a.upload])}
              IN /\ \A a \in chosen :
                       {key \in DOMAIN tree : FileNode(a) \in tree[key]}
                           = {Front(RelativePath[a.upload])}
                 /\ \A key \in DOMAIN tree :
                       ArtifactCount(tree, FolderNode(key)) = Cardinality(Under(key))
    BY DEF TreeHoldsAll
  <2>1. chosen \subseteq ArtifactRow /\ IsFiniteSet(chosen) BY ListedIsFinite, FS_Subset
  <2>. DEFINE tree == ArtifactTree(list)
  <2>2. /\ \A a \in chosen :
              {key \in DOMAIN tree : FileNode(a) \in tree[key]} = {Front(PathOf(a))}
        /\ \A key \in DOMAIN tree :
              ArtifactCount(tree, FolderNode(key)) = Cardinality(Beneath(chosen, key))
    BY <2>1, TreeHolds
  <2>. HIDE DEF tree
  <2>. QED BY <2>2 DEF PathOf, Beneath, tree
<1>. QED BY <1>1, ArtifactsTypeCorrect, PTL

-----------------------------------------------------------------------------
(* Lists read page by page                                                 *)

\* An order of a finite set has every row of it at one place.
LEMMA OrderHasAll ==
    ASSUME NEW rows, IsFiniteSet(rows), NEW s \in Orders(rows)
    PROVE  /\ s \in Seq(rows)
           /\ Len(s) = Cardinality(rows) /\ Len(s) \in Nat
           /\ DOMAIN s = 1 .. Len(s)
           /\ \A i \in 1 .. Len(s) : s[i] \in rows
           /\ \A i, j \in 1 .. Len(s) : i # j => s[i] # s[j]
           /\ \A i, j \in 1 .. Len(s) : Before(s[i], s[j]) => i < j
           /\ \A r \in rows : \E i \in 1 .. Len(s) : s[i] = r
<1>. DEFINE n == Cardinality(rows)
<1>1. /\ s \in [1 .. n -> rows]
      /\ \A i, j \in 1 .. n : i # j => s[i] # s[j]
      /\ \A i, j \in 1 .. n : Before(s[i], s[j]) => i < j
  BY DEF Orders
<1>2. n \in Nat
  BY FS_CardinalityType
<1>3. s \in Seq(rows) /\ Len(s) = n
  BY <1>1, <1>2
<1>4. \A r \in rows : \E i \in 1 .. n : s[i] = r
  <2>1. s \in Injection(1 .. n, rows)
    BY <1>1 DEF Injection, IsInjective
  <2>2. Cardinality(1 .. n) = n
    BY <1>2, FS_Interval
  <2>3. s \in Surjection(1 .. n, rows)
    BY <2>1, <2>2, FS_Injection
  <2>. QED BY <2>3 DEF Surjection
<1>. QED BY <1>1, <1>2, <1>3, <1>4

LEMMA TakenIs ==
    ASSUME NEW S, NEW s \in Seq(S), NEW skip \in Nat, NEW take \in Nat
    PROVE  /\ Taken(s, skip, take) \in Seq(S)
           /\ Len(Taken(s, skip, take)) =
                IF skip + take < Len(s) THEN take
                ELSE IF skip < Len(s) THEN Len(s) - skip ELSE 0
           /\ \A i \in 1 .. Len(Taken(s, skip, take)) : Taken(s, skip, take)[i] = s[skip + i]
<1>. DEFINE end == IF skip + take < Len(s) THEN skip + take ELSE Len(s)
<1>1. Len(s) \in Nat /\ end \in Nat /\ end <= Len(s)
  OBVIOUS
<1>2. CASE skip < end
  <2>1. /\ SubSeq(s, skip + 1, end) \in Seq(S)
        /\ Len(SubSeq(s, skip + 1, end)) = end - skip
        /\ \A i \in 1 .. end - skip : SubSeq(s, skip + 1, end)[i] = s[skip + i]
    BY <1>1, <1>2
  <2>2. Taken(s, skip, take) = SubSeq(s, skip + 1, end)
    BY DEF Taken
  <2>3. end - skip = IF skip + take < Len(s) THEN take
                     ELSE IF skip < Len(s) THEN Len(s) - skip ELSE 0
    BY <1>1, <1>2
  <2>. HIDE DEF end
  <2>. QED BY <2>1, <2>2, <2>3
<1>3. CASE ~ (skip < end)
  <2>1. SubSeq(s, skip + 1, end) = << >>
    BY <1>1, <1>3
  <2>. QED BY <1>1, <1>3, <2>1 DEF Taken
<1>. QED BY <1>2, <1>3

\* What one page does: it shows the rows at the Limit places after its start, and
\* sees one place more.
ShownAt(s, start, r) == \E i \in 1 .. Len(s) : start < i /\ i <= start + Limit /\ s[i] = r

LEMMA PageIs ==
    ASSUME NEW S, NEW s \in Seq(S), NEW start \in Nat, shown \in [Rows -> Nat],
           Show(Taken(Taken(s, start, Limit + 1), 0, Limit))
    PROVE  /\ \A r \in Rows : shown'[r] = shown[r] + (IF ShownAt(s, start, r) THEN 1 ELSE 0)
           /\ shown' \in [Rows -> Nat]
           /\ Len(Taken(s, start, Limit + 1)) > Limit <=> start + Limit < Len(s)
           /\ start + Limit < Len(s) =>
                /\ PageEnd(Taken(s, start, Limit + 1)) = s[start + Limit]
                /\ Taken(s, start, Limit + 1)[Limit + 1] = s[start + Limit + 1]
<1>. DEFINE rows == Taken(s, start, Limit + 1)
            page == Taken(rows, 0, Limit)
<1>1. Limit \in Nat \ {0} /\ Len(s) \in Nat
  BY ListingsAssumption
<1>2. /\ rows \in Seq(S)
      /\ Len(rows) = IF start + Limit + 1 < Len(s) THEN Limit + 1
                     ELSE IF start < Len(s) THEN Len(s) - start ELSE 0
      /\ \A i \in 1 .. Len(rows) : rows[i] = s[start + i]
  <2>1. Limit + 1 \in Nat /\ start + (Limit + 1) = start + Limit + 1
    BY <1>1
  <2>2. /\ rows \in Seq(S)
        /\ Len(rows) = IF start + (Limit + 1) < Len(s) THEN Limit + 1
                       ELSE IF start < Len(s) THEN Len(s) - start ELSE 0
        /\ \A i \in 1 .. Len(rows) : rows[i] = s[start + i]
    BY <2>1, TakenIs
  <2>. QED BY <2>1, <2>2
<1>. HIDE DEF rows
<1>3. /\ page \in Seq(S)
      /\ Len(page) = IF Limit < Len(rows) THEN Limit ELSE Len(rows)
      /\ \A i \in 1 .. Len(page) : page[i] = rows[i]
  <2>1. Len(rows) \in Nat /\ (0 < Len(rows) \/ Len(rows) = 0)
    BY <1>1, <1>2
  <2>2. /\ page \in Seq(S)
        /\ Len(page) = IF 0 + Limit < Len(rows) THEN Limit
                       ELSE IF 0 < Len(rows) THEN Len(rows) - 0 ELSE 0
        /\ \A i \in 1 .. Len(page) : page[i] = rows[0 + i]
    <3>1. rows \in Seq(S) /\ Limit \in Nat /\ 0 \in Nat
      BY <1>1, <1>2
    <3>. QED BY ONLY <3>1, TakenIs
  <2>3. \A i \in 1 .. Len(page) : 0 + i = i
    OBVIOUS
  <2>. QED BY <1>1, <2>1, <2>2, <2>3
<1>. HIDE DEF page
<1>4. ASSUME NEW r \in Rows
      PROVE  Contains(page, r) <=> ShownAt(s, start, r)
  <2>1. ASSUME NEW i \in 1 .. Len(page), page[i] = r
        PROVE  ShownAt(s, start, r)
    <3>1. start + i \in 1 .. Len(s) /\ i <= Limit /\ i \in 1 .. Len(rows)
      BY <1>1, <1>2, <1>3
    <3>2. s[start + i] = r
      BY <1>2, <1>3, <2>1, <3>1
    <3>. QED BY <1>1, <3>1, <3>2 DEF ShownAt
  <2>2. ASSUME NEW i \in 1 .. Len(s), start < i, i <= start + Limit, s[i] = r
        PROVE  Contains(page, r)
    <3>1. i - start \in 1 .. Len(page) /\ i - start \in 1 .. Len(rows)
      BY <1>1, <1>2, <1>3, <2>2
    <3>2. page[i - start] = s[start + (i - start)]
      BY <1>2, <1>3, <3>1
    <3>3. start + (i - start) = i
      OBVIOUS
    <3>. QED BY <2>2, <3>1, <3>2, <3>3 DEF Contains
  <2>. QED BY <2>1, <2>2 DEF Contains, ShownAt
<1>5. shown' = [r \in Rows |-> shown[r] + IF Contains(page, r) THEN 1 ELSE 0]
  BY DEF Show, page, rows
<1>6. \A r \in Rows : shown'[r] = shown[r] + (IF ShownAt(s, start, r) THEN 1 ELSE 0)
  BY <1>4, <1>5
<1>7. shown' \in [Rows -> Nat]
  BY <1>5
<1>8. Len(rows) > Limit <=> start + Limit < Len(s)
  BY <1>1, <1>2
<1>9. start + Limit < Len(s) =>
         PageEnd(rows) = s[start + Limit] /\ rows[Limit + 1] = s[start + Limit + 1]
  BY <1>1, <1>2 DEF PageEnd
<1>. QED BY <1>6, <1>7, <1>8, <1>9 DEF rows

\* Where the times differ, the place of a row is how many come before it.
Rank(r) == Cardinality({q \in table : Before(q, r)})

LEMMA PlaceIsRank ==
    ASSUME ListingsTypeOK, IsFiniteSet(table), kind = "sessions", \A q \in table : AloneAt(q),
           NEW s \in Orders(table), NEW i \in 1 .. Len(s)
    PROVE  Rank(s[i]) = i - 1
<1>. DEFINE ahead == {q \in table : Before(q, s[i])}
            place == [j \in 1 .. (i - 1) |-> s[j]]
<1>1. /\ Len(s) \in Nat
      /\ \A j \in 1 .. Len(s) : s[j] \in table /\ s[j] \in Rows /\ at[s[j]] \in Nat
      /\ \A j, k \in 1 .. Len(s) : j # k => s[j] # s[k]
      /\ \A j, k \in 1 .. Len(s) : Before(s[j], s[k]) => j < k
      /\ \A r \in table : \E j \in 1 .. Len(s) : s[j] = r
  <2>1. \A r \in table : r \in Rows /\ at[r] \in Nat
    BY DEF ListingsTypeOK
  <2>2. /\ Len(s) \in Nat
        /\ \A j \in 1 .. Len(s) : s[j] \in table
        /\ \A j, k \in 1 .. Len(s) : j # k => s[j] # s[k]
        /\ \A j, k \in 1 .. Len(s) : Before(s[j], s[k]) => j < k
        /\ \A r \in table : \E j \in 1 .. Len(s) : s[j] = r
    BY OrderHasAll
  <2>. QED BY <2>1, <2>2
<1>2. \A j \in 1 .. (i - 1) : s[j] \in ahead
  <2>. SUFFICES ASSUME NEW j \in 1 .. (i - 1) PROVE Before(s[j], s[i])
    BY <1>1
  <2>1. j \in 1 .. Len(s) /\ j # i /\ ~ (i < j)
    BY <1>1
  <2>2. at[s[j]] # at[s[i]]
    BY <1>1, <2>1 DEF AloneAt
  <2>3. ~ (at[s[i]] > at[s[j]])
    BY <1>1, <2>1 DEF Before
  <2>4. at[s[i]] \in Nat /\ at[s[j]] \in Nat
    BY <1>1, <2>1
  <2>. QED BY <2>2, <2>3, <2>4 DEF Before
<1>3. \A q \in ahead : \E j \in 1 .. (i - 1) : s[j] = q
  BY <1>1
<1>4. place \in Bijection(1 .. (i - 1), ahead)
  <2>. HIDE DEF ahead
  <2>1. place \in [1 .. (i - 1) -> ahead]
    BY <1>2
  <2>2. \A j, k \in 1 .. (i - 1) : place[j] = place[k] => j = k
    BY <1>1
  <2>3. \A q \in ahead : \E j \in 1 .. (i - 1) : place[j] = q
    BY <1>3
  <2>. QED BY <2>1, <2>2, <2>3 DEF Bijection, Injection, IsInjective, Surjection
<1>5. IsFiniteSet(1 .. (i - 1)) /\ Cardinality(1 .. (i - 1)) = i - 1
  <2>1. i \in Nat /\ i > 0 /\ 1 \in Int /\ (i - 1) \in Int
    BY <1>1
  <2>. QED BY <2>1, FS_Interval
<1>6. ExistsBijection(1 .. (i - 1), ahead)
  BY <1>4 DEF ExistsBijection
<1>7. Cardinality(ahead) = Cardinality(1 .. (i - 1))
  <2>. HIDE DEF ahead
  <2>. QED BY <1>5, <1>6, FS_Bijection
<1>. QED BY <1>5, <1>7 DEF Rank

\* What holds of the table and of what was shown.
TableSound ==
    /\ IsFiniteSet(table)
    /\ \A r \in table : at[r] # 0
    /\ \A r \in Rows : shown[r] # 0 => r \in table
    /\ cursor = None => fresh = {} /\ \A r \in Rows : shown[r] = 0
    /\ kind # "sessions" => NoneTwice

\* A cursor by time has passed all it has shown, and has shown all the lone rows it
\* has passed.
Passed(r) == IF kind = "runs" THEN at[r] >= cursor.time ELSE at[r] <= cursor.time

TimeSound ==
    kind \in {"runs", "events"} =>
      /\ cursor.to \in {"start", "time", "end"}
      /\ cursor.to = "time" =>
           /\ \A r \in Rows : shown[r] # 0 => Passed(r)
           /\ \A r \in table \ fresh : AloneAt(r) /\ Passed(r) => shown[r] # 0
      /\ AllShown({r \in table \ fresh : AloneAt(r)})

\* A cursor that is a row comes after all it has shown.
RowSound ==
    kind = "flows" =>
      /\ cursor.to \in {"start", "row", "end"}
      /\ cursor.to = "row" =>
           cursor.row \in table /\ \A r \in Rows : shown[r] # 0 => Before(r, cursor.row)

\* An offset has shown the rows whose rank is below it.
PageSound ==
    kind = "sessions" =>
      /\ cursor.to \in {"start", "page", "end"}
      /\ fresh = {} /\ (\A r \in table : AloneAt(r)) =>
           /\ cursor.to = "page" =>
                \A r \in table : shown[r] = IF Rank(r) < Offset THEN 1 ELSE 0
           /\ cursor = End => \A r \in table : shown[r] = 1

ListingsSound == ListingsTypeOK /\ TableSound /\ TimeSound /\ RowSound /\ PageSound

LEMMA ListingsInitSound == ListingsInit => ListingsSound
<1>. SUFFICES ASSUME ListingsInit PROVE ListingsSound
  OBVIOUS
<1>1. ListingsTypeOK
  BY ListingsAssumption DEF ListingsInit, ListingsTypeOK, Cursor
<1>2. TableSound
  BY FS_EmptySet DEF ListingsInit, TableSound, NoneTwice
<1>3. TimeSound /\ RowSound /\ PageSound
  BY DEF ListingsInit, TimeSound, RowSound, PageSound, AllShown, None, End
<1>. QED BY <1>1, <1>2, <1>3 DEF ListingsSound

LEMMA SoundExactly == ListingsSound => PagesExact
<1>. SUFFICES ASSUME ListingsSound PROVE PagesExact
  OBVIOUS
<1>1. ASSUME kind = "sessions", fresh = {}, \A r \in table : AloneAt(r)
      PROVE  NoneTwice /\ AllShown(table)
  <2>1. /\ shown \in [Rows -> Nat] /\ table \subseteq Rows
        /\ \A r \in Rows : shown[r] # 0 => r \in table
        /\ cursor = None => \A r \in Rows : shown[r] = 0
    BY DEF ListingsSound, ListingsTypeOK, TableSound
  <2>2. /\ cursor.to = "page" => \A r \in table : shown[r] = IF Rank(r) < Offset THEN 1 ELSE 0
        /\ cursor = End => \A r \in table : shown[r] = 1
        /\ cursor.to \in {"start", "page", "end"}
    BY <1>1 DEF ListingsSound, PageSound
  <2>3. /\ cursor.to = "start" => cursor = None
        /\ cursor.to = "end" => cursor = End
    BY <2>2 DEF ListingsSound, ListingsTypeOK, Cursor, None, End
  <2>4. NoneTwice
    BY <2>1, <2>2, <2>3 DEF NoneTwice
  <2>. QED BY <2>2, <2>4 DEF AllShown
<1>. QED BY <1>1 DEF ListingsSound, TableSound, TimeSound, PagesExact

LEMMA InsertKeeps ==
    ASSUME ListingsSound, NEW r \in Unused, NEW time \in 1 .. LastTime, Insert(r, time)
    PROVE  ListingsSound'
<1>1. /\ r \in Rows /\ at[r] = 0 /\ r \notin table /\ shown[r] = 0
      /\ table' = table \cup {r}
      /\ UNCHANGED <<kind, clock, cursor, shown>>
      /\ table \subseteq Rows
  BY DEF Unused, Insert, ListingsSound, ListingsTypeOK, TableSound
<1>2. /\ at' \in [Rows -> 0 .. LastTime] /\ at'[r] = time
      /\ \A q \in Rows \ {r} : at'[q] = at[q]
  BY <1>1, ListingsAssumption DEF Insert, ListingsSound, ListingsTypeOK
<1>3. /\ fresh' \subseteq Rows
      /\ cursor = None => fresh' = fresh
      /\ cursor # None => fresh' = fresh \cup {r}
  BY <1>1 DEF Insert, ListingsSound, ListingsTypeOK
<1>4. ListingsTypeOK'
  BY <1>1, <1>2, <1>3 DEF ListingsSound, ListingsTypeOK, Cursor
<1>5. TableSound'
  <2>1. IsFiniteSet(table')
    BY <1>1, FS_AddElement DEF ListingsSound, TableSound
  <2>2. \A q \in table' : at'[q] # 0
    BY <1>1, <1>2 DEF ListingsSound, TableSound
  <2>. QED BY <1>1, <1>3, <2>1, <2>2 DEF ListingsSound, TableSound, NoneTwice
<1>6. \A q \in table : AloneAt(q)' => AloneAt(q)
  BY <1>1, <1>2 DEF AloneAt
<1>7. cursor # None => table' \ fresh' \subseteq table \ fresh
  BY <1>1, <1>3
<1>8. cursor.to # "start" => cursor # None
  BY DEF None
<1>9. cursor = End => cursor # None
  BY DEF None, End
<1>10. TimeSound'
  <2>. SUFFICES ASSUME kind \in {"runs", "events"}
                PROVE  /\ cursor.to \in {"start", "time", "end"}
                       /\ cursor.to = "time" =>
                            /\ \A q \in Rows : shown[q] # 0 => Passed(q)'
                            /\ \A q \in table' \ fresh' : AloneAt(q)' /\ Passed(q)' => shown[q] # 0
                       /\ AllShown({q \in table \ fresh : AloneAt(q)})'
    BY <1>1 DEF TimeSound
  <2>1. \A q \in Rows \ {r} : Passed(q)' <=> Passed(q)
    BY <1>1, <1>2 DEF Passed
  <2>2. TimeSound
    BY DEF ListingsSound
  <2>3. cursor.to = "time" => \A q \in Rows : shown[q] # 0 => Passed(q)'
    BY <1>1, <2>1, <2>2 DEF TimeSound
  <2>4. cursor.to = "time" =>
          \A q \in table' \ fresh' : AloneAt(q)' /\ Passed(q)' => shown[q] # 0
    BY <1>1, <1>6, <1>7, <1>8, <2>1, <2>2 DEF TimeSound
  <2>5. AllShown({q \in table \ fresh : AloneAt(q)})'
    BY <1>1, <1>6, <1>7, <1>9, <2>2 DEF TimeSound, AllShown
  <2>. QED BY <2>2, <2>3, <2>4, <2>5 DEF TimeSound
<1>11. RowSound'
  BY <1>1, <1>2 DEF ListingsSound, RowSound, TableSound, Before
<1>12. PageSound'
  BY <1>1, <1>3, <1>8, <1>9 DEF ListingsSound, PageSound
<1>. QED BY <1>4, <1>5, <1>10, <1>11, <1>12 DEF ListingsSound

\* Nothing but the clock.
LEMMA TicksKeep ==
    ASSUME ListingsSound, UNCHANGED <<kind, table, at, cursor, shown, fresh>>,
           clock' \in 1 .. LastTime
    PROVE  ListingsSound'
<1>1. ListingsTypeOK' /\ TableSound'
  BY DEF ListingsSound, ListingsTypeOK, TableSound, NoneTwice, Cursor
<1>2. TimeSound'
  BY DEF ListingsSound, TimeSound, AllShown, AloneAt, Passed
<1>3. RowSound'
  BY DEF ListingsSound, RowSound, Before
<1>4. PageSound'
  BY DEF ListingsSound, PageSound, AloneAt, Rank, Before, Offset
<1>. QED BY <1>1, <1>2, <1>3, <1>4 DEF ListingsSound

\* What every read leaves as it was.
LEMMA ReadsOnly ==
    ASSUME ListingsSound, cursor # End, UNCHANGED <<kind, table, at, clock, fresh>>,
           NEW rows \in SUBSET table, NEW s \in Orders(rows), NEW start \in Nat,
           Show(Taken(Taken(s, start, Limit + 1), 0, Limit)),
           cursor' \in Cursor, cursor' # None,
           kind # "sessions" => \A i \in 1 .. Len(s) : start < i => shown[s[i]] = 0
    PROVE  ListingsTypeOK' /\ TableSound'
<1>1. /\ IsFiniteSet(table) /\ table \subseteq Rows
      /\ shown \in [Rows -> Nat]
      /\ \A r \in Rows : shown[r] # 0 => r \in table
  BY DEF ListingsSound, ListingsTypeOK, TableSound
<1>2. IsFiniteSet(rows)
  BY <1>1, FS_Subset
<1>3. s \in Seq(rows) /\ \A i \in 1 .. Len(s) : s[i] \in rows
  BY <1>2, OrderHasAll
<1>4. /\ \A r \in Rows : shown'[r] = shown[r] + (IF ShownAt(s, start, r) THEN 1 ELSE 0)
      /\ shown' \in [Rows -> Nat]
  BY <1>1, <1>3, PageIs
<1>5. ListingsTypeOK'
  <2>1. cursor' \in Cursor'
    BY DEF Cursor
  <2>. QED BY <1>4, <2>1 DEF ListingsSound, ListingsTypeOK
<1>6. \A r \in Rows : shown'[r] # 0 => r \in table
  BY <1>1, <1>3, <1>4 DEF ShownAt
<1>7. kind # "sessions" => NoneTwice'
  <2>. SUFFICES ASSUME kind # "sessions", NEW r \in Rows PROVE shown'[r] <= 1
    BY DEF NoneTwice
  <2>1. shown[r] <= 1
    BY DEF ListingsSound, TableSound, NoneTwice
  <2>2. ShownAt(s, start, r) => shown[r] = 0
    BY DEF ShownAt
  <2>. QED BY <1>1, <1>4, <2>1, <2>2
<1>8. None' = None
  BY DEF None
<1>. QED BY <1>5, <1>6, <1>7, <1>8 DEF ListingsSound, TableSound

LEMMA ByTimeKeeps ==
    ASSUME ListingsSound, cursor # End, kind \in {"runs", "events"}, ByTime,
           UNCHANGED <<kind, table, at, clock, fresh>>
    PROVE  ListingsSound'
<1>. DEFINE where == IF cursor = None THEN table
                     ELSE {r \in table : IF kind = "runs" THEN at[r] < cursor.time
                                                          ELSE at[r] > cursor.time}
<1>1. PICK s \in Orders(where) :
         /\ Show(Taken(Taken(s, 0, Limit + 1), 0, Limit))
         /\ cursor' = IF Len(Taken(s, 0, Limit + 1)) > Limit
                      THEN [to |-> "time", time |-> at[PageEnd(Taken(s, 0, Limit + 1))]]
                      ELSE End
  BY DEF ByTime
<1>2. /\ IsFiniteSet(table) /\ table \subseteq Rows
      /\ shown \in [Rows -> Nat]
      /\ \A r \in Rows : at[r] \in Nat
      /\ cursor \in Cursor
      /\ Limit \in Nat \ {0}
  BY ListingsAssumption DEF ListingsSound, ListingsTypeOK, TableSound
<1>3. cursor # None => cursor.to = "time" /\ cursor.time \in Nat
  BY <1>2 DEF ListingsSound, TimeSound, Cursor, None, End
<1>4. /\ where \in SUBSET table /\ IsFiniteSet(where)
  BY <1>2, FS_Subset
<1>5. \A r \in table : r \notin where => cursor.to = "time" /\ Passed(r)
  BY <1>2, <1>3 DEF Passed
<1>6. \A r \in where : shown[r] = 0
  <2>. SUFFICES ASSUME NEW r \in where, shown[r] # 0 PROVE FALSE
    OBVIOUS
  <2>1. r \in Rows /\ cursor # None
    BY <1>2, <1>4 DEF ListingsSound, TableSound
  <2>2. Passed(r)
    BY <1>3, <2>1 DEF ListingsSound, TimeSound
  <2>. QED BY <1>2, <1>3, <2>1, <2>2 DEF Passed
<1>7. \A r \in where : cursor.to = "time" =>
         IF kind = "runs" THEN at[r] < cursor.time ELSE at[r] > cursor.time
  BY <1>2 DEF None
<1>. HIDE DEF where
<1>8. /\ s \in Seq(where)
      /\ Len(s) \in Nat
      /\ \A i \in 1 .. Len(s) : s[i] \in where
      /\ \A i, j \in 1 .. Len(s) : i # j => s[i] # s[j]
      /\ \A i, j \in 1 .. Len(s) : Before(s[i], s[j]) => i < j
      /\ \A r \in where : \E i \in 1 .. Len(s) : s[i] = r
  BY <1>4, OrderHasAll
<1>9. /\ \A r \in Rows : shown'[r] = shown[r] + (IF ShownAt(s, 0, r) THEN 1 ELSE 0)
      /\ Len(Taken(s, 0, Limit + 1)) > Limit <=> Limit < Len(s)
      /\ Limit < Len(s) => PageEnd(Taken(s, 0, Limit + 1)) = s[Limit]
  <2>1. 0 \in Nat /\ 0 + Limit = Limit
    BY <1>2
  <2>. QED BY <1>1, <1>2, <1>8, <2>1, PageIs
<1>10. cursor' = IF Limit < Len(s) THEN [to |-> "time", time |-> at[s[Limit]]] ELSE End
  BY <1>1, <1>9
<1>11. Limit < Len(s) => Limit \in 1 .. Len(s) /\ s[Limit] \in where /\ at[s[Limit]] \in Nat
  <2>. SUFFICES ASSUME Limit < Len(s)
                PROVE  Limit \in 1 .. Len(s) /\ s[Limit] \in where /\ at[s[Limit]] \in Nat
    OBVIOUS
  <2>1. Limit \in 1 .. Len(s)
    BY <1>2, <1>8
  <2>2. s[Limit] \in where
    BY <1>8, <2>1
  <2>. QED BY <1>2, <1>4, <2>1, <2>2
<1>12. cursor' \in Cursor /\ cursor' # None
  BY <1>10, <1>11 DEF Cursor, None, End
<1>13. ListingsTypeOK' /\ TableSound'
  <2>1. \A i \in 1 .. Len(s) : shown[s[i]] = 0
    BY <1>6, <1>8
  <2>. QED BY <1>1, <1>4, <1>12, <2>1, ReadsOnly
<1>14. \A r \in Rows : shown'[r] # 0 => shown[r] # 0 \/ ShownAt(s, 0, r)
  <2>. SUFFICES ASSUME NEW r \in Rows, shown[r] = 0, ~ ShownAt(s, 0, r) PROVE shown'[r] = 0
    OBVIOUS
  <2>. QED BY <1>9
<1>15. \A r \in Rows : shown[r] # 0 \/ ShownAt(s, 0, r) => shown'[r] # 0
  BY <1>2, <1>9
<1>16. CASE Limit < Len(s)
  <2>1. cursor' = [to |-> "time", time |-> at[s[Limit]]]
    BY <1>10, <1>16
  <2>2. ASSUME NEW r \in Rows, shown'[r] # 0
        PROVE  Passed(r)'
    <3>1. CASE shown[r] # 0
      <4>1. cursor # None
        BY <3>1 DEF ListingsSound, TableSound
      <4>2. Passed(r)
        BY <1>3, <3>1, <4>1 DEF ListingsSound, TimeSound
      <4>. QED BY <1>2, <1>3, <1>7, <1>11, <1>16, <2>1, <4>1, <4>2 DEF Passed
    <3>2. CASE ShownAt(s, 0, r)
      <4>1. PICK i \in 1 .. Len(s) : i <= Limit /\ s[i] = r
        BY <1>2, <3>2 DEF ShownAt
      <4>2. ~ Before(s[Limit], s[i])
        <5>1. Before(s[Limit], s[i]) => Limit < i
          BY <1>8, <1>11, <1>16
        <5>. QED BY <1>2, <4>1, <5>1
      <4>. QED BY <1>2, <1>11, <1>16, <2>1, <4>1, <4>2 DEF Before, Passed
    <3>. QED BY <1>14, <2>2, <3>1, <3>2
  <2>3. ASSUME NEW r \in table \ fresh, AloneAt(r), Passed(r)'
        PROVE  shown'[r] # 0
    <3>1. CASE r \notin where
      <4>1. shown[r] # 0
        BY <1>5, <2>3, <3>1 DEF ListingsSound, TimeSound
      <4>. QED BY <1>2, <1>15, <4>1
    <3>2. CASE r \in where
      <4>1. PICK i \in 1 .. Len(s) : s[i] = r
        BY <1>8, <3>2
      <4>2. CASE i <= Limit
        BY <1>2, <1>15, <4>1, <4>2 DEF ShownAt
      <4>3. CASE i > Limit
        <5>1. ~ Before(s[i], s[Limit]) /\ s[i] # s[Limit]
          <6>1. Before(s[i], s[Limit]) => i < Limit
            BY <1>8, <1>11, <1>16
          <6>2. i # Limit => s[i] # s[Limit]
            BY <1>8, <1>11, <1>16
          <6>. QED BY <1>2, <4>3, <6>1, <6>2
        <5>2. at[r] = at[s[Limit]]
          BY <1>2, <1>11, <1>16, <2>1, <2>3, <4>1, <5>1 DEF Before, Passed
        <5>. QED BY <1>4, <1>11, <1>16, <2>3, <4>1, <5>1, <5>2 DEF AloneAt
      <4>. QED BY <1>2, <4>2, <4>3
    <3>. QED BY <3>1, <3>2
  <2>4. TimeSound'
    <3>1. \A r \in table : AloneAt(r)' <=> AloneAt(r)
      BY DEF AloneAt
    <3>2. cursor' # End'
      BY <2>1 DEF End
    <3>. QED BY <2>1, <2>2, <2>3, <3>1, <3>2 DEF TimeSound, AllShown
  <2>. QED BY <1>13, <2>4 DEF ListingsSound, RowSound, PageSound
<1>17. CASE ~ (Limit < Len(s))
  <2>1. cursor' = End
    BY <1>10, <1>17
  <2>2. ASSUME NEW r \in table \ fresh, AloneAt(r)
        PROVE  shown'[r] # 0
    <3>1. CASE r \notin where
      <4>1. shown[r] # 0
        BY <1>5, <2>2, <3>1 DEF ListingsSound, TimeSound
      <4>. QED BY <1>2, <1>15, <4>1
    <3>2. CASE r \in where
      <4>1. PICK i \in 1 .. Len(s) : s[i] = r
        BY <1>8, <3>2
      <4>2. 0 < i /\ i <= 0 + Limit
        BY <1>2, <1>8, <1>17
      <4>. QED BY <1>2, <1>15, <4>1, <4>2 DEF ShownAt
    <3>. QED BY <3>1, <3>2
  <2>3. TimeSound'
    <3>1. \A r \in table : AloneAt(r)' <=> AloneAt(r)
      BY DEF AloneAt
    <3>2. \A r \in table \ fresh : AloneAt(r) => shown'[r] > 0
      BY <1>2, <1>13, <2>2 DEF ListingsTypeOK
    <3>. QED BY <2>1, <3>1, <3>2 DEF TimeSound, AllShown, End
  <2>. QED BY <1>13, <2>3 DEF ListingsSound, RowSound, PageSound
<1>. QED BY <1>16, <1>17

LEMMA ByRowKeeps ==
    ASSUME ListingsSound, cursor # End, kind = "flows", ByRow,
           UNCHANGED <<kind, table, at, clock, fresh>>
    PROVE  ListingsSound'
<1>1. PICK s \in Orders(table) :
         LET start == IF cursor = None THEN 0 ELSE CHOOSE i \in DOMAIN s : s[i] = cursor.row
             rows  == Taken(s, start, Limit + 1)
         IN /\ Show(Taken(rows, 0, Limit))
            /\ cursor' = IF Len(rows) > Limit THEN [to |-> "row", row |-> rows[Limit + 1]]
                                              ELSE End
  BY DEF ByRow
<1>. DEFINE start == IF cursor = None THEN 0 ELSE CHOOSE i \in DOMAIN s : s[i] = cursor.row
<1>2. /\ IsFiniteSet(table) /\ table \subseteq Rows
      /\ shown \in [Rows -> Nat]
      /\ \A r \in Rows : at[r] \in Nat /\ r \in Nat
      /\ cursor \in Cursor
      /\ Limit \in Nat \ {0}
  BY ListingsAssumption DEF ListingsSound, ListingsTypeOK, TableSound
<1>3. cursor # None => cursor.to = "row" /\ cursor.row \in table
  BY <1>2 DEF ListingsSound, RowSound, Cursor, None, End
<1>4. /\ s \in Seq(table)
      /\ Len(s) \in Nat /\ DOMAIN s = 1 .. Len(s)
      /\ \A i \in 1 .. Len(s) : s[i] \in table
      /\ \A i, j \in 1 .. Len(s) : i # j => s[i] # s[j]
      /\ \A i, j \in 1 .. Len(s) : Before(s[i], s[j]) => i < j
      /\ \A r \in table : \E i \in 1 .. Len(s) : s[i] = r
  BY <1>2, OrderHasAll
<1>5. /\ start \in Nat /\ start <= Len(s)
      /\ cursor # None => start \in 1 .. Len(s) /\ s[start] = cursor.row
  BY <1>3, <1>4
<1>6. /\ Show(Taken(Taken(s, start, Limit + 1), 0, Limit))
      /\ cursor' = IF Len(Taken(s, start, Limit + 1)) > Limit
                   THEN [to |-> "row", row |-> Taken(s, start, Limit + 1)[Limit + 1]]
                   ELSE End
  BY <1>1
<1>. HIDE DEF start
<1>7. \A r \in Rows : shown[r] # 0 => \E j \in 1 .. Len(s) : s[j] = r /\ j < start
  <2>. SUFFICES ASSUME NEW r \in Rows, shown[r] # 0
                PROVE  \E j \in 1 .. Len(s) : s[j] = r /\ j < start
    OBVIOUS
  <2>1. cursor # None /\ r \in table
    BY DEF ListingsSound, TableSound
  <2>2. Before(r, cursor.row)
    BY <1>3, <2>1 DEF ListingsSound, RowSound
  <2>3. PICK j \in 1 .. Len(s) : s[j] = r
    BY <1>4, <2>1
  <2>4. Before(s[j], s[start]) => j < start
    BY <1>4, <1>5, <2>1
  <2>. QED BY <1>5, <2>1, <2>2, <2>3, <2>4
<1>8. \A i \in 1 .. Len(s) : start < i => shown[s[i]] = 0
  <2>. SUFFICES ASSUME NEW i \in 1 .. Len(s), start < i, shown[s[i]] # 0 PROVE FALSE
    OBVIOUS
  <2>1. PICK j \in 1 .. Len(s) : s[j] = s[i] /\ j < start
    BY <1>2, <1>4, <1>7
  <2>2. j = i
    BY <1>4, <2>1
  <2>. QED BY <1>5, <2>1, <2>2
<1>9. /\ \A r \in Rows : shown'[r] = shown[r] + (IF ShownAt(s, start, r) THEN 1 ELSE 0)
      /\ Len(Taken(s, start, Limit + 1)) > Limit <=> start + Limit < Len(s)
      /\ start + Limit < Len(s) => Taken(s, start, Limit + 1)[Limit + 1] = s[start + Limit + 1]
  BY <1>2, <1>4, <1>5, <1>6, PageIs
<1>10. cursor' = IF start + Limit < Len(s) THEN [to |-> "row", row |-> s[start + Limit + 1]]
                                           ELSE End
  BY <1>6, <1>9
<1>11. start + Limit < Len(s) =>
          start + Limit + 1 \in 1 .. Len(s) /\ s[start + Limit + 1] \in table
  <2>. SUFFICES ASSUME start + Limit < Len(s)
                PROVE  start + Limit + 1 \in 1 .. Len(s) /\ s[start + Limit + 1] \in table
    OBVIOUS
  <2>1. start + Limit + 1 \in 1 .. Len(s)
    BY <1>2, <1>4, <1>5
  <2>. QED BY <1>4, <2>1
<1>12. cursor' \in Cursor /\ cursor' # None
  BY <1>2, <1>10, <1>11 DEF Cursor, None, End
<1>13. ListingsTypeOK' /\ TableSound'
  <2>1. table \in SUBSET table
    OBVIOUS
  <2>. QED BY <1>1, <1>5, <1>6, <1>8, <1>12, <2>1, ReadsOnly
<1>14. ASSUME start + Limit < Len(s), NEW r \in Rows, shown'[r] # 0
       PROVE  Before(r, s[start + Limit + 1])
  <2>. DEFINE next == start + Limit + 1
  <2>1. PICK j \in 1 .. Len(s) : s[j] = r /\ j < next
    <3>1. CASE shown[r] # 0
      BY <1>2, <1>5, <1>7, <3>1
    <3>2. CASE ShownAt(s, start, r)
      BY <1>2, <1>5, <3>2 DEF ShownAt
    <3>3. shown[r] # 0 \/ ShownAt(s, start, r)
      <4>. SUFFICES ASSUME shown[r] = 0, ~ ShownAt(s, start, r) PROVE shown'[r] = 0
        BY <1>14
      <4>. QED BY <1>9
    <3>. QED BY <3>1, <3>2, <3>3
  <2>2. next \in 1 .. Len(s)
    BY <1>11, <1>14
  <2>. HIDE DEF next
  <2>3. s[j] # s[next] /\ s[j] \in Rows /\ s[next] \in Rows
    BY <1>2, <1>4, <2>1, <2>2
  <2>4. ~ Before(s[next], s[j])
    BY <1>4, <2>1, <2>2
  <2>5. Before(s[j], s[next])
    BY <1>2, <2>3, <2>4 DEF Before
  <2>. QED BY <2>1, <2>5 DEF next
<1>15. RowSound'
  <2>1. CASE start + Limit < Len(s)
    <3>1. PICK next \in table :
            /\ cursor' = [to |-> "row", row |-> next]
            /\ \A r \in Rows : shown'[r] # 0 => Before(r, next)
      BY <1>10, <1>11, <1>14, <2>1
    <3>2. \A r \in Rows : Before(r, next)' <=> Before(r, next)
      BY DEF Before
    <3>3. cursor'.to = "row" /\ cursor'.row = next
      BY <3>1
    <3>4. \A r \in Rows : Before(r, cursor.row)' <=> Before(r, next)'
      BY <3>3 DEF Before
    <3>. QED BY <3>1, <3>2, <3>3, <3>4 DEF RowSound
  <2>2. CASE ~ (start + Limit < Len(s))
    BY <1>10, <2>2 DEF RowSound, End
  <2>. QED BY <2>1, <2>2
<1>. QED BY <1>13, <1>15 DEF ListingsSound, TimeSound, PageSound

LEMMA ByOffsetKeeps ==
    ASSUME ListingsSound, cursor # End, kind = "sessions", ByOffset,
           UNCHANGED <<kind, table, at, clock, fresh>>
    PROVE  ListingsSound'
<1>1. PICK s \in Orders(table) :
         /\ Show(Taken(s, Offset, Limit))
         /\ cursor' = IF Offset + Limit < Cardinality(table)
                      THEN [to |-> "page", page |-> IF cursor = None THEN 1 ELSE cursor.page + 1]
                      ELSE End
  BY DEF ByOffset
<1>2. /\ IsFiniteSet(table) /\ table \subseteq Rows
      /\ shown \in [Rows -> Nat]
      /\ \A r \in Rows : shown[r] # 0 => r \in table
      /\ cursor \in Cursor
      /\ Limit \in Nat \ {0}
      /\ ListingsTypeOK
  BY ListingsAssumption DEF ListingsSound, ListingsTypeOK, TableSound
<1>3. cursor # None => cursor.to = "page" /\ cursor.page \in Nat
  BY <1>2 DEF ListingsSound, PageSound, Cursor, None, End
<1>4. Offset \in Nat
  BY <1>2, <1>3 DEF Offset
<1>5. /\ s \in Seq(table)
      /\ Len(s) = Cardinality(table) /\ Len(s) \in Nat
      /\ \A i \in 1 .. Len(s) : s[i] \in table
      /\ \A i, j \in 1 .. Len(s) : i # j => s[i] # s[j]
      /\ \A r \in table : \E i \in 1 .. Len(s) : s[i] = r
  BY <1>2, OrderHasAll
<1>6. /\ \A r \in Rows : shown'[r] = shown[r] + (IF ShownAt(s, Offset, r) THEN 1 ELSE 0)
      /\ shown' \in [Rows -> Nat]
  <2>. DEFINE page == Taken(s, Offset, Limit)
  <2>1. /\ Len(page) = IF Offset + Limit < Len(s) THEN Limit
                       ELSE IF Offset < Len(s) THEN Len(s) - Offset ELSE 0
        /\ \A i \in 1 .. Len(page) : page[i] = s[Offset + i]
    <3>1. s \in Seq(table) /\ Offset \in Nat /\ Limit \in Nat
      BY <1>2, <1>4, <1>5
    <3>. QED BY ONLY <3>1, TakenIs
  <2>2. shown' = [r \in Rows |-> shown[r] + IF Contains(page, r) THEN 1 ELSE 0]
    BY <1>1 DEF Show
  <2>. HIDE DEF page
  <2>3. ASSUME NEW r \in Rows
        PROVE  Contains(page, r) <=> ShownAt(s, Offset, r)
    <3>1. ASSUME NEW i \in 1 .. Len(page), page[i] = r
          PROVE  ShownAt(s, Offset, r)
      <4>1. Offset + i \in 1 .. Len(s) /\ i <= Limit /\ 0 < i
        BY <1>2, <1>4, <1>5, <2>1
      <4>. QED BY <1>2, <1>4, <2>1, <3>1, <4>1 DEF ShownAt
    <3>2. ASSUME NEW i \in 1 .. Len(s), Offset < i, i <= Offset + Limit, s[i] = r
          PROVE  Contains(page, r)
      <4>1. i - Offset \in 1 .. Len(page) /\ Offset + (i - Offset) = i
        BY <1>2, <1>4, <1>5, <2>1, <3>2
      <4>. QED BY <2>1, <3>2, <4>1 DEF Contains
    <3>. QED BY <3>1, <3>2 DEF Contains, ShownAt
  <2>. QED BY <1>2, <2>2, <2>3
<1>7. cursor' \in Cursor /\ cursor' # None
  BY <1>1, <1>3 DEF Cursor, None, End
<1>8. ListingsTypeOK' /\ TableSound'
  <2>1. cursor' \in Cursor'
    BY <1>7 DEF Cursor
  <2>2. ListingsTypeOK'
    BY <1>6, <2>1 DEF ListingsSound, ListingsTypeOK
  <2>3. \A r \in Rows : shown'[r] # 0 => r \in table
    <3>. SUFFICES ASSUME NEW r \in Rows, r \notin table PROVE shown'[r] = 0
      OBVIOUS
    <3>1. shown[r] = 0 /\ ~ ShownAt(s, Offset, r)
      BY <1>2, <1>5 DEF ShownAt
    <3>. QED BY <1>6, <3>1
  <2>4. None' = None
    BY DEF None
  <2>. QED BY <1>7, <2>2, <2>3, <2>4 DEF ListingsSound, TableSound
<1>9. ASSUME fresh = {}, \A r \in table : AloneAt(r), NEW i \in 1 .. Len(s)
      PROVE  /\ Rank(s[i]) = i - 1
             /\ shown'[s[i]] = IF Rank(s[i]) < Offset + Limit THEN 1 ELSE 0
  <2>1. Rank(s[i]) = i - 1
    BY <1>2, <1>9, PlaceIsRank
  <2>2. shown[s[i]] = IF i - 1 < Offset THEN 1 ELSE 0
    <3>1. CASE cursor = None
      <4>1. Offset = 0 /\ ~ (i - 1 < Offset)
        BY <1>5, <3>1 DEF Offset
      <4>. QED BY <1>2, <1>5, <3>1, <4>1 DEF ListingsSound, TableSound
    <3>2. CASE cursor # None
      BY <1>3, <1>5, <1>9, <2>1, <3>2 DEF ListingsSound, PageSound
    <3>. QED BY <3>1, <3>2
  <2>3. ShownAt(s, Offset, s[i]) <=> Offset < i /\ i <= Offset + Limit
    BY <1>5 DEF ShownAt
  <2>4. shown'[s[i]] = shown[s[i]] + (IF ShownAt(s, Offset, s[i]) THEN 1 ELSE 0)
    BY <1>2, <1>5, <1>6
  <2>5. i \in Nat
    BY <1>5
  <2>. QED BY <1>2, <1>4, <2>1, <2>2, <2>3, <2>4, <2>5
<1>10. /\ \A r : AloneAt(r)' <=> AloneAt(r)
       /\ \A r : Rank(r)' = Rank(r)
  BY DEF AloneAt, Rank, Before
<1>11. CASE Offset + Limit < Cardinality(table)
  <2>1. cursor' = [to |-> "page", page |-> IF cursor = None THEN 1 ELSE cursor.page + 1]
    BY <1>1, <1>11
  <2>2. Offset' = Offset + Limit
    <3>1. CASE cursor = None
      BY <1>2, <1>7, <2>1, <3>1 DEF Offset, None
    <3>2. CASE cursor # None
      <4>1. (cursor.page + 1) * Limit = cursor.page * Limit + Limit
        BY <1>2, <1>3, <3>2
      <4>. QED BY <1>7, <2>1, <3>2, <4>1 DEF Offset, None
    <3>. QED BY <3>1, <3>2
  <2>3. ASSUME fresh = {}, \A r \in table : AloneAt(r), NEW r \in table
        PROVE  shown'[r] = IF Rank(r) < Offset + Limit THEN 1 ELSE 0
    BY <1>5, <1>9, <2>3
  <2>4. cursor'.to = "page" /\ cursor' # End'
    BY <2>1 DEF End
  <2>. QED BY <1>8, <1>10, <2>2, <2>3, <2>4 DEF ListingsSound, TimeSound, RowSound, PageSound
<1>12. CASE ~ (Offset + Limit < Cardinality(table))
  <2>1. cursor' = End
    BY <1>1, <1>12
  <2>2. ASSUME fresh = {}, \A r \in table : AloneAt(r), NEW r \in table
        PROVE  shown'[r] = 1
    <3>1. PICK i \in 1 .. Len(s) : s[i] = r
      BY <1>5
    <3>2. Rank(r) < Offset + Limit
      BY <1>2, <1>4, <1>5, <1>9, <1>12, <2>2, <3>1
    <3>. QED BY <1>9, <2>2, <3>1, <3>2
  <2>. QED BY <1>8, <1>10, <2>1, <2>2 DEF ListingsSound, TimeSound, RowSound, PageSound, End
<1>. QED BY <1>11, <1>12

LEMMA ListingsStepSound == ListingsSound /\ [ListingsNext]_listingVars => ListingsSound'
<1>. SUFFICES ASSUME ListingsSound, [ListingsNext]_listingVars PROVE ListingsSound'
  OBVIOUS
<1>1. CASE InsertRow
  <2>1. clock \in 1 .. LastTime
    BY DEF ListingsSound, ListingsTypeOK
  <2>. QED BY <1>1, <2>1, InsertKeeps DEF InsertRow
<1>2. CASE ClockTicks
  <2>1. clock' \in 1 .. LastTime
    BY <1>2, ListingsAssumption DEF ClockTicks, ListingsSound, ListingsTypeOK
  <2>. QED BY <1>2, <2>1, TicksKeep DEF ClockTicks
<1>3. CASE ReadPage
  <2>1. kind \in {"runs", "events", "sessions", "flows"}
    BY DEF ListingsSound, ListingsTypeOK, ListKinds
  <2>. QED BY <1>3, <2>1, ByTimeKeeps, ByRowKeeps, ByOffsetKeeps DEF ReadPage
<1>4. CASE UNCHANGED listingVars
  <2>1. clock' \in 1 .. LastTime
    BY <1>4 DEF listingVars, ListingsSound, ListingsTypeOK
  <2>. QED BY <1>4, <2>1, TicksKeep DEF listingVars
<1>. QED BY <1>1, <1>2, <1>3, <1>4 DEF ListingsNext

\* Whatever comes in while a client reads, the table, the cursor and what was shown
\* keep their types.
THEOREM ListingsTypeCorrect == ListingsSpec => []ListingsTypeOK
<1>1. ListingsSound => ListingsTypeOK
  BY DEF ListingsSound
<1>. QED BY <1>1, ListingsInitSound, ListingsStepSound, PTL DEF ListingsSpec

\* A client that follows the cursors of runs, events, flows or sessions is shown
\* what PagesExact promises, for any rows, times and page size.
THEOREM PagesAreExact == ListingsSpec => []PagesExact
<1>. QED BY SoundExactly, ListingsInitSound, ListingsStepSound, PTL DEF ListingsSpec

-----------------------------------------------------------------------------
(* The routers, layer by layer                                             *)

Known == {"next"} \cup UNION {DOMAIN c : c \in Controllers}

IsList(s) == \E S : s \in Seq(S)

\* A layer as the routers make it: handled by a controller that is known, or passing on.
IsLayer(l) ==
    /\ DOMAIN l = {"method", "path", "guards", "handler", "sees", "merges"}
    /\ l.handler \in Known
    /\ IsList(l.guards)

Scoped(l) ==
    (\E g \in DOMAIN l.guards : l.guards[g] \in DOMAIN MinRole) => ":projectId" \in l.sees

\* A router under a project (nested), and one whose role guards see the project (scoped).
IsRouter(s, nested, scoped) ==
    /\ IsList(s)
    /\ \A i \in DOMAIN s : /\ IsLayer(s[i])
                           /\ nested => s[i].merges
                           /\ scoped => Scoped(s[i])

LEMMA RouterConcat ==
    ASSUME NEW s, NEW t, NEW nested \in BOOLEAN, NEW scoped \in BOOLEAN,
           IsRouter(s, nested, scoped), IsRouter(t, nested, scoped)
    PROVE  IsRouter(s \o t, nested, scoped)
<1>1. PICK S : s \in Seq(S) BY DEF IsRouter, IsList
<1>2. PICK T : t \in Seq(T) BY DEF IsRouter, IsList
<1>. DEFINE U == S \cup T
<1>3. s \in Seq(U) /\ t \in Seq(U) BY <1>1, <1>2, SeqMonotonic
<1>. HIDE DEF U
<1>4. /\ s \o t \in Seq(U)
      /\ Len(s \o t) = Len(s) + Len(t)
      /\ \A i \in 1 .. Len(s) + Len(t) :
            (s \o t)[i] = IF i <= Len(s) THEN s[i] ELSE t[i - Len(s)]
  BY <1>3, ConcatProperties
<1>5. Len(s) \in Nat /\ DOMAIN s = 1 .. Len(s) /\ Len(t) \in Nat /\ DOMAIN t = 1 .. Len(t)
      /\ DOMAIN (s \o t) = 1 .. Len(s) + Len(t)
  BY <1>3, <1>4, LenProperties
<1>. DEFINE OK(l) == IsLayer(l) /\ (nested => l.merges) /\ (scoped => Scoped(l))
<1>6. (\A i \in DOMAIN s : OK(s[i])) /\ (\A i \in DOMAIN t : OK(t[i])) BY DEF IsRouter
<1>. HIDE DEF OK
<1>7. \A i \in DOMAIN (s \o t) : OK((s \o t)[i])
  <2>. SUFFICES ASSUME NEW i \in DOMAIN (s \o t) PROVE OK((s \o t)[i]) OBVIOUS
  <2>1. CASE i <= Len(s) BY <1>4, <1>5, <1>6, <2>1
  <2>2. CASE ~ (i <= Len(s))
    <3>1. i - Len(s) \in DOMAIN t BY <1>5, <2>2
    <3>. QED BY <1>4, <1>5, <1>6, <2>2, <3>1
  <2>. QED BY <2>1, <2>2
<1>. QED BY <1>4, <1>7 DEF IsRouter, IsList, OK

LEMMA RouterOne ==
    ASSUME NEW method, NEW path, NEW guards, NEW handler \in Known,
           NEW scoped \in BOOLEAN,
           IsList(guards), scoped => Scoped(Layer(method, path, guards, handler))
    PROVE  IsRouter(<<Layer(method, path, guards, handler)>>, TRUE, scoped)
<1>. DEFINE l == Layer(method, path, guards, handler)
<1>1. IsLayer(l) /\ l.merges = TRUE BY DEF IsLayer, Layer
<1>. HIDE DEF l
<1>2. <<l>> \in Seq({l}) /\ DOMAIN <<l>> = {1} /\ <<l>>[1] = l OBVIOUS
<1>3. scoped => Scoped(l) BY DEF l
<1>. QED BY <1>1, <1>2, <1>3 DEF IsRouter, IsList, l

\* Mounting keeps all that, and whoever is mounted below a project sees it.
LEMMA RouterMount ==
    ASSUME NEW prefix, NEW s, NEW nested \in BOOLEAN, NEW scoped \in BOOLEAN,
           NEW merge \in BOOLEAN, NEW under \in BOOLEAN,
           IsRouter(s, nested, scoped),
           under => scoped \/ (nested /\ merge /\ ":projectId" \in ParamsIn(prefix))
    PROVE  IsRouter(Mount(prefix, merge, s), nested /\ merge, under)
<1>1. PICK S : s \in Seq(S) BY DEF IsRouter, IsList
<1>2. Len(s) \in Nat /\ DOMAIN s = 1 .. Len(s) BY <1>1, LenProperties
<1>. DEFINE m == Mount(prefix, merge, s)
            E(i) == [s[i] EXCEPT !.path = prefix \o @,
                          !.sees = IF s[i].merges /\ merge THEN @ \cup ParamsIn(prefix) ELSE @,
                          !.merges = @ /\ merge]
            R == {E(i) : i \in 1 .. Len(s)}
<1>3. m = [i \in 1 .. Len(s) |-> E(i)] BY <1>2 DEF Mount
<1>4. m \in [1 .. Len(s) -> R] BY <1>3
<1>5. m \in Seq(R)
  <2>. HIDE DEF m, R
  <2>. QED BY <1>2, <1>4
<1>6. DOMAIN m = DOMAIN s BY <1>2, <1>3
<1>7. ASSUME NEW i \in DOMAIN s
      PROVE  IsLayer(m[i]) /\ (nested /\ merge => m[i].merges) /\ (under => Scoped(m[i]))
  <2>1. m[i] = E(i) BY <1>2, <1>3, <1>7
  <2>2. IsLayer(s[i]) /\ (nested => s[i].merges) /\ (scoped => Scoped(s[i]))
    BY <1>7 DEF IsRouter
  <2>. DEFINE l == s[i]
              x == IF l.merges /\ merge THEN l.sees \cup ParamsIn(prefix) ELSE l.sees
  <2>3. E(i) = [l EXCEPT !.path = prefix \o l.path, !.sees = x, !.merges = l.merges /\ merge]
    BY DEF x
  <2>. HIDE DEF l, E, m
  <2>4. DOMAIN l = {"method", "path", "guards", "handler", "sees", "merges"} BY <2>2 DEF IsLayer, l
  <2>5. /\ DOMAIN E(i) = DOMAIN l
        /\ E(i).guards = l.guards /\ E(i).handler = l.handler
        /\ E(i).sees = x /\ E(i).merges = (l.merges /\ merge)
    <3>. HIDE DEF x
    <3>. QED BY <2>3, <2>4
  <2>6. IsLayer(E(i)) BY <2>2, <2>5 DEF IsLayer, l
  <2>7. under => Scoped(E(i))
    <3>1. l.sees \subseteq x OBVIOUS
    <3>2. nested /\ merge => ParamsIn(prefix) \subseteq x BY <2>2 DEF l
    <3>. HIDE DEF x
    <3>. QED BY <2>2, <2>5, <3>1, <3>2 DEF Scoped, l
  <2>. QED BY <2>1, <2>2, <2>5, <2>6, <2>7 DEF l
<1>. HIDE DEF m, R
<1>. QED BY <1>5, <1>6, <1>7 DEF IsRouter, IsList, m

LEMMA DoingDomain ==
    /\ \A hs, steps : DOMAIN Doing(hs, steps) = hs
    /\ \A hs : DOMAIN Plain(hs) = hs /\ DOMAIN Recorded(hs) = hs
BY DEF Doing, Plain, Recorded

LEMMA KnownOf == ASSUME NEW c \in Controllers PROVE DOMAIN c \subseteq Known
BY DEF Known

LEMMA NextKnown == "next" \in Known
BY DEF Known

\* The handlers there are.
LEMMA HandlersKnown ==
    /\ {"signup", "login", "refresh", "logout", "forgotPassword", "resetPassword",
        "oauthRedirect"} \subseteq Known
    /\ {"oauthLoginCallback"} \subseteq Known
    /\ {"deleteProject", "getProject"} \subseteq Known
    /\ {"updateProject", "addProjectMembers", "removeProjectMembers"} \subseteq Known
    /\ {"createProject", "updateProjectMember", "leaveProject"} \subseteq Known
    /\ {"getProjects"} \subseteq Known
    /\ {"getProjectDashboard"} \subseteq Known
    /\ {"getTargetApplications", "getTargetApplication"} \subseteq Known
    /\ {"createTargetApplication", "updateTargetApplication", "deleteTargetApplication",
        "createVersion", "deleteVersion", "rotateApiKey"} \subseteq Known
    /\ {"getSessions", "getSessionDetails"} \subseteq Known
    /\ {"deleteSession", "startSession", "abortSession", "pauseSession"} \subseteq Known
    /\ {"createSession"} \subseteq Known
    /\ {"getSchedules", "getSchedule"} \subseteq Known
    /\ {"deleteSchedule"} \subseteq Known
    /\ {"createSchedule"} \subseteq Known
    /\ {"updateSchedule"} \subseteq Known
    /\ {"connectManualSession", "reattachManualSession"} \subseteq Known
    /\ {"getRegressionCodebases", "getRegressionCodebase"} \subseteq Known
    /\ {"createRegressionCodebase", "updateRegressionCodebase",
        "deleteRegressionCodebase"} \subseteq Known
    /\ {"listRuns", "getRun", "listScenarios", "getScenario", "listScenarioEvents",
        "listArtifacts", "listScenarioArtifacts", "getArtifact", "downloadArtifact"} \subseteq
        Known
    /\ {"ingestEvents", "completeRun", "uploadArtifact"} \subseteq Known
    /\ {"createScenarioReport"} \subseteq Known
    /\ {"claimScenarioReport", "createManualBugReport", "patchScenarioReport"} \subseteq
        Known
    /\ {"getScenarioReportContext", "downloadScenarioReportArtifact"} \subseteq Known
    /\ {"notifyCodegenSession"} \subseteq Known
    /\ {"listTestFlows", "getFlowEditor", "connectFlowEditor"} \subseteq Known
    /\ {"saveFlowEditorSteps"} \subseteq Known
    /\ {"generateTestFlow"} \subseteq Known
    /\ {"getUserGuideStates"} \subseteq Known
    /\ {"generateUserGuides"} \subseteq Known
    /\ {"getReportingOptions", "getIntegrationStatus"} \subseteq Known
    /\ {"disconnectIntegration"} \subseteq Known
    /\ {"startOAuth"} \subseteq Known
    /\ {"updateReportingConfig"} \subseteq Known
    /\ {"oauthCallback"} \subseteq Known
<1>1. /\ {"signup", "login", "refresh", "logout", "forgotPassword", "resetPassword",
          "oauthRedirect"} \subseteq Known
      /\ {"oauthLoginCallback"} \subseteq Known
  BY KnownOf, DoingDomain DEF Controllers, AuthController
<1>2. /\ {"deleteProject", "getProject"} \subseteq Known
      /\ {"updateProject", "addProjectMembers", "removeProjectMembers"} \subseteq Known
      /\ {"createProject", "updateProjectMember", "leaveProject"} \subseteq Known
      /\ {"getProjects"} \subseteq Known
  BY KnownOf, DoingDomain DEF Controllers, ProjectController
<1>3. {"getProjectDashboard"} \subseteq Known
  BY KnownOf, DoingDomain DEF Controllers, DashboardController
<1>4. /\ {"getTargetApplications", "getTargetApplication"} \subseteq Known
      /\ {"createTargetApplication", "updateTargetApplication", "deleteTargetApplication",
          "createVersion", "deleteVersion", "rotateApiKey"} \subseteq Known
  BY KnownOf, DoingDomain DEF Controllers, ApplicationController
<1>5. /\ {"getSessions", "getSessionDetails"} \subseteq Known
      /\ {"deleteSession", "startSession", "abortSession", "pauseSession"} \subseteq Known
      /\ {"createSession"} \subseteq Known
  BY KnownOf, DoingDomain DEF Controllers, SessionController
<1>6. /\ {"getSchedules", "getSchedule"} \subseteq Known
      /\ {"deleteSchedule"} \subseteq Known
      /\ {"createSchedule"} \subseteq Known
      /\ {"updateSchedule"} \subseteq Known
  BY KnownOf, DoingDomain DEF Controllers, ScheduleController
<1>7. {"connectManualSession", "reattachManualSession"} \subseteq Known
  BY KnownOf, DoingDomain DEF Controllers, ManualSessionController
<1>8. /\ {"getRegressionCodebases", "getRegressionCodebase"} \subseteq Known
      /\ {"createRegressionCodebase", "updateRegressionCodebase",
          "deleteRegressionCodebase"} \subseteq Known
  BY KnownOf, DoingDomain DEF Controllers, CodebaseController
<1>9. /\ {"listRuns", "getRun", "listScenarios", "getScenario", "listScenarioEvents",
          "listArtifacts", "listScenarioArtifacts", "getArtifact", "downloadArtifact"} \subseteq
          Known
      /\ {"ingestEvents", "completeRun", "uploadArtifact"} \subseteq Known
  BY KnownOf, DoingDomain DEF Controllers, RunController
<1>10. /\ {"createScenarioReport"} \subseteq Known
       /\ {"claimScenarioReport", "createManualBugReport", "patchScenarioReport"} \subseteq
           Known
       /\ {"getScenarioReportContext", "downloadScenarioReportArtifact"} \subseteq Known
  BY KnownOf, DoingDomain DEF Controllers, ReportController
<1>11. {"notifyCodegenSession"} \subseteq Known
  BY KnownOf, DoingDomain DEF Controllers, NotificationController
<1>12. /\ {"listTestFlows", "getFlowEditor", "connectFlowEditor"} \subseteq Known
       /\ {"saveFlowEditorSteps"} \subseteq Known
       /\ {"generateTestFlow"} \subseteq Known
  BY KnownOf, DoingDomain DEF Controllers, FlowController
<1>13. {"getUserGuideStates"} \subseteq Known /\ {"generateUserGuides"} \subseteq Known
  BY KnownOf, DoingDomain DEF Controllers, GuideController
<1>14. /\ {"getReportingOptions", "getIntegrationStatus"} \subseteq Known
       /\ {"disconnectIntegration"} \subseteq Known
       /\ {"startOAuth"} \subseteq Known
       /\ {"updateReportingConfig"} \subseteq Known
       /\ {"oauthCallback"} \subseteq Known
  BY KnownOf, DoingDomain DEF Controllers, IntegrationController
<1>. QED BY <1>1, <1>2, <1>3, <1>4, <1>5, <1>6, <1>7, <1>8, <1>9, <1>10, <1>11, <1>12,
         <1>13, <1>14

\* A router to be mounted below a project, and one whose guards see the project.
Nested(s) == IsRouter(s, TRUE, FALSE)
Sighted(s) == IsRouter(s, TRUE, TRUE)

LEMMA Lists == IsList(<<>>) /\ (\A x : IsList(<<x>>)) /\ (\A x, y : IsList(<<x, y>>))
<1>1. <<>> \in Seq({}) OBVIOUS
<1>2. \A x : <<x>> \in Seq({x}) OBVIOUS
<1>3. \A x, y : <<x, y>> \in Seq({x, y}) OBVIOUS
<1>. QED BY <1>1, <1>2, <1>3 DEF IsList

LEMMA NestedMade ==
    /\ \A path, guards, handler : handler \in Known /\ IsList(guards) =>
          /\ Nested(Get(path, guards, handler)) /\ Nested(Post(path, guards, handler))
          /\ Nested(Put(path, guards, handler)) /\ Nested(Delete(path, guards, handler))
    /\ \A path, guards : IsList(guards) => Nested(Use(path, guards))
    /\ \A s, t : Nested(s) /\ Nested(t) => Nested(s \o t)
    /\ \A prefix, s : Nested(s) => Nested(Mount(prefix, TRUE, s))
<1>1. \A s, t : Nested(s) /\ Nested(t) => Nested(s \o t) BY RouterConcat DEF Nested
<1>2. ASSUME NEW prefix, NEW s, Nested(s) PROVE Nested(Mount(prefix, TRUE, s))
  <2>1. IsRouter(Mount(prefix, TRUE, s), TRUE /\ TRUE, FALSE) BY <1>2, RouterMount DEF Nested
  <2>. QED BY <2>1 DEF Nested
<1>. QED BY <1>1, <1>2, RouterOne, NextKnown DEF Nested, Get, Post, Put, Delete, Use

Free(guards) == \A g \in DOMAIN guards : guards[g] \notin DOMAIN MinRole

LEMMA SightedMade ==
    /\ \A path, guards, handler :
          handler \in Known /\ IsList(guards)
          /\ (Free(guards) \/ ":projectId" \in ParamsIn(path)) =>
             /\ Sighted(Get(path, guards, handler)) /\ Sighted(Post(path, guards, handler))
             /\ Sighted(Put(path, guards, handler)) /\ Sighted(Delete(path, guards, handler))
             /\ Sighted(Patch(path, guards, handler))
    /\ \A path, guards : IsList(guards) /\ Free(guards) => Sighted(Use(path, guards))
    /\ \A s, t : Sighted(s) /\ Sighted(t) => Sighted(s \o t)
    /\ \A prefix, s : Nested(s) /\ ":projectId" \in ParamsIn(prefix) =>
          Sighted(Mount(prefix, TRUE, s))
    /\ Free(<<>>)
    /\ \A guard : guard \notin DOMAIN MinRole => Free(<<guard>>)
<1>1. \A s, t : Sighted(s) /\ Sighted(t) => Sighted(s \o t) BY RouterConcat DEF Sighted
<1>2. ASSUME NEW prefix, NEW s, Nested(s), ":projectId" \in ParamsIn(prefix)
      PROVE  Sighted(Mount(prefix, TRUE, s))
  <2>1. IsRouter(Mount(prefix, TRUE, s), TRUE /\ TRUE, TRUE) BY <1>2, RouterMount DEF Nested
  <2>. QED BY <2>1 DEF Sighted
<1>3. \A method, path, guards, handler :
         Free(guards) \/ ":projectId" \in ParamsIn(path) =>
            Scoped(Layer(method, path, guards, handler))
  BY DEF Scoped, Layer, Free
<1>4. \A path, guards, handler :
         handler \in Known /\ IsList(guards) /\ (Free(guards) \/ ":projectId" \in ParamsIn(path)) =>
             /\ Sighted(Get(path, guards, handler)) /\ Sighted(Post(path, guards, handler))
             /\ Sighted(Put(path, guards, handler)) /\ Sighted(Delete(path, guards, handler))
             /\ Sighted(Patch(path, guards, handler))
  BY <1>3, RouterOne DEF Sighted, Get, Post, Put, Delete, Patch
<1>5. \A path, guards : IsList(guards) /\ Free(guards) => Sighted(Use(path, guards))
  BY <1>3, RouterOne, NextKnown DEF Sighted, Use
<1>6. Free(<<>>) /\ \A guard : guard \notin DOMAIN MinRole => Free(<<guard>>) BY DEF Free
<1>. QED BY <1>1, <1>2, <1>4, <1>5, <1>6

LEMMA CrawlSessionRoutesNested == Nested(CrawlSessionRoutes)
<1>. HIDE DEF Body, Viewer, Member, Admin, Auth, Scenario, Version
<1>. QED BY NestedMade, Lists, HandlersKnown DEF CrawlSessionRoutes

LEMMA CrawlScheduleRoutesNested == Nested(CrawlScheduleRoutes)
<1>. HIDE DEF Body, Viewer, Member, Admin, Auth, Scenario, Version
<1>. QED BY NestedMade, Lists, HandlersKnown DEF CrawlScheduleRoutes

LEMMA ManualSessionRoutesNested == Nested(ManualSessionRoutes)
<1>. HIDE DEF Body, Viewer, Member, Admin, Auth, Scenario, Version
<1>. QED BY NestedMade, Lists, HandlersKnown DEF ManualSessionRoutes

LEMMA RegressionCodebaseRoutesNested == Nested(RegressionCodebaseRoutes)
<1>. HIDE DEF Body, Viewer, Member, Admin, Auth, Scenario, Version
<1>. QED BY NestedMade, Lists, HandlersKnown DEF RegressionCodebaseRoutes

LEMMA RegressionRunRoutesNested == Nested(RegressionRunRoutes)
<1>. HIDE DEF Body, Viewer, Member, Admin, Auth, Scenario, Version
<1>. QED BY NestedMade, Lists, HandlersKnown DEF RegressionRunRoutes

LEMMA TestFlowRoutesNested == Nested(TestFlowRoutes)
<1>. HIDE DEF Body, Viewer, Member, Admin, Auth, Scenario, Version
<1>. QED BY NestedMade, Lists, HandlersKnown DEF TestFlowRoutes

LEMMA UserGuideRoutesNested == Nested(UserGuideRoutes)
<1>. HIDE DEF Body, Viewer, Member, Admin, Auth, Scenario, Version
<1>. QED BY NestedMade, Lists, HandlersKnown DEF UserGuideRoutes

LEMMA IntegrationRoutesNested == Nested(IntegrationRoutes)
<1>. HIDE DEF Body, Viewer, Member, Admin, Auth, Scenario, Version
<1>. QED BY NestedMade, Lists, HandlersKnown DEF IntegrationRoutes

LEMMA TargetApplicationRoutesNested == Nested(TargetApplicationRoutes)
<1>. DEFINE direct ==
         Post(<<>>, <<Admin, Body>>, "createTargetApplication")
         \o Put(<<":appId">>, <<Admin, Body>>, "updateTargetApplication")
         \o Delete(<<":appId">>, <<Admin>>, "deleteTargetApplication")
         \o Get(<<>>, <<Viewer>>, "getTargetApplications")
         \o Get(<<":appId">>, <<Viewer>>, "getTargetApplication")
         \o Post(<<":appId", "api-key", "rotate">>, <<Admin>>, "rotateApiKey")
         \o Post(<<":appId", "versions">>, <<Member, Body>>, "createVersion")
         \o Delete(Version, <<Admin>>, "deleteVersion")
<1>. HIDE DEF Body, Viewer, Member, Admin, Auth, Version
<1>1. Nested(direct) BY NestedMade, Lists, HandlersKnown
<1>. HIDE DEF direct
<1>2. Nested(direct
         \o Mount(Version \o <<"manual-recordings">>, TRUE, ManualSessionRoutes)
         \o Use(<<":appId", "test-flows">>, <<Viewer>>)
         \o Mount(<<":appId", "test-flows">>, TRUE, TestFlowRoutes)
         \o Mount(Version \o <<"crawl-sessions">>, TRUE, CrawlSessionRoutes)
         \o Mount(<<":appId", "crawl-schedules">>, TRUE, CrawlScheduleRoutes)
         \o Mount(<<":appId", "regression-codebases">>, TRUE, RegressionCodebaseRoutes)
         \o Mount(<<":appId", "runs">>, TRUE, RegressionRunRoutes)
         \o Mount(Version, TRUE, UserGuideRoutes))
  BY <1>1, Lists, NestedMade, CrawlSessionRoutesNested, CrawlScheduleRoutesNested,
     ManualSessionRoutesNested, RegressionCodebaseRoutesNested, RegressionRunRoutesNested,
     TestFlowRoutesNested, UserGuideRoutesNested
<1>. QED BY <1>2 DEF direct, TargetApplicationRoutes

LEMMA FreeGuards == Body \notin DOMAIN MinRole /\ Auth \notin DOMAIN MinRole
                    /\ "projectActivityRecorder" \notin DOMAIN MinRole
BY DEF Body, Auth, MinRole

LEMMA AuthRoutesSighted == Sighted(AuthRoutes)
<1>. HIDE DEF Body
<1>. QED BY SightedMade, FreeGuards, Lists, HandlersKnown DEF AuthRoutes

LEMMA OAuthRoutesSighted == Sighted(OAuthRoutes)
<1>. HIDE DEF Body
<1>. QED BY SightedMade, FreeGuards, Lists, HandlersKnown DEF OAuthRoutes

LEMMA IngestRoutesSighted == Sighted(IngestRoutes)
<1>. HIDE DEF Body
<1>. QED BY SightedMade, FreeGuards, Lists, HandlersKnown DEF IngestRoutes

LEMMA InternalReportRoutesSighted == Sighted(InternalReportRoutes)
<1>. HIDE DEF Body
<1>. QED BY SightedMade, FreeGuards, Lists, HandlersKnown DEF InternalReportRoutes

LEMMA InternalNotificationRoutesSighted == Sighted(InternalNotificationRoutes)
<1>. HIDE DEF Body
<1>. QED BY SightedMade, FreeGuards, Lists, HandlersKnown DEF InternalNotificationRoutes

LEMMA ProjectRoutesSighted == Sighted(ProjectRoutes)
<1>1. /\ ":projectId" \in ParamsIn(<<":projectId">>)
      /\ ":projectId" \in ParamsIn(<<":projectId", "dashboard">>)
      /\ ":projectId" \in ParamsIn(<<":projectId", "members">>)
      /\ ":projectId" \in ParamsIn(<<":projectId", "leave">>)
      /\ ":projectId" \in ParamsIn(<<":projectId", "integrations">>)
      /\ ":projectId" \in ParamsIn(<<":projectId", "target-applications">>)
  BY DEF ParamsIn, Params
<1>. HIDE DEF Body, Viewer, Member, Admin, Auth
<1>. QED
  BY <1>1, SightedMade, FreeGuards, Lists, HandlersKnown, IntegrationRoutesNested,
     TargetApplicationRoutesNested
  DEF ProjectRoutes

\* The whole application: its layers have known handlers, and a guard that asks for a
\* role finds the project among its parameters.
LEMMA StackRouted == IsRouter(Stack, FALSE, TRUE)
<1>1. \A prefix, s : Sighted(s) => IsRouter(Mount(prefix, FALSE, s), TRUE /\ FALSE, TRUE)
  BY RouterMount DEF Sighted
<1>2. \A prefix, s : Sighted(s) => IsRouter(Mount(prefix, FALSE, s), FALSE, TRUE) BY <1>1
<1>. QED
  BY <1>2, RouterConcat, ProjectRoutesSighted, AuthRoutesSighted, OAuthRoutesSighted,
     IngestRoutesSighted, InternalReportRoutesSighted, InternalNotificationRoutesSighted
  DEF Stack

-----------------------------------------------------------------------------
(* One request                                                             *)

LEMMA StackIs ==
    /\ Len(Stack) \in Nat /\ DOMAIN Stack = 1 .. Len(Stack)
    /\ \A i \in 1 .. Len(Stack) : /\ Stack[i].handler \in Known
                                /\ IsList(Stack[i].guards)
                                /\ Scoped(Stack[i])
<1>1. PICK S : Stack \in Seq(S) BY StackRouted DEF IsRouter, IsList
<1>2. Len(Stack) \in Nat /\ DOMAIN Stack = 1 .. Len(Stack) BY <1>1, LenProperties
<1>. QED BY <1>2, StackRouted DEF IsRouter, IsLayer

LEMMA GuardsAre ==
    ASSUME NEW i \in 1 .. Len(Stack)
    PROVE  Len(Stack[i].guards) \in Nat /\ DOMAIN Stack[i].guards = 1 .. Len(Stack[i].guards)
<1>1. PICK S : Stack[i].guards \in Seq(S) BY StackIs DEF IsList
<1>. QED BY <1>1, LenProperties

\* The steps of a controller are numbered.
LEMMA DoesIs ==
    ASSUME NEW h \in Known, h # "next"
    PROVE  LET c == CHOOSE x \in Controllers : h \in DOMAIN x
           IN DOMAIN c[h] \subseteq Nat
<1>. DEFINE c == CHOOSE x \in Controllers : h \in DOMAIN x
<1>1. \E x \in Controllers : h \in DOMAIN x BY DEF Known
<1>2. c \in Controllers /\ h \in DOMAIN c BY <1>1
<1>. HIDE DEF c
<1>. DEFINE OK(x) == \A k \in DOMAIN x : DOMAIN x[k] \subseteq Nat
<1>3. \A hs : OK(Plain(hs)) /\ OK(Recorded(hs)) /\ (\A a : OK(Doing(hs, <<a>>)))
              /\ (\A a, b : OK(Doing(hs, <<a, b>>))) /\ (\A a, b, d : OK(Doing(hs, <<a, b, d>>)))
  BY DEF Plain, Recorded, Doing
<1>. HIDE DEF OK
<1>4. \A x \in Controllers : OK(x)
  <2>1. \A x \in AuthController : OK(x) BY <1>3 DEF AuthController
  <2>2. \A x \in ProjectController : OK(x) BY <1>3 DEF ProjectController
  <2>3. \A x \in DashboardController : OK(x) BY <1>3 DEF DashboardController
  <2>4. \A x \in ApplicationController : OK(x) BY <1>3 DEF ApplicationController
  <2>5. \A x \in SessionController : OK(x) BY <1>3 DEF SessionController
  <2>6. \A x \in ScheduleController : OK(x) BY <1>3 DEF ScheduleController
  <2>7. \A x \in ManualSessionController : OK(x) BY <1>3 DEF ManualSessionController
  <2>8. \A x \in CodebaseController : OK(x) BY <1>3 DEF CodebaseController
  <2>9. \A x \in RunController : OK(x) BY <1>3 DEF RunController
  <2>10. \A x \in ReportController : OK(x) BY <1>3 DEF ReportController
  <2>11. \A x \in NotificationController : OK(x) BY <1>3 DEF NotificationController
  <2>12. \A x \in FlowController : OK(x) BY <1>3 DEF FlowController
  <2>13. \A x \in GuideController : OK(x) BY <1>3 DEF GuideController
  <2>14. \A x \in IntegrationController : OK(x) BY <1>3 DEF IntegrationController
  <2>. QED
    BY <2>1, <2>2, <2>3, <2>4, <2>5, <2>6, <2>7, <2>8, <2>9, <2>10, <2>11, <2>12, <2>13, <2>14
    DEF Controllers
<1>. QED BY <1>2, <1>4 DEF OK, c

Places == 1 .. Len(Stack) + 1

Requests ==
    [pc : {"routing", "guarding", "membership", "handling", "refused", "answered", "recording",
           "done"},
     call : Calls, credential : Credentials, body : {"valid", "invalid"},
     layer : Places, guard : Nat \ {0}, userId : BOOLEAN, listens : BOOLEAN, events : {0, 1}, status : Statuses]

UnderWay == request.pc \in {"routing", "guarding", "membership", "handling"}

\* A guard refuses for a reason of the caller's, or because the database failed:
\* whatever router it stands in, it sees the project it is to look up.
RefusedForAReason ==
    request.pc = "refused" =>
        \/ request.status \in {"401", "403", "down"}
        \/ request.status = "400" /\ request.body = "invalid"
        \/ request.status = "404" /\ project = "gone"

\* Inductive: a request at a guard or in a controller is at a layer; it has no answer
\* before a controller or a guard gave one, and no row tells of it before that; a
\* guard's refusal has its reason.
HttpSound ==
    /\ request \in Requests
    /\ role \in Roles /\ project \in {"live", "gone"} /\ activities \in 0 .. 1
    /\ wasAdmin \in BOOLEAN /\ (wasAdmin => role = "ADMIN")
    /\ request.pc \in {"guarding", "membership", "handling"} => request.layer <= Len(Stack)
    /\ request.pc = "handling" => At.handler # "next"
    /\ UnderWay => request.status = "none"
    /\ request.events = 1 => request.status = "ok"
    /\ request.pc = "recording" => request.listens /\ request.events = 1
    /\ activities = 1 =>
          /\ request.pc = "done" /\ request.listens /\ request.events = 1
          /\ project = "live"
    /\ request.status = "403" => ~wasAdmin \/ project = "gone"
    /\ RefusedForAReason

LEMMA HttpSoundInit == HttpInit => HttpSound
<1>. SUFFICES ASSUME HttpInit PROVE HttpSound OBVIOUS
<1>1. PICK call \in Calls, credential \in Credentials, body \in {"valid", "invalid"} :
         request = [pc |-> "routing", call |-> call, credential |-> credential, body |-> body,
                    layer |-> 1, guard |-> 1, userId |-> FALSE, listens |-> FALSE,
                    events |-> 0, status |-> "none"]
  BY DEF HttpInit
<1>2. 1 \in Places BY StackIs DEF Places
<1>. HIDE DEF Stack, Calls
<1>3. request \in Requests BY <1>1, <1>2 DEF Requests, Statuses
<1>4. /\ request.pc = "routing" /\ request.status = "none" /\ request.events = 0
  BY <1>1
<1>5. wasAdmin \in BOOLEAN /\ (wasAdmin => role = "ADMIN") BY DEF HttpInit
<1>6. role \in Roles /\ project = "live" /\ activities = 0 BY DEF HttpInit
<1>. QED BY <1>3, <1>4, <1>5, <1>6 DEF HttpSound, UnderWay, RefusedForAReason

\* What an answer keeps.
LEMMA AnswerKeeps ==
    ASSUME HttpSound, UnderWay, NEW status \in Statuses \ {"none"}, Answer(status),
           UNCHANGED <<role, activities, wasAdmin>>,
           project' \in {project, "gone"},
           status = "403" => ~wasAdmin \/ project = "gone"
    PROVE  HttpSound'
<1>. HIDE DEF Stack, Calls
<1>1. /\ request' \in Requests
      /\ request'.pc = "answered" /\ request'.status = status
      /\ request'.events = request.events /\ request'.listens = request.listens
  BY DEF Answer, HttpSound, Requests
<1>2. request.events # 1 BY DEF HttpSound, UnderWay
<1>3. activities # 1 BY DEF HttpSound, UnderWay
<1>. QED BY <1>1, <1>2, <1>3 DEF HttpSound, UnderWay, RefusedForAReason

\* What the refusal of a guard keeps.
LEMMA RefusalKeeps ==
    ASSUME HttpSound, UnderWay, UNCHANGED <<role, project, activities, wasAdmin>>,
           NEW status, Refuse(status),
           \/ status \in {"401", "down"}
           \/ status = "403" /\ (~wasAdmin \/ project = "gone")
           \/ status = "400" /\ request.body = "invalid"
           \/ status = "404" /\ project = "gone"
    PROVE  HttpSound'
<1>. HIDE DEF Stack, Calls
<1>1. /\ request' \in Requests
      /\ request'.pc = "refused" /\ request'.status = status /\ request'.body = request.body
      /\ request'.events = request.events /\ request'.listens = request.listens
  BY DEF Refuse, HttpSound, Requests, Statuses
<1>2. request.events # 1 BY DEF HttpSound, UnderWay
<1>3. activities # 1 BY DEF HttpSound, UnderWay
<1>. QED BY <1>1, <1>2, <1>3 DEF HttpSound, UnderWay, RefusedForAReason

\* What a step along the way keeps.
LEMMA OnwardKeeps ==
    ASSUME HttpSound, UnderWay, UNCHANGED <<role, project, activities, wasAdmin>>,
           request' \in Requests, UnderWay',
           request'.status = request.status, request'.events = request.events,
           request'.pc # "routing" => request'.layer <= Len(Stack),
           request'.pc = "handling" => At'.handler # "next"
    PROVE  HttpSound'
<1>. HIDE DEF Stack, At
<1>. QED BY DEF HttpSound, UnderWay, RefusedForAReason

LEMMA RouteKeeps == ASSUME HttpSound, Route PROVE HttpSound'
<1>. DEFINE found == LayersFrom(request.layer, request.call)
<1>1. CASE found = {}
  <2>1. Answer("unrouted") BY <1>1 DEF Route
  <2>. QED BY <2>1, AnswerKeeps DEF Route, UnderWay, Statuses
<1>2. CASE found # {}
  <2>1. found \subseteq Nat /\ \A i \in found : i \in 1 .. Len(Stack)
    BY StackIs DEF LayersFrom, HttpSound, Requests, Places
  <2>2. Min(found) \in 1 .. Len(Stack) BY <1>2, <2>1, LeastIsThere
  <2>3. request' = [request EXCEPT !.pc = "guarding", !.layer = Min(found), !.guard = 1]
    BY <1>2 DEF Route
  <2>. DEFINE first == Min(found)
  <2>. HIDE DEF first, found, Stack, Calls
  <2>4. first \in Places /\ first <= Len(Stack) BY <2>2, StackIs DEF first, Places
  <2>5. request' = [request EXCEPT !.pc = "guarding", !.layer = first, !.guard = 1]
    BY <2>3 DEF first
  <2>6. request' \in Requests
    <3>1. 1 \in Nat \ {0} OBVIOUS
    <3>2. \A q \in Requests :
             [q EXCEPT !.pc = "guarding", !.layer = first, !.guard = 1] \in Requests
      BY <2>4, <3>1 DEF Requests
    <3>. QED BY <2>5, <3>2 DEF HttpSound
  <2>7. /\ request'.pc = "guarding" /\ request'.layer <= Len(Stack)
        /\ request'.status = request.status /\ request'.events = request.events
    BY <2>4, <2>5 DEF HttpSound, Requests
  <2>. QED BY <2>6, <2>7, OnwardKeeps DEF Route, UnderWay
<1>. QED BY <1>1, <1>2

\* Wherever a guard of roles stands, the layer sees the project.
LEMMA RoleSees ==
    ASSUME HttpSound, NEW pc \in {"guarding", "membership"}, NEW guard \in DOMAIN MinRole,
           StandsAt(pc, guard)
    PROVE  ":projectId" \in At.sees
<1>1. request.layer \in 1 .. Len(Stack) BY DEF StandsAt, HttpSound, Requests, Places
<1>2. /\ request.guard \in Nat /\ request.guard <= Len(At.guards)
      /\ At.guards[request.guard] = guard
  BY DEF StandsAt, HttpSound, Requests
<1>3. Len(At.guards) \in Nat /\ DOMAIN At.guards = 1 .. Len(At.guards)
  BY <1>1, GuardsAre DEF At
<1>4. request.guard \in Nat \ {0} BY DEF HttpSound, Requests
<1>5. request.guard \in DOMAIN At.guards BY <1>2, <1>3, <1>4
<1>. QED BY <1>1, <1>2, <1>5, StackIs DEF Scoped, At

LEMMA GuardsKeep ==
    ASSUME HttpSound,
           RequireAuth \/ InstallRecorder \/ RequireRole \/ ReadMembership \/ ValidateBody
    PROVE  HttpSound'
<1>1. /\ request.pc \in {"guarding", "membership"}
      /\ UNCHANGED <<role, project, activities, wasAdmin>>
  BY DEF RequireAuth, InstallRecorder, RequireRole, ReadMembership, ValidateBody, AtGuard, StandsAt
<1>2. UnderWay /\ request.layer <= Len(Stack) BY <1>1 DEF UnderWay, HttpSound
<1>3. ASSUME NEW userId \in BOOLEAN, NEW listens \in BOOLEAN,
             request' = [request EXCEPT !.pc = "guarding", !.guard = @ + 1, !.userId = userId,
                                        !.listens = listens]
      PROVE  HttpSound'
  <2>. DEFINE next == request.guard + 1
  <2>. HIDE DEF Stack, Calls
  <2>3. next \in Nat \ {0} BY DEF HttpSound, Requests
  <2>4. request' = [request EXCEPT !.pc = "guarding", !.guard = next, !.userId = userId,
                                   !.listens = listens]
    BY <1>3
  <2>. HIDE DEF next
  <2>1. request' \in Requests BY <2>3, <2>4 DEF HttpSound, Requests
  <2>2. /\ request'.pc = "guarding" /\ request'.layer = request.layer
        /\ request'.status = request.status /\ request'.events = request.events
    BY <1>3 DEF HttpSound, Requests
  <2>. QED BY <1>1, <1>2, <2>1, <2>2, OnwardKeeps DEF UnderWay
<1>4. CASE RequireAuth
  <2>. request.pc = "guarding" BY <1>4 DEF RequireAuth, AtGuard, StandsAt
  <2>1. CASE request.credential = "bearer"
    <3>1. request' = [request EXCEPT !.pc = "guarding", !.guard = @ + 1, !.userId = TRUE,
                                     !.listens = request.listens]
      BY <1>4, <2>1 DEF RequireAuth, HttpSound, Requests
    <3>. QED BY <1>3, <3>1 DEF HttpSound, Requests
  <2>2. CASE request.credential # "bearer"
    BY <1>1, <1>2, <1>4, <2>2, RefusalKeeps DEF RequireAuth
  <2>. QED BY <2>1, <2>2
<1>5. CASE InstallRecorder
  <2>. request.pc = "guarding" BY <1>5 DEF InstallRecorder, AtGuard, StandsAt
  <2>1. request' = [request EXCEPT !.pc = "guarding", !.guard = @ + 1,
                                   !.userId = request.userId, !.listens = TRUE]
    BY <1>5 DEF InstallRecorder, HttpSound, Requests
  <2>. QED BY <1>3, <2>1 DEF HttpSound, Requests
<1>6. ASSUME Pass PROVE HttpSound'
  <2>1. request' = [request EXCEPT !.pc = "guarding", !.guard = @ + 1,
                                   !.userId = request.userId, !.listens = request.listens]
    BY <1>6 DEF Pass, HttpSound, Requests
  <2>. QED BY <1>3, <2>1 DEF HttpSound, Requests
<1>7. CASE ValidateBody
  <2>1. request.body \in {"valid", "invalid"} BY DEF HttpSound, Requests
  <2>. QED BY <1>1, <1>2, <1>6, <1>7, <2>1, RefusalKeeps DEF ValidateBody
<1>8. CASE RequireRole
  <2>1. PICK guard \in DOMAIN MinRole :
           /\ StandsAt("guarding", guard)
           /\ IF ~request.userId THEN Refuse("401")
              ELSE IF ":projectId" \notin At.sees THEN Refuse("500")
              ELSE \/ Refuse("down")
                   \/ project = "gone" /\ Refuse("404")
                   \/ project = "live" /\ request' = [request EXCEPT !.pc = "membership"]
    BY <1>8 DEF RequireRole, AtGuard
  <2>2. ":projectId" \in At.sees BY <2>1, RoleSees
  <2>3. ASSUME request' = [request EXCEPT !.pc = "membership"] PROVE HttpSound'
    <3>. HIDE DEF Stack, Calls
    <3>1. /\ request' \in Requests /\ request'.pc = "membership"
          /\ request'.layer = request.layer /\ request'.status = request.status
          /\ request'.events = request.events
      BY <2>3 DEF HttpSound, Requests
    <3>. QED BY <1>1, <1>2, <3>1, OnwardKeeps DEF UnderWay
  <2>4. \/ Refuse("401") \/ Refuse("down")
        \/ project = "gone" /\ Refuse("404")
        \/ request' = [request EXCEPT !.pc = "membership"]
    BY <2>1, <2>2
  <2>. QED BY <1>1, <1>2, <2>3, <2>4, RefusalKeeps
<1>9. CASE ReadMembership
  <2>1. PICK guard \in DOMAIN MinRole :
           \/ Refuse("down")
           \/ IF project = "live" /\ Priority[role] >= Priority[MinRole[guard]]
              THEN Pass ELSE Refuse("403")
    BY <1>9 DEF ReadMembership
  <2>2. role = "ADMIN" => Priority[role] >= Priority[MinRole[guard]]
    BY DEF Priority, MinRole
  <2>3. (wasAdmin => role = "ADMIN") /\ project \in {"live", "gone"} BY DEF HttpSound
  <2>4. \/ Refuse("down") \/ Pass
        \/ Refuse("403") /\ (~wasAdmin \/ project = "gone")
    BY <2>1, <2>2, <2>3
  <2>. QED BY <1>1, <1>2, <1>6, <2>4, RefusalKeeps
<1>. QED BY <1>4, <1>5, <1>7, <1>8, <1>9

LEMMA PassOnKeeps == ASSUME HttpSound, PassOn PROVE HttpSound'
<1>1. /\ request.pc = "guarding" /\ UnderWay /\ request.layer <= Len(Stack)
      /\ request.layer \in Places
  BY DEF PassOn, HttpSound, UnderWay, Requests
<1>2. CASE At.handler = "next"
  <2>. DEFINE next == request.layer + 1
  <2>1. next \in Places BY <1>1, StackIs DEF Places
  <2>2. request' = [request EXCEPT !.pc = "routing", !.layer = next] BY <1>2 DEF PassOn
  <2>. HIDE DEF next, Stack, Calls
  <2>3. request' \in Requests BY <2>1, <2>2 DEF HttpSound, Requests
  <2>4. /\ request'.pc = "routing" /\ request'.status = request.status
        /\ request'.events = request.events
    BY <2>2 DEF HttpSound, Requests
  <2>. QED BY <1>1, <2>3, <2>4, OnwardKeeps DEF PassOn, UnderWay
<1>3. CASE At.handler # "next"
  <2>1. request' = [request EXCEPT !.pc = "handling"] BY <1>3 DEF PassOn
  <2>. HIDE DEF Stack, Calls
  <2>2. request' \in Requests BY <2>1 DEF HttpSound, Requests
  <2>3. /\ request'.pc = "handling" /\ request'.status = request.status
        /\ request'.events = request.events /\ request'.layer = request.layer
    BY <2>1 DEF HttpSound, Requests
  <2>4. At'.handler # "next" BY <1>3, <2>3 DEF At
  <2>. QED BY <1>1, <2>2, <2>3, <2>4, OnwardKeeps DEF PassOn, UnderWay
<1>. QED BY <1>2, <1>3

\* What the first step that refuses answers is a status.
LEMMA RefusalIs ==
    ASSUME HttpSound, request.pc = "handling", Refusing # {}
    PROVE  /\ Min(Refusing) \in Refusing
           /\ Refusals[Does[Min(Refusing)]] \in {"401", "500"}
<1>1. request.layer \in 1 .. Len(Stack) /\ At.handler # "next"
  BY DEF HttpSound, Requests, Places
<1>2. At.handler \in Known BY <1>1, StackIs DEF At
<1>3. DOMAIN Does \subseteq Nat BY <1>1, <1>2, DoesIs DEF Does
<1>4. Min(Refusing) \in Refusing BY <1>3, LeastIsThere DEF Refusing
<1>5. \A x \in DOMAIN Refusals : Refusals[x] \in {"none", "401", "500"} BY DEF Refusals
<1>. HIDE DEF Refusals
<1>. QED BY <1>4, <1>5 DEF Refusing

LEMMA HandleKeeps == ASSUME HttpSound, Handle PROVE HttpSound'
<1>1. /\ request.pc = "handling" /\ UnderWay /\ UNCHANGED <<role, activities, wasAdmin>>
  BY DEF Handle, UnderWay
<1>2. ASSUME NEW status \in {"ok", "400", "401", "404", "409", "500"}, Answer(status),
             UNCHANGED project
      PROVE  HttpSound'
  BY <1>1, <1>2, AnswerKeeps DEF Statuses
<1>3. CASE Refusing # {}
  BY <1>2, <1>3, RefusalIs DEF Handle
<1>4. ASSUME NEW events \in {0, 1},
             request' = [request EXCEPT !.pc = "answered", !.status = "ok", !.events = events],
             project' = IF At.handler = "deleteProject" THEN "gone" ELSE project
      PROVE  HttpSound'
  <2>. HIDE DEF Stack, Calls
  <2>1. request' \in Requests BY <1>4 DEF HttpSound, Requests, Statuses
  <2>2. request'.pc = "answered" /\ request'.status = "ok" BY <1>4 DEF HttpSound, Requests
  <2>3. activities # 1 BY <1>1 DEF HttpSound
  <2>4. project' \in {"live", "gone"} BY <1>4 DEF HttpSound
  <2>. QED BY <1>1, <2>1, <2>2, <2>3, <2>4 DEF HttpSound, UnderWay, RefusedForAReason
<1>5. CASE Refusing = {}
  <2>. DEFINE noted == CASE Contains(Does, "record")     -> {1}
                         [] Contains(Does, "recordSome") -> {0, 1}
                         [] OTHER                         -> {0}
  <2>1. noted \subseteq {0, 1} OBVIOUS
  <2>. HIDE DEF noted
  <2>2. \/ \E status \in {"ok", "400", "401", "404", "409", "500"} :
              Answer(status) /\ UNCHANGED project
        \/ /\ \E events \in noted :
                 request' = [request EXCEPT !.pc = "answered", !.status = "ok",
                                            !.events = events]
           /\ project' = IF At.handler = "deleteProject" THEN "gone" ELSE project
    BY <1>5 DEF Handle, noted
  <2>. QED BY <1>2, <1>4, <2>1, <2>2
<1>. QED BY <1>3, <1>5

LEMMA EndKeeps == ASSUME HttpSound, Finish \/ ClientGone \/ RecordActivities PROVE HttpSound'
<1>. HIDE DEF Stack, Calls
<1>1. PICK pc \in {"recording", "done"} :
         /\ request' = [request EXCEPT !.pc = pc]
         /\ pc = "recording" => request.listens /\ request.status = "ok" /\ request.events > 0
  BY DEF Finish, ClientGone, RecordActivities
<1>2. /\ request' \in Requests /\ request'.pc = pc /\ request'.status = request.status
      /\ request'.events = request.events /\ request'.listens = request.listens
  BY <1>1 DEF HttpSound, Requests
<1>3. request.events \in {0, 1} /\ (pc = "recording" => request.events = 1)
  BY <1>1 DEF HttpSound, Requests
<1>4. UNCHANGED <<role, project, wasAdmin>> /\ ~UnderWay'
  BY <1>2 DEF Finish, ClientGone, RecordActivities, UnderWay
<1>5. CASE Finish \/ ClientGone
  <2>1. activities' = activities /\ activities # 1
    BY <1>5 DEF Finish, ClientGone, HttpSound
  <2>. QED BY <1>1, <1>2, <1>3, <1>4, <2>1 DEF HttpSound, UnderWay, RefusedForAReason
<1>6. CASE RecordActivities
  <2>1. /\ request.pc = "recording" /\ request.listens /\ request.events = 1 /\ activities = 0
        /\ request'.pc = "done"
    BY <1>6 DEF RecordActivities, HttpSound, Requests
  <2>2. activities' \in {0, 1} /\ (activities' = 1 => project = "live")
    BY <1>6, <2>1 DEF RecordActivities
  <2>. QED BY <1>2, <1>3, <1>4, <2>1, <2>2 DEF HttpSound, UnderWay, RefusedForAReason
<1>. QED BY <1>5, <1>6

LEMMA OthersKeep == ASSUME HttpSound, RoleChanges \/ ProjectGone PROVE HttpSound'
<1>. HIDE DEF Stack, Calls
<1>1. UNCHANGED request BY DEF RoleChanges, ProjectGone
<1>2. At' = At BY <1>1 DEF At
<1>3. CASE RoleChanges
  <2>1. /\ wasAdmin' \in BOOLEAN /\ (wasAdmin' => wasAdmin /\ role' = "ADMIN") /\ role' \in Roles
        /\ UNCHANGED <<project, activities>>
    BY <1>3 DEF RoleChanges, HttpSound
  <2>. QED BY <1>1, <1>2, <2>1 DEF HttpSound, UnderWay, RefusedForAReason
<1>4. CASE ProjectGone
  BY <1>1, <1>2, <1>4 DEF ProjectGone, HttpSound, UnderWay, RefusedForAReason
<1>. QED BY <1>3, <1>4

LEMMA HttpSoundStep == HttpSound /\ [HttpNext]_httpVars => HttpSound'
<1>. SUFFICES ASSUME HttpSound, [HttpNext]_httpVars PROVE HttpSound' OBVIOUS
<1>1. CASE UNCHANGED httpVars
  <2>. HIDE DEF Stack, Calls
  <2>1. At' = At BY <1>1 DEF At, httpVars
  <2>. QED BY <1>1, <2>1 DEF httpVars, HttpSound, UnderWay, RefusedForAReason
<1>2. CASE HttpNext
  BY <1>2, RouteKeeps, GuardsKeep, PassOnKeeps, HandleKeeps, EndKeeps, OthersKeep DEF HttpNext
<1>. QED BY <1>1, <1>2

LEMMA HttpSoundTypes == HttpSound => HttpTypeOK
<1>. HIDE DEF Stack, Calls
<1>. QED BY DEF HttpSound, Requests, Places, HttpTypeOK

\* A request goes from layer to layer of the routers there are, and ends with one of
\* the answers the application gives.
THEOREM HttpTypeCorrect == HttpSpec => []HttpTypeOK
<1>. QED BY HttpSoundInit, HttpSoundStep, HttpSoundTypes, PTL DEF HttpSpec

\* requireProjectRole refuses the role of a caller who has been an administrator all
\* the time only once the project is gone.
ForbiddenForAReason == request.status = "403" => ~wasAdmin \/ project = "gone"

\* A row of project_activities tells of a request that succeeded, in a project that
\* exists.
RowsTellTheTruth ==
    activities > 0 => request.pc = "done" /\ request.status = "ok" /\ project = "live"

\* With RefusedForAReason: none of them depends on what the documents say of the
\* routes, nor on what other requests do to the caller's role and to the project
\* meanwhile.
THEOREM RefusalsAndRows ==
    HttpSpec => [](ForbiddenForAReason /\ RefusedForAReason /\ RowsTellTheTruth)
<1>1. HttpSound => ForbiddenForAReason /\ RefusedForAReason /\ RowsTellTheTruth
  BY DEF HttpSound, ForbiddenForAReason, RowsTellTheTruth
<1>. QED BY <1>1, HttpSoundInit, HttpSoundStep, PTL DEF HttpSpec

-----------------------------------------------------------------------------
(* What the documents promise                                              *)

Cleared(i, g) ==
    \/ i < request.layer
    \/ /\ i = request.layer /\ request.pc # "routing"
       /\ request.pc \in {"guarding", "membership"} => g < request.guard

\* A request under way to the layer n.
OnItsWay(n) ==
    /\ Serves(n, request.call) /\ Fits(n, request.call)
    /\ request.layer <= n
    /\ request.pc # "routing" => request.layer \in LayersFrom(1, request.call)
    /\ request.pc = "handling" => request.layer = n
    /\ \A p \in Posts(n, request.call, "requireAuth") : Cleared(p[1], p[2]) => request.userId
    /\ \A p \in Posts(n, request.call, "validateBody") :
          Cleared(p[1], p[2]) => request.body = "valid"

\* What an answer may be.
Promised(status) ==
    /\ status # "unrouted"
    /\ status = "ok" /\ request.call.security # "undocumented" =>
          request.call.security \in {"none", request.credential}
    /\ status = "ok" /\ request.call.body = "checked" => request.body = "valid"
    /\ status = "401" => \/ request.credential # request.call.security
                        \/ request.call.handler \in Documented401

ServedSound ==
    /\ request.userId => request.credential = "bearer"
    /\ UnderWay => \E n \in 1 .. Len(Stack) : OnItsWay(n)
    /\ Promised(request.status)

LEMMA ServedInit == RoutesFit /\ HttpInit => ServedSound
<1>. SUFFICES ASSUME RoutesFit, HttpInit PROVE ServedSound OBVIOUS
<1>. HIDE DEF Stack, Calls, Fits, Serves, Posts
<1>1. /\ request.call \in Calls /\ request.pc = "routing" /\ request.layer = 1
      /\ request.status = "none" /\ request.userId = FALSE
  BY DEF HttpInit
<1>2. PICK n \in 1 .. Len(Stack) : Serves(n, request.call) /\ Fits(n, request.call)
  BY <1>1 DEF RoutesFit
<1>3. \A guard : \A p \in Posts(n, request.call, guard) : ~ Cleared(p[1], p[2])
  <2>. SUFFICES ASSUME NEW guard, NEW p \in Posts(n, request.call, guard)
                PROVE  ~ Cleared(p[1], p[2])
    OBVIOUS
  <2>1. p[1] \in Nat /\ p[1] >= 1 BY StackIs DEF Posts, Way, LayersFrom
  <2>. QED BY <1>1, <2>1 DEF Cleared
<1>4. OnItsWay(n) BY <1>1, <1>2, <1>3 DEF OnItsWay
<1>. QED BY <1>1, <1>4 DEF ServedSound, Promised

LEMMA PostIs ==
    ASSUME NEW n, NEW call, NEW guard
    PROVE  /\ \A p \in Posts(n, call, guard) :
                 /\ p[1] \in LayersFrom(1, call) /\ p[1] <= n /\ p[1] \in 1 .. Len(Stack)
                 /\ p[2] \in 1 .. Len(Stack[p[1]].guards)
                 /\ Stack[p[1]].guards[p[2]] = guard
           /\ \A i \in LayersFrom(1, call) : \A g \in 1 .. Len(Stack[i].guards) :
                 i <= n /\ Stack[i].guards[g] = guard => <<i, g>> \in Posts(n, call, guard)
<1>1. \A i \in LayersFrom(1, call) : i \in 1 .. Len(Stack)
                                    /\ DOMAIN Stack[i].guards = 1 .. Len(Stack[i].guards)
  BY GuardsAre DEF LayersFrom
<1>2. ASSUME NEW p \in Posts(n, call, guard)
      PROVE  /\ p[1] \in LayersFrom(1, call) /\ p[1] <= n /\ p[1] \in 1 .. Len(Stack)
             /\ p[2] \in 1 .. Len(Stack[p[1]].guards)
             /\ Stack[p[1]].guards[p[2]] = guard
  <2>1. PICK i \in Way(n, call) :
           \E g \in {h \in DOMAIN Stack[i].guards : Stack[i].guards[h] = guard} : p = <<i, g>>
    BY DEF Posts
  <2>2. i \in LayersFrom(1, call) /\ i <= n BY DEF Way
  <2>. QED BY <1>1, <2>1, <2>2
<1>3. ASSUME NEW i \in LayersFrom(1, call), NEW g \in 1 .. Len(Stack[i].guards), i <= n,
             Stack[i].guards[g] = guard
      PROVE  <<i, g>> \in Posts(n, call, guard)
  BY <1>1, <1>3 DEF Posts, Way
<1>. QED BY <1>2, <1>3

\* Answers end the way.
LEMMA AnswerServes ==
    ASSUME HttpSound, ServedSound, NEW status \in Statuses, Promised(status),
           \/ Answer(status)
           \/ Refuse(status)
           \/ \E events \in {0, 1} :
                 request' = [request EXCEPT !.pc = "answered", !.status = status, !.events = events]
    PROVE  ServedSound'
<1>. HIDE DEF Stack, Calls
<1>1. /\ request'.pc \in {"answered", "refused"} /\ request'.status = status
      /\ request'.call = request.call /\ request'.credential = request.credential
      /\ request'.body = request.body /\ request'.userId = request.userId
  BY DEF Answer, Refuse, HttpSound, Requests
<1>. QED BY <1>1 DEF ServedSound, Promised, UnderWay

LEMMA RouteServes == ASSUME HttpSound, ServedSound, Route PROVE ServedSound'
<1>. DEFINE found == LayersFrom(request.layer, request.call)
<1>1. PICK n \in 1 .. Len(Stack) : OnItsWay(n) BY DEF Route, ServedSound, UnderWay
<1>2. request.layer \in Nat /\ request.layer >= 1 /\ request.layer <= n /\ Len(Stack) \in Nat
  BY <1>1, StackIs DEF HttpSound, Requests, Places, OnItsWay
<1>3. \A i : i \in found <=> i \in LayersFrom(1, request.call) /\ i >= request.layer
  BY <1>2 DEF LayersFrom
<1>4. n \in found BY <1>1, <1>2, <1>3 DEF OnItsWay, Serves
<1>5. found \subseteq Nat BY <1>2 DEF LayersFrom
<1>. DEFINE first == Min(found)
<1>6. first \in found /\ \A i \in found : first <= i BY <1>4, <1>5, LeastIsThere
<1>7. request' = [request EXCEPT !.pc = "guarding", !.layer = first, !.guard = 1]
  BY <1>4 DEF Route
<1>. HIDE DEF found, first, Stack, Calls
<1>8. /\ request'.pc = "guarding" /\ request'.layer = first /\ request'.guard = 1
      /\ request'.call = request.call /\ request'.credential = request.credential
      /\ request'.body = request.body /\ request'.userId = request.userId
      /\ request'.status = request.status
  BY <1>7 DEF HttpSound, Requests
<1>9. ASSUME NEW guard, NEW p \in Posts(n, request.call, guard), Cleared(p[1], p[2])'
      PROVE  Cleared(p[1], p[2])
  <2>1. p[1] \in LayersFrom(1, request.call) /\ p[1] \in Nat /\ p[2] \in Nat /\ p[2] >= 1
    BY PostIs, StackIs, GuardsAre
  <2>2. p[1] < first BY <1>8, <1>9, <2>1 DEF Cleared
  <2>3. p[1] \notin found BY <1>5, <1>6, <2>1, <2>2
  <2>. QED BY <1>2, <1>3, <2>1, <2>3 DEF Cleared
<1>10. OnItsWay(n)'
  <2>1. first <= n /\ first \in LayersFrom(1, request.call) BY <1>3, <1>4, <1>6
  <2>. QED BY <1>1, <1>8, <1>9, <2>1 DEF OnItsWay
<1>. QED BY <1>8, <1>10 DEF ServedSound, Promised

\* At a guard: it stands on the way, and once it is passed nothing else is new.
LEMMA GuardOnTheWay ==
    ASSUME HttpSound, ServedSound, NEW pc \in {"guarding", "membership"}, NEW guard,
           StandsAt(pc, guard)
    PROVE  \E n \in 1 .. Len(Stack) :
              /\ OnItsWay(n)
              /\ <<request.layer, request.guard>> \in Posts(n, request.call, guard)
              /\ \A other : \A p \in Posts(n, request.call, other) :
                    p[1] < request.layer \/ (p[1] = request.layer /\ p[2] < request.guard + 1) =>
                       Cleared(p[1], p[2]) \/ (other = guard /\ p = <<request.layer, request.guard>>)
<1>1. /\ request.pc \in {"guarding", "membership"} /\ request.guard <= Len(At.guards)
      /\ At.guards[request.guard] = guard
  BY DEF StandsAt
<1>2. PICK n \in 1 .. Len(Stack) : OnItsWay(n) BY <1>1 DEF ServedSound, UnderWay
<1>3. /\ request.layer \in 1 .. Len(Stack) /\ request.layer <= n
      /\ request.layer \in LayersFrom(1, request.call)
  BY <1>1, <1>2 DEF OnItsWay, HttpSound, Requests, Places
<1>4. request.guard \in 1 .. Len(At.guards)
  BY <1>1, <1>3, GuardsAre DEF At, HttpSound, Requests
<1>5. <<request.layer, request.guard>> \in Posts(n, request.call, guard)
  BY <1>1, <1>3, <1>4, PostIs DEF At
<1>6. ASSUME NEW other, NEW p \in Posts(n, request.call, other),
             p[1] < request.layer \/ (p[1] = request.layer /\ p[2] < request.guard + 1)
      PROVE  Cleared(p[1], p[2]) \/ (other = guard /\ p = <<request.layer, request.guard>>)
  <2>1. /\ p[1] \in Nat /\ p[2] \in Nat /\ Stack[p[1]].guards[p[2]] = other
        /\ p = <<p[1], p[2]>>
    <3>1. p = <<p[1], p[2]>> BY DEF Posts
    <3>. QED BY <3>1, PostIs, StackIs, GuardsAre
  <2>2. request.guard \in Nat BY DEF HttpSound, Requests
  <2>3. CASE p[1] < request.layer \/ (p[1] = request.layer /\ p[2] < request.guard)
    BY <1>1, <2>3 DEF Cleared
  <2>4. CASE p[1] = request.layer /\ p[2] = request.guard
    BY <1>1, <2>1, <2>4 DEF At
  <2>. QED BY <1>6, <2>1, <2>2, <2>3, <2>4
<1>. QED BY <1>2, <1>5, <1>6

LEMMA GuardsServe ==
    ASSUME HttpSound, ServedSound,
           RequireAuth \/ InstallRecorder \/ RequireRole \/ ReadMembership \/ ValidateBody
    PROVE  ServedSound'
<1>. HIDE DEF Stack, Calls, Fits, Serves, Posts
\* A guard that lets the request pass.
<1>1. ASSUME NEW pc \in {"guarding", "membership"}, NEW guard, StandsAt(pc, guard),
             NEW userId \in BOOLEAN, NEW listens \in BOOLEAN,
             request' = [request EXCEPT !.pc = "guarding", !.guard = @ + 1, !.userId = userId,
                                        !.listens = listens],
             request.userId => userId,
             userId => request.credential = "bearer",
             guard = "requireAuth" => userId,
             guard = "validateBody" => request.body = "valid"
      PROVE  ServedSound'
  <2>1. PICK n \in 1 .. Len(Stack) :
              /\ OnItsWay(n)
              /\ \A other : \A p \in Posts(n, request.call, other) :
                    p[1] < request.layer \/ (p[1] = request.layer /\ p[2] < request.guard + 1) =>
                       Cleared(p[1], p[2]) \/ (other = guard /\ p = <<request.layer, request.guard>>)
    BY <1>1, GuardOnTheWay
  <2>2. /\ request'.pc = "guarding" /\ request'.layer = request.layer
        /\ request'.guard = request.guard + 1 /\ request'.userId = userId
        /\ request'.call = request.call /\ request'.credential = request.credential
        /\ request'.body = request.body /\ request'.status = request.status
    BY <1>1 DEF HttpSound, Requests
  <2>3. ASSUME NEW other, NEW p \in Posts(n, request.call, other), Cleared(p[1], p[2])'
        PROVE  Cleared(p[1], p[2]) \/ other = guard
    BY <2>1, <2>2, <2>3 DEF Cleared
  <2>4. request.pc \in {"guarding", "membership"} BY <1>1 DEF StandsAt
  <2>5. OnItsWay(n)' BY <1>1, <2>1, <2>2, <2>3, <2>4 DEF OnItsWay
  <2>. QED BY <1>1, <2>2, <2>5 DEF ServedSound, Promised
<1>2. ASSUME NEW pc \in {"guarding", "membership"}, NEW guard, StandsAt(pc, guard), Pass,
             guard # "requireAuth",
             guard = "validateBody" => request.body = "valid"
      PROVE  ServedSound'
  <2>1. request' = [request EXCEPT !.pc = "guarding", !.guard = @ + 1,
                                   !.userId = request.userId, !.listens = request.listens]
    BY <1>2 DEF Pass, HttpSound, Requests
  <2>2. request.userId \in BOOLEAN /\ request.listens \in BOOLEAN BY DEF HttpSound, Requests
  <2>3. request.userId => request.credential = "bearer" BY DEF ServedSound
  <2>4. StandsAt(pc, guard) /\ (guard = "requireAuth" => request.userId)
        /\ (guard = "validateBody" => request.body = "valid")
    BY <1>2
  <2>. QED BY <1>1, <2>1, <2>2, <2>3, <2>4
<1>3. CASE RequireAuth
  <2>1. StandsAt("guarding", "requireAuth") /\ request.pc = "guarding"
    BY <1>3 DEF RequireAuth, AtGuard, StandsAt
  <2>2. CASE request.credential = "bearer"
    <3>1. request' = [request EXCEPT !.pc = "guarding", !.guard = @ + 1, !.userId = TRUE,
                                     !.listens = request.listens]
      BY <1>3, <2>1, <2>2 DEF RequireAuth, HttpSound, Requests
    <3>2. request.listens \in BOOLEAN BY DEF HttpSound, Requests
    <3>. QED BY <1>1, <2>1, <2>2, <3>1, <3>2 DEF StandsAt
  <2>3. CASE request.credential # "bearer"
    <3>1. PICK n \in 1 .. Len(Stack) :
             OnItsWay(n) /\ Posts(n, request.call, "requireAuth") # {}
      BY <2>1, GuardOnTheWay
    <3>2. request.call.security \in {"bearer", "undocumented"} BY <3>1 DEF OnItsWay, Fits
    <3>3. request.credential \in Credentials BY DEF HttpSound, Requests
    <3>4. Promised("401") BY <2>3, <3>2, <3>3 DEF Promised, Credentials
    <3>. QED BY <1>3, <2>3, <3>4, AnswerServes DEF RequireAuth, Statuses
  <2>. QED BY <2>2, <2>3
<1>4. CASE InstallRecorder
  <2>1. StandsAt("guarding", "projectActivityRecorder") /\ request.pc = "guarding"
    BY <1>4 DEF InstallRecorder, AtGuard, StandsAt
  <2>2. request' = [request EXCEPT !.pc = "guarding", !.guard = @ + 1,
                                   !.userId = request.userId, !.listens = TRUE]
    BY <1>4, <2>1 DEF InstallRecorder, HttpSound, Requests
  <2>3. request.userId \in BOOLEAN /\ (request.userId => request.credential = "bearer")
    BY DEF HttpSound, Requests, ServedSound
  <2>. QED BY <1>1, <2>1, <2>2, <2>3 DEF StandsAt
<1>5. CASE ValidateBody
  <2>1. StandsAt("guarding", "validateBody") BY <1>5 DEF ValidateBody, AtGuard
  <2>2. Promised("400") BY DEF Promised
  <2>. QED BY <1>2, <1>5, <2>1, <2>2, AnswerServes DEF ValidateBody, Statuses
<1>6. CASE RequireRole
  <2>1. PICK guard \in DOMAIN MinRole :
           /\ StandsAt("guarding", guard)
           /\ IF ~request.userId THEN Refuse("401")
              ELSE \/ \E status \in {"500", "down", "404"} : Refuse(status)
                   \/ request' = [request EXCEPT !.pc = "membership"]
    BY <1>6 DEF RequireRole, AtGuard
  <2>2. request.userId
    <3>1. PICK n \in 1 .. Len(Stack) :
             OnItsWay(n) /\ <<request.layer, request.guard>> \in Posts(n, request.call, guard)
      BY <2>1, GuardOnTheWay
    <3>2. PICK q \in Posts(n, request.call, "requireAuth") :
             Earlier(q, <<request.layer, request.guard>>)
      BY <3>1 DEF OnItsWay, Fits
    <3>3. Cleared(q[1], q[2]) BY <2>1, <3>2 DEF Earlier, Cleared, StandsAt
    <3>. QED BY <3>1, <3>3 DEF OnItsWay
  <2>3. CASE request' = [request EXCEPT !.pc = "membership"]
    <3>1. request.pc = "guarding" BY <2>1 DEF StandsAt
    <3>2. PICK n \in 1 .. Len(Stack) : OnItsWay(n) BY <3>1 DEF ServedSound, UnderWay
    <3>3. /\ request'.pc = "membership" /\ request'.layer = request.layer
          /\ request'.guard = request.guard /\ request'.userId = request.userId
          /\ request'.call = request.call /\ request'.credential = request.credential
          /\ request'.body = request.body /\ request'.status = request.status
      BY <2>3 DEF HttpSound, Requests
    <3>4. \A i, g : Cleared(i, g)' => Cleared(i, g) BY <3>1, <3>3 DEF Cleared
    <3>5. OnItsWay(n)' BY <3>1, <3>2, <3>3, <3>4 DEF OnItsWay
    <3>. QED BY <3>3, <3>5 DEF ServedSound, Promised
  <2>4. \A status \in {"500", "down", "404"} : Promised(status) BY DEF Promised
  <2>. QED BY <2>1, <2>2, <2>3, <2>4, AnswerServes DEF Statuses
<1>7. CASE ReadMembership
  <2>1. PICK guard \in DOMAIN MinRole :
           /\ StandsAt("membership", guard)
           /\ Refuse("down") \/ Refuse("403") \/ Pass
    BY <1>7 DEF ReadMembership
  <2>2. guard # "requireAuth" /\ guard # "validateBody" BY DEF MinRole
  <2>3. Promised("403") /\ Promised("down") BY DEF Promised
  <2>4. CASE Pass BY <1>2, <2>1, <2>2, <2>4
  <2>. QED BY <2>1, <2>3, <2>4, AnswerServes DEF Statuses
<1>. QED BY <1>3, <1>4, <1>5, <1>6, <1>7

LEMMA PassOnServes == ASSUME HttpSound, ServedSound, PassOn PROVE ServedSound'
<1>1. request.pc = "guarding" /\ request.guard > Len(At.guards) BY DEF PassOn
<1>2. PICK n \in 1 .. Len(Stack) : OnItsWay(n) BY <1>1 DEF ServedSound, UnderWay
<1>3. /\ request.layer \in 1 .. Len(Stack) /\ request.layer \in Nat /\ request.layer <= n
      /\ request.layer \in LayersFrom(1, request.call)
  BY <1>1, <1>2, StackIs DEF OnItsWay, HttpSound, Requests, Places
<1>4. /\ Stack[n].handler # "next"
      /\ \A i \in LayersFrom(1, request.call) : i < n => Stack[i].handler = "next"
  BY <1>2 DEF OnItsWay, Serves
\* All guards of the layer are passed.
<1>5. ASSUME NEW guard, NEW p \in Posts(n, request.call, guard), p[1] <= request.layer
      PROVE  Cleared(p[1], p[2])
  <2>1. p[1] \in Nat /\ p[2] \in Nat /\ p[2] <= Len(Stack[p[1]].guards)
    BY PostIs, StackIs, GuardsAre
  <2>2. request.guard \in Nat BY DEF HttpSound, Requests
  <2>3. CASE p[1] < request.layer BY <2>3 DEF Cleared
  <2>4. CASE p[1] = request.layer
    <3>1. Len(At.guards) \in Nat BY <1>3, GuardsAre DEF At
    <3>. QED BY <1>1, <2>1, <2>2, <2>4, <3>1 DEF Cleared, At
  <2>. QED BY <1>3, <1>5, <2>1, <2>3, <2>4
<1>6. CASE At.handler = "next"
  <2>1. request.layer # n BY <1>4, <1>6 DEF At
  <2>. HIDE DEF Stack, Calls, Fits, Serves, Posts
  <2>2. /\ request'.pc = "routing" /\ request'.layer = request.layer + 1
        /\ request'.call = request.call /\ request'.credential = request.credential
        /\ request'.body = request.body /\ request'.userId = request.userId
        /\ request'.status = request.status
    BY <1>6 DEF PassOn, HttpSound, Requests
  <2>3. n \in Nat BY StackIs
  <2>4. ASSUME NEW guard, NEW p \in Posts(n, request.call, guard), Cleared(p[1], p[2])'
        PROVE  Cleared(p[1], p[2])
    <3>1. p[1] \in Nat BY PostIs, StackIs
    <3>. QED BY <1>3, <1>5, <2>2, <2>4, <3>1 DEF Cleared
  <2>5. OnItsWay(n)' BY <1>2, <1>3, <2>1, <2>2, <2>3, <2>4 DEF OnItsWay
  <2>. QED BY <2>2, <2>5 DEF ServedSound, Promised
<1>7. CASE At.handler # "next"
  <2>1. request.layer = n BY <1>3, <1>4, <1>7, StackIs DEF At
  <2>. HIDE DEF Stack, Calls, Fits, Serves, Posts
  <2>2. /\ request'.pc = "handling" /\ request'.layer = request.layer
        /\ request'.call = request.call /\ request'.credential = request.credential
        /\ request'.body = request.body /\ request'.userId = request.userId
        /\ request'.status = request.status
    BY <1>7 DEF PassOn, HttpSound, Requests
  <2>3. ASSUME NEW guard, NEW p \in Posts(n, request.call, guard), Cleared(p[1], p[2])'
        PROVE  Cleared(p[1], p[2])
    <3>1. p[1] \in Nat BY PostIs, StackIs
    <3>. QED BY <1>3, <1>5, <2>2, <2>3, <3>1 DEF Cleared
  <2>5. OnItsWay(n)' BY <1>2, <1>3, <2>1, <2>2, <2>3 DEF OnItsWay
  <2>. QED BY <2>2, <2>5 DEF ServedSound, Promised
<1>. QED BY <1>6, <1>7

\* In the controller: it is the one of the call, and every guard has been passed.
LEMMA AtItsController ==
    ASSUME HttpSound, ServedSound, request.pc = "handling"
    PROVE  \E n \in 1 .. Len(Stack) :
              /\ Fits(n, request.call) /\ At.handler = request.call.handler
              /\ Posts(n, request.call, "requireAuth") # {} => request.userId
              /\ Posts(n, request.call, "validateBody") # {} => request.body = "valid"
<1>1. PICK n \in 1 .. Len(Stack) : OnItsWay(n) BY DEF ServedSound, UnderWay
<1>2. request.layer = n BY <1>1 DEF OnItsWay
<1>3. \A guard : \A p \in Posts(n, request.call, guard) : Cleared(p[1], p[2])
  <2>. SUFFICES ASSUME NEW guard, NEW p \in Posts(n, request.call, guard)
                PROVE  Cleared(p[1], p[2])
    OBVIOUS
  <2>1. p[1] \in Nat /\ p[1] <= n /\ n \in Nat BY PostIs, StackIs
  <2>. QED BY <1>2, <2>1 DEF Cleared
<1>. QED BY <1>1, <1>2, <1>3 DEF OnItsWay, Fits, At

LEMMA StepsOfDoes == StepsOf(At.handler) = {Does[i] : i \in DOMAIN Does}
<1>. QED BY DEF StepsOf, Does, ToSet

LEMMA HandleServes == ASSUME HttpSound, ServedSound, Handle PROVE ServedSound'
<1>1. request.pc = "handling" BY DEF Handle
<1>2. PICK n \in 1 .. Len(Stack) :
         /\ Fits(n, request.call) /\ At.handler = request.call.handler
         /\ Posts(n, request.call, "requireAuth") # {} => request.userId
         /\ Posts(n, request.call, "validateBody") # {} => request.body = "valid"
  BY <1>1, AtItsController
<1>. DEFINE steps == StepsOf(request.call.handler)
            auth  == Posts(n, request.call, "requireAuth")
            body  == Posts(n, request.call, "validateBody")
<1>3. steps = {Does[i] : i \in DOMAIN Does} BY <1>2, StepsOfDoes
<1>4. /\ request.call.security \in Credentials \cup {"undocumented"}
      /\ request.call.security = "bearer" => auth # {}
      /\ request.call.security = "apiKey" => "key" \in steps
      /\ request.call.security = "internalToken" => "token" \in steps
      /\ request.call.body = "checked" => body # {} \/ "body" \in steps
      /\ "key" \in steps => request.call.security \in {"apiKey", "undocumented"}
      /\ "token" \in steps => request.call.security \in {"internalToken", "undocumented"}
      /\ "user" \in steps => auth # {}
  BY <1>2 DEF Fits
<1>5. /\ auth # {} => request.userId /\ request.credential = "bearer"
      /\ body # {} => request.body = "valid"
  BY <1>2 DEF ServedSound
<1>6. request.credential \in Credentials /\ request.body \in {"valid", "invalid"}
  BY DEF HttpSound, Requests
<1>. HIDE DEF steps, auth, body
<1>7. CASE Refusing # {}
  <2>. DEFINE step == Does[Min(Refusing)]
  <2>1. /\ Min(Refusing) \in Refusing /\ Refusals[step] \in {"401", "500"}
    BY <1>1, <1>7, RefusalIs
  <2>2. step \in steps /\ step \in {"token", "user", "body", "key"}
    <3>1. step \in DOMAIN Refusals /\ Min(Refusing) \in DOMAIN Does BY <2>1 DEF Refusing
    <3>2. step \in steps BY <1>3, <3>1
    <3>. HIDE DEF step
    <3>. QED BY <3>1, <3>2 DEF Refusals
  <2>3. Answer(Refusals[step]) BY <1>7 DEF Handle
  <2>. HIDE DEF step
  <2>4. Refusals[step] = "401" => request.credential # request.call.security
    <3>1. CASE step = "token" BY <1>4, <1>6, <2>2, <3>1 DEF Refusals, Credentials
    <3>2. CASE step = "user" BY <1>4, <1>5, <2>2, <3>2 DEF Refusals
    <3>3. CASE step = "key" BY <1>4, <1>6, <2>2, <3>3 DEF Refusals, Credentials
    <3>4. CASE step = "body" BY <3>4 DEF Refusals
    <3>. QED BY <2>2, <3>1, <3>2, <3>3, <3>4
  <2>5. Promised(Refusals[step]) /\ Refusals[step] \in Statuses BY <2>1, <2>4 DEF Promised, Statuses
  <2>. QED BY <2>3, <2>5, AnswerServes
<1>8. CASE Refusing = {}
  <2>1. ASSUME NEW step \in DOMAIN Refusals, step \in steps PROVE Refusals[step] = "none"
    BY <1>3, <1>8, <2>1 DEF Refusing
  <2>2. "key" \in steps => request.credential = "apiKey" BY <2>1 DEF Refusals
  <2>3. "token" \in steps => request.credential = "internalToken" BY <2>1 DEF Refusals
  <2>4. "body" \in steps => request.body # "invalid" BY <2>1 DEF Refusals
  <2>5. Promised("ok")
    BY <1>4, <1>5, <1>6, <2>2, <2>3, <2>4 DEF Promised, Credentials
  <2>6. \A status \in {"400", "404", "409", "500"} : Promised(status) BY DEF Promised
  <2>9. At.handler \in RefusesCallers => Promised("401")
    <3>1. RefusesCallers \subseteq Documented401 BY DEF RefusesCallers, Documented401
    <3>. QED BY <1>2, <3>1 DEF Promised
  <2>. DEFINE noted == CASE Contains(Does, "record")     -> {1}
                         [] Contains(Does, "recordSome") -> {0, 1}
                         [] OTHER                         -> {0}
  <2>7. noted \subseteq {0, 1} OBVIOUS
  <2>. HIDE DEF noted
  <2>8. \/ \E status \in {"ok", "400", "404", "409", "500"} : Answer(status)
        \/ At.handler \in RefusesCallers /\ Answer("401")
        \/ \E events \in noted :
              request' = [request EXCEPT !.pc = "answered", !.status = "ok", !.events = events]
    BY <1>8 DEF Handle, noted
  <2>. QED BY <2>5, <2>6, <2>7, <2>8, <2>9, AnswerServes DEF Statuses
<1>. QED BY <1>7, <1>8

LEMMA ServedStep == HttpSound /\ ServedSound /\ [HttpNext]_httpVars => ServedSound'
<1>. SUFFICES ASSUME HttpSound, ServedSound, [HttpNext]_httpVars PROVE ServedSound' OBVIOUS
<1>1. CASE UNCHANGED request
  <2>. HIDE DEF Stack, Calls, Fits, Serves, Posts
  <2>. QED BY <1>1 DEF ServedSound, Promised, UnderWay, OnItsWay, Cleared
<1>2. CASE Finish \/ ClientGone \/ RecordActivities
  <2>. HIDE DEF Stack, Calls
  <2>1. PICK pc \in {"recording", "done"} : request' = [request EXCEPT !.pc = pc]
    BY <1>2 DEF Finish, ClientGone, RecordActivities
  <2>2. /\ request'.pc = pc /\ request'.call = request.call
        /\ request'.credential = request.credential /\ request'.body = request.body
        /\ request'.userId = request.userId /\ request'.status = request.status
    BY <2>1 DEF HttpSound, Requests
  <2>. QED BY <2>2 DEF ServedSound, Promised, UnderWay
<1>3. CASE RoleChanges \/ ProjectGone BY <1>1, <1>3 DEF RoleChanges, ProjectGone
<1>4. CASE UNCHANGED httpVars BY <1>1, <1>4 DEF httpVars
<1>. QED
  BY <1>2, <1>3, <1>4, RouteServes, GuardsServe, PassOnServes, HandleServes DEF HttpNext

LEMMA SoundServes == HttpSound /\ ServedSound => DocsAreServed
<1>. SUFFICES ASSUME HttpSound, ServedSound PROVE DocsAreServed OBVIOUS
<1>1. request.pc = "handling" => At.handler = request.call.handler BY AtItsController
<1>2. (request.status = "403" => ~wasAdmin \/ project = "gone") /\ RefusedForAReason
  BY DEF HttpSound
<1>. HIDE DEF At
<1>. QED BY <1>1, <1>2 DEF DocsAreServed, ServedSound, Promised, RefusedForAReason

\* If the tables of routes and documents fit - every call meets its own controller and,
\* on the way to it, the guards and checks its document speaks of - then every request
\* is answered as DocsAreServed says, whatever other requests do to the caller's role
\* and to the project between its steps.
THEOREM OperationsAreServed == RoutesFit => (HttpSpec => []DocsAreServed)
<1>. SUFFICES ASSUME RoutesFit PROVE HttpSpec => []DocsAreServed OBVIOUS
<1>1. HttpInit => HttpSound /\ ServedSound BY HttpSoundInit, ServedInit
<1>2. HttpSound /\ ServedSound /\ [HttpNext]_httpVars => (HttpSound /\ ServedSound)'
  BY HttpSoundStep, ServedStep
<1>. QED BY <1>1, <1>2, SoundServes, PTL DEF HttpSpec

-----------------------------------------------------------------------------
(* Side by side                                                            *)

\* The four components share no state: whichever the behaviour is about, every one
\* keeps its types.
THEOREM ContentTypeCorrect == ContentSpec => []ContentTypeOK
<1>. DEFINE Sound == FlowsSound /\ ArtifactsSound /\ ListingsSound /\ HttpSound
<1>1. ContentInit => Sound
  BY FlowsTypeInit, SoundAtFirst, ListingsInitSound, HttpSoundInit DEF ContentInit
<1>2. Sound /\ [ContentNext]_ContentVars => Sound'
  <2>. SUFFICES ASSUME Sound, [ContentNext]_ContentVars PROVE Sound' OBVIOUS
  <2>1. /\ [FlowsNext]_flowVars /\ [ArtifactsNext]_artifactVars
        /\ [ListingsNext]_listingVars /\ [HttpNext]_httpVars
    BY DEF ContentNext, ContentVars
  <2>. QED BY <2>1, FlowsTypeStep, ArtifactsStepSound, ListingsStepSound, HttpSoundStep
<1>3. Sound => ContentTypeOK
  BY HttpSoundTypes DEF ContentTypeOK, FlowsSound, ArtifactsSound, ListingsSound
<1>. QED BY <1>1, <1>2, <1>3, PTL DEF ContentSpec
=============================================================================

----------------------- MODULE ScenarioReports_proofs -----------------------
(***************************************************************************)
(* For any reports, users and workers: a report gets one issue, is claimed *)
(* no more than MaxAttempts times, and is not given up in silence.  The    *)
(* argument for the first: whoever works on a report that was not reopened *)
(* under a claim does so alone, while its row is CREATING, and no other    *)
(* status but CREATED goes with an issue (ClaimsAreSound).                 *)
(***************************************************************************)
EXTENDS ScenarioReports, FiniteSetTheorems, TLAPS

\* A worker holds a report from its claim to its patch.
Holds(w, r) == work[w].pc \in {"deliver", "patch"} /\ work[w].rep = r

\* It has made the issue and not yet said so.
HasMade(w) == work[w].pc = "patch" /\ work[w].outcome = "created"

ClaimIsSound(r) ==
    /\ \A w \in Workers : Holds(w, r) => /\ report[r].status = "CREATING"
                                         /\ issues[r] = 0 \/ HasMade(w)
    /\ \A v, w \in Workers : Holds(v, r) /\ Holds(w, r) => v = w
    /\ report[r].status \notin {"CREATING", "CREATED"} => issues[r] = 0
    /\ issues[r] <= 1

ClaimsAreSound ==
    \A r \in Reports : IF r \in Manual THEN issues[r] = 0
                       ELSE r \notin overrun => ClaimIsSound(r)

-----------------------------------------------------------------------------
(* Type correctness                                                        *)

\* A new row has a place in the order of creation.
LEMMA AppendType ==
  ASSUME TypeOK, NEW r \in Reports, Append(r)
  PROVE  born' \in [Reports -> Nat]
<1> DEFINE C == {q \in Reports : Exists(q)}
<1>1. IsFiniteSet(C) BY FS_Subset, ReportsAssumption
<1>2. born' = [born EXCEPT ![r] = Cardinality(C) + 1] BY DEF Append
<1> HIDE DEF C
<1>3. Cardinality(C) \in Nat BY <1>1, FS_CardinalityType
<1> QED BY <1>2, <1>3 DEF TypeOK

\* So does a row whose status changes stay a row.
LEMMA StatusType ==
  ASSUME TypeOK, NEW r \in Reports, NEW status \in ReportStatus, SetStatus(r, status)
  PROVE  /\ report' \in [Reports -> Row]
         /\ report'[r] = [status |-> status, attempts |-> report[r].attempts]
         /\ \A q \in Reports \ {r} : report'[q] = report[q]
<1>1. report[r] \in Row BY DEF TypeOK
<1>2. [report[r] EXCEPT !.status = status] = [status |-> status, attempts |-> report[r].attempts]
  BY <1>1 DEF Row
<1> QED BY <1>1, <1>2 DEF SetStatus, TypeOK, Row

\* What a worker that is busy holds.
LEMMA TaskTypes ==
  ASSUME TypeOK, NEW w \in Workers, work[w].pc # "idle"
  PROVE  /\ work[w] \in Task
         /\ work[w].rep \in Reports
         /\ work[w].pc = "patch" => work[w].outcome \in {"created", "failed"}
         /\ work[w].pc = "notify" => work[w].row \in Row
<1>1. work[w] \in Task BY DEF TypeOK, Idle
<1> QED BY <1>1 DEF Task

\* A request in flight is about a report.
LEMMA UserTypes ==
  ASSUME TypeOK, NEW u \in Users, user[u].pc # "idle"
  PROVE  user[u].rep \in Reports /\ (user[u].pc = "enqueue" => user[u].rep \in Manual)
<1>1. user[u] \in UserRequest BY DEF TypeOK, Idle
<1> QED BY <1>1, ReportsAssumption DEF UserRequest

\* A claimed row: CREATING, one attempt more, others as they were.
LEMMA ClaimedRow ==
  ASSUME TypeOK, NEW r \in Reports, report' = [report EXCEPT ![r] = Claimed(@)]
  PROVE  /\ report' \in [Reports -> Row]
         /\ report'[r].status = "CREATING"
         /\ report'[r].attempts = report[r].attempts + 1
         /\ \A q \in Reports \ {r} : report'[q] = report[q]
<1>1. report[r] \in Row BY DEF TypeOK
<1>2. Claimed(report[r]) \in Row BY <1>1 DEF Claimed, Row, ReportStatus
<1> QED BY <1>2 DEF TypeOK, Claimed

LEMMA InitType == Init => TypeOK
  BY DEF Init, TypeOK, Row, Idle

\* Every step keeps the types.
LEMMA StepType == TypeOK /\ [Next]_vars => TypeOK'
<1> SUFFICES ASSUME TypeOK, [Next]_vars PROVE TypeOK'
  OBVIOUS
<1> USE DEF history
<1>1. ASSUME NEW u \in Users, NEW r \in Reports, CreateReportRead(u, r) PROVE TypeOK'
  BY <1>1 DEF CreateReportRead, Await, TypeOK, UserRequest
<1>2. ASSUME NEW u \in Users, NEW r \in Reports, CreateManualReport(u, r) PROVE TypeOK'
  <2>1. report' \in [Reports -> Row] BY <1>2, StatusType DEF CreateManualReport, ReportStatus
  <2>2. born' \in [Reports -> Nat] BY <1>2, AppendType DEF CreateManualReport, TypeOK
  <2>3. user' \in [Users -> {Idle} \cup UserRequest]
    BY <1>2 DEF CreateManualReport, Await, TypeOK, UserRequest
  <2> QED BY <1>2, <2>1, <2>2, <2>3 DEF CreateManualReport, TypeOK
<1>3. ASSUME NEW u \in Users, CreateReport(u) PROVE TypeOK'
  <2>1. user[u].rep \in Reports BY <1>3, UserTypes DEF CreateReport
  <2>2. report' \in [Reports -> Row] BY <1>3, <2>1, StatusType DEF CreateReport, ReportStatus, TypeOK
  <2>3. born' \in [Reports -> Nat] BY <1>3, <2>1, AppendType DEF CreateReport, TypeOK
  <2> QED BY <1>3, <2>2, <2>3 DEF CreateReport, Answer, TypeOK
<1>4. ASSUME NEW u \in Users, ReopenReport(u) PROVE TypeOK'
  <2>1. user[u].rep \in Reports BY <1>4, UserTypes DEF ReopenReport
  <2>2. report' \in [Reports -> Row] BY <1>4, <2>1, StatusType DEF ReopenReport, ReportStatus
  <2> QED BY <1>4, <2>1, <2>2 DEF ReopenReport, Answer, TypeOK
<1>5. ASSUME NEW u \in Users, EnqueueManual(u) PROVE TypeOK'
  <2>1. user[u].rep \in Manual BY <1>5, UserTypes DEF EnqueueManual
  <2> QED BY <1>5, <2>1 DEF EnqueueManual, Answer, TypeOK
<1>6. ASSUME NEW p \in Pollers, ClaimRead(p) PROVE TypeOK'
  <2>1. PICK r \in Candidates : Goto(p, [pc |-> "claim", rep |-> r]) BY <1>6 DEF ClaimRead
  <2>2. r \in Reports BY DEF Candidates, Oldest, Window
  <2>3. [pc |-> "claim", rep |-> r] \in Task BY <2>2 DEF Task
  <2> QED BY <1>6, <2>1, <2>3 DEF ClaimRead, Goto, TypeOK
<1>7. ASSUME NEW p \in Pollers, NEW r \in Reports, ClaimNamed(p, r) PROVE TypeOK'
  <2>1. [pc |-> "claim", rep |-> r] \in Task BY DEF Task
  <2> QED BY <1>7, <2>1 DEF ClaimNamed, Goto, TypeOK
<1>8. ASSUME NEW p \in Pollers, ClaimWrite(p) PROVE TypeOK'
  <2>1. p \in Workers BY DEF Workers
  <2>2. work[p].rep \in Reports BY <1>8, <2>1, TaskTypes DEF ClaimWrite
  <2>3. [pc |-> "deliver", rep |-> work[p].rep] \in Task BY <2>2 DEF Task
  <2>4. report' \in [Reports -> Row] BY <1>8, <2>2, ClaimedRow DEF ClaimWrite, TypeOK
  <2> QED BY <1>8, <2>3, <2>4 DEF ClaimWrite, Goto, TypeOK
<1>9. ASSUME NEW d \in Docgen, NEW r \in Reports, TakeJob(d, r) PROVE TypeOK'
  <2>1. [pc |-> "deliver", rep |-> r] \in Task BY DEF Task
  <2> QED BY <1>9, <2>1 DEF TakeJob, Goto, TypeOK
<1>10. ASSUME NEW w \in Workers, Deliver(w) PROVE TypeOK'
  <2>1. work[w].rep \in Reports BY <1>10, TaskTypes DEF Deliver
  <2>2. PICK outcome \in {"created", "failed"} :
          Goto(w, [pc |-> "patch", rep |-> work[w].rep, outcome |-> outcome])
    BY <1>10 DEF Deliver
  <2>3. [pc |-> "patch", rep |-> work[w].rep, outcome |-> outcome] \in Task BY <2>1 DEF Task
  <2>4. work' \in [Workers -> {Idle} \cup Task] BY <2>2, <2>3 DEF Goto, TypeOK
  <2>5. issues' \in [Reports -> Nat] BY <1>10, <2>1 DEF Deliver, TypeOK
  <2> QED BY <1>10, <2>4, <2>5 DEF Deliver, TypeOK
<1>11. ASSUME NEW w \in Workers, Die(w) PROVE TypeOK'
  BY <1>11 DEF Die, Goto, TypeOK
<1>12. ASSUME NEW w \in Workers, Patch(w) PROVE TypeOK'
  <2> DEFINE r == work[w].rep
             status == ToDbReportStatus(work[w].outcome)
             row == [status |-> status, attempts |-> report[r].attempts]
  <2>1. r \in Reports BY <1>12, TaskTypes DEF Patch
  <2>2. status \in ReportStatus BY DEF ToDbReportStatus, ReportStatus
  <2>3. report[r] \in Row BY <2>1 DEF TypeOK
  <2>4. row \in Row BY <2>2, <2>3 DEF Row
  <2>5. [pc |-> "notify", rep |-> r, row |-> row] \in Task BY <2>1, <2>4 DEF Task
  <2>6. SetStatus(r, status) /\ Goto(w, [pc |-> "notify", rep |-> r, row |-> row])
    BY <1>12 DEF Patch
  <2> HIDE DEF row, status
  <2>7. report' \in [Reports -> Row] BY <2>1, <2>2, <2>6, StatusType
  <2>8. work' \in [Workers -> {Idle} \cup Task] BY <2>5, <2>6 DEF Goto, TypeOK
  <2> QED BY <1>12, <2>7, <2>8 DEF Patch, TypeOK
<1>13. ASSUME NEW w \in Workers, Notify(w) PROVE TypeOK'
  <2>1. work[w].rep \in Reports BY <1>13, TaskTypes DEF Notify
  <2> QED BY <1>13, <2>1 DEF Notify, Goto, TypeOK
<1>14. ASSUME UNCHANGED vars PROVE TypeOK'
  BY <1>14 DEF vars, TypeOK
<1>15. ASSUME NEW u \in Users, EnqueueManualThrows(u) PROVE TypeOK'
  BY <1>15 DEF EnqueueManualThrows, Answer, TypeOK
<1> QED
  BY <1>1, <1>2, <1>3, <1>4, <1>5, <1>6, <1>7, <1>8, <1>9, <1>10, <1>11, <1>12, <1>13, <1>14, <1>15
     DEF Next, User, Claim, Finish

\* Spec keeps its state well typed, the types of every variable at once.
THEOREM TypeCorrect == Spec => []TypeOK
<1>1. QED BY InitType, StepType, PTL DEF Spec

-----------------------------------------------------------------------------
(* One issue                                                               *)

\* A step that leaves the row and the issues of a report alone, and gives it to
\* nobody, keeps its claims sound.
LEMMA SoundFrame ==
  ASSUME NEW r \in Reports, ClaimIsSound(r), report'[r] = report[r], issues'[r] = issues[r],
         \A w \in Workers : Holds(w, r)' => Holds(w, r) /\ work'[w] = work[w]
  PROVE  ClaimIsSound(r)'
  BY DEF ClaimIsSound, Holds, HasMade

\* So does one that changes the row from one status nobody works in to another.
LEMMA SoundStatus ==
  ASSUME NEW r \in Reports, ClaimIsSound(r),
         report[r].status \notin {"CREATING", "CREATED"},
         work' = work, issues'[r] = issues[r]
  PROVE  ClaimIsSound(r)'
<1>1. issues[r] = 0 /\ \A w \in Workers : ~Holds(w, r) BY DEF ClaimIsSound
<1>2. \A w \in Workers : ~Holds(w, r)' BY <1>1 DEF Holds
<1> QED BY <1>1, <1>2 DEF ClaimIsSound

\* Requests for reports keep the claims of each report sound.
LEMMA UserSound ==
  ASSUME TypeOK, NEW u \in Users, User(u), NEW r \in Reports \ Manual,
         r \notin overrun', ClaimIsSound(r)
  PROVE  ClaimIsSound(r)'
<1> USE DEF history
<1>1. work' = work /\ issues' = issues
  BY DEF User, CreateReportRead, CreateManualReport, CreateReport, ReopenReport, EnqueueManual,
         EnqueueManualThrows
<1>2. CASE report'[r] = report[r]
  <2>1. \A w \in Workers : Holds(w, r)' => Holds(w, r) /\ work'[w] = work[w]
    BY <1>1 DEF Holds
  <2> QED BY <1>1, <1>2, <2>1, SoundFrame
<1>3. CASE report'[r] # report[r]
  <2>1. CASE CreateReport(u)
    <3>1. user[u].rep \in Reports BY <2>1, UserTypes DEF CreateReport
    <3>2. r = user[u].rep /\ ~Exists(r)
      BY <1>3, <2>1, <3>1, StatusType DEF CreateReport, ReportStatus
    <3> QED BY <1>1, <3>2, SoundStatus DEF Exists
  <2>2. CASE ReopenReport(u)
    <3>1. user[u].rep \in Reports BY <2>2, UserTypes DEF ReopenReport
    <3>2. r = user[u].rep
      BY <1>3, <2>2, <3>1, StatusType DEF ReopenReport, ReportStatus
    <3>3. report[r].status = "FAILED" BY <2>2, <3>2 DEF ReopenReport
    <3> QED BY <1>1, <3>3, SoundStatus
  <2>3. CASE \E q \in Reports : CreateManualReport(u, q)
    <3>1. PICK q \in Reports : CreateManualReport(u, q) BY <2>3
    <3>2. q # r BY <3>1 DEF CreateManualReport
    <3> QED BY <1>3, <3>1, <3>2, StatusType DEF CreateManualReport, ReportStatus
  <2> QED
    BY <1>3, <2>1, <2>2, <2>3
       DEF User, CreateReportRead, EnqueueManual, EnqueueManualThrows
<1> QED BY <1>2, <1>3

\* So do claims: the one that succeeds finds nobody at work on the report.
LEMMA ClaimSound ==
  ASSUME TypeOK, NEW p \in Pollers, Claim(p) \/ \E q \in Reports : ClaimNamed(p, q),
         NEW r \in Reports \ Manual, ClaimIsSound(r)
  PROVE  ClaimIsSound(r)'
<1> USE DEF history
<1>1. p \in Workers BY DEF Workers
<1>2. CASE ClaimRead(p) \/ \E q \in Reports : ClaimNamed(p, q)
  <2>1. PICK q : Goto(p, [pc |-> "claim", rep |-> q]) BY <1>2 DEF ClaimRead, ClaimNamed
  <2>2. \A w \in Workers : Holds(w, r)' => Holds(w, r) /\ work'[w] = work[w]
    BY <2>1 DEF Goto, Holds, TypeOK
  <2> QED BY <1>2, <2>2, SoundFrame DEF ClaimRead, ClaimNamed
<1>3. CASE ClaimWrite(p)
  <2> DEFINE q == work[p].rep
  <2>1. q \in Reports BY <1>1, <1>3, TaskTypes DEF ClaimWrite
  <2>2. issues' = issues BY <1>3 DEF ClaimWrite
  <2>3. CASE ~Claimable(q)
    <3>1. report' = report /\ Goto(p, Idle) BY <1>3, <2>3 DEF ClaimWrite
    <3>2. \A w \in Workers : Holds(w, r)' => Holds(w, r) /\ work'[w] = work[w]
      BY <3>1 DEF Goto, Holds, TypeOK, Idle
    <3> QED BY <2>2, <3>1, <3>2, SoundFrame
  <2>4. CASE Claimable(q)
    <3>1. /\ report' = [report EXCEPT ![q] = Claimed(@)]
          /\ Goto(p, [pc |-> "deliver", rep |-> q])
      BY <1>3, <2>4 DEF ClaimWrite
    <3>2. work' = [work EXCEPT ![p] = [pc |-> "deliver", rep |-> q]] BY <3>1 DEF Goto
    <3>3. CASE q # r
      <4>1. report'[r] = report[r] BY <2>1, <3>1, <3>3, ClaimedRow
      <4>2. \A w \in Workers : Holds(w, r)' => Holds(w, r) /\ work'[w] = work[w]
        BY <3>2, <3>3 DEF Holds, TypeOK
      <4> QED BY <2>2, <4>1, <4>2, SoundFrame
    <3>4. CASE q = r
      <4>1. report[r].status \in {"PENDING", "FAILED"} BY <2>4, <3>4 DEF Claimable
      <4>2. issues[r] = 0 /\ \A w \in Workers : ~Holds(w, r) BY <4>1 DEF ClaimIsSound
      <4>3. report'[r].status = "CREATING" BY <2>1, <3>1, <3>4, ClaimedRow
      <4>4. \A w \in Workers : Holds(w, r)' => w = p
        BY <3>2, <4>2 DEF Holds, TypeOK
      <4> QED BY <2>2, <4>2, <4>3, <4>4 DEF ClaimIsSound
    <3> QED BY <3>3, <3>4
  <2> QED BY <2>3, <2>4
<1> QED BY <1>2, <1>3 DEF Claim

\* So do deliveries: who makes an issue holds the report alone, before any.
LEMMA DeliverySound ==
  ASSUME TypeOK, NEW w \in Workers, Finish(w) \/ Die(w), NEW r \in Reports \ Manual,
         ClaimIsSound(r)
  PROVE  ClaimIsSound(r)'
<1> USE DEF history
<1> DEFINE q == work[w].rep
<1>1. q \in Reports BY TaskTypes DEF Finish, Die, Deliver, Patch, Notify
<1>2. CASE Notify(w) \/ Die(w)
  <2>1. report' = report /\ issues' = issues /\ Goto(w, Idle) BY <1>2 DEF Notify, Die
  <2>2. \A v \in Workers : Holds(v, r)' => Holds(v, r) /\ work'[v] = work[v]
    BY <2>1 DEF Goto, Holds, TypeOK, Idle
  <2> QED BY <2>1, <2>2, SoundFrame
<1>3. CASE Deliver(w)
  <2>1. PICK outcome \in {"created", "failed"} :
          /\ Goto(w, [pc |-> "patch", rep |-> q, outcome |-> outcome])
          /\ issues' = IF outcome = "created" /\ q \notin Manual
                         THEN [issues EXCEPT ![q] = @ + 1] ELSE issues
    BY <1>3 DEF Deliver
  <2>2. work' = [work EXCEPT ![w] = [pc |-> "patch", rep |-> q, outcome |-> outcome]]
    BY <2>1 DEF Goto
  <2>3. report' = report BY <1>3 DEF Deliver
  <2>4. CASE q # r
    <3>1. issues'[r] = issues[r] BY <2>1, <2>4 DEF TypeOK
    <3>2. \A v \in Workers : Holds(v, r)' => Holds(v, r) /\ work'[v] = work[v]
      BY <2>2, <2>4 DEF Holds, TypeOK
    <3> QED BY <2>3, <3>1, <3>2, SoundFrame
  <2>5. CASE q = r
    <3>1. Holds(w, r) /\ ~HasMade(w) BY <1>3, <2>5 DEF Deliver, Holds, HasMade
    <3>2. report[r].status = "CREATING" /\ issues[r] = 0 BY <3>1 DEF ClaimIsSound
    <3>3. \A v \in Workers : Holds(v, r)' => v = w
      BY <2>2, <3>1 DEF ClaimIsSound, Holds, TypeOK
    <3>4. work'[w] = [pc |-> "patch", rep |-> q, outcome |-> outcome] BY <2>2 DEF TypeOK
    <3>5. issues'[r] = IF outcome = "created" THEN 1 ELSE 0
      BY <2>1, <2>5, <3>2 DEF TypeOK
    <3>6. issues'[r] = 0 \/ HasMade(w)' BY <3>4, <3>5 DEF HasMade
    <3>7. issues'[r] <= 1 BY <3>5
    <3> QED BY <2>3, <3>2, <3>3, <3>6, <3>7 DEF ClaimIsSound
  <2> QED BY <2>4, <2>5
<1>4. CASE Patch(w)
  <2> DEFINE status == ToDbReportStatus(work[w].outcome)
  <2>1. status \in ReportStatus BY DEF ToDbReportStatus, ReportStatus
  <2>2. SetStatus(q, status) /\ issues' = issues BY <1>4 DEF Patch
  <2>3. PICK row : work' = [work EXCEPT ![w] = [pc |-> "notify", rep |-> q, row |-> row]]
    BY <1>4 DEF Patch, Goto
  <2>4. \A v \in Workers : Holds(v, r)' => v # w /\ Holds(v, r) /\ work'[v] = work[v]
    BY <2>3 DEF Holds, TypeOK
  <2> HIDE DEF status
  <2>5. CASE q # r
    <3>1. report'[r] = report[r] BY <1>1, <2>1, <2>2, <2>5, StatusType
    <3> QED BY <2>2, <2>4, <3>1, SoundFrame
  <2>6. CASE q = r
    <3>1. Holds(w, r) BY <1>4, <2>6 DEF Patch, Holds
    <3>2. \A v \in Workers : ~Holds(v, r)' BY <2>4, <3>1 DEF ClaimIsSound
    <3>3. report'[r].status = status
      <4>1. report'[q] = [status |-> status, attempts |-> report[q].attempts]
        BY <1>1, <2>1, <2>2, StatusType
      <4> QED BY <2>6, <4>1
    <3>4. status \in {"CREATED", "FAILED"} BY DEF status, ToDbReportStatus
    <3>5. status = "CREATED" \/ issues[r] = 0
      BY <1>4, <3>1 DEF ClaimIsSound, HasMade, status, ToDbReportStatus
    <3>6. issues[r] <= 1 BY DEF ClaimIsSound
    <3> QED BY <2>2, <3>2, <3>3, <3>4, <3>5, <3>6 DEF ClaimIsSound
  <2> QED BY <2>5, <2>6
<1> QED BY <1>2, <1>3, <1>4 DEF Finish

\* Every step keeps the claims of all reports sound.
LEMMA SoundStep == TypeOK /\ ClaimsAreSound /\ [Next]_vars => ClaimsAreSound'
<1> SUFFICES ASSUME TypeOK, ClaimsAreSound, [Next]_vars, NEW r \in Reports
             PROVE  IF r \in Manual THEN issues'[r] = 0
                    ELSE r \notin overrun' => ClaimIsSound(r)'
  BY DEF ClaimsAreSound
<1> USE DEF history
<1>1. CASE r \in Manual
  <2>1. issues[r] = 0 BY <1>1 DEF ClaimsAreSound
  <2>2. ASSUME NEW w \in Workers, Deliver(w) PROVE issues'[r] = issues[r]
    BY <1>1, <2>2 DEF Deliver, TypeOK
  <2>3. issues'[r] = issues[r]
    BY <2>2 DEF Next, vars, User, Claim, Finish, CreateReportRead, CreateManualReport, CreateReport,
       ReopenReport, EnqueueManual, EnqueueManualThrows, ClaimRead, ClaimNamed, ClaimWrite,
       TakeJob, Patch, Notify, Die
  <2> QED BY <1>1, <2>1, <2>3
<1>2. ASSUME r \notin Manual, r \notin overrun' PROVE ClaimIsSound(r)'
  <2>1. overrun \subseteq overrun'
    BY DEF Next, vars, User, Claim, Finish, CreateReportRead, CreateManualReport, CreateReport,
       ReopenReport, EnqueueManual, EnqueueManualThrows, ClaimRead, ClaimNamed, ClaimWrite,
       TakeJob, Deliver, Patch, Notify, Die
  <2>2. ClaimIsSound(r) BY <1>2, <2>1 DEF ClaimsAreSound
  <2>3. CASE \E u \in Users : User(u) BY <1>2, <2>2, <2>3, UserSound
  <2>4. CASE \E p \in Pollers : Claim(p) \/ \E q \in Reports : ClaimNamed(p, q)
    BY <1>2, <2>2, <2>4, ClaimSound
  <2>5. CASE \E d \in Docgen, q \in Reports : TakeJob(d, q)
    <3>1. PICK d \in Docgen, q \in Reports : TakeJob(d, q) BY <2>5
    <3>2. q # r BY <1>2, <3>1 DEF TakeJob, TypeOK
    <3>3. \A w \in Workers : Holds(w, r)' => Holds(w, r) /\ work'[w] = work[w]
      BY <3>1, <3>2 DEF TakeJob, Goto, Holds, TypeOK
    <3> QED BY <2>2, <3>1, <3>3, SoundFrame DEF TakeJob
  <2>6. CASE \E w \in Workers : Finish(w) \/ Die(w) BY <1>2, <2>2, <2>6, DeliverySound
  <2>7. CASE UNCHANGED vars
    <3>1. report' = report /\ issues' = issues /\ work' = work BY <2>7 DEF vars
    <3>2. \A w \in Workers : Holds(w, r)' => Holds(w, r) /\ work'[w] = work[w]
      BY <3>1 DEF Holds
    <3> QED BY <2>2, <3>1, <3>2, SoundFrame
  <2> QED BY <2>3, <2>4, <2>5, <2>6, <2>7 DEF Next
<1> QED BY <1>1, <1>2

\* A scenario gets one issue, for any number of workers that claim, retry and die.
THEOREM OneIssueEach == Spec => []OneIssue
<1>1. Init => ClaimsAreSound
  BY DEF Init, ClaimsAreSound, ClaimIsSound, Holds, Idle
<1>2. TypeOK /\ ClaimsAreSound => OneIssue
  BY DEF TypeOK, ClaimsAreSound, ClaimIsSound, OneIssue
<1>3. QED BY <1>1, <1>2, InitType, StepType, SoundStep, PTL DEF Spec

-----------------------------------------------------------------------------
(* The limit, and the mail at its end                                      *)

\* Steps other than a claim leave the attempts of every report alone.
LEMMA AttemptsFrame ==
  ASSUME TypeOK, [Next]_vars, NEW r \in Reports
  PROVE  \/ report'[r].attempts = report[r].attempts
         \/ Claimable(r) /\ report'[r] = Claimed(report[r])
<1> USE DEF history
<1>1. CASE UNCHANGED report BY <1>1
<1>2. ASSUME NEW q \in Reports, NEW status \in ReportStatus, SetStatus(q, status)
      PROVE  report'[r].attempts = report[r].attempts
  <2>1. /\ report'[q] = [status |-> status, attempts |-> report[q].attempts]
        /\ \A p \in Reports \ {q} : report'[p] = report[p]
    BY <1>2, StatusType
  <2>2. CASE r = q BY <2>1, <2>2
  <2>3. CASE r # q BY <2>1, <2>3
  <2> QED BY <2>2, <2>3
<1>3. ASSUME NEW p \in Pollers, ClaimWrite(p)
      PROVE  \/ report'[r] = report[r]
             \/ Claimable(r) /\ report'[r] = Claimed(report[r])
  <2>1. p \in Workers BY DEF Workers
  <2>2. work[p].rep \in Reports BY <1>3, <2>1, TaskTypes DEF ClaimWrite
  <2>3. \/ UNCHANGED report
        \/ /\ Claimable(work[p].rep)
           /\ report' = [report EXCEPT ![work[p].rep] = Claimed(@)]
    BY <1>3 DEF ClaimWrite
  <2>4. CASE r = work[p].rep BY <2>3, <2>4 DEF TypeOK
  <2>5. CASE r # work[p].rep BY <2>2, <2>3, <2>5 DEF TypeOK
  <2> QED BY <2>4, <2>5
<1>4. ASSUME NEW u \in Users, User(u) PROVE report'[r].attempts = report[r].attempts
  <2>1. "PENDING" \in ReportStatus BY DEF ReportStatus
  <2>2. CASE CreateReport(u)
    <3>1. user[u].rep \in Reports BY <2>2, UserTypes DEF CreateReport
    <3> QED BY <1>1, <1>2, <2>1, <2>2, <3>1 DEF CreateReport
  <2>3. CASE ReopenReport(u)
    <3>1. user[u].rep \in Reports BY <2>3, UserTypes DEF ReopenReport
    <3> QED BY <1>2, <2>1, <2>3, <3>1 DEF ReopenReport
  <2>4. ASSUME NEW q \in Reports, CreateManualReport(u, q)
        PROVE  report'[r].attempts = report[r].attempts
    BY <1>2, <2>1, <2>4 DEF CreateManualReport
  <2> QED BY <1>1, <1>4, <2>2, <2>3, <2>4
     DEF User, CreateReportRead, EnqueueManual, EnqueueManualThrows
<1>5. ASSUME NEW w \in Workers, Patch(w) PROVE report'[r].attempts = report[r].attempts
  <2>1. work[w].rep \in Reports BY <1>5, TaskTypes DEF Patch
  <2>2. ToDbReportStatus(work[w].outcome) \in ReportStatus BY DEF ToDbReportStatus, ReportStatus
  <2> QED BY <1>2, <1>5, <2>1, <2>2 DEF Patch
<1>6. ASSUME NEW w \in Workers, Deliver(w) \/ Notify(w) \/ Die(w) PROVE UNCHANGED report
  BY <1>6 DEF Deliver, Notify, Die
<1>7. ASSUME NEW p \in Pollers, NEW q \in Reports, ClaimRead(p) \/ ClaimNamed(p, q)
      PROVE  UNCHANGED report
  BY <1>7 DEF ClaimRead, ClaimNamed
<1> QED
  BY <1>1, <1>3, <1>4, <1>5, <1>6, <1>7 DEF Next, vars, Claim, Finish, TakeJob, ClaimRead

\* The limit holds for claims that were read before the last attempt was used, and
\* after a report was asked for again.
THEOREM AttemptsLimited == Spec => []AttemptsBounded
<1>1. Init => AttemptsBounded
  BY ReportsAssumption DEF Init, AttemptsBounded
<1>2. TypeOK /\ AttemptsBounded /\ [Next]_vars => AttemptsBounded'
  <2> SUFFICES ASSUME TypeOK, AttemptsBounded, [Next]_vars, NEW r \in Reports
               PROVE  report'[r].attempts <= MaxAttempts
    BY DEF AttemptsBounded
  <2>1. report[r].attempts \in Nat BY DEF TypeOK, Row
  <2>2. CASE report'[r].attempts = report[r].attempts BY <2>2 DEF AttemptsBounded
  <2>3. CASE Claimable(r) /\ report'[r] = Claimed(report[r])
    BY <2>1, <2>3, ReportsAssumption DEF Claimable, Claimed
  <2> QED BY <2>2, <2>3, AttemptsFrame
<1>3. QED BY <1>1, <1>2, InitType, StepType, PTL DEF Spec

\* A report that is given up has a worker about to say so, or was told of.
Known(r) ==
    GivenUp(report[r]) =>
        \/ r \in told \cup unsent
        \/ \E w \in Workers : work[w].pc = "notify" /\ work[w].rep = r /\ GivenUp(work[w].row)

\* A step that gives no report up and lets notifications stand keeps it.
LEMMA KnownFrame ==
  ASSUME NEW r \in Reports, Known(r), report'[r] = report[r] \/ ~GivenUp(report'[r]),
         told \subseteq told', unsent \subseteq unsent',
         \A w \in Workers : work[w].pc = "notify" => work'[w] = work[w]
  PROVE  Known(r)'
<1>1. CASE ~GivenUp(report'[r]) BY <1>1 DEF Known
<1>2. CASE report'[r] = report[r] /\ GivenUp(report'[r])
  <2>1. CASE r \in told \cup unsent BY <2>1 DEF Known
  <2>2. ASSUME NEW w \in Workers,
               work[w].pc = "notify" /\ work[w].rep = r /\ GivenUp(work[w].row)
        PROVE  Known(r)'
    <3>1. work'[w].pc = "notify" /\ work'[w].rep = r /\ GivenUp(work'[w].row) BY <2>2
    <3> QED BY <3>1 DEF Known
  <2> QED BY <1>2, <2>1, <2>2 DEF Known
<1> QED BY <1>1, <1>2

\* Every step keeps it: a patch that gives a report up owes a notification.
LEMMA KnownStep ==
  ASSUME TypeOK, [Next]_vars, NEW r \in Reports, Known(r)
  PROVE  Known(r)'
<1> USE DEF history
<1>1. ASSUME NEW q \in Reports, SetStatus(q, "PENDING")
      PROVE  report'[r] = report[r] \/ ~GivenUp(report'[r])
  <2>1. report'[q].status = "PENDING" /\ \A p \in Reports \ {q} : report'[p] = report[p]
    <3>1. "PENDING" \in ReportStatus BY DEF ReportStatus
    <3>2. report'[q] = [status |-> "PENDING", attempts |-> report[q].attempts]
      BY <1>1, <3>1, StatusType
    <3> QED BY <1>1, <3>1, <3>2, StatusType
  <2>2. CASE r = q BY <2>1, <2>2 DEF GivenUp
  <2>3. CASE r # q BY <2>1, <2>3
  <2> QED BY <2>2, <2>3
<1>2. ASSUME NEW u \in Users, User(u) PROVE Known(r)'
  <2>1. work' = work /\ told' = told /\ unsent' = unsent
    BY <1>2 DEF User, CreateReportRead, CreateManualReport, CreateReport, ReopenReport,
                EnqueueManual, EnqueueManualThrows
  <2>2. report'[r] = report[r] \/ ~GivenUp(report'[r])
    <3>1. CASE CreateReport(u)
      <4>1. user[u].rep \in Reports BY <3>1, UserTypes DEF CreateReport
      <4> QED BY <1>1, <3>1, <4>1 DEF CreateReport
    <3>2. CASE ReopenReport(u)
      <4>1. user[u].rep \in Reports BY <3>2, UserTypes DEF ReopenReport
      <4> QED BY <1>1, <3>2, <4>1 DEF ReopenReport
    <3>3. ASSUME NEW q \in Reports, CreateManualReport(u, q)
          PROVE  report'[r] = report[r] \/ ~GivenUp(report'[r])
      BY <1>1, <3>3 DEF CreateManualReport
    <3> QED BY <1>2, <3>1, <3>2, <3>3
       DEF User, CreateReportRead, EnqueueManual, EnqueueManualThrows
  <2> QED BY <2>1, <2>2, KnownFrame
<1>3. ASSUME NEW w \in Workers, NEW task, Goto(w, task), work[w].pc # "notify",
             told' = told, unsent' = unsent,
             report'[r] = report[r] \/ ~GivenUp(report'[r])
      PROVE  Known(r)'
  <2>1. \A v \in Workers : work[v].pc = "notify" => work'[v] = work[v]
    BY <1>3 DEF Goto, TypeOK
  <2> QED BY <1>3, <2>1, KnownFrame
<1>4. ASSUME NEW p \in Pollers, NEW q \in Reports, ClaimRead(p) \/ ClaimNamed(p, q)
      PROVE  Known(r)'
  <2>1. PICK task : Goto(p, task) BY <1>4 DEF ClaimRead, ClaimNamed
  <2>2. p \in Workers /\ work[p].pc # "notify" BY <1>4 DEF Workers, ClaimRead, ClaimNamed, Idle
  <2> QED BY <1>3, <1>4, <2>1, <2>2 DEF ClaimRead, ClaimNamed
<1>5. ASSUME NEW p \in Pollers, ClaimWrite(p) PROVE Known(r)'
  <2>1. PICK task : Goto(p, task) BY <1>5 DEF ClaimWrite
  <2>2. p \in Workers /\ work[p].pc # "notify" BY <1>5 DEF Workers, ClaimWrite
  <2>3. work[p].rep \in Reports BY <1>5, <2>2, TaskTypes DEF ClaimWrite
  <2>4. report' = report \/ report' = [report EXCEPT ![work[p].rep] = Claimed(@)]
    BY <1>5 DEF ClaimWrite
  <2>5. report'[r] = report[r] \/ ~GivenUp(report'[r])
    <3>1. CASE r = work[p].rep BY <2>4, <3>1 DEF TypeOK, Claimed, GivenUp
    <3>2. CASE r # work[p].rep BY <2>3, <2>4, <3>2 DEF TypeOK
    <3> QED BY <3>1, <3>2
  <2> QED BY <1>3, <1>5, <2>1, <2>2, <2>5 DEF ClaimWrite
<1>6. ASSUME NEW d \in Docgen, NEW q \in Reports, TakeJob(d, q) PROVE Known(r)'
  <2>1. PICK task : Goto(d, task) BY <1>6 DEF TakeJob
  <2>2. d \in Workers /\ work[d].pc # "notify" BY <1>6 DEF Workers, TakeJob, Idle
  <2> QED BY <1>3, <1>6, <2>1, <2>2 DEF TakeJob
<1>7. ASSUME NEW w \in Workers, Deliver(w) \/ Die(w) PROVE Known(r)'
  <2>1. PICK task : Goto(w, task) BY <1>7 DEF Deliver, Die
  <2>2. work[w].pc # "notify" BY <1>7 DEF Deliver, Die
  <2> QED BY <1>3, <1>7, <2>1, <2>2 DEF Deliver, Die
<1>8. ASSUME NEW w \in Workers, Patch(w) PROVE Known(r)'
  <2> DEFINE q == work[w].rep
             status == ToDbReportStatus(work[w].outcome)
             row == [status |-> status, attempts |-> report[q].attempts]
             task == [pc |-> "notify", rep |-> q, row |-> row]
  <2>1. q \in Reports BY <1>8, TaskTypes DEF Patch
  <2>2. status \in ReportStatus BY DEF ToDbReportStatus, ReportStatus
  <2>3. SetStatus(q, status) /\ Goto(w, task) /\ told' = told /\ unsent' = unsent
    BY <1>8 DEF Patch
  <2>4. work[w].pc # "notify" BY <1>8 DEF Patch
  <2> HIDE DEF status
  <2>5. report'[q] = row /\ \A p \in Reports \ {q} : report'[p] = report[p]
    BY <2>1, <2>2, <2>3, StatusType
  <2>6. CASE q # r BY <1>3, <2>3, <2>4, <2>5, <2>6
  <2>7. CASE q = r
    <3>1. work'[w] = task BY <2>3 DEF Goto, TypeOK
    <3>2. work'[w].pc = "notify" /\ work'[w].rep = r /\ work'[w].row = report'[r]
      BY <2>5, <2>7, <3>1
    <3> QED BY <3>2 DEF Known
  <2> QED BY <2>6, <2>7
<1>9. ASSUME NEW w \in Workers, Notify(w) PROVE Known(r)'
  <2>1. Goto(w, Idle) /\ report' = report /\ told \subseteq told' /\ unsent \subseteq unsent'
    BY <1>9 DEF Notify
  <2>2. CASE GivenUp(work[w].row) /\ work[w].rep = r
    <3>1. r \in told' \cup unsent' BY <1>9, <2>2 DEF Notify
    <3> QED BY <3>1 DEF Known
  <2>3. CASE ~(GivenUp(work[w].row) /\ work[w].rep = r) /\ GivenUp(report[r])
    <3>1. CASE r \in told \cup unsent BY <2>1, <3>1 DEF Known
    <3>2. ASSUME NEW v \in Workers,
                 work[v].pc = "notify" /\ work[v].rep = r /\ GivenUp(work[v].row)
          PROVE  Known(r)'
      <4>1. v # w BY <2>3, <3>2
      <4>2. work'[v] = work[v] BY <2>1, <4>1 DEF Goto, TypeOK
      <4>3. work'[v].pc = "notify" /\ work'[v].rep = r /\ GivenUp(work'[v].row)
        BY <3>2, <4>2
      <4> QED BY <4>3 DEF Known
    <3> QED BY <2>3, <3>1, <3>2 DEF Known
  <2>4. CASE ~GivenUp(report[r]) BY <2>1, <2>4 DEF Known
  <2> QED BY <2>2, <2>3, <2>4
<1>10. CASE UNCHANGED vars
  <2>1. report' = report /\ work' = work /\ told' = told /\ unsent' = unsent
    BY <1>10 DEF vars
  <2> QED BY <2>1, KnownFrame
<1> QED
  BY <1>2, <1>4, <1>5, <1>6, <1>7, <1>8, <1>9, <1>10 DEF Next, Claim, Finish

\* Nobody waits for a report that was given up.
THEOREM GiveUpsAreTold == Spec => []GiveUpTold
<1> DEFINE AllKnown == \A r \in Reports : Known(r)
<1>1. Init => AllKnown
  BY DEF Init, Known, GivenUp
<1>2. TypeOK /\ AllKnown /\ [Next]_vars => AllKnown'
  BY KnownStep
<1>3. AllKnown => GiveUpTold
  BY DEF Known, GivenUp, GiveUpTold
<1> HIDE DEF AllKnown
<1>4. QED BY <1>1, <1>2, <1>3, InitType, StepType, PTL DEF Spec
=============================================================================

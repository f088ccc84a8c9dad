---------------------- MODULE RegressionIngest_proofs ----------------------
(***************************************************************************)
(* For any events, scenarios, batches and requests, racing and failing:    *)
(* no assertion is counted twice and no verdict is without a reason.  The  *)
(* argument: events are only ever added and summaries only ever recorded,  *)
(* so what a request read about them is a lower bound of what holds when   *)
(* it writes (ReadsAreBounds).                                             *)
(* One request at a time, none failing: the counts are exact, for between  *)
(* requests they are, and what the one in flight has still to recount is   *)
(* all that is off (Exact).  And, however they overlap: a request that     *)
(* read the run as running and was not overtaken still finds it running    *)
(* (ReadsStillHold), so only an overtaken one reopens a run.               *)
(***************************************************************************)
EXTENDS RegressionIngest, FiniteSetTheorems, SequenceTheorems, TLAPS

FailureStored == \E e \in stored \cap Assertions : "failed" \in Outcomes[e]

\* What a request has read and not yet written: counts that are reached by now,
\* and a status that has a reason.
ReadIsBound(r) ==
    /\ req[r].pc = "writeScenario" =>
         AtMost(req[r].counts, CountAssertions(InScenario(ScenarioOf[Now(r)])))
    /\ req[r].pc \in {"readStatus", "writeRun"} =>
         AtMost(req[r].counts, CountAssertions(stored))
    /\ req[r].pc = "writeRun" =>
         /\ req[r].status = "FAILED" => "FAILED" \in reported \/ FailureStored
         /\ req[r].status = "PASSED" => "PASSED" \in reported

ReadsAreBounds == \A r \in Requests : ReadIsBound(r)

IInv == TypeOK /\ NeverOvercounts /\ VerdictHasReason /\ ReadsAreBounds

-----------------------------------------------------------------------------
(* Counting                                                                *)

\* The counts of stored events are natural numbers.
LEMMA CountType ==
  ASSUME NEW S \in SUBSET Events
  PROVE  CountAssertions(S) \in Counts
<1> SUFFICES ASSUME NEW o \in Outcome
             PROVE  Cardinality({e \in S \cap Assertions : o \in Outcomes[e]}) \in Nat
  BY DEF CountAssertions, Counts
<1> DEFINE C == {e \in S \cap Assertions : o \in Outcomes[e]}
<1>1. IsFiniteSet(C) BY FS_Subset, IngestAssumption
<1> HIDE DEF C
<1>2. Cardinality(C) \in Nat BY <1>1, FS_CardinalityType
<1> QED BY <1>2 DEF C

\* More events count for at least as much.
LEMMA CountMonotone ==
  ASSUME NEW T \in SUBSET Events, NEW S \in SUBSET T
  PROVE  AtMost(CountAssertions(S), CountAssertions(T))
<1> SUFFICES ASSUME NEW o \in Outcome
             PROVE  Cardinality({e \in S \cap Assertions : o \in Outcomes[e]})
                      <= Cardinality({e \in T \cap Assertions : o \in Outcomes[e]})
  BY DEF CountAssertions, AtMost
<1> DEFINE C == {e \in S \cap Assertions : o \in Outcomes[e]}
           D == {e \in T \cap Assertions : o \in Outcomes[e]}
<1>1. D \in SUBSET Events /\ C \in SUBSET D OBVIOUS
<1> HIDE DEF C, D
<1>2. IsFiniteSet(D) BY <1>1, FS_Subset, IngestAssumption
<1>3. Cardinality(C) <= Cardinality(D) BY <1>1, <1>2, FS_Subset
<1> QED BY <1>3 DEF C, D

\* A failure that is counted is the failure of a stored assertion.
LEMMA FailureWitness ==
  ASSUME NEW S \in SUBSET Events, CountAssertions(S)["failed"] > 0
  PROVE  \E e \in S \cap Assertions : "failed" \in Outcomes[e]
<1> DEFINE C == {e \in S \cap Assertions : "failed" \in Outcomes[e]}
<1>1. IsFiniteSet(C) BY FS_Subset, IngestAssumption
<1>2. CountAssertions(S)["failed"] = Cardinality(C) BY DEF CountAssertions, Outcome
<1> HIDE DEF C
<1>3. C # {} BY <1>1, <1>2, FS_EmptySet
<1> QED BY <1>3 DEF C

\* No count is below zero, and bounds may be chained.
LEMMA AtMostTransitive ==
  ASSUME NEW a \in Counts, NEW b \in Counts, NEW c \in Counts, AtMost(a, b), AtMost(b, c)
  PROVE  AtMost(a, c)
  BY DEF Counts, AtMost

-----------------------------------------------------------------------------
(* Type correctness                                                        *)

\* A request in flight has an event at hand, and its batch shortens to the end.
LEMMA BatchTypes ==
  ASSUME NEW batch \in Batch
  PROVE  Head(batch) \in Events /\ (Len(batch) # 1 => Tail(batch) \in Batch)
<1>1. batch \in Seq(Events) /\ batch # <<>> BY DEF Batch
<1>2. Head(batch) \in Events /\ Tail(batch) \in Seq(Events) /\ Len(Tail(batch)) = Len(batch) - 1
  BY <1>1, HeadTailProperties
<1>3. ASSUME Len(batch) # 1 PROVE Tail(batch) # <<>>
  BY <1>1, <1>2, <1>3
<1> QED BY <1>2, <1>3 DEF Batch

\* The counts a row starts with.
LEMMA NoneType == None \in Counts /\ \A counts \in Counts : AtMost(None, counts)
  BY DEF None, Counts, AtMost

LEMMA InitType == Init => TypeOK
  BY NoneType DEF Init, TypeOK, Idle, RunStatus

\* What a request holds, by its program point.
LEMMA RequestTypes ==
  ASSUME TypeOK, NEW r \in Requests, req[r] # Idle
  PROVE  /\ req[r].batch \in Batch
         /\ Now(r) \in Events
         /\ req[r].pc \in {"writeScenario", "readStatus", "writeRun"} => req[r].counts \in Counts
         /\ req[r].pc = "writeRun" => req[r].status \in RunStatus
<1>1. req[r] \in Working \cup Writing \cup Closing BY DEF TypeOK
<1>2. req[r].batch \in Batch BY <1>1 DEF Working, Writing, Closing
<1> QED BY <1>1, <1>2, BatchTypes DEF Now, Working, Writing, Closing

\* A request that goes on to its next event, or ends, is well typed.
LEMMA RestType ==
  ASSUME TypeOK, NEW r \in Requests, req[r] # Idle
  PROVE  Rest(r) \in {Idle} \cup Working
<1>1. req[r].batch \in Batch BY RequestTypes
<1>2. CASE Len(req[r].batch) = 1 BY <1>2 DEF Rest
<1>3. CASE Len(req[r].batch) # 1
  <2>1. [pc |-> "upsert", batch |-> Tail(req[r].batch)] \in Working
    BY <1>1, <1>3, BatchTypes DEF Working
  <2> QED BY <1>3, <2>1 DEF Rest
<1> QED BY <1>2, <1>3

LEMMA NextEventType ==
  ASSUME TypeOK, NEW r \in Requests, req[r] # Idle, NextEvent(r)
  PROVE  req' \in [Requests -> {Idle} \cup Working \cup Writing \cup Closing]
<1>1. Rest(r) \in {Idle} \cup Working BY RestType
<1> QED BY <1>1 DEF NextEvent, TypeOK

\* What `new` holds of a request that does not move: all it had, or the mark that
\* it was overtaken besides.
Stays(q, new) ==
    \/ new = req[q]
    \/ req[q].pc = "writeRun" /\ new = [req[q] EXCEPT !.overtaken = TRUE]

LEMMA StaysPut ==
  ASSUME TypeOK, NEW q \in Requests, NEW new, Stays(q, new)
  PROVE  /\ new \in {Idle} \cup Working \cup Writing \cup Closing
         /\ new.pc = req[q].pc
         /\ req[q] # Idle => new.batch = req[q].batch
         /\ req[q].pc \in {"writeScenario", "readStatus", "writeRun"} =>
              new.counts = req[q].counts
         /\ req[q].pc = "writeRun" => new.status = req[q].status
<1>1. req[q] \in {Idle} \cup Working \cup Writing \cup Closing BY DEF TypeOK
<1>2. CASE new = req[q] BY <1>1, <1>2
<1>3. CASE req[q].pc = "writeRun" /\ new = [req[q] EXCEPT !.overtaken = TRUE]
  <2>1. req[q] \in Closing BY <1>1, <1>3 DEF Idle, Working, Writing
  <2> QED BY <1>3, <2>1 DEF Closing
<1> QED BY <1>2, <1>3 DEF Stays

\* A write of the row moves none of the others.
LEMMA OvertakenStays ==
  ASSUME NEW status, NEW q \in Requests
  PROVE  Stays(q, Overtaken(status)[q])
  BY DEF Overtaken, Stays, At

LEMMA OvertakenType ==
  ASSUME TypeOK, NEW status
  PROVE  Overtaken(status) \in [Requests -> {Idle} \cup Working \cup Writing \cup Closing]
<1>1. \A q \in Requests :
        Overtaken(status)[q] \in {Idle} \cup Working \cup Writing \cup Closing
  BY OvertakenStays, StaysPut
<1> QED BY <1>1 DEF Overtaken

\* So is one that goes to another point with its batch only.
LEMMA GotoType ==
  ASSUME TypeOK, NEW r \in Requests, req[r] # Idle,
         NEW pc \in {"upsert", "store", "readScenario", "readRun"}, Goto(r, pc)
  PROVE  req' \in [Requests -> {Idle} \cup Working \cup Writing \cup Closing]
<1>1. [pc |-> pc, batch |-> req[r].batch] \in Working BY RequestTypes DEF Working
<1> QED BY <1>1 DEF Goto, TypeOK

\* Every step keeps the types.
LEMMA StepType == TypeOK /\ [Next]_vars => TypeOK'
<1> SUFFICES ASSUME TypeOK, [Next]_vars PROVE TypeOK'
  OBVIOUS
<1> USE DEF At
<1>0. ASSUME NEW r \in Requests, NEW pc, req[r].pc = pc, pc # "idle" PROVE req[r] # Idle
  BY <1>0 DEF Idle
<1>1. ASSUME NEW r \in Requests, NEW batch \in Batches, Ingest(r, batch) PROVE TypeOK'
  <2>1. batch \in Batch BY IngestAssumption DEF Batch
  <2>2. [pc |-> "upsert", batch |-> batch] \in Working BY <2>1 DEF Working
  <2> QED BY <1>1, <2>2 DEF Ingest, TypeOK
<1>2. ASSUME NEW r \in Requests, UpsertScenario(r) PROVE TypeOK'
  <2>1. req[r] # Idle BY <1>2, <1>0 DEF UpsertScenario
  <2>2. req' \in [Requests -> {Idle} \cup Working \cup Writing \cup Closing]
    BY <1>2, <2>1, GotoType DEF UpsertScenario
  <2>3. scenario' \in [Scenarios -> [status : RunStatus \cup {"absent"}, counts : Counts]]
    <3> DEFINE e == Now(r)
               s == ScenarioOf[e]
               old == scenario[s].status
               new == IF e \in DOMAIN Verdicts THEN Verdicts[e]
                      ELSE IF old = "absent" THEN "RUNNING" ELSE old
    <3>1. CASE s = NoScenario BY <1>2, <3>1 DEF UpsertScenario, TypeOK
    <3>2. CASE s # NoScenario
      <4>1. s \in Scenarios BY <2>1, <3>2, RequestTypes, IngestAssumption
      <4>2. new \in RunStatus \cup {"absent"}
        BY <4>1, IngestAssumption DEF TypeOK, RunStatus
      <4>3. scenario' = [scenario EXCEPT ![s].status = new] BY <1>2, <3>2 DEF UpsertScenario
      <4> QED BY <4>1, <4>2, <4>3 DEF TypeOK
    <3> QED BY <3>1, <3>2
  <2> QED BY <1>2, <2>2, <2>3 DEF UpsertScenario, TypeOK
<1>3. ASSUME NEW r \in Requests, StoreEvent(r) PROVE TypeOK'
  <2>1. req[r] # Idle BY <1>3, <1>0 DEF StoreEvent
  <2>2. req' \in [Requests -> {Idle} \cup Working \cup Writing \cup Closing]
    BY <1>3, <2>1, GotoType, NextEventType DEF StoreEvent
  <2>3. stored' \subseteq Events BY <1>3, <2>1, RequestTypes DEF StoreEvent, TypeOK
  <2> QED BY <1>3, <2>2, <2>3 DEF StoreEvent, TypeOK
<1>4. ASSUME NEW r \in Requests, ReadScenario(r) PROVE TypeOK'
  <2>1. req[r] # Idle BY <1>4, <1>0 DEF ReadScenario
  <2>2. CountAssertions(InScenario(ScenarioOf[Now(r)])) \in Counts
    BY CountType DEF InScenario, TypeOK
  <2>3. [pc |-> "writeScenario", batch |-> req[r].batch,
         counts |-> CountAssertions(InScenario(ScenarioOf[Now(r)]))] \in Writing
    BY <2>1, <2>2, RequestTypes DEF Writing
  <2> QED BY <1>4, <2>3 DEF ReadScenario, TypeOK
<1>5. ASSUME NEW r \in Requests, WriteScenario(r) PROVE TypeOK'
  <2>1. req[r] # Idle BY <1>5, <1>0 DEF WriteScenario
  <2>2. req' \in [Requests -> {Idle} \cup Working \cup Writing \cup Closing]
    BY <1>5, <2>1, GotoType DEF WriteScenario
  <2>3. scenario' \in [Scenarios -> [status : RunStatus \cup {"absent"}, counts : Counts]]
    BY <1>5, <2>1, RequestTypes DEF WriteScenario, TypeOK
  <2> QED BY <1>5, <2>2, <2>3 DEF WriteScenario, TypeOK
<1>6. ASSUME NEW r \in Requests, ReadRun(r) PROVE TypeOK'
  <2>1. req[r] # Idle BY <1>6, <1>0 DEF ReadRun
  <2>2. CountAssertions(stored) \in Counts BY CountType DEF TypeOK
  <2>3. [pc |-> "readStatus", batch |-> req[r].batch, counts |-> CountAssertions(stored)] \in Writing
    BY <2>1, <2>2, RequestTypes DEF Writing
  <2> QED BY <1>6, <2>3 DEF ReadRun, TypeOK
<1>7. ASSUME NEW r \in Requests, ReadStatus(r) PROVE TypeOK'
  <2>1. req[r] # Idle BY <1>7, <1>0 DEF ReadStatus
  <2>2. StatusFor(req[r].counts, run.status) \in RunStatus BY DEF StatusFor, RunStatus, TypeOK
  <2>3. [pc |-> "writeRun", batch |-> req[r].batch, counts |-> req[r].counts,
         status |-> StatusFor(req[r].counts, run.status), overtaken |-> FALSE] \in Closing
    BY <1>7, <2>1, <2>2, RequestTypes DEF Closing, ReadStatus
  <2> QED BY <1>7, <2>3 DEF ReadStatus, TypeOK
<1>8. ASSUME NEW r \in Requests, WriteRun(r) PROVE TypeOK'
  <2>1. req[r] # Idle BY <1>8, <1>0 DEF WriteRun
  <2>2. req' \in [Requests -> {Idle} \cup Working \cup Writing \cup Closing]
    BY <1>8, <2>1, RestType, OvertakenType DEF WriteRun
  <2>3. run' \in [status : RunStatus, counts : Counts]
    BY <1>8, <2>1, RequestTypes DEF WriteRun
  <2> QED BY <1>8, <2>2, <2>3 DEF WriteRun, TypeOK
<1>9. ASSUME NEW r \in Requests, Fail(r) PROVE TypeOK'
  BY <1>9 DEF Fail, TypeOK
<1>10. ASSUME NEW r \in Requests, NEW status \in RunStatus,
              NEW totals \in {None, CountAssertions(Assertions)}, CompleteRun(r, status, totals)
       PROVE  TypeOK'
  <2>1. totals \in Counts BY NoneType, CountType, IngestAssumption
  <2>2. serial' \in BOOLEAN BY <1>10 DEF CompleteRun
  <2> QED BY <1>10, <2>1, <2>2, OvertakenType DEF CompleteRun, TypeOK
<1>11. CASE UNCHANGED vars BY <1>11 DEF vars, TypeOK
<1> QED
  BY <1>1, <1>2, <1>3, <1>4, <1>5, <1>6, <1>7, <1>8, <1>9, <1>10, <1>11 DEF Next, Advance

\* The rows, the requests in flight and the history are always well typed.
THEOREM TypeCorrect == Spec => []TypeOK
  BY InitType, StepType, PTL DEF Spec

-----------------------------------------------------------------------------
(* Counts and verdicts                                                     *)

\* Nothing is ever unstored, no summary forgotten.
Grows == stored \subseteq stored' /\ reported \subseteq reported'

\* What is reached stays reached.
LEMMA BoundsGrow ==
  ASSUME TypeOK, TypeOK', Grows, NEW counts \in Counts
  PROVE  /\ AtMost(counts, CountAssertions(stored)) => AtMost(counts, CountAssertions(stored)')
         /\ \A s : AtMost(counts, CountAssertions(InScenario(s)))
                     => AtMost(counts, CountAssertions(InScenario(s)'))
         /\ FailureStored => FailureStored'
<1>1. stored \in SUBSET stored' /\ stored' \in SUBSET Events BY DEF Grows, TypeOK
<1>2. AtMost(CountAssertions(stored), CountAssertions(stored')) BY <1>1, CountMonotone
<1>3. ASSUME NEW s PROVE AtMost(CountAssertions(InScenario(s)), CountAssertions(InScenario(s)'))
  <2>1. InScenario(s) \in SUBSET (InScenario(s)') /\ InScenario(s)' \in SUBSET Events
    BY <1>1 DEF InScenario
  <2> QED BY <2>1, CountMonotone
<1>4. CountAssertions(stored) \in Counts /\ CountAssertions(stored') \in Counts
  BY <1>1, CountType
<1>5. \A s : CountAssertions(InScenario(s)) \in Counts /\ CountAssertions(InScenario(s)') \in Counts
  BY <1>1, CountType DEF InScenario
<1>6. FailureStored => FailureStored' BY <1>1 DEF FailureStored
<1> QED BY <1>2, <1>3, <1>4, <1>5, <1>6, AtMostTransitive

\* A request that does not move keeps its bounds.
LEMMA ReadKept ==
  ASSUME IInv, TypeOK', Grows, NEW q \in Requests, Stays(q, req'[q])
  PROVE  ReadIsBound(q)'
<1>1. ReadIsBound(q) /\ TypeOK BY DEF IInv, ReadsAreBounds
<1>2. CASE req[q].pc \in {"writeScenario", "readStatus", "writeRun"}
  <2>1. req[q] # Idle BY <1>2 DEF Idle
  <2>2. /\ req[q].counts \in Counts
        /\ req'[q].pc = req[q].pc /\ req'[q].counts = req[q].counts
        /\ req'[q].batch = req[q].batch
        /\ req[q].pc = "writeRun" => req'[q].status = req[q].status
    BY <1>1, <1>2, <2>1, RequestTypes, StaysPut
  <2>3. Now(q)' = Now(q) BY <2>2 DEF Now
  <2> QED BY <1>1, <2>2, <2>3, BoundsGrow DEF ReadIsBound, Grows
<1>3. CASE req[q].pc \notin {"writeScenario", "readStatus", "writeRun"}
  <2>1. req'[q].pc = req[q].pc BY <1>1, StaysPut
  <2> QED BY <1>3, <2>1 DEF ReadIsBound
<1> QED BY <1>2, <1>3

\* Rows that are not written keep theirs.
LEMMA ScenarioKept ==
  ASSUME IInv, TypeOK', Grows, NEW s \in Scenarios, scenario'[s].counts = scenario[s].counts
  PROVE  AtMost(scenario'[s].counts, CountAssertions(InScenario(s)'))
<1>1. scenario[s].counts \in Counts /\ TypeOK BY DEF IInv, TypeOK
<1> QED BY <1>1, BoundsGrow DEF IInv, NeverOvercounts

LEMMA RunKept ==
  ASSUME IInv, TypeOK', Grows, run' = run
  PROVE  /\ reported' = {} => AtMost(run'.counts, CountAssertions(stored'))
         /\ VerdictHasReason'
<1>1. run.counts \in Counts /\ TypeOK BY DEF IInv, TypeOK
<1> QED BY <1>1, BoundsGrow DEF IInv, NeverOvercounts, VerdictHasReason, FailureStored, Grows

\* Initially nothing is counted, stored or read.
LEMMA InitIInv == Init => IInv
<1> SUFFICES ASSUME Init PROVE IInv
  OBVIOUS
<1>1. TypeOK BY InitType
<1>2. CountAssertions(stored) \in Counts /\ \A s : CountAssertions(InScenario(s)) \in Counts
  BY <1>1, CountType DEF TypeOK, InScenario
<1>3. NeverOvercounts BY <1>2, NoneType DEF Init, NeverOvercounts
<1> QED BY <1>1, <1>3 DEF Init, IInv, Idle, VerdictHasReason, ReadsAreBounds, ReadIsBound

\* Every step keeps the invariant.
LEMMA StepIInv == IInv /\ [Next]_vars => IInv'
<1> SUFFICES ASSUME IInv, [Next]_vars PROVE IInv'
  OBVIOUS
<1>1. TypeOK /\ TypeOK' BY StepType DEF IInv
\* A step that writes no counts and no verdict: the request that moves decides.
<1>2. ASSUME NEW r \in Requests, Grows, run' = run,
             \A s \in Scenarios : scenario'[s].counts = scenario[s].counts,
             \A q \in Requests : q # r => req'[q] = req[q],
             ReadIsBound(r)'
      PROVE  IInv'
  <2>1. ASSUME NEW q \in Requests PROVE ReadIsBound(q)'
    <3>1. CASE q = r BY <1>2, <3>1
    <3>2. CASE q # r
      <4>1. Stays(q, req'[q]) BY <1>2, <3>2 DEF Stays
      <4> QED BY <1>1, <1>2, <4>1, ReadKept
    <3> QED BY <3>1, <3>2
  <2>2. NeverOvercounts' /\ VerdictHasReason'
    BY <1>1, <1>2, ScenarioKept, RunKept DEF NeverOvercounts
  <2> QED BY <1>1, <2>1, <2>2 DEF IInv, ReadsAreBounds
<1>3. ASSUME NEW r \in Requests, req'[r].pc \notin {"writeScenario", "readStatus", "writeRun"}
      PROVE  ReadIsBound(r)'
  BY <1>3 DEF ReadIsBound
<1>4. ASSUME NEW r \in Requests, NEW batch \in Batches, Ingest(r, batch) PROVE IInv'
  BY <1>1, <1>2, <1>3, <1>4 DEF Ingest, Grows, TypeOK
<1>5. ASSUME NEW r \in Requests, UpsertScenario(r) PROVE IInv'
  <2>1. \A s \in Scenarios : scenario'[s].counts = scenario[s].counts
    BY <1>1, <1>5 DEF UpsertScenario, TypeOK
  <2> QED BY <1>1, <1>2, <1>3, <1>5, <2>1 DEF UpsertScenario, Goto, Grows, TypeOK
<1>6. ASSUME NEW r \in Requests, StoreEvent(r) PROVE IInv'
  <2>1. req'[r].pc \in {"idle", "upsert", "readRun", "readScenario"}
    BY <1>1, <1>6 DEF StoreEvent, Goto, NextEvent, Rest, Idle, TypeOK
  <2>2. \A q \in Requests : q # r => req'[q] = req[q]
    BY <1>1, <1>6 DEF StoreEvent, Goto, NextEvent, TypeOK
  <2> QED BY <1>2, <1>3, <1>6, <2>1, <2>2 DEF StoreEvent, Grows
<1>7. ASSUME NEW r \in Requests, ReadScenario(r) PROVE IInv'
  <2>1. InScenario(ScenarioOf[Now(r)]) \in SUBSET Events BY <1>1 DEF InScenario, TypeOK
  <2>2. AtMost(CountAssertions(InScenario(ScenarioOf[Now(r)])),
               CountAssertions(InScenario(ScenarioOf[Now(r)])))
    BY <2>1, CountMonotone
  <2>3. Now(r)' = Now(r) /\ \A s : InScenario(s)' = InScenario(s)
    BY <1>1, <1>7 DEF ReadScenario, Now, InScenario, TypeOK
  <2>4. ReadIsBound(r)' BY <1>1, <1>7, <2>2, <2>3 DEF ReadScenario, ReadIsBound, TypeOK
  <2> QED BY <1>1, <1>2, <1>7, <2>4 DEF ReadScenario, Grows, TypeOK
<1>8. ASSUME NEW r \in Requests, ReadRun(r) PROVE IInv'
  <2>1. AtMost(CountAssertions(stored), CountAssertions(stored))
    BY <1>1, CountMonotone DEF TypeOK
  <2>2. ReadIsBound(r)' BY <1>1, <1>8, <2>1 DEF ReadRun, ReadIsBound, TypeOK
  <2> QED BY <1>1, <1>2, <1>8, <2>2 DEF ReadRun, Grows, TypeOK
<1>9. ASSUME NEW r \in Requests, Fail(r) PROVE IInv'
  BY <1>1, <1>2, <1>3, <1>9 DEF Fail, Idle, Grows, TypeOK
<1>10. CASE UNCHANGED vars
  BY <1>10 DEF vars, IInv, TypeOK, NeverOvercounts, VerdictHasReason, ReadsAreBounds,
               ReadIsBound, FailureStored, InScenario, Now
<1>11. ASSUME NEW r \in Requests, WriteScenario(r) PROVE IInv'
  <2> DEFINE s == ScenarioOf[Now(r)]
  <2>1. Grows /\ run' = run BY <1>11 DEF WriteScenario, Grows
  <2>2. req[r] # Idle BY <1>11 DEF WriteScenario, At, Idle
  <2>3. s \in Scenarios \cup {NoScenario}
    BY <1>1, <2>2, RequestTypes, IngestAssumption
  <2>4. AtMost(req[r].counts, CountAssertions(InScenario(s)))
    BY <1>11 DEF IInv, ReadsAreBounds, ReadIsBound, WriteScenario, At
  <2>5. \A x \in Scenarios : AtMost(scenario'[x].counts, CountAssertions(InScenario(x)'))
    <3> SUFFICES ASSUME NEW x \in Scenarios
                 PROVE  AtMost(scenario'[x].counts, CountAssertions(InScenario(x)'))
      OBVIOUS
    <3>1. CASE x = s
      <4>1. scenario'[x].counts = req[r].counts
        BY <1>1, <1>11, <3>1 DEF WriteScenario, TypeOK
      <4>2. InScenario(x)' = InScenario(x) BY <1>11 DEF WriteScenario, InScenario
      <4> QED BY <2>4, <3>1, <4>1, <4>2
    <3>2. CASE x # s
      <4>1. scenario'[x].counts = scenario[x].counts
        BY <1>1, <1>11, <3>2 DEF WriteScenario, TypeOK
      <4> QED BY <1>1, <2>1, <4>1, ScenarioKept
    <3> QED BY <3>1, <3>2
  <2>6. \A q \in Requests : ReadIsBound(q)'
    <3> SUFFICES ASSUME NEW q \in Requests PROVE ReadIsBound(q)'
      OBVIOUS
    <3>1. CASE q = r BY <1>1, <1>11, <3>1, <1>3 DEF WriteScenario, Goto, TypeOK
    <3>2. CASE q # r
      <4>1. Stays(q, req'[q]) BY <1>1, <1>11, <3>2 DEF WriteScenario, Goto, Stays, TypeOK
      <4> QED BY <1>1, <2>1, <4>1, ReadKept
    <3> QED BY <3>1, <3>2
  <2> QED BY <1>1, <2>1, <2>5, <2>6, RunKept DEF IInv, NeverOvercounts, ReadsAreBounds
<1>12. ASSUME NEW r \in Requests, ReadStatus(r) PROVE IInv'
  <2>1. AtMost(req[r].counts, CountAssertions(stored))
    BY <1>12 DEF IInv, ReadsAreBounds, ReadIsBound, ReadStatus, At
  <2>2. req[r].counts \in Counts BY <1>1, <1>12, RequestTypes DEF ReadStatus, At, Idle
  <2>3. CountAssertions(stored) \in Counts /\ stored \in SUBSET Events
    BY <1>1, CountType DEF TypeOK
  <2>4. req[r].counts["failed"] > 0 => FailureStored
    <3> SUFFICES ASSUME req[r].counts["failed"] > 0 PROVE FailureStored
      OBVIOUS
    <3>1. CountAssertions(stored)["failed"] > 0
      BY <2>1, <2>2, <2>3 DEF AtMost, Counts, Outcome
    <3> QED BY <2>3, <3>1, FailureWitness DEF FailureStored
  <2>5. req'[r] = [pc |-> "writeRun", batch |-> req[r].batch, counts |-> req[r].counts,
                   status |-> StatusFor(req[r].counts, run.status), overtaken |-> FALSE]
    BY <1>1, <1>12 DEF ReadStatus, TypeOK
  <2>6. ReadIsBound(r)'
    BY <1>12, <2>1, <2>4, <2>5
       DEF ReadStatus, ReadIsBound, StatusFor, IInv, VerdictHasReason, FailureStored
  <2> QED BY <1>1, <1>2, <1>12, <2>6 DEF ReadStatus, Grows, TypeOK
<1>13. ASSUME NEW r \in Requests, WriteRun(r) PROVE IInv'
  <2>1. Grows /\ scenario' = scenario /\ stored' = stored /\ reported' = reported
    BY <1>13 DEF WriteRun, Grows
  <2>2. ReadIsBound(r) /\ req[r].pc = "writeRun"
    BY <1>13 DEF IInv, ReadsAreBounds, WriteRun, At
  <2>3. run'.status = req[r].status /\ run'.counts = req[r].counts BY <1>13 DEF WriteRun
  <2>4. NeverOvercounts' /\ VerdictHasReason'
    BY <1>1, <2>1, <2>2, <2>3, ScenarioKept
       DEF ReadIsBound, NeverOvercounts, VerdictHasReason, FailureStored
  <2>5. \A q \in Requests : ReadIsBound(q)'
    <3> SUFFICES ASSUME NEW q \in Requests PROVE ReadIsBound(q)'
      OBVIOUS
    <3>1. CASE q = r
      <4>1. req'[r] = Rest(r) BY <1>13 DEF WriteRun, Overtaken
      <4> QED BY <1>3, <3>1, <4>1 DEF Rest, Idle
    <3>2. CASE q # r
      <4>1. req'[q] = Overtaken(req[r].status)[q] BY <1>13, <3>2 DEF WriteRun, Overtaken
      <4> QED BY <1>1, <2>1, <4>1, OvertakenStays, ReadKept
    <3> QED BY <3>1, <3>2
  <2> QED BY <1>1, <2>4, <2>5 DEF IInv, ReadsAreBounds
<1>14. ASSUME NEW r \in Requests, NEW status \in RunStatus,
              NEW totals \in {None, CountAssertions(Assertions)}, CompleteRun(r, status, totals)
       PROVE  IInv'
  <2>1. Grows /\ scenario' = scenario /\ req' = Overtaken(status) /\ status \in reported'
    BY <1>14 DEF CompleteRun, Grows
  <2>2. reported' # {} /\ run'.status = status BY <1>14, <2>1 DEF CompleteRun
  <2>3. NeverOvercounts' BY <1>1, <2>1, <2>2, ScenarioKept DEF NeverOvercounts
  <2>4. VerdictHasReason' BY <2>1, <2>2 DEF VerdictHasReason
  <2>5. \A q \in Requests : ReadIsBound(q)' BY <1>1, <2>1, OvertakenStays, ReadKept
  <2> QED BY <1>1, <2>3, <2>4, <2>5 DEF IInv, ReadsAreBounds
<1> QED
  BY <1>4, <1>5, <1>6, <1>7, <1>8, <1>9, <1>10, <1>11, <1>12, <1>13, <1>14 DEF Next, Advance

\* Retries and races never count an assertion twice.
THEOREM CountedAtMostOnce == Spec => []NeverOvercounts
<1>1. IInv => NeverOvercounts BY DEF IInv
<1> QED BY <1>1, InitIInv, StepIInv, PTL DEF Spec

\* No race gives a run a verdict that neither an assertion nor a summary gave.
THEOREM VerdictsHaveReasons == Spec => []VerdictHasReason
<1>1. IInv => VerdictHasReason BY DEF IInv
<1> QED BY <1>1, InitIInv, StepIInv, PTL DEF Spec
-----------------------------------------------------------------------------
(* One request at a time                                                   *)

\* The recounts a request has still to do.
Recounts(r, s) ==
    req[r].pc \in {"readScenario", "writeScenario"} /\ ScenarioOf[Now(r)] = s
RecountsRun(r) ==
    req[r].pc \in {"readScenario", "writeScenario", "readRun", "readStatus", "writeRun"}

\* What a request has read is what it would read again.
ReadIsExact(r) ==
    /\ req[r].pc = "writeScenario" =>
         req[r].counts = CountAssertions(InScenario(ScenarioOf[Now(r)]))
    /\ req[r].pc \in {"readStatus", "writeRun"} => req[r].counts = CountAssertions(stored)
    /\ req[r].pc = "writeRun" => req[r].status = StatusFor(req[r].counts, run.status)

OneAtATime == \A p, q \in Requests : req[p] # Idle /\ req[q] # Idle => p = q

ScenariosExact ==
    \A s \in Scenarios : \/ scenario[s].counts = CountAssertions(InScenario(s))
                         \/ \E r \in Requests : Recounts(r, s)

RunExact ==
    reported = {} =>
        /\ run.counts = CountAssertions(stored) \/ \E r \in Requests : RecountsRun(r)
        /\ run.counts["failed"] > 0 <=> run.status = "FAILED"

ReadsExact == \A r \in Requests : ReadIsExact(r)

\* Counts are exact, or the one request in flight is about to make them so.
Exact == OneAtATime /\ ScenariosExact /\ RunExact /\ ReadsExact

LEMMA CountOfNothing == CountAssertions({}) = None
<1>1. \A o \in Outcome : {e \in {} \cap Assertions : o \in Outcomes[e]} = {} OBVIOUS
<1> QED BY <1>1, FS_EmptySet DEF CountAssertions, None

\* Initially nothing is stored, and nothing counted.
LEMMA InitExact == Init => Exact
<1> SUFFICES ASSUME Init PROVE Exact
  OBVIOUS
<1>1. \A s : InScenario(s) = {} BY DEF Init, InScenario
<1>2. ScenariosExact BY <1>1, CountOfNothing DEF Init, ScenariosExact
<1>3. RunExact BY CountOfNothing DEF Init, RunExact, None, Outcome
<1> QED BY <1>2, <1>3 DEF Init, Exact, OneAtATime, ReadsExact, ReadIsExact, Idle

\* The step of the one request r in flight.  The rest is idle before and after.
LEMMA AdvanceExact ==
  ASSUME IInv, TypeOK', Exact, NEW r \in Requests, Advance(r)
  PROVE  Exact'
<1> USE DEF At
<1>1. TypeOK BY DEF IInv
<1>2. req[r] # Idle /\ reported' = reported
  BY DEF Advance, UpsertScenario, StoreEvent, ReadScenario, WriteScenario, ReadRun,
         ReadStatus, WriteRun, Idle
<1>3. ASSUME NEW q \in Requests \ {r} PROVE req[q] = Idle /\ req'[q] = Idle
  <2>1. req[q] = Idle BY <1>2 DEF Exact, OneAtATime
  <2>2. CASE WriteRun(r) BY <2>1, <2>2 DEF WriteRun, Overtaken, Idle
  <2>3. CASE ~WriteRun(r)
    <3>1. req'[q] = req[q]
      BY <1>1, <2>3
      DEF Advance, UpsertScenario, StoreEvent, ReadScenario, WriteScenario, ReadRun,
          ReadStatus, Goto, NextEvent, TypeOK
    <3> QED BY <2>1, <3>1
  <2> QED BY <2>1, <2>2, <2>3
<1>4. OneAtATime' BY <1>3 DEF OneAtATime
<1>5. \A q \in Requests \ {r} : /\ ReadIsExact(q)' /\ ~ RecountsRun(q)
                                /\ \A s : ~ Recounts(q, s)
  BY <1>3 DEF ReadIsExact, RecountsRun, Recounts, Idle
<1>6. /\ ReadIsExact(r)
      /\ \A s \in Scenarios : scenario[s].counts = CountAssertions(InScenario(s)) \/ Recounts(r, s)
      /\ reported = {} =>
           /\ run.counts = CountAssertions(stored) \/ RecountsRun(r)
           /\ run.counts["failed"] > 0 <=> run.status = "FAILED"
  BY <1>5 DEF Exact, ReadsExact, ScenariosExact, RunExact
<1>7. SUFFICES /\ ReadIsExact(r)'
               /\ \A s \in Scenarios : \/ scenario'[s].counts = CountAssertions(InScenario(s)')
                                       \/ Recounts(r, s)'
               /\ reported = {} =>
                    /\ run'.counts = CountAssertions(stored') \/ RecountsRun(r)'
                    /\ run'.counts["failed"] > 0 <=> run'.status = "FAILED"
  BY <1>2, <1>4, <1>5 DEF Exact, ReadsExact, ScenariosExact, RunExact
<1>8. CASE UpsertScenario(r)
  <2>1. req'[r].pc = "store" BY <1>1, <1>8 DEF UpsertScenario, Goto, TypeOK
  <2>2. \A s \in Scenarios : scenario'[s].counts = scenario[s].counts
    BY <1>1, <1>8 DEF UpsertScenario, TypeOK
  <2>3. \A s : ~ Recounts(r, s) /\ InScenario(s)' = InScenario(s)
    BY <1>8 DEF UpsertScenario, Recounts, InScenario
  <2> QED BY <1>6, <1>8, <2>1, <2>2, <2>3 DEF UpsertScenario, RecountsRun, ReadIsExact
<1>9. CASE StoreEvent(r)
  <2>1. \A s : ~ Recounts(r, s) BY <1>9 DEF StoreEvent, Recounts
  <2>2. ~ RecountsRun(r) BY <1>9 DEF StoreEvent, RecountsRun
  <2>3. UNCHANGED <<scenario, run>> /\ stored' = stored \cup {Now(r)} BY <1>9 DEF StoreEvent
  <2>4. ReadIsExact(r)'
    BY <1>1, <1>9 DEF StoreEvent, Goto, NextEvent, Rest, ReadIsExact, Idle, TypeOK
  <2>5. CASE Now(r) \in stored
    <3>1. stored' = stored /\ \A s : InScenario(s)' = InScenario(s)
      BY <2>3, <2>5 DEF InScenario
    <3> QED BY <1>6, <2>1, <2>2, <2>3, <2>4, <3>1
  <2>6. CASE Now(r) \notin stored
    <3>1. /\ req'[r].batch = req[r].batch
          /\ req'[r].pc = IF ScenarioOf[Now(r)] = NoScenario THEN "readRun" ELSE "readScenario"
      BY <1>1, <1>9, <2>6 DEF StoreEvent, Goto, TypeOK
    <3>2. Now(r)' = Now(r) BY <3>1 DEF Now
    <3>3. RecountsRun(r)' BY <3>1 DEF RecountsRun
    <3>4. ASSUME NEW s \in Scenarios
          PROVE  scenario'[s].counts = CountAssertions(InScenario(s)') \/ Recounts(r, s)'
      <4>1. CASE s = ScenarioOf[Now(r)]
        BY <3>1, <3>2, <4>1, IngestAssumption DEF Recounts
      <4>2. CASE s # ScenarioOf[Now(r)]
        <5>1. InScenario(s)' = InScenario(s) BY <2>3, <4>2 DEF InScenario
        <5> QED BY <1>6, <2>1, <2>3, <5>1
      <4> QED BY <4>1, <4>2
    <3> QED BY <1>6, <2>3, <2>4, <3>3, <3>4
  <2> QED BY <2>5, <2>6
<1>10. CASE ReadScenario(r)
  <2>1. req'[r] = [pc |-> "writeScenario", batch |-> req[r].batch,
                   counts |-> CountAssertions(InScenario(ScenarioOf[Now(r)]))]
    BY <1>1, <1>10 DEF ReadScenario, TypeOK
  <2>2. Now(r)' = Now(r) BY <2>1 DEF Now
  <2>3. UNCHANGED <<stored, scenario, run>> /\ \A s : InScenario(s)' = InScenario(s)
    BY <1>10 DEF ReadScenario, InScenario
  <2>4. ReadIsExact(r)' BY <2>1, <2>2, <2>3 DEF ReadIsExact
  <2>5. RecountsRun(r)' /\ \A s : Recounts(r, s) => Recounts(r, s)'
    BY <2>1, <2>2 DEF RecountsRun, Recounts
  <2> QED BY <1>6, <2>3, <2>4, <2>5
<1>11. CASE WriteScenario(r)
  <2>1. req'[r] = [pc |-> "readRun", batch |-> req[r].batch]
    BY <1>1, <1>11 DEF WriteScenario, Goto, TypeOK
  <2>2. UNCHANGED <<stored, run>> /\ \A s : InScenario(s)' = InScenario(s)
    BY <1>11 DEF WriteScenario, InScenario
  <2>3. ReadIsExact(r)' /\ RecountsRun(r)' BY <2>1 DEF ReadIsExact, RecountsRun
  <2>4. ASSUME NEW s \in Scenarios PROVE scenario'[s].counts = CountAssertions(InScenario(s)')
    <3>1. CASE s = ScenarioOf[Now(r)]
      <4>1. scenario'[s].counts = req[r].counts
        BY <1>1, <1>11, <3>1 DEF WriteScenario, TypeOK
      <4> QED BY <1>6, <1>11, <2>2, <3>1, <4>1 DEF WriteScenario, ReadIsExact
    <3>2. CASE s # ScenarioOf[Now(r)]
      <4>1. scenario'[s].counts = scenario[s].counts
        BY <1>1, <1>11, <3>2 DEF WriteScenario, TypeOK
      <4> QED BY <1>6, <2>2, <3>2, <4>1 DEF Recounts
    <3> QED BY <3>1, <3>2
  <2> QED BY <1>6, <2>2, <2>3, <2>4
<1>12. CASE ReadRun(r)
  <2>1. req'[r] = [pc |-> "readStatus", batch |-> req[r].batch,
                   counts |-> CountAssertions(stored)]
    BY <1>1, <1>12 DEF ReadRun, TypeOK
  <2>2. UNCHANGED <<stored, scenario, run>> /\ \A s : InScenario(s)' = InScenario(s)
    BY <1>12 DEF ReadRun, InScenario
  <2>3. ReadIsExact(r)' /\ RecountsRun(r)' BY <2>1, <2>2 DEF ReadIsExact, RecountsRun
  <2>4. \A s : ~ Recounts(r, s) BY <1>12 DEF ReadRun, Recounts
  <2> QED BY <1>6, <2>2, <2>3, <2>4
<1>13. CASE ReadStatus(r)
  <2>1. req'[r] = [pc |-> "writeRun", batch |-> req[r].batch, counts |-> req[r].counts,
                   status |-> StatusFor(req[r].counts, run.status), overtaken |-> FALSE]
    BY <1>1, <1>13 DEF ReadStatus, TypeOK
  <2>2. UNCHANGED <<stored, scenario, run>> /\ \A s : InScenario(s)' = InScenario(s)
    BY <1>13 DEF ReadStatus, InScenario
  <2>3. ReadIsExact(r)' /\ RecountsRun(r)'
    BY <1>6, <1>13, <2>1, <2>2 DEF ReadStatus, ReadIsExact, RecountsRun
  <2>4. \A s : ~ Recounts(r, s) BY <1>13 DEF ReadStatus, Recounts
  <2> QED BY <1>6, <2>2, <2>3, <2>4
<1>14. CASE WriteRun(r)
  <2>1. UNCHANGED <<stored, scenario>> /\ \A s : InScenario(s)' = InScenario(s)
    BY <1>14 DEF WriteRun, InScenario
  <2>2. ReadIsExact(r)'
    BY <1>14 DEF WriteRun, Overtaken, Rest, ReadIsExact, Idle
  <2>3. /\ run'.counts = CountAssertions(stored)
        /\ run'.status = StatusFor(CountAssertions(stored), run.status)
    BY <1>6, <1>14 DEF WriteRun, ReadIsExact
  <2>4. ASSUME reported = {} PROVE run'.counts["failed"] > 0 <=> run'.status = "FAILED"
    <3>1. AtMost(run.counts, CountAssertions(stored)) BY <2>4 DEF IInv, NeverOvercounts
    <3>2. run.counts \in Counts /\ CountAssertions(stored) \in Counts
      BY <1>1, CountType DEF TypeOK
    <3>3. run.status = "FAILED" => CountAssertions(stored)["failed"] > 0
      BY <1>6, <2>4, <3>1, <3>2 DEF AtMost, Counts, Outcome
    <3> QED BY <2>3, <3>3 DEF StatusFor
  <2>5. \A s : ~ Recounts(r, s) BY <1>14 DEF WriteRun, Recounts
  <2> QED BY <1>6, <2>1, <2>2, <2>3, <2>4, <2>5
<1> QED BY <1>8, <1>9, <1>10, <1>11, <1>12, <1>13, <1>14 DEF Advance

\* Requests that keep to one at a time keep the counts exact.
LEMMA StepExact ==
  IInv /\ (serial => Exact) /\ [Next]_vars => (serial' => Exact')
<1> SUFFICES ASSUME IInv, serial => Exact, [Next]_vars, serial' PROVE Exact'
  OBVIOUS
<1>1. TypeOK /\ TypeOK' BY StepType DEF IInv
<1>2. ASSUME UNCHANGED vars PROVE Exact'
  BY <1>2 DEF vars, Exact, OneAtATime, ScenariosExact, RunExact, ReadsExact, ReadIsExact,
              Recounts, RecountsRun, InScenario, Now
<1>3. ASSUME NEW r \in Requests, Advance(r) PROVE Exact'
  <2>1. serial
    BY <1>3 DEF Advance, UpsertScenario, StoreEvent, ReadScenario, WriteScenario, ReadRun,
                ReadStatus, WriteRun
  <2> QED BY <1>1, <1>3, <2>1, AdvanceExact
<1>4. ASSUME NEW r \in Requests, Fail(r) PROVE Exact' BY <1>4 DEF Fail
<1>5. ASSUME NEW r \in Requests, NEW batch \in Batches, Ingest(r, batch) PROVE Exact'
  <2>1. serial /\ Quiet /\ UNCHANGED <<stored, scenario, run, reported>> BY <1>5 DEF Ingest
  <2>2. /\ req'[r].pc = "upsert"
        /\ \A q \in Requests \ {r} : req[q] = Idle /\ req'[q] = Idle
    BY <1>1, <1>5, <2>1 DEF Ingest, Quiet, TypeOK
  <2>3. \A q \in Requests : ~ RecountsRun(q) /\ \A s : ~ Recounts(q, s)
    BY <2>1 DEF Quiet, RecountsRun, Recounts, Idle
  <2>4. \A s : InScenario(s)' = InScenario(s) BY <2>1 DEF InScenario
  <2>5. OneAtATime' /\ ReadsExact'
    BY <2>2 DEF OneAtATime, ReadsExact, ReadIsExact, Idle
  <2> QED BY <2>1, <2>3, <2>4, <2>5 DEF Exact, ScenariosExact, RunExact
<1>6. ASSUME NEW r \in Requests, NEW status \in RunStatus,
             NEW totals \in {None, CountAssertions(Assertions)}, CompleteRun(r, status, totals)
      PROVE  Exact'
  <2>1. serial /\ Quiet /\ UNCHANGED <<stored, scenario>> /\ reported' # {}
    BY <1>6 DEF CompleteRun
  <2>2. \A q \in Requests : \A s : ~ Recounts(q, s) BY <2>1 DEF Quiet, Recounts, Idle
  <2>3. \A s : InScenario(s)' = InScenario(s) BY <2>1 DEF InScenario
  <2>4. \A q \in Requests : req'[q] = Idle
    BY <1>6, <2>1 DEF CompleteRun, Overtaken, Quiet, Idle, At
  <2>5. OneAtATime' /\ ReadsExact'
    BY <2>4 DEF OneAtATime, ReadsExact, ReadIsExact, Idle
  <2> QED BY <2>1, <2>2, <2>3, <2>5 DEF Exact, ScenariosExact, RunExact
<1> QED BY <1>2, <1>3, <1>4, <1>5, <1>6 DEF Next

\* Requests that come one at a time and do not fail, retried or not, leave counts
\* that are exactly those of what is stored.
THEOREM SerialCountsExact == Spec => []CountsExact
<1>1. (serial => Exact) => CountsExact
  BY DEF CountsExact, Quiet, Exact, ScenariosExact, RunExact, Recounts, RecountsRun, Idle
<1>2. Init => (serial => Exact) BY InitExact
<1> QED BY <1>1, <1>2, StepExact, InitIInv, StepIInv, PTL DEF Spec

-----------------------------------------------------------------------------
(* Reopening                                                               *)

\* A request that read the run as running, and was not overtaken since, still
\* finds it running.
StillHolds(q) ==
    req[q].pc = "writeRun" /\ req[q].status = "RUNNING" /\ ~req[q].overtaken =>
        run.status = "RUNNING"

ReadsStillHold == \A q \in Requests : StillHolds(q)

\* A write marks every such request when it ends the run.
LEMMA WriteOvertakes ==
  ASSUME TypeOK, ReadsStillHold, NEW q \in Requests, NEW status \in RunStatus,
         req'[q] = Overtaken(status)[q], run'.status = status
  PROVE  StillHolds(q)'
<1>1. Stays(q, req'[q]) BY OvertakenStays
<1>2. req'[q].pc = req[q].pc BY <1>1, StaysPut
<1>3. CASE req[q].pc # "writeRun" BY <1>2, <1>3 DEF StillHolds
<1>4. CASE req[q].pc = "writeRun"
  <2>1. req[q] \in Closing BY <1>4 DEF TypeOK, Idle, Working, Writing
  <2>2. CASE run.status = "RUNNING" /\ status # "RUNNING"
    BY <1>4, <2>1, <2>2 DEF Overtaken, At, StillHolds, Closing
  <2>3. CASE ~(run.status = "RUNNING" /\ status # "RUNNING")
    <3>1. req'[q] = req[q] BY <2>3 DEF Overtaken
    <3> QED BY <2>3, <3>1 DEF ReadsStillHold, StillHolds
  <2> QED BY <2>2, <2>3
<1> QED BY <1>3, <1>4

LEMMA StepStillHolds == TypeOK /\ ReadsStillHold /\ [Next]_vars => ReadsStillHold'
<1> SUFFICES ASSUME TypeOK, ReadsStillHold, [Next]_vars, NEW q \in Requests
             PROVE  StillHolds(q)'
  BY DEF ReadsStillHold
\* A step that leaves the row alone: the request was there already.
<1>1. ASSUME run' = run, req'[q] = req[q] \/ req'[q].pc # "writeRun" PROVE StillHolds(q)'
  BY <1>1 DEF ReadsStillHold, StillHolds
<1>2. ASSUME NEW r \in Requests, NEW batch \in Batches, Ingest(r, batch) PROVE StillHolds(q)'
  BY <1>1, <1>2 DEF Ingest, TypeOK
<1>3. ASSUME NEW r \in Requests, UpsertScenario(r) PROVE StillHolds(q)'
  BY <1>1, <1>3 DEF UpsertScenario, Goto, TypeOK
<1>4. ASSUME NEW r \in Requests, StoreEvent(r) PROVE StillHolds(q)'
  BY <1>1, <1>4 DEF StoreEvent, Goto, NextEvent, Rest, Idle, TypeOK
<1>5. ASSUME NEW r \in Requests, ReadScenario(r) PROVE StillHolds(q)'
  BY <1>1, <1>5 DEF ReadScenario, TypeOK
<1>6. ASSUME NEW r \in Requests, WriteScenario(r) PROVE StillHolds(q)'
  BY <1>1, <1>6 DEF WriteScenario, Goto, TypeOK
<1>7. ASSUME NEW r \in Requests, ReadRun(r) PROVE StillHolds(q)'
  BY <1>1, <1>7 DEF ReadRun, TypeOK
<1>8. ASSUME NEW r \in Requests, ReadStatus(r) PROVE StillHolds(q)'
  <2>1. CASE q = r
    <3>1. req'[q].status = StatusFor(req[r].counts, run.status) /\ run' = run
      BY <1>8, <2>1 DEF ReadStatus, TypeOK
    <3> QED BY <3>1 DEF StatusFor, StillHolds
  <2>2. CASE q # r BY <1>1, <1>8, <2>2 DEF ReadStatus, TypeOK
  <2> QED BY <2>1, <2>2
<1>9. ASSUME NEW r \in Requests, WriteRun(r) PROVE StillHolds(q)'
  <2>1. CASE q = r
    <3>1. req'[q] = Rest(r) BY <1>9, <2>1 DEF WriteRun, Overtaken
    <3> QED BY <3>1 DEF Rest, Idle, StillHolds
  <2>2. CASE q # r
    <3>1. req'[q] = Overtaken(req[r].status)[q] /\ run'.status = req[r].status
      BY <1>9, <2>2 DEF WriteRun, Overtaken
    <3>2. req[r].status \in RunStatus BY <1>9, RequestTypes DEF WriteRun, At, Idle
    <3> QED BY <3>1, <3>2, WriteOvertakes
  <2> QED BY <2>1, <2>2
<1>10. ASSUME NEW r \in Requests, Fail(r) PROVE StillHolds(q)'
  BY <1>1, <1>10 DEF Fail, Idle, TypeOK
<1>11. ASSUME NEW r \in Requests, NEW status \in RunStatus,
              NEW totals \in {None, CountAssertions(Assertions)}, CompleteRun(r, status, totals)
       PROVE  StillHolds(q)'
  BY <1>11, WriteOvertakes DEF CompleteRun
<1>12. CASE UNCHANGED vars BY <1>1, <1>12 DEF vars
<1> QED
  BY <1>2, <1>3, <1>4, <1>5, <1>6, <1>7, <1>8, <1>9, <1>10, <1>11, <1>12 DEF Next, Advance

\* However requests overlap, fail and are retried, one reopens a run that has ended
\* only when the run was ended between its read of the status and its write.
THEOREM LateEventsKeep == Spec => LateEventsKeepVerdict
<1>1. Init => ReadsStillHold BY DEF Init, ReadsStillHold, StillHolds, Idle
<1>2. ReadsStillHold =>
        [\A r \in Requests : WriteRun(r) /\ Reopened => req[r].overtaken]_vars
  BY DEF ReadsStillHold, StillHolds, WriteRun, Reopened, At
<1> QED
  BY <1>1, <1>2, StepStillHolds, TypeCorrect, PTL DEF Spec, LateEventsKeepVerdict
=============================================================================

------------------------- MODULE RunNaming_proofs --------------------------
(***************************************************************************)
(* For any runs, names and requests: findOrCreateRun names and numbers     *)
(* runs as RunNames says.  The argument: the advisory lock makes the       *)
(* transactions of a name exclusive (Exclusive), so the number one of them *)
(* read stays the next one (NumberIsFresh); an insert that waits for its   *)
(* competitors leaves at most one uncommitted row per run (OneInsert).     *)
(* RunNames in turn promises numbers without a gap, and so do the rows.    *)
(***************************************************************************)
EXTENDS RunNaming, TLAPS

Numbers(nm) == Abstract!Numbers(nm)
Latest(nm)  == Abstract!Latest(nm)

\* A name's numbers are an interval from 1, so that it has a latest one.
Counted == \A nm \in Names : \E k \in Nat : Numbers(nm) = 1..k

\* A transaction past lockRunNameSequence holds the lock of its name.
Inside(r) == req[r].pc \in {"latest", "insert", "commit"}
Exclusive == \A r \in Requests : Inside(r) => lock[req[r].name] = r

\* A row about to be committed is the only one of its run.
OneInsert ==
    \A r \in Requests : req[r].pc = "commit" =>
        /\ ~Exists(req[r].run)
        /\ \A q \in Requests : req[q].pc = "commit" /\ req[q].run = req[r].run => q = r

IInv == TypeOK /\ Counted /\ Exclusive /\ OneInsert /\ NumberIsFresh

\* The latest number of an interval is its end.
LEMMA LatestOfInterval ==
  ASSUME NEW nm, NEW k \in Nat, Numbers(nm) = 1..k
  PROVE  Latest(nm) = k
<1>1. k \in Numbers(nm) \cup {0} /\ \A m \in Numbers(nm) : m <= k
  OBVIOUS
<1>2. \A n \in Numbers(nm) \cup {0} : (\A m \in Numbers(nm) : m <= n) => n = k
  <2>1. CASE k = 0 BY <2>1
  <2>2. CASE k > 0
    <3>1. k \in Numbers(nm) BY <2>2
    <3> QED BY <3>1
  <2> QED BY <2>1, <2>2
<1> QED BY <1>1, <1>2 DEF Latest, Numbers, Abstract!Latest

\* So every name has a latest number, and it is a natural number.
LEMMA LatestType ==
  ASSUME Counted, NEW nm \in Names
  PROVE  Latest(nm) \in Nat
  BY LatestOfInterval DEF Counted

\* The rows alone decide a name's latest number.
LEMMA LatestOfRows ==
  ASSUME NEW nm, Numbers(nm)' = Numbers(nm)
  PROVE  Latest(nm)' = Latest(nm)
  BY DEF Latest, Numbers, Abstract!Latest

\* Initially there is no run and no transaction.
LEMMA InitIInv == Init => IInv
<1> SUFFICES ASSUME Init PROVE IInv
  OBVIOUS
<1>1. ASSUME NEW nm \in Names PROVE Numbers(nm) = 1..0
  BY <1>1, NamingAssumption DEF Init, Numbers, Abstract!Numbers
<1>2. Counted BY <1>1 DEF Counted
<1> QED
  BY <1>2 DEF Init, IInv, TypeOK, Idle, Exclusive, Inside, OneInsert, NumberIsFresh

\* A step that commits nothing leaves every number as it is.
LEMMA NothingCommitted ==
  ASSUME Counted, NumberIsFresh, UNCHANGED <<nameOf, number>>
  PROVE  Counted' /\ \A nm : Latest(nm)' = Latest(nm)
<1>1. \A nm : Numbers(nm)' = Numbers(nm) BY DEF Numbers, Abstract!Numbers
<1> QED BY <1>1, LatestOfRows DEF Counted

\* A run that is given the next number of its name leaves the other names alone.
LEMMA NumbersGrow ==
  ASSUME NEW run \in Runs, NEW nm \in Names, NEW k \in Nat, Counted,
         number \in [Runs -> Nat], nameOf \in [Runs -> Names \cup {NoName}],
         nameOf[run] = NoName, Numbers(nm) = 1..k,
         number' = [number EXCEPT ![run] = k + 1],
         nameOf' = [nameOf EXCEPT ![run] = nm]
  PROVE  Counted' /\ \A other \in Names : other # nm => Numbers(other)' = Numbers(other)
<1> USE NamingAssumption
<1>1. Numbers(nm)' = Numbers(nm) \cup {k + 1} BY DEF Numbers, Abstract!Numbers
<1>2. Numbers(nm)' = 1..(k + 1) BY <1>1
<1>3. ASSUME NEW other \in Names, other # nm PROVE Numbers(other)' = Numbers(other)
  BY <1>3 DEF Numbers, Abstract!Numbers
<1>4. ASSUME NEW other \in Names PROVE \E n \in Nat : Numbers(other)' = 1..n
  <2>1. CASE other = nm BY <1>2, <2>1
  <2>2. CASE other # nm BY <1>3, <2>2 DEF Counted
  <2> QED BY <2>1, <2>2
<1> QED BY <1>3, <1>4 DEF Counted

\* A commit is the next number of its name, and no other name's.
LEMMA CommitNumbers ==
  ASSUME IInv, NEW r \in Requests, Commit(r)
  PROVE  /\ Counted'
         /\ \A nm \in Names : nm # req[r].name => Latest(nm)' = Latest(nm)
         /\ Abstract!Appear(req[r].run, req[r].name)
<1> USE NamingAssumption DEF IInv, Commit
<1>1. PICK run \in Runs, nm \in Names : req[r].run = run /\ req[r].name = nm
  BY DEF TypeOK, Idle, Transaction, Insertion
<1>2. req[r].num = Latest(nm) + 1 BY <1>1 DEF NumberIsFresh, Latest
<1>3. nameOf[run] = NoName BY <1>1 DEF OneInsert, Exists
<1>4. PICK k \in Nat : Numbers(nm) = 1..k BY DEF Counted
<1>5. req[r].num = k + 1 BY <1>2, <1>4, LatestOfInterval
<1>6. number' = [number EXCEPT ![run] = k + 1] /\ nameOf' = [nameOf EXCEPT ![run] = nm]
  BY <1>1, <1>5
<1>7. nameOf \in [Runs -> Names \cup {NoName}] /\ number \in [Runs -> Nat] BY DEF TypeOK
<1>8. Counted' /\ \A other \in Names : other # nm => Numbers(other)' = Numbers(other)
  BY <1>3, <1>4, <1>6, <1>7, NumbersGrow
<1>9. Abstract!Appear(req[r].run, req[r].name)
  BY <1>1, <1>2, <1>3, <1>6, <1>5 DEF Abstract!Appear, Latest
<1> QED BY <1>1, <1>8, <1>9, LatestOfRows

\* Every step keeps the invariant.
LEMMA StepIInv == IInv /\ [Next]_vars => IInv'
<1> SUFFICES ASSUME IInv, [Next]_vars PROVE IInv'
  OBVIOUS
<1> USE NamingAssumption DEF IInv, TypeOK, Idle, Transaction, Insertion, Exclusive, Inside,
                             OneInsert, NumberIsFresh, Latest, Leave
<1>1. ASSUME NEW r \in Requests, NEW run \in Runs, NEW nm \in Names, Find(r, run, nm)
      PROVE  IInv'
  BY <1>1, NothingCommitted DEF Find, Exists
<1>2. ASSUME NEW r \in Requests, Lock(r) PROVE IInv'
  BY <1>2, NothingCommitted DEF Lock, Exists
<1>3. ASSUME NEW r \in Requests, ReadLatest(r) PROVE IInv'
  BY <1>3, NothingCommitted, LatestType DEF ReadLatest, Exists
<1>4. ASSUME NEW r \in Requests, Insert(r) PROVE IInv'
  BY <1>4, NothingCommitted DEF Insert, Exists, Clash
<1>5. ASSUME NEW r \in Requests, Commit(r) PROVE IInv'
  <2> USE <1>5 DEF Commit
  <2>1. TypeOK' /\ Exclusive' OBVIOUS
  <2>2. Counted' BY CommitNumbers
  <2>3. OneInsert' BY DEF Exists
  <2>4. NumberIsFresh'
    <3> SUFFICES ASSUME NEW q \in Requests, q # r, req[q].pc \in {"insert", "commit"}
                 PROVE  req[q].num = Latest(req[q].name)' + 1
      OBVIOUS
    <3>1. PICK nm \in Names : req[q].name = nm OBVIOUS
    <3>2. nm # req[r].name BY <3>1
    <3>3. Latest(nm)' = Latest(nm) BY <3>2, CommitNumbers
    <3> QED BY <3>1, <3>3
  <2> QED BY <2>1, <2>2, <2>3, <2>4
<1>6. ASSUME NEW r \in Requests, Rollback(r) PROVE IInv'
  BY <1>6, NothingCommitted DEF Rollback, Exists
<1>7. CASE UNCHANGED vars BY <1>7, NothingCommitted DEF vars, Exists
<1> QED BY <1>1, <1>2, <1>3, <1>4, <1>5, <1>6, <1>7 DEF Next, Step

\* The state is well typed: in particular every name always has a latest number.
THEOREM TypeCorrect == Spec => []TypeOK
<1>1. IInv => TypeOK BY DEF IInv
<1> QED BY <1>1, InitIInv, StepIInv, PTL DEF Spec

\* Under the lock the number that was read is still the next one at the insert
\* and at the commit.
THEOREM FreshUnderLock == Spec => []NumberIsFresh
<1>1. IInv => NumberIsFresh BY DEF IInv
<1> QED BY <1>1, InitIInv, StepIInv, PTL DEF Spec

\* findOrCreateRun implements the atomic numbering of runs.
THEOREM NamingRefines == Spec => ImplementsRunNames
<1>1. Init => Abstract!Init BY DEF Init, Abstract!Init
<1>2. IInv /\ [Next]_vars => [Abstract!Next]_<<nameOf, number>>
  <2> SUFFICES ASSUME IInv, [Next]_vars PROVE [Abstract!Next]_<<nameOf, number>>
    OBVIOUS
  <2>1. ASSUME NEW r \in Requests, Commit(r) PROVE Abstract!Next
    <3>1. req[r].run \in Runs /\ req[r].name \in Names
      BY <2>1 DEF Commit, IInv, TypeOK, Idle, Transaction, Insertion
    <3> QED BY <2>1, <3>1, CommitNumbers DEF Abstract!Next
  <2>2. CASE UNCHANGED <<nameOf, number>> BY <2>2
  <2> QED BY <2>1, <2>2 DEF Next, Step, Find, Lock, ReadLatest, Insert, Rollback, vars
<1> QED BY <1>1, <1>2, InitIInv, StepIInv, PTL DEF Spec, ImplementsRunNames, Abstract!Spec
-----------------------------------------------------------------------------
(* What the abstract numbering promises                                    *)

\* No two runs of a name share a number.
Distinct ==
    \A x, y \in Runs :
        nameOf[x] = nameOf[y] /\ nameOf[x] # NoName /\ number[x] = number[y] => x = y

Numbered ==
    /\ nameOf \in [Runs -> Names \cup {NoName}]
    /\ number \in [Runs -> Nat]
    /\ Counted
    /\ Distinct

\* A run that appears takes a number above all of its name's.
LEMMA AppearNumbered ==
  ASSUME Numbered, NEW run \in Runs, NEW nm \in Names, Abstract!Appear(run, nm)
  PROVE  Numbered'
<1> USE NamingAssumption DEF Numbered, Abstract!Appear
<1>1. PICK k \in Nat : Numbers(nm) = 1..k BY DEF Counted
<1>2. number' = [number EXCEPT ![run] = k + 1] BY <1>1, LatestOfInterval DEF Latest
<1>3. Counted' BY <1>1, <1>2, NumbersGrow
<1>4. \A x \in Runs : nameOf[x] = nm => number[x] # k + 1
  <2>1. \A x \in Runs : nameOf[x] = nm => number[x] \in Numbers(nm)
    BY DEF Numbers, Abstract!Numbers
  <2> QED BY <1>1, <2>1
<1>5. Distinct' BY <1>2, <1>4 DEF Distinct
<1> QED BY <1>2, <1>3, <1>5

\* The abstract numbering has no gap and no duplicate, at every moment.
THEOREM NumberedWithoutGap == Abstract!Spec => []Abstract!Gapless
<1>1. Abstract!Init => Numbered
  <2> SUFFICES ASSUME Abstract!Init PROVE Numbered
    OBVIOUS
  <2>1. ASSUME NEW nm \in Names PROVE Numbers(nm) = 1..0
    BY <2>1, NamingAssumption DEF Abstract!Init, Numbers, Abstract!Numbers
  <2> QED BY <2>1 DEF Abstract!Init, Numbered, Counted, Distinct
<1>2. Numbered /\ [Abstract!Next]_<<nameOf, number>> => Numbered'
  <2> SUFFICES ASSUME Numbered, [Abstract!Next]_<<nameOf, number>> PROVE Numbered'
    OBVIOUS
  <2>1. CASE UNCHANGED <<nameOf, number>>
    BY <2>1 DEF Numbered, Counted, Distinct, Numbers, Abstract!Numbers
  <2> QED BY <2>1, AppearNumbered DEF Abstract!Next
<1>3. Numbered => Abstract!Gapless
  <2> SUFFICES ASSUME Numbered, NEW nm \in Names
               PROVE  /\ \A run \in Runs : nameOf[run] = nm =>
                           /\ number[run] > 0
                           /\ \A n \in 1..number[run] : n \in Abstract!Numbers(nm)
                      /\ \A x, y \in Runs : nameOf[x] = nm /\ nameOf[y] = nm
                                            /\ number[x] = number[y] => x = y
    BY DEF Abstract!Gapless
  <2>1. PICK k \in Nat : Numbers(nm) = 1..k BY DEF Numbered, Counted
  <2>2. \A run \in Runs : nameOf[run] = nm => number[run] \in 1..k
    BY <2>1 DEF Numbers, Abstract!Numbers
  <2>3. \A run \in Runs : nameOf[run] = nm =>
          number[run] > 0 /\ \A n \in 1..number[run] : n \in Abstract!Numbers(nm)
    BY <2>1, <2>2 DEF Numbers
  <2> QED BY <2>3, NamingAssumption DEF Numbered, Distinct
<1> QED BY <1>1, <1>2, <1>3, PTL DEF Abstract!Spec

\* So the rows that findOrCreateRun's transactions commit have the numbers 1 to n
\* for each name, once each, however they overlap and roll back.
THEOREM RunsWithoutGap == Spec => []Abstract!Gapless
  BY NamingRefines, NumberedWithoutGap, PTL DEF ImplementsRunNames
=============================================================================

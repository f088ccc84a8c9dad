----------------------------- MODULE RunNaming -----------------------------
(***************************************************************************)
(* How a regression run gets its row: findOrCreateRun of                   *)
(* services/regressionRun.service.ts, called by every event, artifact and  *)
(* summary a test client sends.  A request that does not find the run      *)
(* opens a transaction, takes an advisory lock on the name, reads the      *)
(* highest number in use, and inserts the next one.                        *)
(*                                                                         *)
(* Postgres at READ COMMITTED: the lock is held to the end of the          *)
(* transaction, a statement sees what was committed before it began, and   *)
(* an insert waits for an uncommitted row with the same key, then fails if *)
(* that row was committed.  One application; the other columns of a row    *)
(* and the update of a run that is found are abstracted: neither touches   *)
(* its name or its number.                                                 *)
(***************************************************************************)
EXTENDS Naturals

CONSTANTS Runs, Names, NoName,
          Requests,   \* slots of requests in flight
          Nobody      \* the holder of a free lock

ASSUME NamingAssumption ==
    /\ NoName \notin Names
    /\ Nobody \notin Requests

VARIABLES
    nameOf, number,   \* the committed rows of regression_runs
    lock,             \* holder of each name's advisory lock
    req               \* requests inside findOrCreateRun

vars == <<nameOf, number, lock, req>>

\* The committed rows are the runs of the abstract specification.
Abstract == INSTANCE RunNames
              WITH Runs <- Runs, Names <- Names, NoName <- NoName,
                   nameOf <- nameOf, number <- number

Idle == [pc |-> "idle"]

Transaction == [pc : {"lock", "latest"}, run : Runs, name : Names]
Insertion   == [pc : {"insert", "commit"}, run : Runs, name : Names, num : Nat]

TypeOK ==
    /\ nameOf \in [Runs -> Names \cup {NoName}]
    /\ number \in [Runs -> Nat]
    /\ lock \in [Names -> Requests \cup {Nobody}]
    /\ req \in [Requests -> {Idle} \cup Transaction \cup Insertion]

Exists(run) == nameOf[run] # NoName

-----------------------------------------------------------------------------
(* findOrCreateRun                                                         *)

\* A run that is found is returned or updated; one that is not opens a
\* transaction.
Find(r, run, nm) ==
    /\ req[r] = Idle
    /\ ~Exists(run)
    /\ req' = [req EXCEPT ![r] = [pc |-> "lock", run |-> run, name |-> nm]]
    /\ UNCHANGED <<nameOf, number, lock>>

\* Slip: the lock is asked for outside the transaction, and so not held.
LockNotHeld(r) ==
    /\ req[r].pc = "lock"
    /\ req' = [req EXCEPT ![r].pc = "latest"]
    /\ UNCHANGED <<nameOf, number, lock>>

\* lockRunNameSequence: waits while another transaction holds the name.
Lock(r) ==
    /\ req[r].pc = "lock"
    /\ lock[req[r].name] = Nobody
    /\ lock' = [lock EXCEPT ![req[r].name] = r]
    /\ req' = [req EXCEPT ![r].pc = "latest"]
    /\ UNCHANGED <<nameOf, number>>

\* findFirst by name, highest number first.
ReadLatest(r) ==
    /\ req[r].pc = "latest"
    /\ req' = [req EXCEPT ![r] = [pc |-> "insert", run |-> req[r].run, name |-> req[r].name,
                                  num |-> Abstract!Latest(req[r].name) + 1]]
    /\ UNCHANGED <<nameOf, number, lock>>

\* Two rows that cannot both exist: unique (application, run id) and unique
\* (application, name, number).
Clash(run, nm, num, otherRun, otherName, otherNum) ==
    run = otherRun \/ (nm = otherName /\ num = otherNum)

\* Slip: the lock outlives the transaction.
LeaveLocked(r) ==
    /\ req' = [req EXCEPT ![r] = Idle]
    /\ UNCHANGED lock

\* The end of a transaction, whatever its outcome.
Leave(r) ==
    /\ lock' = [lock EXCEPT ![req[r].name] = Nobody]
    /\ req' = [req EXCEPT ![r] = Idle]

\* Slip: a row of the same run is written over, not refused.
InsertOver(r) ==
    /\ req[r].pc = "insert"
    /\ req' = [req EXCEPT ![r].pc = "commit"]
    /\ UNCHANGED <<nameOf, number, lock>>

\* The insert waits for an uncommitted row it clashes with; a committed one makes
\* the transaction fail (P2002), which ends the request with an error.
Insert(r) ==
    /\ req[r].pc = "insert"
    /\ \A q \in Requests : req[q].pc = "commit" =>
         ~Clash(req[r].run, req[r].name, req[r].num, req[q].run, req[q].name, req[q].num)
    /\ IF \E run \in Runs :
            Exists(run) /\ Clash(req[r].run, req[r].name, req[r].num,
                                 run, nameOf[run], number[run])
         THEN Leave(r)
         ELSE UNCHANGED lock /\ req' = [req EXCEPT ![r].pc = "commit"]
    /\ UNCHANGED <<nameOf, number>>

Commit(r) ==
    /\ req[r].pc = "commit"
    /\ nameOf' = [nameOf EXCEPT ![req[r].run] = req[r].name]
    /\ number' = [number EXCEPT ![req[r].run] = req[r].num]
    /\ Leave(r)

\* The transaction is lost with its connection or its time limit.
Rollback(r) ==
    /\ req[r].pc \in {"latest", "insert", "commit"}
    /\ Leave(r)
    /\ UNCHANGED <<nameOf, number>>

-----------------------------------------------------------------------------
(* Specification                                                           *)

Init ==
    /\ nameOf = [run \in Runs |-> NoName]
    /\ number = [run \in Runs |-> 0]
    /\ lock = [nm \in Names |-> Nobody]
    /\ req = [r \in Requests |-> Idle]

Step(r) == Lock(r) \/ ReadLatest(r) \/ Insert(r) \/ Commit(r)

Next ==
    \/ \E r \in Requests, run \in Runs, nm \in Names : Find(r, run, nm)
    \/ \E r \in Requests : Step(r) \/ Rollback(r)

Spec == Init /\ [][Next]_vars

\* A transaction goes on; Postgres grants a lock, the advisory one as well as the
\* one an insert waits for, to every waiter in turn.
Fairness ==
    /\ \A r \in Requests : WF_vars(ReadLatest(r) \/ Commit(r))
    /\ \A r \in Requests : SF_vars(Lock(r)) /\ SF_vars(Insert(r))

FairSpec == Spec /\ Fairness

-----------------------------------------------------------------------------
(* Properties                                                              *)

\* findOrCreateRun numbers runs as if each appeared in one step.
ImplementsRunNames == Abstract!Spec

\* Under the lock the number a request read stays the next one until it commits,
\* so an insert fails only because the same run was created meanwhile, never for
\* a number that another run of the name took.
NumberIsFresh ==
    \A r \in Requests : req[r].pc \in {"insert", "commit"} =>
        req[r].num = Abstract!Latest(req[r].name) + 1

\* A client that reports on a run sees it exist, or its own request fail: every
\* request inside a transaction ends, also while others hold the lock or wait
\* for the same run under another name.
RequestEnds == \A r \in Requests : (req[r] # Idle) ~> (req[r] = Idle)
=============================================================================

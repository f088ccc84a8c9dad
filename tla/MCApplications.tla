--------------------------- MODULE MCApplications --------------------------
(* Applications for TLC.  Sessions and schedules meet only in a deletion,  *)
(* which treats them one after the other: a behaviour follows the sessions *)
(* or the schedule, and among the former more requests or more deletions.  *)
EXTENDS Applications, TLC

CONSTANTS auto, v1, r1, r2, d1, d2, e1, e2

OneAuto    == {auto}
NoneOf     == {}
NoFaults   == {}
OneVersion == {v1}
TheVersion == [s \in Sessions |-> v1]
TwoSlots   == {r1, r2}
TwoDeleters == {d1, d2}
TwoEditors == {e1, e2}

\* What a request may say of mode and version.
Aims == {<<"same", "same">>, <<"LATEST_VERSION", "same">>}
        \cup ({"same", "FIXED_VERSION"} \X Versions)

\* A request that names the type gives what that type asks for; one that changes the
\* date or the expression without naming it gives nothing else.
FewInputs ==
    {[type |-> t, mode |-> aim[1], version |-> aim[2], active |-> a,
      cron |-> IF t = "CRON" THEN "given" ELSE "same",
      runAt |-> IF t = "ONCE" THEN "given" ELSE "same"] :
        t \in Types \cup {"same"}, aim \in Aims, a \in {"yes", "no", "same"}}
    \cup
    {[type |-> "same", mode |-> "same", version |-> "same", active |-> "same",
      cron |-> c, runAt |-> r] : c \in {"given", "empty", "same"}, r \in {"given", "same"}}

VARIABLE topic

MCInit == AppInit /\ topic \in {"sessions", "deletions", "schedule"}

\* Two requests, or two schedule changes, and one deletion; or two deletions and one
\* request.
Topical ==
    /\ topic # "deletions" => Cardinality({d \in Deleters : deletion'[d] # NoDeletion}) <= 1
    /\ topic = "deletions" => Cardinality({r \in Requests : req'[r] # Idle}) <= 1
    /\ topic = "schedule"  => row' = row
    /\ topic # "schedule"  => schedule' = schedule /\ edit' = edit

MCNext == AppNext /\ Topical /\ UNCHANGED topic

MCSpec == MCInit /\ [][MCNext]_<<appVars, topic>>

Symmetric ==
    Permutations(Requests) \cup Permutations(Editors) \cup Permutations(Deleters)
=============================================================================

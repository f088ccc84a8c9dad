------------------------------ MODULE RunNames ------------------------------
(***************************************************************************)
(* What naming a regression run promises: the runs of an application that  *)
(* share a name are numbered 1, 2, 3, ... in the order they appear, and a  *)
(* run keeps its name and number.  RunNaming shows how findOrCreateRun     *)
(* does it with transactions.                                              *)
(***************************************************************************)
EXTENDS Naturals

CONSTANTS
    Runs,    \* run ids the clients report on
    Names,   \* base names, normalised
    NoName   \* the name of a run that does not exist, not one of Names

VARIABLES
    nameOf,  \* base name of each run
    number   \* its nameNumber; 0 when there is no such run

Numbers(nm) == {number[run] : run \in {x \in Runs : nameOf[x] = nm}}

\* The highest number in use for a name, 0 when it has none.
Latest(nm) == CHOOSE n \in Numbers(nm) \cup {0} : \A m \in Numbers(nm) : m <= n

Init ==
    /\ nameOf = [run \in Runs |-> NoName]
    /\ number = [run \in Runs |-> 0]

\* A run appears under a name and takes the next number.
Appear(run, nm) ==
    /\ nameOf[run] = NoName
    /\ nameOf' = [nameOf EXCEPT ![run] = nm]
    /\ number' = [number EXCEPT ![run] = Latest(nm) + 1]

Next == \E run \in Runs, nm \in Names : Appear(run, nm)

Spec == Init /\ [][Next]_<<nameOf, number>>

\* The numbers of a name have no gap and no duplicate: "Checkout 1" to
\* "Checkout n" exist, once each.
Gapless ==
    \A nm \in Names :
        /\ \A run \in Runs : nameOf[run] = nm =>
             /\ number[run] > 0
             /\ \A n \in 1..number[run] : n \in Numbers(nm)
        /\ \A x, y \in Runs : nameOf[x] = nm /\ nameOf[y] = nm /\ number[x] = number[y] => x = y
=============================================================================

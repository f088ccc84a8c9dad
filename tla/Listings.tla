------------------------------ MODULE Listings ------------------------------
(***************************************************************************)
(* A client reads a list page by page while rows come and go: the runs of  *)
(* an application, the events of a scenario, the crawl sessions of a       *)
(* version and the test flows of an application.  Each has a cursor of its *)
(* own make.                                                               *)
(*                                                                         *)
(* A row is its id; "at" is the creation time of a run, a session or a     *)
(* flow and the timestamp an event came with.  Sessions are deleted with   *)
(* their version only, all at once; the other lists only grow.             *)
(*                                                                         *)
(* Abstracted: the filters, which are the same for every page, and what    *)
(* the rows hold.                                                          *)
(***************************************************************************)
EXTENDS Naturals, FiniteSets, SequencesExt

CONSTANTS
    Rows,     \* ids, which break ties in the order of the test flows
    LastTime,  \* bound on the clock
    Limit     \* query.limit, pageSize

ASSUME ListingsAssumption ==
    /\ Rows \subseteq Nat /\ 0 \notin Rows
    /\ LastTime \in Nat \ {0}
    /\ Limit \in Nat \ {0}

VARIABLES
    kind,    \* the list that is read
    table,   \* the rows there are
    at,      \* [Rows -> their time], 0 for an id not used yet
    clock,   \* the server's clock
    cursor,  \* what the client sends for the next page
    shown,   \* [Rows -> how often the client got the row]
    fresh    \* (ghost) rows that came after the first page was asked for

listingVars == <<kind, table, at, clock, cursor, shown, fresh>>

-----------------------------------------------------------------------------
(* Types                                                                   *)

ListKinds == {"runs", "events", "sessions", "flows"}

\* runs and events: a time; flows: a row; sessions: a page.  None: the first page.
None   == [to |-> "start"]
Cursor == [to : {"time"}, time : Nat] \cup [to : {"row"}, row : Rows]
          \cup [to : {"page"}, page : Nat] \cup {None, [to |-> "end"]}

ListingsTypeOK ==
    /\ kind \in ListKinds
    /\ table \subseteq Rows
    /\ at \in [Rows -> 0 .. LastTime]
    /\ clock \in 1 .. LastTime
    /\ cursor \in Cursor
    /\ shown \in [Rows -> Nat]
    /\ fresh \subseteq Rows

-----------------------------------------------------------------------------
(* The tables                                                              *)

Unused == {r \in Rows : at[r] = 0}

Insert(r, time) ==
    /\ table' = table \cup {r}
    /\ at' = [at EXCEPT ![r] = time]
    /\ fresh' = IF cursor = None THEN fresh ELSE fresh \cup {r}
    /\ UNCHANGED <<kind, clock, cursor, shown>>

\* now(); the timestamp of an event is the reporting client's.  Where ids order
\* nothing, rows take them in turn.
InsertRow ==
    \E r \in Unused :
        /\ kind # "flows" => r = Min(Unused)
        /\ IF kind = "events" THEN \E time \in 1 .. LastTime : Insert(r, time) ELSE Insert(r, clock)

ClockTicks ==
    /\ clock < LastTime
    /\ clock' = clock + 1
    /\ UNCHANGED <<kind, table, at, cursor, shown, fresh>>

-----------------------------------------------------------------------------
(* The answers                                                             *)

\* ORDER BY: what certainly comes before r; rows of one time come in any order
\* but for the flows, whose ids break the tie.
Before(q, r) ==
    CASE kind = "events" -> at[q] < at[r]
      [] kind = "flows"  -> at[q] > at[r] \/ (at[q] = at[r] /\ q > r)
      [] OTHER           -> at[q] > at[r]

\* The orders in which the database may return the rows of a set.
Orders(rows) ==
    {s \in [1 .. Cardinality(rows) -> rows] :
        /\ \A i, j \in DOMAIN s : i # j => s[i] # s[j]
        /\ \A i, j \in DOMAIN s : Before(s[i], s[j]) => i < j}

Show(rows) == shown' = [r \in Rows |-> shown[r] + IF Contains(rows, r) THEN 1 ELSE 0]

Taken(s, skip, take) == SubSeq(s, skip + 1, IF skip + take < Len(s) THEN skip + take ELSE Len(s))

\* Slip: the next page starts at the first row that did not fit.
PageEndBeyond(rows) == rows[Limit + 1]

PageEnd(rows) == rows[Limit]

End == [to |-> "end"]

\* listRuns, listScenarioEvents: one row more than a page holds tells that there is
\* a next page; it starts behind the time of this page's last row.
ByTime ==
    LET where == IF cursor = None THEN table
                 ELSE {r \in table : IF kind = "runs" THEN at[r] < cursor.time
                                                      ELSE at[r] > cursor.time}
    IN \E s \in Orders(where) :
         LET rows == Taken(s, 0, Limit + 1)
         IN /\ Show(Taken(rows, 0, Limit))
            /\ cursor' = IF Len(rows) > Limit
                         THEN [to |-> "time", time |-> at[PageEnd(rows)]]
                         ELSE End

\* getSessions: an offset, and the number of all rows.
Offset == IF cursor = None THEN 0 ELSE cursor.page * Limit

ByOffset ==
    \E s \in Orders(table) :
        /\ Show(Taken(s, Offset, Limit))
        /\ cursor' = IF Offset + Limit < Cardinality(table)
                     THEN [to |-> "page", page |-> IF cursor = None THEN 1 ELSE cursor.page + 1]
                     ELSE End

\* listTestFlows: the row of the cursor itself is skipped; the next cursor is the
\* first row that did not fit on this page.
ByRow ==
    \E s \in Orders(table) :
        LET start == IF cursor = None THEN 0 ELSE CHOOSE i \in DOMAIN s : s[i] = cursor.row
            rows  == Taken(s, start, Limit + 1)
        IN /\ Show(Taken(rows, 0, Limit))
           /\ cursor' = IF Len(rows) > Limit THEN [to |-> "row", row |-> rows[Limit + 1]]
                                             ELSE End

ReadPage ==
    /\ cursor # End
    /\ CASE kind \in {"runs", "events"} -> ByTime
         [] kind = "sessions"           -> ByOffset
         [] kind = "flows"              -> ByRow
    /\ UNCHANGED <<kind, table, at, clock, fresh>>

-----------------------------------------------------------------------------
(* Specification                                                           *)

ListingsInit ==
    /\ kind \in ListKinds
    /\ table = {} /\ at = [r \in Rows |-> 0] /\ clock = 1
    /\ cursor = None /\ shown = [r \in Rows |-> 0]
    /\ fresh = {}

ListingsNext == InsertRow \/ ClockTicks \/ ReadPage

ListingsSpec == ListingsInit /\ [][ListingsNext]_listingVars

-----------------------------------------------------------------------------
(* Properties                                                              *)

NoneTwice == \A r \in Rows : shown[r] <= 1

AloneAt(r) == \A q \in table \ {r} : at[q] # at[r]

\* Every row there was when the first page was asked for.
AllShown(rows) == cursor = End => \A r \in rows : shown[r] > 0

\* Whatever is inserted between two pages, a client that follows the cursors to the
\* end gets no run, event or flow twice, and has seen every run or event that was
\* there from the start and shares its time with no other; a list of sessions is
\* complete and without repetition if nothing came in between and no two sessions
\* share their time.
PagesExact ==
    /\ kind # "sessions" => NoneTwice
    /\ kind \in {"runs", "events"} => AllShown({r \in table \ fresh : AloneAt(r)})
    /\ kind = "sessions" /\ fresh = {} /\ (\A r \in table : AloneAt(r)) =>
          /\ NoneTwice
          /\ AllShown(table)

\* A client that follows nextCursor through the test flows of an application gets
\* all of them that were there when it asked for the first page.
FlowPagesShowAll == kind = "flows" => AllShown(table \ fresh)
=============================================================================

---------------------------- MODULE Applications ----------------------------
(***************************************************************************)
(* A target application: its versions, the crawl sessions of each version, *)
(* a crawl schedule, and the deletions that end them.                      *)
(*                                                                         *)
(* The sessions are those of CrawlSession, whose requests run at the same  *)
(* time.  A deletion lists the active sessions, aborts them side by side   *)
(* (Promise.all), and only then drops the row, which takes everything that *)
(* refers to it along by the foreign keys of schema.prisma.  deletion[d]   *)
(* holds where one stands.                                                 *)
(*                                                                         *)
(* Abstracted: names, URLs, API keys, crawl and codegen settings, artifact *)
(* storage (it works or it throws), and the scheduler, which is another    *)
(* program.  A date or a cron expression is there or not; an empty one is  *)
(* not.                                                                    *)
(***************************************************************************)
EXTENDS CrawlSession

CONSTANTS
    Versions,    \* versions of the application
    VersionOf,   \* [Sessions -> Versions]
    Deleters,    \* slots of deletions in flight
    Editors,     \* slots of schedule changes in flight
    Inputs,      \* combinations of fields a schedule request may carry
    CleanupMayFail  \* whether Redis or the artifact storage fails a deletion

ASSUME ApplicationsAssumption ==
    VersionOf \in [Sessions -> Versions] /\ CleanupMayFail \in BOOLEAN

VARIABLES
    app,         \* the application's row: live or gone
    version,     \* [Versions -> absent, live or gone]
    deletion,    \* deletions in flight
    schedule,    \* the row of crawl_schedules
    edit         \* schedule changes in flight

appVars == <<vars, app, version, deletion, schedule, edit>>
sessionVars == vars
rest == <<app, version, deletion, schedule, edit>>

-----------------------------------------------------------------------------
(* Types                                                                   *)

NoDeletion == [of |-> "none"]

\* of: the version, the application or the whole project.  step says how far each
\* listed session is; there (ghost): the sessions that had a row at the listing.
Branch   == {"unlisted", "remove", "write", "done", "failed"}
Deletion == [of : {"version"}, version : Versions, there : SUBSET Sessions,
             pc : {"list", "abort", "deactivate", "drop"}, step : [Sessions -> Branch]]
            \cup
            [of : {"app", "project"}, there : SUBSET Sessions,
             pc : {"list", "abort", "artifacts", "drop"}, step : [Sessions -> Branch]]

Modes == {"LATEST_VERSION", "FIXED_VERSION"}
Types == {"ONCE", "CRON"}

\* runAt, cron: whether the column is set; next: whether nextRunAt is runAt.
\* late (ghost): switched on without its version, or while that was being deleted;
\* emptied (ghost): an update that named no type took a CRON schedule's expression.
NoSchedule == [row |-> "none"]
Schedule   == [type : Types, mode : Modes, version : Versions \cup {"none"},
               runAt : BOOLEAN, cron : BOOLEAN, next : BOOLEAN, active : BOOLEAN,
               late : BOOLEAN, emptied : BOOLEAN]

\* What a request asks for; "same": the field is not in it, or it is an empty date.
\* new: the columns it makes of that and of the row it read.
Input == [type : Types \cup {"same"}, mode : Modes \cup {"same"},
          version : Versions \cup {"same"}, active : {"yes", "no", "same"},
          cron : {"given", "empty", "same"}, runAt : {"given", "same"}]

ASSUME InputsAssumption == Inputs \subseteq Input

NoEdit == [op |-> "none"]
Edit   == [op : {"create", "update"}, pc : {"version", "write"}, new : Schedule]

AppTypeOK ==
    /\ TypeOK
    /\ app \in {"live", "gone"}
    /\ version \in [Versions -> {"absent", "live", "gone"}]
    /\ deletion \in [Deleters -> Deletion \cup {NoDeletion}]
    /\ schedule \in Schedule \cup {NoSchedule}
    /\ edit \in [Editors -> Edit \cup {NoEdit}]

-----------------------------------------------------------------------------
(* Sessions and versions                                                   *)

SessionsOf(v) == {s \in Sessions : VersionOf[s] = v}

\* A session is created for a version that exists; all else is CrawlSession's.
SessionStep ==
    /\ Next
    /\ \A s \in Sessions :
          row[s] = "absent" /\ row'[s] # "absent" => version[VersionOf[s]] = "live"
    /\ UNCHANGED rest

CreateVersion(v) ==
    /\ app = "live"
    /\ version[v] = "absent"
    /\ version' = [version EXCEPT ![v] = "live"]
    /\ UNCHANGED <<sessionVars, app, deletion, schedule, edit>>

-----------------------------------------------------------------------------
(* Deletions                                                               *)

DeletionAt(d, pc)  == deletion[d] # NoDeletion /\ deletion[d].pc = pc
DeletionTo(d, pc)  == deletion' = [deletion EXCEPT ![d].pc = pc]
DeletionEnds(d)    == deletion' = [deletion EXCEPT ![d] = NoDeletion]
NothingListed      == [s \in Sessions |-> "unlisted"]

DeleteVersionRead(d, v) ==
    /\ deletion[d] = NoDeletion
    /\ version[v] = "live"
    /\ deletion' = [deletion EXCEPT ![d] = [of |-> "version", version |-> v,
                       pc |-> "list", there |-> {}, step |-> NothingListed]]
    /\ UNCHANGED <<sessionVars, app, version, schedule, edit>>

DeleteAppRead(d) ==
    /\ deletion[d] = NoDeletion
    /\ app = "live"
    /\ deletion' = [deletion EXCEPT ![d] = [of |-> "app", pc |-> "list",
                       there |-> {}, step |-> NothingListed]]
    /\ UNCHANGED <<sessionVars, app, version, schedule, edit>>

\* deleteProject knows nothing of sessions and jobs.
DeleteProjectRead(d) ==
    /\ deletion[d] = NoDeletion
    /\ app = "live"
    /\ deletion' = [deletion EXCEPT ![d] = [of |-> "project", pc |-> "artifacts",
                       there |-> {}, step |-> NothingListed]]
    /\ UNCHANGED <<sessionVars, app, version, schedule, edit>>

Concerned(d) == IF deletion[d].of = "version" THEN SessionsOf(deletion[d].version)
                                              ELSE Sessions

\* Slip: a session that is still NEW has no job and is left out.
ListedStatus == Active \ {"NEW"}

\* The statuses the deletions ask for.
AbortedStatus == Active

ListSessions(d) ==
    /\ DeletionAt(d, "list")
    /\ deletion' = [deletion EXCEPT
          ![d].pc = "abort",
          ![d].there = {s \in Concerned(d) : Exists(s)},
          ![d].step = [s \in Sessions |->
                         IF s \in Concerned(d) /\ row[s] \in AbortedStatus
                           THEN "remove" ELSE "unlisted"]]
    /\ UNCHANGED <<sessionVars, app, version, schedule, edit>>

RemoveJob(d, s) ==
    /\ DeletionAt(d, "abort")
    /\ deletion[d].step[s] = "remove"
    /\ \/ /\ AbortCrawlSession(s)
          /\ deletion' = [deletion EXCEPT ![d].step[s] = "write"]
       \/ /\ CleanupMayFail
          /\ AbortCrawlSession(s) \/ UNCHANGED redis
          /\ deletion' = [deletion EXCEPT ![d].step[s] = "failed"]
    /\ UNCHANGED <<row, worker, req, app, version, schedule, edit>>

\* An update by id; it throws when the row is gone, and the others go on.
WriteAborted(d, s) ==
    /\ DeletionAt(d, "abort")
    /\ deletion[d].step[s] = "write"
    /\ IF Exists(s)
         THEN SetRow(s, "ABORTED") /\ deletion' = [deletion EXCEPT ![d].step[s] = "done"]
         ELSE UNCHANGED row /\ deletion' = [deletion EXCEPT ![d].step[s] = "failed"]
    /\ UNCHANGED <<redis, worker, req, app, version, schedule, edit>>

\* Promise.all: on when every session is done, an error when one is not.
AllAborted(d) ==
    /\ DeletionAt(d, "abort")
    /\ \A s \in Sessions : deletion[d].step[s] \in {"unlisted", "done", "failed"}
    /\ IF \E s \in Sessions : deletion[d].step[s] = "failed" THEN DeletionEnds(d)
       ELSE DeletionTo(d, IF deletion[d].of = "version" THEN "deactivate" ELSE "artifacts")
    /\ UNCHANGED <<sessionVars, app, version, schedule, edit>>

ForVersion(v) == schedule # NoSchedule /\ schedule.version = v

\* Slip: the schedules lose their next run and stay switched on.
DeactivateNextOnly(d) ==
    /\ DeletionAt(d, "deactivate")
    /\ schedule' = IF ForVersion(deletion[d].version)
                     THEN [schedule EXCEPT !.next = FALSE] ELSE schedule
    /\ DeletionTo(d, "drop")
    /\ UNCHANGED <<sessionVars, app, version, edit>>

Deactivate(d) ==
    /\ DeletionAt(d, "deactivate")
    /\ schedule' = IF ForVersion(deletion[d].version)
                     THEN [schedule EXCEPT !.active = FALSE, !.next = FALSE] ELSE schedule
    /\ DeletionTo(d, "drop")
    /\ UNCHANGED <<sessionVars, app, version, edit>>

DeleteArtifacts(d) ==
    /\ DeletionAt(d, "artifacts")
    /\ DeletionTo(d, "drop") \/ (CleanupMayFail /\ DeletionEnds(d))
    /\ UNCHANGED <<sessionVars, app, version, schedule, edit>>

\* ON DELETE CASCADE: the rows of these sessions go with it.
Cascade(ss) ==
    row' = [s \in Sessions |-> IF s \in ss /\ Exists(s) THEN "gone" ELSE row[s]]

\* ON DELETE SET NULL for the schedules of a version.
DropVersion(d) ==
    /\ DeletionAt(d, "drop") /\ deletion[d].of = "version"
    /\ LET v == deletion[d].version
       IN IF version[v] = "live"
            THEN /\ version' = [version EXCEPT ![v] = "gone"]
                 /\ Cascade(SessionsOf(v))
                 /\ schedule' = IF ForVersion(v) THEN [schedule EXCEPT !.version = "none"]
                                                 ELSE schedule
            ELSE UNCHANGED <<version, row, schedule>>
    /\ DeletionEnds(d)
    /\ UNCHANGED <<redis, worker, req, app, edit>>

DropApp(d) ==
    /\ DeletionAt(d, "drop") /\ deletion[d].of # "version"
    /\ IF app = "live"
         THEN /\ app' = "gone"
              /\ version' = [v \in Versions |-> "gone"]
              /\ Cascade(Sessions)
              /\ schedule' = NoSchedule
         ELSE UNCHANGED <<app, version, row, schedule>>
    /\ DeletionEnds(d)
    /\ UNCHANGED <<redis, worker, req, edit>>

-----------------------------------------------------------------------------
(* The schedule                                                            *)

\* What UpdateCrawlScheduleRequestSchema lets through: FIXED_VERSION comes with
\* its version, ONCE with a date and CRON with an expression.
Updates ==
    {i \in Inputs : /\ i.mode = "FIXED_VERSION" => i.version # "same"
                    /\ i.type = "ONCE" => i.runAt = "given"
                    /\ i.type = "CRON" => i.cron = "given"}

\* A creation gives type and mode, and is switched on unless it says otherwise.
Creations == {i \in Updates : i.type # "same" /\ i.mode # "same"}

EditAt(e, op, pc) == edit[e].op = op /\ edit[e].pc = pc
EditSet(e, x)     == edit' = [edit EXCEPT ![e] = x]
EditEnds(e)       == EditSet(e, NoEdit)

Or(given, kept) == IF given = "same" THEN kept ELSE given

\* The columns a request writes, all of them: its own and those it read.  The
\* schema asks for a date or an expression only where the type is named, so an
\* update that names none may leave a CRON schedule without its expression.
Merged(i, seen) ==
    LET type == Or(i.type, seen.type)
        mode == Or(i.mode, seen.mode)
        run  == seen.runAt \/ i.runAt = "given"
    IN [type    |-> type,
        mode    |-> mode,
        version |-> IF mode = "FIXED_VERSION" THEN Or(i.version, seen.version) ELSE "none",
        runAt   |-> run,
        cron    |-> IF i.cron = "same" THEN seen.cron ELSE i.cron = "given",
        next    |-> type = "ONCE" /\ run,
        active  |-> IF i.active = "same" THEN seen.active ELSE i.active = "yes",
        late    |-> FALSE,
        emptied |-> type = "CRON" /\ (i.cron = "empty" \/ (i.cron = "same" /\ seen.emptied))]

Blank(i) == [type |-> i.type, mode |-> i.mode, version |-> "none", runAt |-> FALSE,
             cron |-> FALSE, next |-> FALSE, active |-> TRUE, late |-> FALSE,
             emptied |-> FALSE]

\* A version is looked up when the request names it together with the mode.
EditEnter(e, op, i, seen) ==
    /\ edit[e] = NoEdit
    /\ app = "live"
    /\ EditSet(e, [op  |-> op,
                   pc  |-> IF i.mode = "FIXED_VERSION" /\ i.version # "same"
                             THEN "version" ELSE "write",
                   new |-> Merged(i, seen)])
    /\ UNCHANGED <<sessionVars, app, version, deletion, schedule>>

CreateScheduleEnter(e, i) ==
    schedule = NoSchedule /\ EditEnter(e, "create", i, Blank(i))

UpdateScheduleEnter(e, i) ==
    schedule # NoSchedule /\ EditEnter(e, "update", i, [schedule EXCEPT !.late = FALSE])

RequireVersion(e) ==
    /\ edit[e] # NoEdit /\ edit[e].pc = "version"
    /\ IF version[edit[e].new.version] = "live"
         THEN edit' = [edit EXCEPT ![e].pc = "write"] ELSE EditEnds(e)
    /\ UNCHANGED <<sessionVars, app, version, deletion, schedule>>

\* The version is on its way out: its schedules have been switched off already.
BeingDeleted(v) ==
    \E d \in Deleters : DeletionAt(d, "drop") /\ deletion[d].of = "version"
                        /\ deletion[d].version = v

\* The foreign keys: the version, if any, and the application must still be there.
Referable(x) == app = "live" /\ (x.version # "none" => version[x.version] = "live")

\* The insert or the update; an update of a row that is gone throws.
WriteSchedule(new) ==
    schedule' = IF Referable(new)
                  THEN [new EXCEPT !.late = new.version = "none" \/ BeingDeleted(new.version)]
                  ELSE schedule

CreateScheduleWrite(e) ==
    /\ EditAt(e, "create", "write")
    /\ schedule = NoSchedule
    /\ WriteSchedule(edit[e].new)
    /\ EditEnds(e)
    /\ UNCHANGED <<sessionVars, app, version, deletion>>

UpdateScheduleWrite(e) ==
    /\ EditAt(e, "update", "write")
    /\ IF schedule # NoSchedule THEN WriteSchedule(edit[e].new) ELSE UNCHANGED schedule
    /\ EditEnds(e)
    /\ UNCHANGED <<sessionVars, app, version, deletion>>

DeleteSchedule ==
    /\ schedule # NoSchedule
    /\ schedule' = NoSchedule
    /\ UNCHANGED <<sessionVars, app, version, deletion, edit>>

-----------------------------------------------------------------------------
(* Specification                                                           *)

AppInit ==
    /\ Init
    /\ app = "live"
    /\ version = [v \in Versions |-> "absent"]
    /\ deletion = [d \in Deleters |-> NoDeletion]
    /\ schedule = NoSchedule
    /\ edit = [e \in Editors |-> NoEdit]

DeletionStep(d) ==
    \/ \E v \in Versions : DeleteVersionRead(d, v)
    \/ DeleteAppRead(d) \/ DeleteProjectRead(d)
    \/ ListSessions(d)
    \/ \E s \in Sessions : RemoveJob(d, s) \/ WriteAborted(d, s)
    \/ AllAborted(d)
    \/ Deactivate(d) \/ DeleteArtifacts(d)
    \/ DropVersion(d) \/ DropApp(d)

ScheduleStep(e) ==
    \/ \E i \in Creations : CreateScheduleEnter(e, i)
    \/ \E i \in Updates : UpdateScheduleEnter(e, i)
    \/ RequireVersion(e)
    \/ CreateScheduleWrite(e) \/ UpdateScheduleWrite(e)

AppNext ==
    \/ SessionStep
    \/ \E v \in Versions : CreateVersion(v)
    \/ \E d \in Deleters : DeletionStep(d)
    \/ \E e \in Editors : ScheduleStep(e)
    \/ DeleteSchedule

AppSpec == AppInit /\ [][AppNext]_appVars

-----------------------------------------------------------------------------
(* Properties                                                              *)

\* deletion d drops the row of s in this step, having found it at its listing.
Drops(d, s) ==
    /\ DeletionAt(d, "drop") /\ deletion'[d] = NoDeletion
    /\ s \in deletion[d].there
    /\ Exists(s) /\ row'[s] = "gone"

\* Deleting a version or an application ends its sessions first: one that was
\* there when the deletion looked is not waiting to be run when its row goes, and
\* a start still on its way to the queue will meet an abort mark (or that of the
\* request that aborted the session, which is about to set it).
DroppedWasAborted ==
    [][\A d \in Deleters, s \in Sessions :
         Drops(d, s) =>
            /\ row[s] \notin {"NEW", "QUEUED"}
            /\ \A r \in Requests : StartsNew(r, s) /\ req[r].pc = "enqueue" =>
                  \/ s \in aborts \/ row[s] # "ABORTED"
                  \/ \E q \in Requests : At(q, "abort", "remove") /\ req[q].sess = s]_appVars

\* A schedule that is switched on has what it takes to run: a date and a next run,
\* or a cron expression, and for a fixed version that version.  It does while two
\* updates write over each other's columns and its version is deleted under it,
\* with two exceptions: an update that switches it on while its version is being
\* deleted or afterwards (late), and one that names no type but an empty
\* expression, which a CRON schedule then has until it is given another (emptied).
ActiveScheduleCanRun ==
    schedule # NoSchedule /\ schedule.active =>
        /\ schedule.type = "ONCE" => schedule.runAt /\ schedule.next
        /\ schedule.type = "CRON" => schedule.cron \/ schedule.emptied
        /\ schedule.mode = "FIXED_VERSION" => schedule.version # "none" \/ schedule.late

\* "Cron schedules require a cron expression": a CRON schedule that is switched on
\* has one.
CronHasExpression ==
    schedule # NoSchedule /\ schedule.active /\ schedule.type = "CRON" => schedule.cron
=============================================================================

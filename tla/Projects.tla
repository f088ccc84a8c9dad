------------------------------ MODULE Projects ------------------------------
(***************************************************************************)
(* One project: its members and their roles in Postgres, and what the      *)
(* read-through cache of lib/cache.ts keeps of it in Redis.                *)
(*                                                                         *)
(* A request is let in by the middleware on the role its user has at that  *)
(* moment; project.service.ts then counts, decides, writes and invalidates *)
(* in statements of their own.  call[r] holds where a request stands and   *)
(* what it read.  It may end anywhere, with a statement that throws or     *)
(* with its process; an error of Redis is swallowed by lib/cache.ts and    *)
(* the request goes on as if there had been none.                          *)
(*                                                                         *)
(* Abstracted: a cache entry is not its JSON but whether it is true: "true"*)
(* of the rows as they are, "stale" since a write it preceded, or "left"   *)
(* wrong with nobody to delete it: stored late, with rows read before a    *)
(* write that was over by then, or stale when Redis failed its deletion or *)
(* the request ended before it.  Other projects appear only as a name that *)
(* is taken.                                                               *)
(***************************************************************************)
EXTENDS Naturals, FiniteSets

CONSTANTS
    People,         \* users
    Callers,        \* slots of requests in flight
    Lists,          \* people whose cached list of projects is followed
    AssignedRoles,  \* the roles that requests assign
    CacheMayFail    \* whether Redis fails a command

ProjectRoles == {"VIEWER", "MEMBER", "ADMIN"}

ASSUME ProjectsAssumption ==
    /\ IsFiniteSet(People)
    /\ Lists \subseteq People
    /\ AssignedRoles \subseteq ProjectRoles
    /\ CacheMayFail \in BOOLEAN

VARIABLES
    life,     \* the project's row: absent, live or gone
    role,     \* [People -> role], "none" for those who are no members
    cached,   \* [Keys -> what the cache holds]
    call      \* requests in flight

projectsVars == <<life, role, cached, call>>

-----------------------------------------------------------------------------
(* Types                                                                   *)

\* project:<id>, and user:projects:<user>.
Keys == {<<"project">>} \cup {<<"list", u>> : u \in Lists}

NoCall == [op |-> "none"]

\* Most operations are not told whose request they serve.
Whose(op) == IF op \in {"create", "role", "leave"} THEN People ELSE {"somebody"}

\* seen: the role the request read; overtaken (ghost): another request wrote
\* roles or the project since this one arrived.
Change(op, pcs) ==
    [op : {op}, by : Whose(op), on : SUBSET People, to : AssignedRoles \cup {"none"},
     seen : ProjectRoles \cup {"none"}, found : SUBSET Keys,
     overtaken : BOOLEAN, pc : pcs \cup {"scan", "del"}]

DeletePcs == {"artifacts", "drop"}

Call ==
    {NoCall}
    \cup Change("create", {"write"})
    \cup Change("update", {"read", "name", "write"})
    \cup Change("delete", {"read"} \cup DeletePcs)
    \cup Change("add", {"read", "write"})
    \cup Change("role", {"read", "count", "write"})
    \cup Change("leave", {"read", "members", "admins", "write"} \cup DeletePcs)
    \cup Change("remove", {"read", "write"} \cup DeletePcs)
    \cup [op : {"get"}, key : Keys, pc : {"query", "set"}, true : BOOLEAN]

ProjectsTypeOK ==
    /\ life \in {"absent", "live", "gone"}
    /\ role \in [People -> ProjectRoles \cup {"none"}]
    /\ cached \in [Keys -> {"none", "true", "stale", "left"}]
    /\ call \in [Callers -> Call]

-----------------------------------------------------------------------------
(* Helpers                                                                 *)

CallAt(r, op, pc) == call[r].op = op /\ call[r].pc = pc
CallGoto(r, pc)   == call' = [call EXCEPT ![r].pc = pc]
CallDone(r)       == call' = [call EXCEPT ![r] = NoCall]
Reads             == UNCHANGED <<life, role, cached>>

Members == {u \in People : role[u] # "none"}
Admins  == {u \in People : role[u] = "ADMIN"}

\* requireProjectRole.
Priority == [VIEWER |-> 0, MEMBER |-> 1, ADMIN |-> 2]
MayEnter(u, least) ==
    life = "live" /\ role[u] # "none" /\ Priority[role[u]] >= Priority[least]

Enter(r, op, u, us, to, pc) ==
    /\ call[r] = NoCall
    /\ call' = [call EXCEPT ![r] =
                  [op |-> op, by |-> u, on |-> us, to |-> to, seen |-> "none",
                   found |-> {}, overtaken |-> FALSE, pc |-> pc]]
    /\ Reads

AdminEnters(r, op, us, to) ==
    /\ \E u \in People : MayEnter(u, "ADMIN")
    /\ Enter(r, op, "somebody", us, to, "read")

\* A committed write of r, which needs what it read no longer: what was cached is not
\* true any more, and when it is about members or the project itself, the others
\* stand on other grounds.
Commit(r, pc) ==
    /\ cached' = [k \in Keys |-> IF cached[k] = "true" THEN "stale" ELSE cached[k]]
    /\ call' = [q \in Callers |->
                  CASE q = r -> [call[q] EXCEPT !.pc = pc, !.seen = "none"]
                    [] call[q].op = "none" -> NoCall
                    [] call[q].op = "get" -> [call[q] EXCEPT !.true = FALSE]
                    [] OTHER -> [call[q] EXCEPT !.overtaken =
                                   @ \/ role' # role \/ life' # life]]

\* A statement that throws: the request ends, with nothing invalidated.
Throws(r) == CallDone(r) /\ Reads

-----------------------------------------------------------------------------
(* Creation, update and deletion                                           *)

CreateRead(r, u) == life = "absent" /\ Enter(r, "create", u, {}, "none", "write")

\* The name is unique: the second of two creations throws.
CreateWrite(r) ==
    /\ CallAt(r, "create", "write")
    /\ IF life = "absent"
         THEN /\ life' = "live"
              /\ role' = [role EXCEPT ![call[r].by] = "ADMIN"]
              /\ Commit(r, "scan")
         ELSE Throws(r)

UpdateEnter(r) == AdminEnters(r, "update", {}, "none")

UpdateRead(r) ==
    /\ CallAt(r, "update", "read")
    /\ IF life = "live" THEN \E pc \in {"name", "write"} : CallGoto(r, pc)
                        ELSE CallDone(r)
    /\ Reads

\* Another project may have the new name.
UpdateName(r) ==
    /\ CallAt(r, "update", "name")
    /\ CallGoto(r, "write") \/ CallDone(r)
    /\ Reads

UpdateWrite(r) ==
    /\ CallAt(r, "update", "write")
    /\ IF life = "live" THEN UNCHANGED <<life, role>> /\ Commit(r, "scan")
                        ELSE Throws(r)

DeleteEnter(r) == AdminEnters(r, "delete", {}, "none")

\* deleteProject, which leaveProject and removeMembers call as well: "read" and
\* "artifacts" find the applications, "drop" follows the artifacts' deletion.
DeleteRead(r) ==
    /\ CallAt(r, "delete", "read")
    /\ IF life = "live" THEN CallGoto(r, "artifacts") ELSE CallDone(r)
    /\ Reads

DeleteArtifacts(r) ==
    /\ call[r].op \in {"delete", "leave", "remove"} /\ call[r].pc = "artifacts"
    /\ CallGoto(r, "drop") \/ CallDone(r)
    /\ Reads

DeleteDrop(r) ==
    /\ call[r].op \in {"delete", "leave", "remove"} /\ call[r].pc = "drop"
    /\ IF life = "live"
         THEN /\ life' = "gone"
              /\ role' = [u \in People |-> "none"]
              /\ Commit(r, "scan")
         ELSE Throws(r)

-----------------------------------------------------------------------------
(* Members                                                                 *)

AddEnter(r, v, to) == AdminEnters(r, "add", {v}, to)

\* Those who are members already are left out; with nobody new there is nothing
\* to write, and the invalidation comes all the same.
AddRead(r) ==
    /\ CallAt(r, "add", "read")
    /\ CASE life # "live" -> CallDone(r)
         [] call[r].on \subseteq Members -> CallGoto(r, "scan")
         [] OTHER -> CallGoto(r, "write")
    /\ Reads

\* createMany: a member that was added since, or a project that is gone, throws.
AddWrite(r) ==
    /\ CallAt(r, "add", "write")
    /\ IF life = "live" /\ call[r].on \cap Members = {}
         THEN /\ role' = [u \in People |-> IF u \in call[r].on THEN call[r].to
                                                             ELSE role[u]]
              /\ UNCHANGED life
              /\ Commit(r, "scan")
         ELSE Throws(r)

RoleEnter(r, u, v, to) ==
    MayEnter(u, "ADMIN") /\ Enter(r, "role", u, {v}, to, "read")

\* Only who changes their own role is asked whether they are the last admin.
RoleRead(r) ==
    /\ CallAt(r, "role", "read")
    /\ \E v \in call[r].on :
          IF role[v] = "none" THEN CallDone(r)
          ELSE call' = [call EXCEPT ![r].seen = role[v],
                                    ![r].pc = IF v = call[r].by THEN "count"
                                                                ELSE "write"]
    /\ Reads

RoleCount(r) ==
    /\ CallAt(r, "role", "count")
    /\ IF call[r].seen = "ADMIN" /\ call[r].to # "ADMIN" /\ Cardinality(Admins) = 1
         THEN CallDone(r) ELSE CallGoto(r, "write")
    /\ Reads

\* Slip: a role is changed and the cached lists are left to expire.
RoleWriteOnly(r) ==
    /\ CallAt(r, "role", "write")
    /\ \E v \in call[r].on :
          IF role[v] # "none"
            THEN /\ role' = [role EXCEPT ![v] = call[r].to]
                 /\ UNCHANGED life
                 /\ Commit(r, "del")
            ELSE Throws(r)

RoleWrite(r) ==
    /\ CallAt(r, "role", "write")
    /\ \E v \in call[r].on :
          IF role[v] # "none"
            THEN /\ role' = [role EXCEPT ![v] = call[r].to]
                 /\ UNCHANGED life
                 /\ Commit(r, "scan")
            ELSE Throws(r)

LeaveEnter(r, u) == MayEnter(u, "VIEWER") /\ Enter(r, "leave", u, {u}, "none", "read")

LeaveRead(r) ==
    /\ CallAt(r, "leave", "read")
    /\ IF role[call[r].by] = "none" THEN CallDone(r)
       ELSE call' = [call EXCEPT ![r].seen = role[call[r].by], ![r].pc = "members"]
    /\ Reads

\* Slip: two members left count as the last one.
LeaveMembersOff(r) ==
    /\ CallAt(r, "leave", "members")
    /\ CallGoto(r, IF Cardinality(Members) <= 2 THEN "artifacts" ELSE "admins")
    /\ Reads

\* The last member takes the project along.
LeaveMembers(r) ==
    /\ CallAt(r, "leave", "members")
    /\ CallGoto(r, IF Cardinality(Members) <= 1 THEN "artifacts" ELSE "admins")
    /\ Reads

\* Slip: the last admin is let go.
LeaveAdminsOff(r) ==
    /\ CallAt(r, "leave", "admins")
    /\ IF call[r].seen = "ADMIN" /\ Cardinality(Admins) < 1
         THEN CallDone(r) ELSE CallGoto(r, "write")
    /\ Reads

LeaveAdmins(r) ==
    /\ CallAt(r, "leave", "admins")
    /\ IF call[r].seen = "ADMIN" /\ Cardinality(Admins) <= 1
         THEN CallDone(r) ELSE CallGoto(r, "write")
    /\ Reads

LeaveWrite(r) ==
    /\ CallAt(r, "leave", "write")
    /\ IF role[call[r].by] # "none"
         THEN /\ role' = [role EXCEPT ![call[r].by] = "none"]
              /\ UNCHANGED life
              /\ Commit(r, "scan")
         ELSE Throws(r)

RemoveEnter(r, us) == us # {} /\ AdminEnters(r, "remove", us, "none")

\* The count of who would remain; nobody asks for their roles.
RemoveRead(r) ==
    /\ CallAt(r, "remove", "read")
    /\ CASE life # "live" -> CallDone(r)
         [] Members \ call[r].on = {} -> CallGoto(r, "artifacts")
         [] OTHER -> CallGoto(r, "write")
    /\ Reads

RemoveWrite(r) ==
    /\ CallAt(r, "remove", "write")
    /\ role' = [u \in People |-> IF u \in call[r].on THEN "none" ELSE role[u]]
    /\ UNCHANGED life
    /\ Commit(r, "scan")

-----------------------------------------------------------------------------
(* The cache                                                               *)

\* The keys a change deletes; createProject asks for the lists only.
Asked(r) == IF call[r].op = "create" THEN Keys \ {<<"project">>} ELSE Keys

\* The deletions by the patterns project:<id>* and user:projects:* run side by
\* side, and Redis may fail either.
Failures ==
    IF CacheMayFail THEN {{}, {<<"project">>}, Keys \ {<<"project">>}, Keys} ELSE {{}}

\* The entries under ks that are stale will not be deleted by who was to do it.
Left(ks) == [k \in Keys |-> IF k \in ks /\ cached[k] = "stale" THEN "left" ELSE cached[k]]

\* cacheDelByPattern: the keys there are ...
Scan(r) ==
    /\ call[r].op \notin {"none", "get"} /\ call[r].pc = "scan"
    /\ \E failed \in Failures :
          /\ call' = [call EXCEPT
                ![r].found = {k \in Asked(r) \ failed : cached[k] # "none"},
                ![r].pc = "del"]
          /\ cached' = Left(Asked(r) \cap failed)
    /\ UNCHANGED <<life, role>>

\* ... and their deletion.
Del(r) ==
    /\ call[r].op \notin {"none", "get"} /\ call[r].pc = "del"
    /\ \E failed \in Failures :
          cached' = [k \in Keys |-> IF k \in call[r].found \ failed THEN "none"
                                    ELSE Left(call[r].found \cap failed)[k]]
    /\ CallDone(r)
    /\ UNCHANGED <<life, role>>

\* getProject and getProjects: a hit answers at once; a miss, or a failed look,
\* reads the rows...
GetMiss(r, k) ==
    /\ cached[k] = "none" \/ CacheMayFail
    /\ k = <<"project">> => \E u \in People : MayEnter(u, "VIEWER")
    /\ call[r] = NoCall
    /\ call' = [call EXCEPT ![r] = [op |-> "get", key |-> k, pc |-> "query",
                                    true |-> TRUE]]
    /\ Reads

GetQuery(r) ==
    /\ CallAt(r, "get", "query")
    /\ IF call[r].key = <<"project">> /\ life # "live" THEN CallDone(r)
       ELSE call' = [call EXCEPT ![r].pc = "set", ![r].true = TRUE]
    /\ Reads

\* ... and stores what it read, whatever was invalidated meanwhile.
GetSet(r) ==
    /\ CallAt(r, "get", "set")
    /\ \/ cached' = [cached EXCEPT ![call[r].key] = IF call[r].true THEN "true" ELSE "left"]
       \/ CacheMayFail /\ UNCHANGED cached
    /\ CallDone(r)
    /\ UNCHANGED <<life, role>>

\* CACHE_TTL_SECONDS.
EntryExpires(k) ==
    /\ cached[k] # "none"
    /\ cached' = [cached EXCEPT ![k] = "none"]
    /\ UNCHANGED <<life, role, call>>

\* What a change that has been written is still to delete.
ToDelete(r) ==
    {k \in Keys : /\ call[r].op \notin {"none", "get"}
                  /\ \/ call[r].pc = "scan" /\ k \in Asked(r)
                     \/ call[r].pc = "del"  /\ k \in call[r].found}

\* A statement throws, or the process dies: the request ends where it is.
Dies(r) ==
    /\ call[r] # NoCall
    /\ cached' = Left(ToDelete(r))
    /\ CallDone(r)
    /\ UNCHANGED <<life, role>>

-----------------------------------------------------------------------------
(* Specification                                                           *)

ProjectsInit ==
    /\ life = "absent"
    /\ role = [u \in People |-> "none"]
    /\ cached = [k \in Keys |-> "none"]
    /\ call = [r \in Callers |-> NoCall]

CallBegins(r) ==
    \/ UpdateEnter(r) \/ DeleteEnter(r)
    \/ \E u \in People : CreateRead(r, u) \/ LeaveEnter(r, u)
    \/ \E v \in People, to \in AssignedRoles :
          \/ AddEnter(r, v, to)
          \/ \E u \in People : RoleEnter(r, u, v, to)
    \/ \E us \in SUBSET People : RemoveEnter(r, us)
    \/ \E k \in Keys : GetMiss(r, k)

CallAdvances(r) ==
    \/ CreateWrite(r)
    \/ UpdateRead(r) \/ UpdateName(r) \/ UpdateWrite(r)
    \/ DeleteRead(r) \/ DeleteArtifacts(r) \/ DeleteDrop(r)
    \/ AddRead(r) \/ AddWrite(r)
    \/ RoleRead(r) \/ RoleCount(r) \/ RoleWrite(r)
    \/ LeaveRead(r) \/ LeaveMembers(r) \/ LeaveAdmins(r) \/ LeaveWrite(r)
    \/ RemoveRead(r) \/ RemoveWrite(r)
    \/ Scan(r) \/ Del(r)
    \/ GetQuery(r) \/ GetSet(r)

ProjectsNext ==
    \/ \E r \in Callers : CallBegins(r) \/ CallAdvances(r) \/ Dies(r)
    \/ \E k \in Keys : EntryExpires(k)

ProjectsSpec == ProjectsInit /\ [][ProjectsNext]_projectsVars

-----------------------------------------------------------------------------
(* Properties                                                              *)

\* Whatever way a write takes - leaving as the last member, removing everybody,
\* a name change - an entry that was true when it was stored does not outlive
\* the write: while it is wrong, somebody is on the way to delete it.  There are
\* three exceptions, which leave it wrong for up to CACHE_TTL_SECONDS: a reader
\* stored rows it had read before the write; Redis failed the deletion, which the
\* request that made the write never learns; or that request ended between its
\* write and its deletion.
StaleIsInvalidated ==
    \A k \in Keys : cached[k] = "stale" => \E r \in Callers : k \in ToDelete(r)

\* The request that takes the step: it ends, or moves to another place.
Moves(r) ==
    /\ call[r].op \notin {"none", "get"}
    /\ call'[r] = NoCall \/ call'[r].pc # call[r].pc

\* A project loses its last admin only to removeMembers, which asks for none, or
\* to a request another one overtook after it counted.
LastAdminStays ==
    [][life = "live" /\ life' = "live" /\ Admins # {} /\ Admins' = {} =>
         \E r \in Callers : Moves(r) /\ (call[r].op = "remove" \/ call[r].overtaken)]_projectsVars

\* Nobody is left behind or thrown out: a live project loses its last member, or
\* goes while others than the leaving or removed are in it, only by a request
\* for its deletion or one that was overtaken.
NobodyLeftBehind ==
    [][life = "live" /\ Members # {} /\ (Members' = {} \/ life' = "gone") =>
         \E r \in Callers :
            /\ Moves(r)
            /\ \/ call[r].op = "delete"
               \/ call[r].overtaken
               \/ Members \subseteq call[r].on /\ life' = "gone"]_projectsVars
=============================================================================

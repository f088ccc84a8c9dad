--------------------------- MODULE Projects_proofs --------------------------
(***************************************************************************)
(* For any people, requests and roles: a project keeps its last admin, its *)
(* members are not left behind, and what is stale in the cache is about to *)
(* be deleted.  The argument for the first two: as long as no other write  *)
(* overtook a request, what it read is what there is (ReadingsHold).       *)
(***************************************************************************)
EXTENDS Projects, FiniteSetTheorems, TLAPS

Moved(c, pc)   == [c EXCEPT !.pc = pc]
Marked(c, b)   == [c EXCEPT !.overtaken = b]
Found(c, ks)   == [c EXCEPT !.found = ks, !.pc = "del"]
Untrue(c)      == [c EXCEPT !.true = FALSE]
Seen(c, x, pc) == [c EXCEPT !.seen = x, !.pc = pc]

Changes(c) == c.op \in {"create", "update", "delete", "add", "role", "leave", "remove"}

-----------------------------------------------------------------------------
(* Type correctness                                                        *)

\* What a request in a slot may be, by its operation.
LEMMA CallTypes ==
  ASSUME NEW c \in Call
  PROVE  /\ c = NoCall \/ Changes(c) \/ c.op = "get"
         /\ c.op = "create" => c \in Change("create", {"write"})
         /\ c.op = "update" => c \in Change("update", {"read", "name", "write"})
         /\ c.op = "delete" => c \in Change("delete", {"read"} \cup DeletePcs)
         /\ c.op = "add"    => c \in Change("add", {"read", "write"})
         /\ c.op = "role"   => c \in Change("role", {"read", "count", "write"})
         /\ c.op = "leave"  => c \in Change("leave", {"read", "members", "admins", "write"}
                                                      \cup DeletePcs)
         /\ c.op = "remove" => c \in Change("remove", {"read", "write"} \cup DeletePcs)
         /\ c.op = "get"    => c \in [op : {"get"}, key : Keys, pc : {"query", "set"},
                                      true : BOOLEAN]
         /\ c.op = "none"   => c = NoCall
  BY DEF Call, Change, Changes, NoCall

\* A change may always be marked, and go on to its invalidation.
LEMMA ChangeTypes ==
  ASSUME NEW c \in Call, Changes(c)
  PROVE  /\ \A b \in BOOLEAN : Marked(c, b) \in Call
         /\ \A pc \in {"scan", "del"} : Seen(c, "none", pc) \in Call
         /\ \A ks \in SUBSET Keys : Found(c, ks) \in Call
         /\ c.by \in Whose(c.op) /\ c.on \in SUBSET People
         /\ c.to \in AssignedRoles \cup {"none"} /\ c.found \in SUBSET Keys
<1>1. ASSUME NEW pcs, c \in Change(c.op, pcs)
      PROVE  /\ \A b \in BOOLEAN : Marked(c, b) \in Change(c.op, pcs)
             /\ \A pc \in {"scan", "del"} : Seen(c, "none", pc) \in Change(c.op, pcs)
             /\ \A ks \in SUBSET Keys : Found(c, ks) \in Change(c.op, pcs)
             /\ c.by \in Whose(c.op) /\ c.on \in SUBSET People
             /\ c.to \in AssignedRoles \cup {"none"} /\ c.found \in SUBSET Keys
  <2>1. \A b \in BOOLEAN : Marked(c, b) \in Change(c.op, pcs)
    BY <1>1 DEF Change, Marked
  <2>2. \A pc \in {"scan", "del"} : Seen(c, "none", pc) \in Change(c.op, pcs)
    BY <1>1 DEF Change, Seen
  <2>3. \A ks \in SUBSET Keys : Found(c, ks) \in Change(c.op, pcs)
    BY <1>1 DEF Change, Found
  <2>4. /\ c.by \in Whose(c.op) /\ c.on \in SUBSET People
        /\ c.to \in AssignedRoles \cup {"none"} /\ c.found \in SUBSET Keys
    BY <1>1 DEF Change
  <2> QED BY <2>1, <2>2, <2>3, <2>4
<1>2. \E pcs : c \in Change(c.op, pcs) /\ Change(c.op, pcs) \subseteq Call
  BY CallTypes DEF Changes, Call
<1> QED BY <1>1, <1>2

\* The slots after a committed write.
LEMMA CommitSlots ==
  ASSUME ProjectsTypeOK, NEW r \in Callers, Changes(call[r]), NEW pc, Commit(r, pc)
  PROVE  /\ call' = [q \in Callers |-> call'[q]]
         /\ call'[r] = Seen(call[r], "none", pc)
         /\ \A q \in Callers \ {r} :
               /\ call[q].op = "none" => call'[q] = NoCall
               /\ call[q].op = "get"  => call'[q] = Untrue(call[q])
               /\ Changes(call[q])    => call'[q] = Marked(call[q],
                     call[q].overtaken \/ role' # role \/ life' # life)
         /\ cached' = [k \in Keys |-> IF cached[k] = "true" THEN "stale" ELSE cached[k]]
  BY DEF Commit, Changes, Seen, Marked, Untrue

LEMMA CommitType ==
  ASSUME ProjectsTypeOK, NEW r \in Callers, Changes(call[r]), NEW pc \in {"scan", "del"},
         Commit(r, pc)
  PROVE  /\ call' \in [Callers -> Call]
         /\ cached' \in [Keys -> {"none", "true", "stale", "left"}]
<1>1. ASSUME NEW q \in Callers PROVE call'[q] \in Call
  <2>1. call[q] \in Call BY DEF ProjectsTypeOK
  <2>2. CASE q = r BY <2>1, <2>2, CommitSlots, ChangeTypes
  <2>3. CASE q # r /\ Changes(call[q])
    <3>1. PICK b \in BOOLEAN : b = (call[q].overtaken \/ role' # role \/ life' # life)
      OBVIOUS
    <3>2. call'[q] = Marked(call[q], b) BY <2>3, <3>1, CommitSlots
    <3> QED BY <2>1, <2>3, <3>2, ChangeTypes
  <2>4. CASE q # r /\ call[q].op = "get"
    <3>1. call'[q] = Untrue(call[q]) BY <2>4, CommitSlots
    <3> QED BY <2>1, <2>4, <3>1, CallTypes DEF Call, Untrue
  <2>5. CASE q # r /\ call[q] = NoCall
    <3>1. call[q].op = "none" /\ NoCall \in Call BY <2>5 DEF NoCall, Call
    <3> QED BY <2>5, <3>1, CommitSlots
  <2> QED BY <2>1, <2>2, <2>3, <2>4, <2>5, CallTypes
<1>2. call' = [q \in Callers |-> call'[q]] BY CommitSlots
<1> QED BY <1>1, <1>2, CommitSlots DEF ProjectsTypeOK

LEMMA EnterType ==
  ASSUME ProjectsTypeOK, NEW r \in Callers, NEW op, NEW u, NEW us, NEW to, NEW pc,
         Enter(r, op, u, us, to, pc),
         [op |-> op, by |-> u, on |-> us, to |-> to, seen |-> "none", found |-> {},
          overtaken |-> FALSE, pc |-> pc] \in Call
  PROVE  ProjectsTypeOK'
  BY DEF Enter, Reads, ProjectsTypeOK

LEMMA GotoType ==
  ASSUME ProjectsTypeOK, NEW r \in Callers, NEW pc, CallGoto(r, pc), Reads,
         Moved(call[r], pc) \in Call
  PROVE  ProjectsTypeOK'
  BY DEF CallGoto, Reads, ProjectsTypeOK, Moved

LEMMA DoneType ==
  ASSUME ProjectsTypeOK, NEW r \in Callers, CallDone(r), Reads
  PROVE  ProjectsTypeOK'
  BY DEF CallDone, Reads, ProjectsTypeOK, Call

LEMMA MovedType ==
  ASSUME NEW op, NEW pcs, NEW c \in Change(op, pcs), NEW pc \in pcs \cup {"scan", "del"}
  PROVE  /\ Moved(c, pc) \in Change(op, pcs)
         /\ \A x \in ProjectRoles : Seen(c, x, pc) \in Change(op, pcs)
  BY DEF Moved, Seen, Change

LEMMA InitType == ProjectsInit => ProjectsTypeOK
  BY DEF ProjectsInit, ProjectsTypeOK, Call

\* The requests that ask or write next.
AddPcs    == {"read", "write"}
RolePcs   == {"read", "count", "write"}
LeavePcs  == {"read", "members", "admins", "write"} \cup DeletePcs
RemovePcs == {"read", "write"} \cup DeletePcs

LEMMA BeginType ==
  ASSUME ProjectsTypeOK, NEW r \in Callers, CallBegins(r)
  PROVE  ProjectsTypeOK'
<1> DEFINE New(op, u, us, to, pc) ==
             [op |-> op, by |-> u, on |-> us, to |-> to, seen |-> "none", found |-> {},
              overtaken |-> FALSE, pc |-> pc]
<1>1. ASSUME NEW op, NEW pcs, NEW u \in Whose(op), NEW us \in SUBSET People,
             NEW to \in AssignedRoles \cup {"none"}, NEW pc \in pcs,
             Enter(r, op, u, us, to, pc), Change(op, pcs) \subseteq Call
      PROVE  ProjectsTypeOK'
  <2>1. New(op, u, us, to, pc) \in Change(op, pcs) BY DEF Change
  <2> QED BY <1>1, <2>1, EnterType
<1> USE DEF Whose
<1>2. CASE UpdateEnter(r) \/ DeleteEnter(r)
  <2>1. Change("update", {"read", "name", "write"}) \subseteq Call
        /\ Change("delete", {"read"} \cup DeletePcs) \subseteq Call
    BY DEF Call
  <2>2. CASE UpdateEnter(r)
    <3>1. Enter(r, "update", "somebody", {}, "none", "read")
      BY <2>2 DEF UpdateEnter, AdminEnters
    <3> QED BY <1>1, <2>1, <3>1
  <2>3. CASE DeleteEnter(r)
    <3>1. Enter(r, "delete", "somebody", {}, "none", "read")
      BY <2>3 DEF DeleteEnter, AdminEnters
    <3> QED BY <1>1, <2>1, <3>1
  <2> QED BY <1>2, <2>2, <2>3
<1>3. ASSUME NEW u \in People, CreateRead(r, u) PROVE ProjectsTypeOK'
  <2>1. Change("create", {"write"}) \subseteq Call BY DEF Call
  <2>2. Enter(r, "create", u, {}, "none", "write") BY <1>3 DEF CreateRead
  <2> QED BY <1>1, <2>1, <2>2
<1>4. ASSUME NEW u \in People, LeaveEnter(r, u) PROVE ProjectsTypeOK'
  <2>1. Change("leave", LeavePcs) \subseteq Call BY DEF Call, LeavePcs
  <2>2. Enter(r, "leave", u, {u}, "none", "read") BY <1>4 DEF LeaveEnter
  <2>3. "read" \in LeavePcs BY DEF LeavePcs
  <2> QED BY <1>1, <2>1, <2>2, <2>3
<1>5. ASSUME NEW v \in People, NEW to \in AssignedRoles, AddEnter(r, v, to)
      PROVE  ProjectsTypeOK'
  <2>1. Change("add", AddPcs) \subseteq Call /\ "read" \in AddPcs BY DEF Call, AddPcs
  <2>2. Enter(r, "add", "somebody", {v}, to, "read") BY <1>5 DEF AddEnter, AdminEnters
  <2> QED BY <1>1, <2>1, <2>2
<1>6. ASSUME NEW u \in People, NEW v \in People, NEW to \in AssignedRoles,
             RoleEnter(r, u, v, to)
      PROVE  ProjectsTypeOK'
  <2>1. Change("role", RolePcs) \subseteq Call /\ "read" \in RolePcs BY DEF Call, RolePcs
  <2>2. Enter(r, "role", u, {v}, to, "read") BY <1>6 DEF RoleEnter
  <2> QED BY <1>1, <2>1, <2>2
<1>7. ASSUME NEW us \in SUBSET People, RemoveEnter(r, us) PROVE ProjectsTypeOK'
  <2>1. Change("remove", RemovePcs) \subseteq Call /\ "read" \in RemovePcs
    BY DEF Call, RemovePcs
  <2>2. Enter(r, "remove", "somebody", us, "none", "read")
    BY <1>7 DEF RemoveEnter, AdminEnters
  <2> QED BY <1>1, <2>1, <2>2
<1>8. ASSUME NEW k \in Keys, GetMiss(r, k) PROVE ProjectsTypeOK'
  BY <1>8 DEF GetMiss, Reads, ProjectsTypeOK, Call
<1> QED BY <1>2, <1>3, <1>4, <1>5, <1>6, <1>7, <1>8 DEF CallBegins

\* A step that writes nothing and takes one request elsewhere.
LEMMA SlotType ==
  ASSUME ProjectsTypeOK, NEW r \in Callers, NEW c \in Call, call' = [call EXCEPT ![r] = c],
         Reads
  PROVE  ProjectsTypeOK'
  BY DEF Reads, ProjectsTypeOK

LEMMA ReadType ==
  ASSUME ProjectsTypeOK, NEW r \in Callers,
         \/ UpdateRead(r) \/ UpdateName(r) \/ DeleteRead(r) \/ DeleteArtifacts(r)
         \/ AddRead(r) \/ RoleRead(r) \/ RoleCount(r)
         \/ LeaveRead(r) \/ LeaveMembers(r) \/ LeaveAdmins(r) \/ RemoveRead(r)
  PROVE  ProjectsTypeOK'
<1> DEFINE c == call[r]
<1>1. c \in Call BY DEF ProjectsTypeOK
<1>2. CASE UpdateRead(r) \/ UpdateName(r)
  <2>1. c \in Change("update", {"read", "name", "write"})
    BY <1>1, <1>2, CallTypes DEF UpdateRead, UpdateName, CallAt
  <2>2. \A pc \in {"name", "write"} : Moved(c, pc) \in Call BY <2>1, MovedType DEF Call
  <2> QED BY <1>2, <2>2, GotoType, DoneType DEF UpdateRead, UpdateName
<1>3. CASE DeleteRead(r) \/ DeleteArtifacts(r)
  <2>1. \/ c \in Change("delete", {"read"} \cup DeletePcs)
        \/ c \in Change("leave", LeavePcs) \/ c \in Change("remove", RemovePcs)
    BY <1>1, <1>3, CallTypes DEF DeleteRead, DeleteArtifacts, CallAt, LeavePcs, RemovePcs
  <2>2. \A pc \in DeletePcs : Moved(c, pc) \in Call
    BY <2>1, MovedType DEF Call, LeavePcs, RemovePcs
  <2> QED BY <1>3, <2>2, GotoType, DoneType DEF DeleteRead, DeleteArtifacts, DeletePcs
<1>4. CASE AddRead(r)
  <2>1. c \in Change("add", AddPcs) BY <1>1, <1>4, CallTypes DEF AddRead, CallAt, AddPcs
  <2>2. \A pc \in {"write", "scan"} : Moved(c, pc) \in Call
    BY <2>1, MovedType DEF Call, AddPcs
  <2> QED BY <1>4, <2>2, GotoType, DoneType DEF AddRead
<1>5. CASE RoleRead(r) \/ RoleCount(r)
  <2>1. c \in Change("role", RolePcs)
    BY <1>1, <1>5, CallTypes DEF RoleRead, RoleCount, CallAt, RolePcs
  <2>2. \A pc \in {"count", "write"} :
           Moved(c, pc) \in Call /\ \A x \in ProjectRoles : Seen(c, x, pc) \in Call
    BY <2>1, MovedType DEF Call, RolePcs
  <2>3. CASE RoleCount(r) BY <2>2, <2>3, GotoType, DoneType DEF RoleCount
  <2>4. CASE RoleRead(r)
    <3>1. PICK v \in call[r].on :
            IF role[v] = "none" THEN CallDone(r)
            ELSE call' = [call EXCEPT ![r].seen = role[v],
                                      ![r].pc = IF v = call[r].by THEN "count" ELSE "write"]
      BY <2>4 DEF RoleRead
    <3>2. role[v] \in ProjectRoles \cup {"none"} BY <2>1 DEF ProjectsTypeOK, Change
    <3>3. CASE role[v] = "none" BY <2>4, <3>1, <3>3, DoneType DEF RoleRead
    <3>4. CASE role[v] # "none"
      <4>1. PICK pc \in {"count", "write"} : pc = IF v = call[r].by THEN "count" ELSE "write"
        OBVIOUS
      <4>2. call' = [call EXCEPT ![r] = Seen(c, role[v], pc)]
        BY <3>1, <3>4, <4>1 DEF Seen, ProjectsTypeOK
      <4>3. Seen(c, role[v], pc) \in Call BY <2>2, <3>2, <3>4
      <4> QED BY <2>4, <4>2, <4>3, SlotType DEF RoleRead
    <3> QED BY <3>3, <3>4
  <2> QED BY <1>5, <2>3, <2>4
<1>6. CASE LeaveRead(r) \/ LeaveMembers(r) \/ LeaveAdmins(r)
  <2>1. c \in Change("leave", LeavePcs)
    BY <1>1, <1>6, CallTypes DEF LeaveRead, LeaveMembers, LeaveAdmins, CallAt, LeavePcs
  <2>2. \A pc \in LeavePcs :
           Moved(c, pc) \in Call /\ \A x \in ProjectRoles : Seen(c, x, pc) \in Call
    BY <2>1, MovedType DEF Call, LeavePcs
  <2>3. CASE LeaveRead(r)
    <3>1. c.by \in People BY <2>1, <2>3 DEF Change, Whose, LeaveRead
    <3>2. role[c.by] \in ProjectRoles \cup {"none"} BY <3>1 DEF ProjectsTypeOK
    <3>3. CASE role[c.by] = "none" BY <2>3, <3>3, DoneType DEF LeaveRead
    <3>4. CASE role[c.by] # "none"
      <4>1. call' = [call EXCEPT ![r] = Seen(c, role[c.by], "members")]
        BY <2>3, <3>4 DEF LeaveRead, Seen, ProjectsTypeOK
      <4>2. Seen(c, role[c.by], "members") \in Call BY <2>2, <3>2, <3>4 DEF LeavePcs
      <4> QED BY <2>3, <4>1, <4>2, SlotType DEF LeaveRead
    <3> QED BY <3>3, <3>4
  <2>4. CASE LeaveMembers(r) \/ LeaveAdmins(r)
    BY <2>2, <2>4, GotoType, DoneType DEF LeaveMembers, LeaveAdmins, LeavePcs, DeletePcs
  <2> QED BY <1>6, <2>3, <2>4
<1>7. CASE RemoveRead(r)
  <2>1. c \in Change("remove", RemovePcs)
    BY <1>1, <1>7, CallTypes DEF RemoveRead, CallAt, RemovePcs
  <2>2. \A pc \in {"artifacts", "write"} : Moved(c, pc) \in Call
    BY <2>1, MovedType DEF Call, RemovePcs, DeletePcs
  <2> QED BY <1>7, <2>2, GotoType, DoneType DEF RemoveRead
<1> QED BY <1>2, <1>3, <1>4, <1>5, <1>6, <1>7

\* The statements that change members or the project.
Writes(r) ==
    \/ CreateWrite(r) \/ UpdateWrite(r) \/ DeleteDrop(r) \/ AddWrite(r) \/ RoleWrite(r)
    \/ LeaveWrite(r) \/ RemoveWrite(r)

\* They commit, or throw.
LEMMA WriteEnds ==
  ASSUME ProjectsTypeOK, NEW r \in Callers, Writes(r)
  PROVE  /\ Changes(call[r])
         /\ Throws(r) \/ Commit(r, "scan")
  BY DEF Writes, CreateWrite, UpdateWrite, DeleteDrop, AddWrite, RoleWrite, LeaveWrite,
         RemoveWrite, CallAt, Changes

LEMMA WriteType ==
  ASSUME ProjectsTypeOK, NEW r \in Callers, Writes(r)
  PROVE  ProjectsTypeOK'
<1> USE ProjectsAssumption DEF ProjectRoles
<1>1. Changes(call[r]) /\ call[r] \in Call BY WriteEnds DEF ProjectsTypeOK
<1>2. CASE Throws(r) BY <1>2, DoneType DEF Throws
<1>3. CASE Commit(r, "scan") /\ ~ Throws(r)
  <2>1. call' \in [Callers -> Call] /\ cached' \in [Keys -> {"none", "true", "stale", "left"}]
    BY <1>1, <1>3, CommitType
  <2>2. life' \in {"absent", "live", "gone"}
    BY <1>3
    DEF Writes, CreateWrite, UpdateWrite, DeleteDrop, AddWrite, RoleWrite, LeaveWrite,
        RemoveWrite, ProjectsTypeOK
  <2>3. role' \in [People -> ProjectRoles \cup {"none"}]
    <3>1. CASE CreateWrite(r)
      BY <1>3, <3>1 DEF CreateWrite, ProjectsTypeOK
    <3>2. CASE UpdateWrite(r) BY <1>3, <3>2 DEF UpdateWrite, ProjectsTypeOK
    <3>3. CASE DeleteDrop(r) BY <1>3, <3>3 DEF DeleteDrop
    <3>4. CASE AddWrite(r)
      <4>1. call[r].to \in ProjectRoles \cup {"none"} BY <1>1, ChangeTypes
      <4> QED BY <1>3, <3>4, <4>1 DEF AddWrite, ProjectsTypeOK
    <3>5. CASE RoleWrite(r)
      <4>1. call[r].to \in ProjectRoles \cup {"none"} BY <1>1, ChangeTypes
      <4> QED BY <1>3, <3>5, <4>1 DEF RoleWrite, ProjectsTypeOK
    <3>6. CASE LeaveWrite(r) BY <1>3, <3>6 DEF LeaveWrite, ProjectsTypeOK
    <3>7. CASE RemoveWrite(r) BY <3>7 DEF RemoveWrite, ProjectsTypeOK
    <3> QED BY <3>1, <3>2, <3>3, <3>4, <3>5, <3>6, <3>7 DEF Writes
  <2> QED BY <2>1, <2>2, <2>3 DEF ProjectsTypeOK
<1> QED BY <1>2, <1>3, WriteEnds

LEMMA LeftType ==
  ASSUME ProjectsTypeOK, NEW ks
  PROVE  Left(ks) \in [Keys -> {"none", "true", "stale", "left"}]
  BY DEF Left, ProjectsTypeOK

\* A scan takes its request to the deletion of what it found.
LEMMA ScanFinds ==
  ASSUME ProjectsTypeOK, NEW r \in Callers, Scan(r)
  PROVE  \E ks \in SUBSET Keys : call' = [call EXCEPT ![r] = Found(call[r], ks)]
<1>1. PICK failed \in Failures :
        call' = [call EXCEPT ![r].found = {k \in Asked(r) \ failed : cached[k] # "none"},
                             ![r].pc = "del"]
  BY DEF Scan
<1> DEFINE ks == {k \in Asked(r) \ failed : cached[k] # "none"}
<1>2. ks \in SUBSET Keys BY DEF Asked
<1>3. call' = [call EXCEPT ![r] = Found(call[r], ks)] BY <1>1 DEF Found, ProjectsTypeOK
<1> QED BY <1>2, <1>3

LEMMA CacheType ==
  ASSUME ProjectsTypeOK, NEW r \in Callers,
         Scan(r) \/ Del(r) \/ GetQuery(r) \/ GetSet(r)
  PROVE  ProjectsTypeOK'
<1> DEFINE c == call[r]
<1>1. c \in Call BY DEF ProjectsTypeOK
<1>2. CASE Scan(r)
  <2>1. Changes(c) BY <1>1, <1>2, CallTypes DEF Scan, NoCall
  <2>2. PICK ks \in SUBSET Keys : call' = [call EXCEPT ![r] = Found(c, ks)]
    BY <1>2, ScanFinds
  <2>3. Found(c, ks) \in Call BY <1>1, <2>1, ChangeTypes
  <2>4. cached' \in [Keys -> {"none", "true", "stale", "left"}] BY <1>2, LeftType DEF Scan
  <2> QED BY <1>2, <2>2, <2>3, <2>4 DEF Scan, ProjectsTypeOK
<1>3. CASE Del(r)
  <2>1. PICK failed \in Failures :
          cached' = [k \in Keys |-> IF k \in c.found \ failed THEN "none"
                                    ELSE Left(c.found \cap failed)[k]]
    BY <1>3 DEF Del
  <2>2. Left(c.found \cap failed) \in [Keys -> {"none", "true", "stale", "left"}] BY LeftType
  <2>3. cached' \in [Keys -> {"none", "true", "stale", "left"}] BY <2>1, <2>2
  <2> QED BY <1>3, <2>3 DEF Del, CallDone, ProjectsTypeOK, Call
<1>4. CASE GetQuery(r)
  <2>1. c \in [op : {"get"}, key : Keys, pc : {"query", "set"}, true : BOOLEAN]
    BY <1>1, <1>4, CallTypes DEF GetQuery, CallAt
  <2>2. CASE CallDone(r) BY <1>4, <2>2, DoneType DEF GetQuery
  <2>3. CASE call' = [call EXCEPT ![r].pc = "set", ![r].true = TRUE]
    <3>1. call' = [call EXCEPT ![r] = [c EXCEPT !.pc = "set", !.true = TRUE]]
      BY <2>3 DEF ProjectsTypeOK
    <3>2. [c EXCEPT !.pc = "set", !.true = TRUE] \in Call BY <2>1 DEF Call
    <3> QED BY <1>4, <3>1, <3>2, SlotType DEF GetQuery
  <2> QED BY <1>4, <2>2, <2>3 DEF GetQuery
<1>5. CASE GetSet(r)
  BY <1>5 DEF GetSet, CallDone, ProjectsTypeOK, Call
<1> QED BY <1>2, <1>3, <1>4, <1>5

LEMMA DiesType ==
  ASSUME ProjectsTypeOK, NEW r \in Callers, Dies(r)
  PROVE  ProjectsTypeOK'
  BY LeftType DEF Dies, CallDone, ProjectsTypeOK, Call

LEMMA StepType == ProjectsTypeOK /\ [ProjectsNext]_projectsVars => ProjectsTypeOK'
<1> SUFFICES ASSUME ProjectsTypeOK, [ProjectsNext]_projectsVars PROVE ProjectsTypeOK'
  OBVIOUS
<1>1. CASE UNCHANGED projectsVars BY <1>1 DEF projectsVars, ProjectsTypeOK
<1>2. ASSUME NEW k \in Keys, EntryExpires(k) PROVE ProjectsTypeOK'
  BY <1>2 DEF EntryExpires, ProjectsTypeOK
<1>3. ASSUME NEW r \in Callers, CallAdvances(r) PROVE ProjectsTypeOK'
  BY <1>3, ReadType, WriteType, CacheType DEF CallAdvances, Writes
<1> QED BY <1>1, <1>2, <1>3, BeginType, DiesType DEF ProjectsNext

\* Members, roles, cache and requests are well typed, for any people and requests.
THEOREM ProjectsTypeCorrect == ProjectsSpec => []ProjectsTypeOK
  BY InitType, StepType, PTL DEF ProjectsSpec

-----------------------------------------------------------------------------
(* What was read still holds                                               *)

\* What never changes in a request: whom it is about and what it assigns.
Shape(c) ==
    /\ c.op = "role" => \E v \in People : c.on = {v}
    /\ c.op \in {"role", "add"} => c.to # "none"
    /\ c.op = "leave" => c.on = {c.by}

\* What a request that nobody overtook may rely on, at each place it reaches.
RoleHolds(c) ==
    /\ c.pc \in RolePcs => role[c.by] = "ADMIN"
    /\ c.pc \in {"count", "write"} => \A v \in c.on : role[v] = c.seen
    /\ c.pc = "count" => c.on = {c.by}
    /\ c.pc = "write" /\ c.on = {c.by} /\ c.to # "ADMIN" => ~ (Admins \subseteq c.on)

LeaveHolds(c) ==
    /\ c.pc \in {"members", "admins", "write"} => role[c.by] = c.seen /\ c.seen # "none"
    /\ c.pc \in {"admins", "write"} => ~ (Members \subseteq c.on)
    /\ c.pc = "write" /\ c.seen = "ADMIN" => ~ (Admins \subseteq c.on)
    /\ c.pc \in DeletePcs => Members \subseteq c.on

RemoveHolds(c) ==
    /\ c.pc = "write" => ~ (Members \subseteq c.on)
    /\ c.pc \in DeletePcs => Members \subseteq c.on

Reading(c) ==
    /\ c.op = "role"   => RoleHolds(c)
    /\ c.op = "leave"  => LeaveHolds(c)
    /\ c.op = "remove" => RemoveHolds(c)

Stands(c) == Changes(c) => Shape(c) /\ (~ c.overtaken => Reading(c))

ReadingsHold == \A r \in Callers : Stands(call[r])

\* The same request, at another place.
Like(d, c) == d.op = c.op /\ d.by = c.by /\ d.on = c.on /\ d.to = c.to

LEMMA LikeShape == ASSUME NEW c, NEW d, Like(d, c), Shape(c) PROVE Shape(d)
  BY DEF Like, Shape

LEMMA Fields ==
  ASSUME NEW op, NEW pcs, NEW c \in Change(op, pcs), NEW x, NEW pc, NEW ks, NEW b
  PROVE  /\ Like(Moved(c, pc), c) /\ Moved(c, pc).pc = pc /\ Moved(c, pc).seen = c.seen
         /\ Moved(c, pc).overtaken = c.overtaken
         /\ Like(Seen(c, x, pc), c) /\ Seen(c, x, pc).pc = pc /\ Seen(c, x, pc).seen = x
         /\ Seen(c, x, pc).overtaken = c.overtaken
         /\ Like(Found(c, ks), c) /\ Found(c, ks).pc = "del" /\ Found(c, ks).seen = c.seen
         /\ Found(c, ks).overtaken = c.overtaken
         /\ Like(Marked(c, b), c) /\ Marked(c, b).pc = c.pc /\ Marked(c, b).seen = c.seen
         /\ Marked(c, b).overtaken = b
  BY DEF Moved, Seen, Found, Marked, Change, Like

\* The same for a request of any kind.
LEMMA CallFields ==
  ASSUME NEW c \in Call, Changes(c), NEW x, NEW pc, NEW ks, NEW b
  PROVE  /\ Like(Moved(c, pc), c) /\ Moved(c, pc).pc = pc /\ Moved(c, pc).seen = c.seen
         /\ Moved(c, pc).overtaken = c.overtaken
         /\ Like(Seen(c, x, pc), c) /\ Seen(c, x, pc).pc = pc /\ Seen(c, x, pc).seen = x
         /\ Seen(c, x, pc).overtaken = c.overtaken
         /\ Like(Found(c, ks), c) /\ Found(c, ks).pc = "del" /\ Found(c, ks).seen = c.seen
         /\ Found(c, ks).overtaken = c.overtaken
         /\ Like(Marked(c, b), c) /\ Marked(c, b).pc = c.pc /\ Marked(c, b).seen = c.seen
         /\ Marked(c, b).overtaken = b
<1>1. \E op, pcs : c \in Change(op, pcs) BY CallTypes DEF Changes
<1> QED BY <1>1, Fields

\* While roles stay, so does what was read.
LEMMA SameReading ==
  ASSUME UNCHANGED role, NEW c, Reading(c)
  PROVE  Reading(c)'
  BY DEF Reading, RoleHolds, LeaveHolds, RemoveHolds, Members, Admins

\* A step that changes no roles and one request at most.
LEMMA OneSlot ==
  ASSUME ProjectsTypeOK, ReadingsHold, UNCHANGED role, NEW r \in Callers, NEW d,
         call' = [call EXCEPT ![r] = d], Stands(d)
  PROVE  ReadingsHold'
<1> SUFFICES ASSUME NEW q \in Callers PROVE Stands(call[q])'
  BY DEF ReadingsHold
<1>1. Stands(call'[q])
  BY DEF ProjectsTypeOK, ReadingsHold
<1> QED BY <1>1 DEF Stands, Shape, Reading, RoleHolds, LeaveHolds, RemoveHolds, Members, Admins

\* After a committed write only the writer was not overtaken, and it relies on
\* nothing any more.
LEMMA CommitStands ==
  ASSUME ProjectsTypeOK, ReadingsHold, NEW r \in Callers, Changes(call[r]),
         Commit(r, "scan")
  PROVE  ReadingsHold'
<1> SUFFICES ASSUME NEW q \in Callers PROVE Stands(call[q])'
  BY DEF ReadingsHold
<1> DEFINE c == call[q]
<1> PICK d : d = call'[q] OBVIOUS
<1>0. Stands(d)' => Stands(call[q])'
  BY DEF Stands, Changes, Shape, Reading, RoleHolds, LeaveHolds, RemoveHolds, Members, Admins
<1>1. c \in Call /\ Stands(c) BY DEF ProjectsTypeOK, ReadingsHold
<1>2. CASE q = r
  <2>1. Like(d, c) /\ d.pc = "scan" BY <1>1, <1>2, CommitSlots, CallFields
  <2>2. Shape(d) BY <1>1, <1>2, <2>1, LikeShape DEF Stands
  <2>3. Reading(d)'
    BY <2>1 DEF Reading, RoleHolds, LeaveHolds, RemoveHolds, RolePcs, DeletePcs
  <2> QED BY <2>2, <2>3 DEF Stands, Shape
<1>3. CASE q # r /\ Changes(c)
  <2>1. /\ Like(d, c) /\ d.pc = c.pc /\ d.seen = c.seen
        /\ d.overtaken = (c.overtaken \/ role' # role \/ life' # life)
    BY <1>1, <1>3, CommitSlots, CallFields
  <2>2. Shape(d) BY <1>1, <1>3, <2>1, LikeShape DEF Stands
  <2>3. ASSUME ~ d.overtaken PROVE Reading(d)'
    <3>1. Reading(c) /\ UNCHANGED role BY <1>1, <1>3, <2>1, <2>3 DEF Stands
    <3>2. Reading(d)
      BY <2>1, <3>1 DEF Reading, RoleHolds, LeaveHolds, RemoveHolds, Like
    <3> QED BY <3>1, <3>2, SameReading
  <2> QED BY <2>2, <2>3 DEF Stands, Shape
<1>4. CASE q # r /\ ~ Changes(c)
  <2>1. ~ Changes(d)
    <3>1. CASE c = NoCall
      BY <1>4, <3>1, CommitSlots DEF NoCall, Changes
    <3>2. CASE c.op = "get"
      <4>1. c \in [op : {"get"}, key : Keys, pc : {"query", "set"}, true : BOOLEAN]
        BY <1>1, <3>2, CallTypes
      <4>2. d = Untrue(c) BY <1>4, <3>2, CommitSlots
      <4> QED BY <4>1, <4>2 DEF Untrue, Changes
    <3> QED BY <1>1, <1>4, <3>1, <3>2, CallTypes
  <2> QED BY <2>1 DEF Stands, Changes
<1> QED BY <1>0, <1>2, <1>3, <1>4

LEMMA InitStands == ProjectsInit => ReadingsHold
  BY DEF ProjectsInit, ReadingsHold, Stands, Changes, NoCall

LEMMA NoCallStands == Stands(NoCall)
  BY DEF Stands, Changes, NoCall

LEMMA DoneStands ==
  ASSUME ProjectsTypeOK, ReadingsHold, NEW r \in Callers, CallDone(r), UNCHANGED role
  PROVE  ReadingsHold'
  BY NoCallStands, OneSlot DEF CallDone

\* A request that comes in.
LEMMA BeginStands ==
  ASSUME ProjectsTypeOK, ReadingsHold, NEW r \in Callers, CallBegins(r)
  PROVE  ReadingsHold'
<1> DEFINE New(op, u, us, to, pc) ==
             [op |-> op, by |-> u, on |-> us, to |-> to, seen |-> "none", found |-> {},
              overtaken |-> FALSE, pc |-> pc]
<1>1. ASSUME NEW op, NEW u, NEW us, NEW to, NEW pc, Enter(r, op, u, us, to, pc),
             Stands(New(op, u, us, to, pc))
      PROVE  ReadingsHold'
  BY <1>1, OneSlot DEF Enter, Reads
<1> USE DEF Stands, Shape, Reading, RoleHolds, LeaveHolds, RemoveHolds, Changes, DeletePcs
<1>2. CASE UpdateEnter(r)
  <2>1. Stands(New("update", "somebody", {}, "none", "read")) OBVIOUS
  <2> QED BY <1>1, <1>2, <2>1 DEF UpdateEnter, AdminEnters
<1>3. CASE DeleteEnter(r)
  <2>1. Stands(New("delete", "somebody", {}, "none", "read")) OBVIOUS
  <2> QED BY <1>1, <1>3, <2>1 DEF DeleteEnter, AdminEnters
<1>4. ASSUME NEW u \in People, CreateRead(r, u) PROVE ReadingsHold'
  <2>1. Stands(New("create", u, {}, "none", "write")) OBVIOUS
  <2> QED BY <1>1, <1>4, <2>1 DEF CreateRead
<1>5. ASSUME NEW u \in People, LeaveEnter(r, u) PROVE ReadingsHold'
  <2>1. Stands(New("leave", u, {u}, "none", "read")) OBVIOUS
  <2> QED BY <1>1, <1>5, <2>1 DEF LeaveEnter
<1>6. ASSUME NEW v \in People, NEW to \in AssignedRoles, AddEnter(r, v, to)
      PROVE  ReadingsHold'
  <2>1. to # "none" BY ProjectsAssumption DEF ProjectRoles
  <2>2. Stands(New("add", "somebody", {v}, to, "read")) BY <2>1
  <2> QED BY <1>1, <1>6, <2>2 DEF AddEnter, AdminEnters
<1>7. ASSUME NEW u \in People, NEW v \in People, NEW to \in AssignedRoles,
             RoleEnter(r, u, v, to)
      PROVE  ReadingsHold'
  <2>1. to # "none" BY ProjectsAssumption DEF ProjectRoles
  <2>2. role[u] = "ADMIN"
    <3>1. Priority[role[u]] >= 2 /\ role[u] # "none"
      BY <1>7 DEF RoleEnter, MayEnter, Priority
    <3>2. role[u] \in ProjectRoles BY <3>1 DEF ProjectsTypeOK
    <3> QED BY <3>1, <3>2 DEF Priority, ProjectRoles
  <2>3. Stands(New("role", u, {v}, to, "read")) BY <2>1, <2>2
  <2> QED BY <1>1, <1>7, <2>3 DEF RoleEnter
<1>8. ASSUME NEW us \in SUBSET People, RemoveEnter(r, us) PROVE ReadingsHold'
  <2>1. Stands(New("remove", "somebody", us, "none", "read")) OBVIOUS
  <2> QED BY <1>1, <1>8, <2>1 DEF RemoveEnter, AdminEnters
<1>9. ASSUME NEW k \in Keys, GetMiss(r, k) PROVE ReadingsHold'
  <2>1. Stands([op |-> "get", key |-> k, pc |-> "query", true |-> TRUE]) OBVIOUS
  <2> QED BY <1>9, <2>1, OneSlot DEF GetMiss, Reads
<1> QED BY <1>2, <1>3, <1>4, <1>5, <1>6, <1>7, <1>8, <1>9 DEF CallBegins

LEMMA WriteStands ==
  ASSUME ProjectsTypeOK, ReadingsHold, NEW r \in Callers, Writes(r)
  PROVE  ReadingsHold'
  BY WriteEnds, CommitStands, DoneStands DEF Throws, Reads

\* A request that goes on, with what it reads.
LEMMA GotoStands ==
  ASSUME ProjectsTypeOK, ReadingsHold, NEW r \in Callers, NEW pc, CallGoto(r, pc), Reads,
         Stands(Moved(call[r], pc))
  PROVE  ReadingsHold'
<1>1. call' = [call EXCEPT ![r] = Moved(call[r], pc)]
  BY DEF CallGoto, Moved, ProjectsTypeOK
<1> QED BY <1>1, OneSlot DEF Reads

\* A deletion, a name change and an addition read nothing they rely on.
LEMMA PlainStands ==
  ASSUME NEW c \in Call, Stands(c), Changes(c), NEW pc,
         c.op \in {"create", "update", "delete", "add"} \/ pc \in {"scan", "del"}
  PROVE  Stands(Moved(c, pc))
<1> DEFINE d == Moved(c, pc)
<1>1. Like(d, c) /\ d.pc = pc BY CallFields
<1>2. Shape(d) BY <1>1, LikeShape DEF Stands
<1>3. Reading(d)
  BY <1>1 DEF Like, Reading, RoleHolds, LeaveHolds, RemoveHolds, RolePcs, DeletePcs
<1> QED BY <1>2, <1>3 DEF Stands

\* From "artifacts" to "drop".
LEMMA DropStands ==
  ASSUME NEW c \in Call, Stands(c), Changes(c), c.pc = "artifacts"
  PROVE  Stands(Moved(c, "drop"))
<1> DEFINE d == Moved(c, "drop")
<1>1. Like(d, c) /\ d.pc = "drop" /\ d.overtaken = c.overtaken BY CallFields
<1>2. Shape(d) BY <1>1, LikeShape DEF Stands
<1>3. ASSUME ~ d.overtaken PROVE Reading(d)
  <2>1. Reading(c) BY <1>1, <1>3 DEF Stands
  <2> QED BY <1>1, <2>1
          DEF Like, Reading, RoleHolds, LeaveHolds, RemoveHolds, RolePcs, DeletePcs
<1> QED BY <1>2, <1>3 DEF Stands

LEMMA PeopleFinite == IsFiniteSet(Members) /\ IsFiniteSet(Admins)
  BY ProjectsAssumption, FS_Subset DEF Members, Admins

\* A change of a role: whose it is, and whether they are the last admin.
LEMMA RoleStands ==
  ASSUME ProjectsTypeOK, ReadingsHold, NEW r \in Callers, RoleRead(r) \/ RoleCount(r)
  PROVE  ReadingsHold'
<1> DEFINE c == call[r]
<1>1. c \in Call /\ Stands(c) /\ Changes(c) /\ c.op = "role"
  BY DEF ProjectsTypeOK, ReadingsHold, RoleRead, RoleCount, CallAt, Changes
<1>v. PICK v \in People : c.on = {v} BY <1>1 DEF Stands, Shape
<1>2. Shape(c) /\ v \in People /\ c.on = {v} BY <1>1, <1>v DEF Stands
<1>3. CASE RoleRead(r)
  <2>1. CASE CallDone(r) BY <1>3, <2>1, DoneStands DEF RoleRead, Reads
  <2> DEFINE pc == IF v = c.by THEN "count" ELSE "write"
             d  == Seen(c, role[v], pc)
  <2>2. CASE role[v] # "none" /\ ~ CallDone(r)
    <3>1. call' = [call EXCEPT ![r] = d]
      BY <1>2, <1>3, <2>2 DEF RoleRead, Seen, ProjectsTypeOK
    <3>2. Like(d, c) /\ d.pc = pc /\ d.seen = role[v] /\ d.overtaken = c.overtaken
      BY <1>1, CallFields
    <3>3. Shape(d) BY <1>2, <3>2, LikeShape
    <3>4. ASSUME ~ d.overtaken PROVE Reading(d)
      <4>1. role[c.by] = "ADMIN"
        BY <1>1, <1>3, <3>2, <3>4
        DEF Stands, Reading, RoleHolds, RolePcs, RoleRead, CallAt
      <4>2. d.pc = "write" => d.on # {d.by} BY <1>2, <3>2 DEF Like
      <4>3. d.pc = "count" => d.on = {d.by} BY <1>2, <3>2 DEF Like
      <4> QED BY <1>1, <1>2, <3>2, <4>1, <4>2, <4>3 DEF Reading, RoleHolds, Like
    <3>5. Stands(d) BY <3>3, <3>4 DEF Stands
    <3> QED BY <1>3, <3>1, <3>5, OneSlot DEF RoleRead, Reads
  <2> QED BY <1>2, <1>3, <2>1, <2>2 DEF RoleRead
<1>4. CASE RoleCount(r)
  <2>1. CASE CallDone(r) BY <1>4, <2>1, DoneStands DEF RoleCount, Reads
  <2> DEFINE d == Moved(c, "write")
  <2>2. CASE CallGoto(r, "write")
             /\ ~ (c.seen = "ADMIN" /\ c.to # "ADMIN" /\ Cardinality(Admins) = 1)
    <3>1. Like(d, c) /\ d.pc = "write" /\ d.seen = c.seen /\ d.overtaken = c.overtaken
      BY <1>1, CallFields
    <3>2. Shape(d) BY <1>2, <3>1, LikeShape
    <3>3. ASSUME ~ d.overtaken PROVE Reading(d)
      <4>1. RoleHolds(c) /\ c.pc = "count"
        BY <1>1, <1>4, <3>1, <3>3 DEF Stands, Reading, RoleCount, CallAt
      <4>2. /\ role[c.by] = "ADMIN" /\ c.on = {c.by} /\ c.seen = "ADMIN" /\ c.by = v
            /\ \A x \in c.on : role[x] = c.seen
        BY <1>2, <4>1 DEF RoleHolds, RolePcs
      <4>3. ASSUME c.to # "ADMIN" PROVE ~ (Admins \subseteq c.on)
        <5>1. SUFFICES ASSUME Admins \subseteq c.on PROVE FALSE OBVIOUS
        <5>2. v \in Admins BY <1>2, <4>2 DEF Admins
        <5>3. Admins = {v} BY <1>2, <5>1, <5>2
        <5>4. Cardinality(Admins) = 1 BY <5>3, PeopleFinite, FS_Singleton
        <5> QED BY <2>2, <4>2, <4>3, <5>4
      <4> QED BY <1>1, <3>1, <4>2, <4>3 DEF Reading, RoleHolds, Like
    <3>4. Stands(d) BY <3>2, <3>3 DEF Stands
    <3> QED BY <1>4, <2>2, <3>4, GotoStands DEF RoleCount
  <2> QED BY <1>4, <2>1, <2>2 DEF RoleCount
<1> QED BY <1>3, <1>4

\* Leaving: whether the user is a member, the last one, the last admin.
LEMMA LeaveStands ==
  ASSUME ProjectsTypeOK, ReadingsHold, NEW r \in Callers,
         LeaveRead(r) \/ LeaveMembers(r) \/ LeaveAdmins(r)
  PROVE  ReadingsHold'
<1> DEFINE c == call[r]
<1>1. c \in Call /\ Stands(c) /\ Changes(c) /\ c.op = "leave"
  BY DEF ProjectsTypeOK, ReadingsHold, LeaveRead, LeaveMembers, LeaveAdmins, CallAt, Changes
<1>2. Shape(c) /\ c.on = {c.by} /\ c.by \in People
  BY <1>1, ChangeTypes DEF Stands, Shape, Whose
<1>3. CASE CallDone(r)
  BY <1>3, DoneStands DEF LeaveRead, LeaveMembers, LeaveAdmins, Reads
<1>4. CASE LeaveRead(r) /\ ~ CallDone(r)
  <2> DEFINE d == Seen(c, role[c.by], "members")
  <2>1. call' = [call EXCEPT ![r] = d] /\ role[c.by] # "none"
    BY <1>4 DEF LeaveRead, Seen, ProjectsTypeOK
  <2>2. Like(d, c) /\ d.pc = "members" /\ d.seen = role[c.by] BY <1>1, CallFields
  <2>3. Shape(d) BY <1>2, <2>2, LikeShape
  <2>4. Reading(d)
    BY <1>1, <2>1, <2>2 DEF Reading, LeaveHolds, Like, DeletePcs
  <2>5. Stands(d) BY <2>3, <2>4 DEF Stands
  <2> QED BY <1>4, <2>1, <2>5, OneSlot DEF LeaveRead, Reads
<1>5. CASE LeaveMembers(r)
  <2> DEFINE pc == IF Cardinality(Members) <= 1 THEN "artifacts" ELSE "admins"
             d  == Moved(c, pc)
  <2>1. Like(d, c) /\ d.pc = pc /\ d.seen = c.seen /\ d.overtaken = c.overtaken
    BY <1>1, CallFields
  <2>2. Shape(d) BY <1>2, <2>1, LikeShape
  <2>3. ASSUME ~ d.overtaken PROVE Reading(d)
    <3>1. role[c.by] = c.seen /\ c.seen # "none"
      BY <1>1, <1>5, <2>1, <2>3 DEF Stands, Reading, LeaveHolds, LeaveMembers, CallAt
    <3>2. c.by \in Members BY <1>2, <3>1 DEF Members
    <3>3. Cardinality(Members) \in Nat BY PeopleFinite, FS_CardinalityType
    <3>4. Cardinality(Members) # 0 BY <3>2, PeopleFinite, FS_EmptySet
    <3>5. CASE Cardinality(Members) <= 1
      <4>1. Cardinality(Members) = 1 BY <3>3, <3>4, <3>5
      <4>2. Members \subseteq c.on BY <1>2, <3>2, <4>1, PeopleFinite, FS_Singleton
      <4> QED BY <1>1, <2>1, <3>5, <4>2 DEF Reading, LeaveHolds, Like, DeletePcs
    <3>6. CASE ~ (Cardinality(Members) <= 1)
      <4>1. ASSUME Members \subseteq c.on PROVE FALSE
        <5>1. Members = {c.by} BY <1>2, <3>2, <4>1
        <5>2. Cardinality(Members) = 1 BY <5>1, PeopleFinite, FS_Singleton
        <5> QED BY <3>6, <5>2
      <4> QED BY <1>1, <2>1, <3>1, <3>6, <4>1 DEF Reading, LeaveHolds, Like, DeletePcs
    <3> QED BY <3>5, <3>6
  <2>4. Stands(d) BY <2>2, <2>3 DEF Stands
  <2> QED BY <1>5, <2>4, GotoStands DEF LeaveMembers
<1>6. CASE LeaveAdmins(r) /\ ~ CallDone(r)
  <2> DEFINE d == Moved(c, "write")
  <2>1. /\ CallGoto(r, "write") /\ c.pc = "admins"
        /\ ~ (c.seen = "ADMIN" /\ Cardinality(Admins) <= 1)
    BY <1>6 DEF LeaveAdmins, CallAt
  <2>2. Like(d, c) /\ d.pc = "write" /\ d.seen = c.seen /\ d.overtaken = c.overtaken
    BY <1>1, CallFields
  <2>3. Shape(d) BY <1>2, <2>2, LikeShape
  <2>4. ASSUME ~ d.overtaken PROVE Reading(d)
    <3>1. /\ role[c.by] = c.seen /\ c.seen # "none"
          /\ ~ (Members \subseteq c.on)
      BY <1>1, <2>1, <2>2, <2>4 DEF Stands, Reading, LeaveHolds
    <3>2. ASSUME c.seen = "ADMIN", Admins \subseteq c.on PROVE FALSE
      <4>1. c.by \in Admins BY <1>2, <3>1, <3>2 DEF Admins
      <4>2. Admins = {c.by} BY <1>2, <3>2, <4>1
      <4>3. Cardinality(Admins) = 1 BY <4>2, PeopleFinite, FS_Singleton
      <4> QED BY <2>1, <3>2, <4>3
    <3> QED BY <1>1, <2>2, <3>1, <3>2 DEF Reading, LeaveHolds, Like, DeletePcs
  <2>5. Stands(d) BY <2>3, <2>4 DEF Stands
  <2> QED BY <1>6, <2>1, <2>5, GotoStands DEF LeaveAdmins
<1> QED BY <1>3, <1>4, <1>5, <1>6

LEMMA RemoveStands ==
  ASSUME ProjectsTypeOK, ReadingsHold, NEW r \in Callers, RemoveRead(r)
  PROVE  ReadingsHold'
<1> DEFINE c == call[r]
<1>1. c \in Call /\ Stands(c) /\ Changes(c) /\ c.op = "remove"
  BY DEF ProjectsTypeOK, ReadingsHold, RemoveRead, CallAt, Changes
<1>2. CASE CallDone(r) BY <1>2, DoneStands DEF RemoveRead, Reads
<1>3. ASSUME NEW pc, CallGoto(r, pc),
             \/ pc = "artifacts" /\ Members \ c.on = {}
             \/ pc = "write" /\ Members \ c.on # {}
      PROVE  ReadingsHold'
  <2> DEFINE d == Moved(c, pc)
  <2>1. Like(d, c) /\ d.pc = pc BY <1>1, CallFields
  <2>2. Shape(d) BY <1>1, <2>1, LikeShape DEF Stands
  <2>3. Reading(d)
    BY <1>1, <1>3, <2>1 DEF Reading, RemoveHolds, Like, DeletePcs
  <2>4. Stands(d) BY <2>2, <2>3 DEF Stands
  <2> QED BY <1>3, <2>4, GotoStands DEF RemoveRead
<1> QED BY <1>2, <1>3 DEF RemoveRead

LEMMA OtherStands ==
  ASSUME ProjectsTypeOK, ReadingsHold, NEW r \in Callers,
         \/ UpdateRead(r) \/ UpdateName(r) \/ DeleteRead(r) \/ DeleteArtifacts(r)
         \/ AddRead(r) \/ Scan(r) \/ Del(r) \/ GetQuery(r) \/ GetSet(r)
  PROVE  ReadingsHold'
<1> DEFINE c == call[r]
<1>1. c \in Call /\ Stands(c) BY DEF ProjectsTypeOK, ReadingsHold
<1>2. CASE UpdateRead(r) \/ UpdateName(r) \/ DeleteRead(r) \/ AddRead(r)
  <2>1. Changes(c) /\ c.op \in {"update", "delete", "add"}
    BY <1>2 DEF UpdateRead, UpdateName, DeleteRead, AddRead, CallAt, Changes
  <2>2. \A pc : Stands(Moved(c, pc)) BY <1>1, <2>1, PlainStands
  <2>3. Reads /\ (CallDone(r) \/ \E pc : CallGoto(r, pc))
    BY <1>2 DEF UpdateRead, UpdateName, DeleteRead, AddRead
  <2> QED BY <2>2, <2>3, GotoStands, DoneStands DEF Reads
<1>3. CASE DeleteArtifacts(r)
  <2>1. Changes(c) /\ c.pc = "artifacts" BY <1>3 DEF DeleteArtifacts, Changes
  <2>2. Stands(Moved(c, "drop")) BY <1>1, <2>1, DropStands
  <2> QED BY <1>3, <2>2, GotoStands, DoneStands DEF DeleteArtifacts, Reads
<1>4. CASE Scan(r)
  <2>1. Changes(c) BY <1>1, <1>4, CallTypes DEF Scan, NoCall
  <2>2. PICK ks \in SUBSET Keys : call' = [call EXCEPT ![r] = Found(c, ks)]
    BY <1>4, ScanFinds
  <2> DEFINE d == Found(c, ks)
  <2>3. call' = [call EXCEPT ![r] = d] BY <2>2
  <2>4. Like(d, c) /\ d.pc = "del" BY <1>1, <2>1, CallFields
  <2>5. Shape(d) BY <1>1, <2>1, <2>4, LikeShape DEF Stands
  <2>6. Reading(d)
    BY <2>4 DEF Reading, RoleHolds, LeaveHolds, RemoveHolds, RolePcs, DeletePcs
  <2>7. Stands(d) BY <2>5, <2>6 DEF Stands
  <2> QED BY <1>4, <2>3, <2>7, OneSlot DEF Scan
<1>5. CASE Del(r) \/ GetSet(r)
  BY <1>5, DoneStands DEF Del, GetSet
<1>6. CASE GetQuery(r)
  <2>1. c \in [op : {"get"}, key : Keys, pc : {"query", "set"}, true : BOOLEAN]
    BY <1>1, <1>6, CallTypes DEF GetQuery, CallAt
  <2>2. CASE CallDone(r) BY <1>6, <2>2, DoneStands DEF GetQuery, Reads
  <2>3. CASE call' = [call EXCEPT ![r].pc = "set", ![r].true = TRUE]
    <3> DEFINE d == [c EXCEPT !.pc = "set", !.true = TRUE]
    <3>1. call' = [call EXCEPT ![r] = d] BY <2>3 DEF ProjectsTypeOK
    <3>2. d.op = "get" BY <2>1
    <3>3. Stands(d) BY <3>2 DEF Stands, Changes
    <3> QED BY <1>6, <3>1, <3>3, OneSlot DEF GetQuery, Reads
  <2> QED BY <1>6, <2>2, <2>3 DEF GetQuery
<1> QED BY <1>2, <1>3, <1>4, <1>5, <1>6

LEMMA StepStands ==
  ProjectsTypeOK /\ ReadingsHold /\ [ProjectsNext]_projectsVars => ReadingsHold'
<1> SUFFICES ASSUME ProjectsTypeOK, ReadingsHold, [ProjectsNext]_projectsVars
             PROVE  ReadingsHold'
  OBVIOUS
<1>1. ASSUME UNCHANGED <<role, call>> PROVE ReadingsHold'
  BY <1>1 DEF ReadingsHold, Stands, Changes, Shape, Reading, RoleHolds, LeaveHolds,
              RemoveHolds, Members, Admins
<1>2. ASSUME NEW r \in Callers, CallAdvances(r) PROVE ReadingsHold'
  BY <1>2, WriteStands, RoleStands, LeaveStands, RemoveStands, OtherStands
  DEF CallAdvances, Writes
<1>3. ASSUME NEW r \in Callers, Dies(r) PROVE ReadingsHold'
  BY <1>3, DoneStands DEF Dies
<1> QED BY <1>1, <1>2, <1>3, BeginStands DEF ProjectsNext, EntryExpires, projectsVars

\* A request that nobody overtook acts on roles that are as it read them.
THEOREM WhatWasReadHolds == ProjectsSpec => []ReadingsHold
<1>1. ProjectsInit => ProjectsTypeOK /\ ReadingsHold BY InitType, InitStands
<1>2. ProjectsTypeOK /\ ReadingsHold /\ [ProjectsNext]_projectsVars
      => (ProjectsTypeOK /\ ReadingsHold)'
  BY StepType, StepStands
<1> QED BY <1>1, <1>2, PTL DEF ProjectsSpec

-----------------------------------------------------------------------------
(* The last admin, and those who remain                                    *)

\* A write takes its request to the invalidation, or ends it.
LEMMA WriteMoves ==
  ASSUME ProjectsTypeOK, NEW r \in Callers, Writes(r)
  PROVE  Moves(r)
<1>1. Changes(call[r]) /\ call[r] \in Call BY WriteEnds DEF ProjectsTypeOK
<1>2. call[r].pc # "scan"
  BY DEF Writes, CreateWrite, UpdateWrite, DeleteDrop, AddWrite, RoleWrite, LeaveWrite,
         RemoveWrite, CallAt
<1>3. call[r].op \notin {"none", "get"} BY <1>1 DEF Changes
<1>4. CASE Throws(r) BY <1>3, <1>4 DEF Moves, Throws, CallDone, ProjectsTypeOK
<1>5. CASE Commit(r, "scan")
  <2>1. call'[r].pc = "scan" BY <1>1, <1>5, CommitSlots, CallFields
  <2> QED BY <1>2, <1>3, <2>1 DEF Moves
<1> QED BY <1>4, <1>5, WriteEnds

\* Only writes change roles or the project.
LEMMA OnlyWrites ==
  ASSUME [ProjectsNext]_projectsVars, ~ UNCHANGED <<life, role>>
  PROVE  \E r \in Callers : Writes(r)
<1>1. ASSUME NEW r \in Callers, CallBegins(r) PROVE UNCHANGED <<life, role>>
  BY <1>1 DEF CallBegins, UpdateEnter, DeleteEnter, CreateRead, LeaveEnter, AddEnter,
              RoleEnter, RemoveEnter, GetMiss, AdminEnters, Enter, Reads
<1>2. ASSUME NEW r \in Callers, CallAdvances(r), ~ Writes(r)
      PROVE  UNCHANGED <<life, role>>
  BY <1>2 DEF CallAdvances, Writes, UpdateRead, UpdateName, DeleteRead, DeleteArtifacts,
              AddRead, RoleRead, RoleCount, LeaveRead, LeaveMembers, LeaveAdmins,
              RemoveRead, Scan, Del, GetQuery, GetSet, Reads
<1> QED BY <1>1, <1>2 DEF ProjectsNext, Dies, EntryExpires, projectsVars

LEMMA LastAdminStep ==
  ASSUME ProjectsTypeOK, ReadingsHold, NEW r \in Callers, Writes(r),
         life = "live", life' = "live", Admins # {}, Admins' = {}
  PROVE  call[r].op = "remove" \/ call[r].overtaken
<1> DEFINE c == call[r]
<1> SUFFICES ASSUME ~ c.overtaken, c.op # "remove" PROVE FALSE OBVIOUS
<1>1. c \in Call /\ Changes(c) /\ Shape(c) /\ Reading(c)
  BY WriteEnds DEF ProjectsTypeOK, ReadingsHold, Stands
<1>2. PICK a \in People : role[a] = "ADMIN" BY DEF Admins
<1>3. \A u \in People : role'[u] # "ADMIN" BY DEF Admins
<1>4. ~ UNCHANGED role BY <1>2, <1>3
<1>5. CASE CreateWrite(r) BY <1>4, <1>5 DEF CreateWrite, Throws, Reads
<1>6. CASE UpdateWrite(r) BY <1>4, <1>6 DEF UpdateWrite, Throws, Reads
<1>7. CASE DeleteDrop(r) BY <1>4, <1>7 DEF DeleteDrop, Throws, Reads
<1>8. CASE AddWrite(r)
  <2>1. /\ c.on \cap Members = {}
        /\ role' = [u \in People |-> IF u \in c.on THEN c.to ELSE role[u]]
    BY <1>4, <1>8 DEF AddWrite, Throws, Reads
  <2>2. a \notin c.on BY <1>2, <2>1 DEF Members
  <2> QED BY <1>2, <1>3, <2>1, <2>2
<1>9. CASE RoleWrite(r)
  <2>1. PICK v \in c.on : role' = [role EXCEPT ![v] = c.to]
    BY <1>4, <1>9 DEF RoleWrite, Throws, Reads
  <2>2. c.op = "role" /\ c.pc = "write" BY <1>9 DEF RoleWrite, CallAt
  <2>3. c.on = {v} /\ v \in People BY <1>1, <2>1, <2>2 DEF Shape
  <2>4. Admins = {v} /\ c.to # "ADMIN"
    BY <1>2, <1>3, <2>1, <2>3 DEF Admins, ProjectsTypeOK
  <2>5. c.by \in People BY <1>1, <2>2, ChangeTypes DEF Whose
  <2>6. role[c.by] = "ADMIN" BY <1>1, <2>2 DEF Reading, RoleHolds, RolePcs
  <2>7. c.by = v BY <2>4, <2>5, <2>6 DEF Admins
  <2> QED BY <1>1, <2>2, <2>3, <2>4, <2>7 DEF Reading, RoleHolds
<1>10. CASE LeaveWrite(r)
  <2>1. role' = [role EXCEPT ![c.by] = "none"]
    BY <1>4, <1>10 DEF LeaveWrite, Throws, Reads
  <2>2. c.op = "leave" /\ c.pc = "write" BY <1>10 DEF LeaveWrite, CallAt
  <2>3. c.on = {c.by} BY <1>1, <2>2 DEF Shape
  <2>4. c.by \in People BY <1>1, <2>2, ChangeTypes DEF Whose
  <2>5. Admins \subseteq {c.by} BY <1>3, <2>1, <2>4 DEF Admins, ProjectsTypeOK
  <2>6. c.by = a BY <1>2, <2>5 DEF Admins
  <2>7. LeaveHolds(c) BY <1>1, <2>2 DEF Reading
  <2>8. c.seen = "ADMIN" BY <1>2, <2>2, <2>6, <2>7 DEF LeaveHolds
  <2> QED BY <2>2, <2>3, <2>5, <2>7, <2>8 DEF LeaveHolds
<1>11. CASE RemoveWrite(r) BY <1>11 DEF RemoveWrite, CallAt
<1> QED BY <1>5, <1>6, <1>7, <1>8, <1>9, <1>10, <1>11 DEF Writes

\* A live project loses its last admin only to a removal or an overtaken request.
THEOREM TheLastAdminStays == ProjectsSpec => LastAdminStays
<1> DEFINE Step ==
      life = "live" /\ life' = "live" /\ Admins # {} /\ Admins' = {} =>
         \E r \in Callers : Moves(r) /\ (call[r].op = "remove" \/ call[r].overtaken)
<1>1. ProjectsTypeOK /\ ReadingsHold /\ [ProjectsNext]_projectsVars
      => [Step]_projectsVars
  <2> SUFFICES ASSUME ProjectsTypeOK, ReadingsHold, [ProjectsNext]_projectsVars,
                      life = "live", life' = "live", Admins # {}, Admins' = {}
               PROVE  \E r \in Callers : Moves(r) /\ (call[r].op = "remove"
                                                      \/ call[r].overtaken)
    OBVIOUS
  <2>1. ~ UNCHANGED role BY DEF Admins
  <2>2. PICK r \in Callers : Writes(r) BY <2>1, OnlyWrites
  <2>3. Moves(r) BY <2>2, WriteMoves
  <2>4. call[r].op = "remove" \/ call[r].overtaken BY <2>2, LastAdminStep
  <2> QED BY <2>3, <2>4
<1> QED BY <1>1, ProjectsTypeCorrect, WhatWasReadHolds, PTL
        DEF ProjectsSpec, LastAdminStays

LEMMA LeftBehindStep ==
  ASSUME ProjectsTypeOK, ReadingsHold, NEW r \in Callers, Writes(r),
         life = "live", Members # {}, Members' = {} \/ life' = "gone"
  PROVE  \/ call[r].op = "delete"
         \/ call[r].overtaken
         \/ Members \subseteq call[r].on /\ life' = "gone"
<1> DEFINE c == call[r]
<1> SUFFICES ASSUME ~ c.overtaken, c.op # "delete"
             PROVE  Members \subseteq c.on /\ life' = "gone"
  OBVIOUS
<1>1. c \in Call /\ Changes(c) /\ Shape(c) /\ Reading(c)
  BY WriteEnds DEF ProjectsTypeOK, ReadingsHold, Stands
<1>2. PICK m \in People : role[m] # "none" BY DEF Members
<1>3. ~ UNCHANGED <<life, role>> BY DEF Members
<1>4. life' # "gone" => \A u \in People : role'[u] = "none" BY DEF Members
<1>5. CASE CreateWrite(r) BY <1>3, <1>5 DEF CreateWrite, Throws, Reads
<1>6. CASE UpdateWrite(r) BY <1>3, <1>6 DEF UpdateWrite, Throws, Reads
<1>7. CASE DeleteDrop(r)
  <2>1. life' = "gone" BY <1>3, <1>7 DEF DeleteDrop, Throws, Reads
  <2>2. c.op \in {"leave", "remove"} /\ c.pc = "drop" BY <1>7 DEF DeleteDrop
  <2> QED BY <1>1, <2>1, <2>2 DEF Reading, LeaveHolds, RemoveHolds, DeletePcs
<1>8. CASE AddWrite(r)
  <2>1. /\ c.on \cap Members = {} /\ UNCHANGED life
        /\ role' = [u \in People |-> IF u \in c.on THEN c.to ELSE role[u]]
    BY <1>3, <1>8 DEF AddWrite, Throws, Reads
  <2>2. m \notin c.on BY <1>2, <2>1 DEF Members
  <2> QED BY <1>2, <1>4, <2>1, <2>2
<1>9. CASE RoleWrite(r)
  <2>1. PICK v \in c.on : role' = [role EXCEPT ![v] = c.to] /\ UNCHANGED life
    BY <1>3, <1>9 DEF RoleWrite, Throws, Reads
  <2>2. c.to # "none" BY <1>1, <1>9 DEF Shape, RoleWrite, CallAt
  <2>3. role'[m] # "none" BY <1>2, <2>1, <2>2 DEF ProjectsTypeOK
  <2> QED BY <1>4, <2>1, <2>3
<1>10. CASE LeaveWrite(r)
  <2>1. role' = [role EXCEPT ![c.by] = "none"] /\ UNCHANGED life
    BY <1>3, <1>10 DEF LeaveWrite, Throws, Reads
  <2>2. c.op = "leave" /\ c.pc = "write" BY <1>10 DEF LeaveWrite, CallAt
  <2>3. c.on = {c.by} /\ ~ (Members \subseteq c.on)
    BY <1>1, <2>2 DEF Shape, Reading, LeaveHolds
  <2>4. PICK u \in People : role[u] # "none" /\ u # c.by BY <2>3 DEF Members
  <2> QED BY <1>4, <2>1, <2>4 DEF ProjectsTypeOK
<1>11. CASE RemoveWrite(r)
  <2>1. /\ role' = [u \in People |-> IF u \in c.on THEN "none" ELSE role[u]]
        /\ UNCHANGED life /\ c.op = "remove" /\ c.pc = "write"
    BY <1>11 DEF RemoveWrite, CallAt
  <2>2. ~ (Members \subseteq c.on) BY <1>1, <2>1 DEF Reading, RemoveHolds
  <2>3. PICK u \in People : role[u] # "none" /\ u \notin c.on BY <2>2 DEF Members
  <2> QED BY <1>4, <2>1, <2>3
<1> QED BY <1>5, <1>6, <1>7, <1>8, <1>9, <1>10, <1>11 DEF Writes

\* A live project loses its last member, or goes with others in it, only by a
\* request for its deletion or one that was overtaken.
THEOREM NobodyIsLeftBehind == ProjectsSpec => NobodyLeftBehind
<1>1. ProjectsTypeOK /\ ReadingsHold /\ [ProjectsNext]_projectsVars
      => [life = "live" /\ Members # {} /\ (Members' = {} \/ life' = "gone")
          => \E r \in Callers :
                /\ Moves(r)
                /\ \/ call[r].op = "delete"
                   \/ call[r].overtaken
                   \/ Members \subseteq call[r].on /\ life' = "gone"]_projectsVars
  <2> DEFINE Fits(r) ==
        \/ call[r].op = "delete"
        \/ call[r].overtaken
        \/ Members \subseteq call[r].on /\ life' = "gone"
  <2> SUFFICES ASSUME ProjectsTypeOK, ReadingsHold, [ProjectsNext]_projectsVars,
                      life = "live", Members # {}, Members' = {} \/ life' = "gone"
               PROVE  \E r \in Callers : Moves(r) /\ Fits(r)
    OBVIOUS
  <2>1. ~ UNCHANGED <<life, role>> BY DEF Members
  <2>2. PICK r \in Callers : Writes(r) BY <2>1, OnlyWrites
  <2>3. Moves(r) BY <2>2, WriteMoves
  <2>4. Fits(r) BY <2>2, LeftBehindStep
  <2> QED BY <2>3, <2>4
<1> QED BY <1>1, ProjectsTypeCorrect, WhatWasReadHolds, PTL
        DEF ProjectsSpec, NobodyLeftBehind

-----------------------------------------------------------------------------
(* The cache                                                               *)

\* Nobody asked for a project that was not created yet.
UnbornIsUncached ==
    life = "absent" =>
        /\ cached[<<"project">>] = "none"
        /\ \A r \in Callers : call[r].op = "get" => call[r].key # <<"project">>

\* What a request is to delete depends on that request alone.
LEMMA StillToDelete ==
  ASSUME NEW q \in Callers, call'[q] = call[q]
  PROVE  ToDelete(q)' = ToDelete(q)
  BY DEF ToDelete, Asked

\* A step of a request that is not about to delete anything, and leaves no
\* entry stale that was not.
LEMMA OthersInvalidate ==
  ASSUME ProjectsTypeOK, StaleIsInvalidated, NEW r \in Callers,
         \A q \in Callers \ {r} : call'[q] = call[q],
         ~ (call[r].op \notin {"none", "get"} /\ call[r].pc \in {"scan", "del"}),
         \A k \in Keys : cached'[k] = "stale" => cached[k] = "stale"
  PROVE  StaleIsInvalidated'
<1> SUFFICES ASSUME NEW k \in Keys, cached'[k] = "stale"
             PROVE  (\E q \in Callers : k \in ToDelete(q))'
  BY DEF StaleIsInvalidated
<1>1. PICK q \in Callers : k \in ToDelete(q) BY DEF StaleIsInvalidated
<1>2. q # r BY <1>1 DEF ToDelete
<1>3. (k \in ToDelete(q))' BY <1>1, <1>2, StillToDelete
<1> QED BY <1>3

LEMMA NewSlot ==
  ASSUME ProjectsTypeOK, NEW r \in Callers, NEW d, call' = [call EXCEPT ![r] = d]
  PROVE  call'[r] = d /\ \A q \in Callers \ {r} : call'[q] = call[q]
  BY DEF ProjectsTypeOK

\* A request that comes in finds its slot free.
LEMMA BeginSteps ==
  ASSUME NEW r \in Callers, ProjectsTypeOK, CallBegins(r)
  PROVE  /\ call[r].op = "none" /\ \A q \in Callers \ {r} : call'[q] = call[q]
         /\ UNCHANGED <<life, role, cached>>
         /\ call'[r].op = "get" /\ call'[r].key = <<"project">> => life = "live"
<1> DEFINE Comes(c) == call[r] = NoCall /\ Reads /\ call' = [call EXCEPT ![r] = c]
<1>1. CASE \E k \in Keys : GetMiss(r, k)
  <2>1. PICK k \in Keys : GetMiss(r, k) BY <1>1
  <2> DEFINE c == [op |-> "get", key |-> k, pc |-> "query", true |-> TRUE]
  <2>2. Comes(c) BY <2>1 DEF GetMiss
  <2>3. k = <<"project">> => life = "live" BY <2>1 DEF GetMiss, MayEnter
  <2>4. call'[r] = c /\ \A q \in Callers \ {r} : call'[q] = call[q] BY <2>2, NewSlot
  <2>5. c.key = k OBVIOUS
  <2>6. call[r].op = "none" BY <2>2 DEF NoCall
  <2> HIDE DEF c
  <2> QED BY <2>2, <2>3, <2>4, <2>5, <2>6 DEF Reads
<1>2. CASE ~ \E k \in Keys : GetMiss(r, k)
  <2>1. PICK op, u, us, to, pc :
           Enter(r, op, u, us, to, pc)
           /\ op \in {"create", "update", "delete", "add", "role", "leave", "remove"}
    <3>1. CASE UpdateEnter(r) BY <3>1 DEF UpdateEnter, AdminEnters
    <3>2. CASE DeleteEnter(r) BY <3>2 DEF DeleteEnter, AdminEnters
    <3>3. ASSUME NEW u \in People, CreateRead(r, u) \/ LeaveEnter(r, u)
          PROVE  \E op, w, us, to, pc :
                    Enter(r, op, w, us, to, pc) /\ op \in {"create", "leave"}
      BY <3>3 DEF CreateRead, LeaveEnter
    <3>4. ASSUME NEW v \in People, NEW to \in AssignedRoles, AddEnter(r, v, to)
          PROVE  Enter(r, "add", "somebody", {v}, to, "read")
      BY <3>4 DEF AddEnter, AdminEnters
    <3>5. ASSUME NEW u \in People, NEW v \in People, NEW to \in AssignedRoles,
                 RoleEnter(r, u, v, to)
          PROVE  Enter(r, "role", u, {v}, to, "read")
      BY <3>5 DEF RoleEnter
    <3>6. ASSUME NEW us \in SUBSET People, RemoveEnter(r, us)
          PROVE  Enter(r, "remove", "somebody", us, "none", "read")
      BY <3>6 DEF RemoveEnter, AdminEnters
    <3> QED BY <1>2, <3>1, <3>2, <3>3, <3>4, <3>5, <3>6 DEF CallBegins
  <2> DEFINE c == [op |-> op, by |-> u, on |-> us, to |-> to, seen |-> "none",
                   found |-> {}, overtaken |-> FALSE, pc |-> pc]
  <2>2. Comes(c) BY <2>1 DEF Enter
  <2>3. call'[r] = c /\ \A q \in Callers \ {r} : call'[q] = call[q] BY <2>2, NewSlot
  <2>4. call'[r].op # "get" BY <2>1, <2>3
  <2>5. call[r].op = "none" BY <2>2 DEF NoCall
  <2> HIDE DEF c
  <2> QED BY <2>2, <2>3, <2>4, <2>5 DEF Reads
<1> QED BY <1>1, <1>2

\* A statement that reads keeps the cache and is no invalidation.
LEMMA ReadSteps ==
  ASSUME ProjectsTypeOK, NEW r \in Callers,
         \/ UpdateRead(r) \/ UpdateName(r) \/ DeleteRead(r) \/ DeleteArtifacts(r)
         \/ AddRead(r) \/ RoleRead(r) \/ RoleCount(r)
         \/ LeaveRead(r) \/ LeaveMembers(r) \/ LeaveAdmins(r) \/ RemoveRead(r)
  PROVE  /\ \A q \in Callers \ {r} : call'[q] = call[q]
         /\ UNCHANGED <<life, role, cached>>
         /\ call[r].pc \notin {"scan", "del"}
         /\ call'[r].op # "get"
<1>1. UNCHANGED <<life, role, cached>> /\ call[r].pc \notin {"scan", "del"}
  BY DEF UpdateRead, UpdateName, DeleteRead, DeleteArtifacts, AddRead, RoleRead, RoleCount,
         LeaveRead, LeaveMembers, LeaveAdmins, RemoveRead, CallAt, Reads
<1>2. Changes(call[r]) /\ call[r] \in Call
  BY DEF UpdateRead, UpdateName, DeleteRead, DeleteArtifacts, AddRead, RoleRead, RoleCount,
         LeaveRead, LeaveMembers, LeaveAdmins, RemoveRead, CallAt, Changes, ProjectsTypeOK
<1>3. \/ CallDone(r)
      \/ \E pc : CallGoto(r, pc)
      \/ \E x, pc : call' = [call EXCEPT ![r].seen = x, ![r].pc = pc]
  BY DEF UpdateRead, UpdateName, DeleteRead, DeleteArtifacts, AddRead, RoleRead, RoleCount,
         LeaveRead, LeaveMembers, LeaveAdmins, RemoveRead
<1>4. \E d : call' = [call EXCEPT ![r] = d] /\ d.op # "get"
  <2>1. CASE CallDone(r)
    <3>1. NoCall.op # "get" BY DEF NoCall
    <3> QED BY <2>1, <3>1 DEF CallDone
  <2>2. ASSUME NEW pc, CallGoto(r, pc) PROVE \E d : call' = [call EXCEPT ![r] = d] /\ d.op # "get"
    <3>1. call' = [call EXCEPT ![r] = Moved(call[r], pc)]
      BY <2>2 DEF CallGoto, Moved, ProjectsTypeOK
    <3>2. Moved(call[r], pc).op = call[r].op BY <1>2, CallFields DEF Like
    <3> QED BY <1>2, <3>1, <3>2 DEF Changes
  <2>3. ASSUME NEW x, NEW pc, call' = [call EXCEPT ![r].seen = x, ![r].pc = pc]
        PROVE  \E d : call' = [call EXCEPT ![r] = d] /\ d.op # "get"
    <3>1. call' = [call EXCEPT ![r] = Seen(call[r], x, pc)]
      BY <2>3 DEF Seen, ProjectsTypeOK
    <3>2. Seen(call[r], x, pc).op = call[r].op BY <1>2, CallFields DEF Like
    <3> QED BY <1>2, <3>1, <3>2 DEF Changes
  <2> QED BY <1>3, <2>1, <2>2, <2>3
<1> QED BY <1>1, <1>4 DEF ProjectsTypeOK

LEMMA WriteInvalidates ==
  ASSUME ProjectsTypeOK, UnbornIsUncached, StaleIsInvalidated, NEW r \in Callers, Writes(r)
  PROVE  StaleIsInvalidated'
<1>1. Changes(call[r]) /\ call[r] \in Call BY WriteEnds DEF ProjectsTypeOK
<1>2. CASE Throws(r)
  <2>1. call[r].pc \notin {"scan", "del"}
    BY DEF Writes, CreateWrite, UpdateWrite, DeleteDrop, AddWrite, RoleWrite, LeaveWrite,
           RemoveWrite, CallAt
  <2> QED BY <1>2, <2>1, OthersInvalidate DEF Throws, CallDone, Reads, ProjectsTypeOK
<1>3. CASE Commit(r, "scan") /\ ~ Throws(r)
  <2> SUFFICES ASSUME NEW k \in Keys, cached'[k] = "stale"
               PROVE  (k \in ToDelete(r))'
    BY DEF StaleIsInvalidated
  <2>1. call'[r].op = call[r].op /\ call'[r].pc = "scan"
    BY <1>1, <1>3, CommitSlots, CallFields DEF Like
  <2>2. ASSUME call[r].op = "create", k = <<"project">> PROVE FALSE
    <3>1. life = "absent"
      BY <1>3, <2>2 DEF Writes, CreateWrite, UpdateWrite, DeleteDrop, AddWrite, RoleWrite,
                        LeaveWrite, RemoveWrite, CallAt
    <3>2. cached[k] = "none" BY <2>2, <3>1 DEF UnbornIsUncached
    <3> QED BY <1>1, <1>3, <3>2, CommitSlots
  <2> QED BY <1>1, <2>1, <2>2 DEF ToDelete, Asked, Changes
<1> QED BY <1>2, <1>3, WriteEnds

LEMMA CacheInvalidates ==
  ASSUME ProjectsTypeOK, StaleIsInvalidated, NEW r \in Callers,
         Scan(r) \/ Del(r) \/ GetQuery(r) \/ GetSet(r)
  PROVE  StaleIsInvalidated'
<1> DEFINE c == call[r]
<1>1. c \in Call BY DEF ProjectsTypeOK
<1>2. CASE Scan(r)
  <2> SUFFICES ASSUME NEW k \in Keys, cached'[k] = "stale"
               PROVE  (\E q \in Callers : k \in ToDelete(q))'
    BY DEF StaleIsInvalidated
  <2>1. PICK failed \in Failures :
          /\ call' = [call EXCEPT
                ![r].found = {x \in Asked(r) \ failed : cached[x] # "none"}, ![r].pc = "del"]
          /\ cached' = Left(Asked(r) \cap failed)
    BY <1>2 DEF Scan
  <2>2. cached[k] = "stale" /\ k \notin Asked(r) \cap failed BY <2>1 DEF Left
  <2>3. PICK q \in Callers : k \in ToDelete(q) BY <2>2 DEF StaleIsInvalidated
  <2> DEFINE ks == {x \in Asked(r) \ failed : cached[x] # "none"}
  <2>4. call' = [call EXCEPT ![r] = Found(c, ks)] BY <2>1 DEF Found, ProjectsTypeOK
  <2>5. CASE q # r
    <3>1. call'[q] = call[q] BY <2>4, <2>5 DEF ProjectsTypeOK
    <3> QED BY <2>3, <3>1, StillToDelete
  <2>6. CASE q = r
    <3>1. c.op \notin {"none", "get"} /\ c.pc = "scan" BY <1>2 DEF Scan
    <3>2. k \in ks BY <2>2, <2>3, <2>6, <3>1 DEF ToDelete
    <3>3. Changes(c) BY <1>1, <3>1, CallTypes DEF NoCall
    <3>4. Found(c, ks).op = c.op /\ Found(c, ks).pc = "del" /\ Found(c, ks).found = ks
      <4>1. \E op, pcs : c \in Change(op, pcs) BY <1>1, <3>3, CallTypes DEF Changes
      <4> HIDE DEF ks
      <4> QED BY <4>1 DEF Found, Change
    <3>5. call'[r] = Found(c, ks) BY <2>4 DEF ProjectsTypeOK
    <3>6. (k \in ToDelete(r))'
      <4> HIDE DEF ks
      <4> QED BY <3>1, <3>2, <3>4, <3>5 DEF ToDelete
    <3> QED BY <3>6
  <2> QED BY <2>5, <2>6
<1>3. CASE Del(r)
  <2> SUFFICES ASSUME NEW k \in Keys, cached'[k] = "stale"
               PROVE  (\E q \in Callers : k \in ToDelete(q))'
    BY DEF StaleIsInvalidated
  <2>1. PICK failed \in Failures :
          cached' = [x \in Keys |-> IF x \in c.found \ failed THEN "none"
                                    ELSE Left(c.found \cap failed)[x]]
    BY <1>3 DEF Del
  <2>2. k \notin c.found \ failed /\ Left(c.found \cap failed)[k] = "stale" BY <2>1
  <2>3. cached[k] = "stale" /\ k \notin c.found BY <2>2 DEF Left
  <2>4. PICK q \in Callers : k \in ToDelete(q) BY <2>3 DEF StaleIsInvalidated
  <2>5. q # r BY <1>3, <2>3, <2>4 DEF ToDelete, Del
  <2>6. call'[q] = call[q] BY <1>3, <2>5 DEF Del, CallDone, ProjectsTypeOK
  <2> QED BY <2>4, <2>6, StillToDelete
<1>4. CASE GetQuery(r)
  BY <1>4, OthersInvalidate DEF GetQuery, CallAt, CallDone, Reads, ProjectsTypeOK
<1>5. CASE GetSet(r)
  <2>1. c \in [op : {"get"}, key : Keys, pc : {"query", "set"}, true : BOOLEAN]
    BY <1>1, <1>5, CallTypes DEF GetSet, CallAt
  <2> QED BY <1>5, <2>1, OthersInvalidate DEF GetSet, CallAt, CallDone, ProjectsTypeOK
<1> QED BY <1>2, <1>3, <1>4, <1>5

\* A request that ends leaves what it was to delete, and no entry newly stale.
LEMMA DeathInvalidates ==
  ASSUME ProjectsTypeOK, StaleIsInvalidated, NEW r \in Callers, Dies(r)
  PROVE  StaleIsInvalidated'
<1> SUFFICES ASSUME NEW k \in Keys, cached'[k] = "stale"
             PROVE  (\E q \in Callers : k \in ToDelete(q))'
  BY DEF StaleIsInvalidated
<1>1. cached[k] = "stale" /\ k \notin ToDelete(r) BY DEF Dies, Left
<1>2. PICK q \in Callers : k \in ToDelete(q) BY <1>1 DEF StaleIsInvalidated
<1>3. call'[q] = call[q] BY <1>1, <1>2 DEF Dies, CallDone, ProjectsTypeOK
<1> QED BY <1>2, <1>3, StillToDelete

LEMMA StepUnborn ==
  ASSUME ProjectsTypeOK, UnbornIsUncached, [ProjectsNext]_projectsVars
  PROVE  UnbornIsUncached'
<1> SUFFICES ASSUME life' = "absent" PROVE UnbornIsUncached'
  BY DEF UnbornIsUncached
<1>1. CASE UNCHANGED projectsVars BY <1>1 DEF projectsVars, UnbornIsUncached
<1>2. ASSUME NEW k \in Keys, EntryExpires(k) PROVE UnbornIsUncached'
  BY <1>2 DEF EntryExpires, UnbornIsUncached, ProjectsTypeOK
<1>3. ASSUME NEW r \in Callers, CallBegins(r) PROVE UnbornIsUncached'
  BY <1>3, BeginSteps DEF UnbornIsUncached
<1>4. ASSUME NEW r \in Callers,
             \/ UpdateRead(r) \/ UpdateName(r) \/ DeleteRead(r) \/ DeleteArtifacts(r)
             \/ AddRead(r) \/ RoleRead(r) \/ RoleCount(r)
             \/ LeaveRead(r) \/ LeaveMembers(r) \/ LeaveAdmins(r) \/ RemoveRead(r)
      PROVE  UnbornIsUncached'
  BY <1>4, ReadSteps DEF UnbornIsUncached
<1>5. ASSUME NEW r \in Callers, Writes(r) PROVE UnbornIsUncached'
  <2>1. CASE Throws(r)
    BY <2>1 DEF Throws, CallDone, Reads, NoCall, UnbornIsUncached, ProjectsTypeOK
  <2>2. CASE Commit(r, "scan") /\ ~ Throws(r)
    <3>1. life = "absent"
      BY <1>5, <2>2 DEF Writes, CreateWrite, UpdateWrite, DeleteDrop, AddWrite, RoleWrite,
                        LeaveWrite, RemoveWrite
    <3>2. Changes(call[r]) /\ call[r] \in Call BY <1>5, WriteEnds DEF ProjectsTypeOK
    <3>3. cached'[<<"project">>] = "none"
      BY <2>2, <3>1, <3>2, CommitSlots DEF UnbornIsUncached, Keys
    <3>4. ASSUME NEW q \in Callers, call'[q].op = "get"
          PROVE  call'[q].key # <<"project">>
      <4>1. call[q] \in Call BY DEF ProjectsTypeOK
      <4>2. q # r
        BY <2>2, <3>2, <3>4, CommitSlots, CallFields DEF Like, Changes
      <4>3. CASE Changes(call[q])
        <5>1. call'[q] = Marked(call[q], call[q].overtaken \/ role' # role \/ life' # life)
          BY <2>2, <3>2, <4>2, <4>3, CommitSlots
        <5>2. call'[q].op = call[q].op BY <4>1, <4>3, <5>1, CallFields DEF Like
        <5> QED BY <3>4, <4>3, <5>2 DEF Changes
      <4>4. CASE call[q] = NoCall
        BY <2>2, <3>2, <3>4, <4>2, <4>4, CommitSlots DEF NoCall
      <4>5. CASE call[q].op = "get"
        <5>1. call[q] \in [op : {"get"}, key : Keys, pc : {"query", "set"}, true : BOOLEAN]
          BY <4>1, <4>5, CallTypes
        <5>2. call'[q] = Untrue(call[q]) BY <2>2, <3>2, <4>2, <4>5, CommitSlots
        <5>3. Untrue(call[q]).key = call[q].key BY <5>1 DEF Untrue
        <5> QED BY <3>1, <4>5, <5>2, <5>3 DEF UnbornIsUncached
      <4> QED BY <4>1, <4>3, <4>4, <4>5, CallTypes
    <3> QED BY <3>3, <3>4 DEF UnbornIsUncached
  <2> QED BY <1>5, <2>1, <2>2, WriteEnds
<1>6. ASSUME NEW r \in Callers, Scan(r) \/ Del(r) \/ GetQuery(r) \/ GetSet(r)
      PROVE  UnbornIsUncached'
  <2> DEFINE c == call[r]
  <2>1. c \in Call /\ life = "absent" /\ <<"project">> \in Keys
    BY <1>6 DEF Scan, Del, GetQuery, GetSet, Reads, ProjectsTypeOK, Keys
  <2>0. \A ks : Left(ks)[<<"project">>] = "none" BY <2>1 DEF Left, UnbornIsUncached
  <2>2. CASE Scan(r)
    <3>1. Changes(c) BY <2>1, <2>2, CallTypes DEF Scan, NoCall
    <3>2. PICK ks \in SUBSET Keys : call' = [call EXCEPT ![r] = Found(c, ks)]
      BY <2>2, ScanFinds
    <3>3. Found(c, ks).op = c.op BY <2>1, <3>1, CallFields DEF Like
    <3>4. cached'[<<"project">>] = "none" BY <2>0, <2>2 DEF Scan
    <3> QED BY <2>1, <3>1, <3>2, <3>3, <3>4 DEF UnbornIsUncached, Changes, ProjectsTypeOK
  <2>3. CASE Del(r)
    <3>1. cached'[<<"project">>] = "none" BY <2>0, <2>1, <2>3 DEF Del
    <3> QED BY <2>1, <2>3, <3>1 DEF Del, CallDone, NoCall, UnbornIsUncached, ProjectsTypeOK
  <2>4. CASE GetQuery(r)
    <3>1. c \in [op : {"get"}, key : Keys, pc : {"query", "set"}, true : BOOLEAN]
      BY <2>1, <2>4, CallTypes DEF GetQuery, CallAt
    <3>2. CASE CallDone(r)
      BY <2>1, <2>4, <3>2 DEF GetQuery, CallDone, Reads, NoCall, UnbornIsUncached, ProjectsTypeOK
    <3>3. CASE call' = [call EXCEPT ![r].pc = "set", ![r].true = TRUE]
      <4> DEFINE d == [c EXCEPT !.pc = "set", !.true = TRUE]
      <4>1. call' = [call EXCEPT ![r] = d] BY <3>3 DEF ProjectsTypeOK
      <4>2. d.op = c.op /\ d.key = c.key BY <3>1
      <4> HIDE DEF d
      <4> QED BY <2>1, <2>4, <4>1, <4>2 DEF GetQuery, Reads, UnbornIsUncached, ProjectsTypeOK
    <3> QED BY <2>4, <3>2, <3>3 DEF GetQuery
  <2>5. CASE GetSet(r)
    <3>1. c.key # <<"project">> /\ c.op = "get"
      BY <2>1, <2>5 DEF GetSet, CallAt, UnbornIsUncached
    <3> QED BY <2>1, <2>5, <3>1
            DEF GetSet, CallDone, NoCall, UnbornIsUncached, ProjectsTypeOK
  <2> QED BY <1>6, <2>2, <2>3, <2>4, <2>5
<1>7. ASSUME NEW r \in Callers, Dies(r) PROVE UnbornIsUncached'
  <2>1. life = "absent" /\ <<"project">> \in Keys BY <1>7 DEF Dies, Keys
  <2>2. cached'[<<"project">>] = "none" BY <1>7, <2>1 DEF Dies, Left, UnbornIsUncached
  <2> QED BY <1>7, <2>1, <2>2 DEF Dies, CallDone, NoCall, UnbornIsUncached, ProjectsTypeOK
<1> QED BY <1>1, <1>2, <1>3, <1>4, <1>5, <1>6, <1>7 DEF ProjectsNext, CallAdvances, Writes

LEMMA StepInvalidates ==
  ASSUME ProjectsTypeOK, UnbornIsUncached, StaleIsInvalidated,
         [ProjectsNext]_projectsVars
  PROVE  StaleIsInvalidated'
<1>1. CASE UNCHANGED projectsVars
  BY <1>1 DEF projectsVars, StaleIsInvalidated, ToDelete, Asked
<1>2. ASSUME NEW k \in Keys, EntryExpires(k) PROVE StaleIsInvalidated'
  BY <1>2 DEF EntryExpires, StaleIsInvalidated, ToDelete, Asked, ProjectsTypeOK
<1>3. ASSUME NEW r \in Callers, CallBegins(r) PROVE StaleIsInvalidated'
  BY <1>3, BeginSteps, OthersInvalidate
<1>4. ASSUME NEW r \in Callers,
             \/ UpdateRead(r) \/ UpdateName(r) \/ DeleteRead(r) \/ DeleteArtifacts(r)
             \/ AddRead(r) \/ RoleRead(r) \/ RoleCount(r)
             \/ LeaveRead(r) \/ LeaveMembers(r) \/ LeaveAdmins(r) \/ RemoveRead(r)
      PROVE  StaleIsInvalidated'
  BY <1>4, ReadSteps, OthersInvalidate
<1> QED BY <1>1, <1>2, <1>3, <1>4, WriteInvalidates, CacheInvalidates, DeathInvalidates
        DEF ProjectsNext, CallAdvances, Writes

\* An entry that a write made wrong is about to be deleted, whichever way the
\* write took, but for one that a late reader stored, whose deletion Redis
\* failed, or whose request ended before it ("left" in the model): whatever the
\* requests and wherever Redis and processes fail.
THEOREM StaleEntriesAreDeleted == ProjectsSpec => []StaleIsInvalidated
<1> DEFINE CacheInv == ProjectsTypeOK /\ UnbornIsUncached /\ StaleIsInvalidated
<1>1. ProjectsInit => CacheInv
  <2> SUFFICES ASSUME ProjectsInit PROVE CacheInv OBVIOUS
  <2>1. UnbornIsUncached BY DEF ProjectsInit, UnbornIsUncached, NoCall, Keys
  <2>2. StaleIsInvalidated BY DEF ProjectsInit, StaleIsInvalidated
  <2> QED BY <2>1, <2>2, InitType
<1>2. CacheInv /\ [ProjectsNext]_projectsVars => CacheInv'
  BY StepType, StepUnborn, StepInvalidates
<1> QED BY <1>1, <1>2, PTL DEF ProjectsSpec
=============================================================================

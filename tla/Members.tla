------------------------------ MODULE Members -------------------------------
(***************************************************************************)
(* Who belongs to a workplace or to a project: WorkplacesService,          *)
(* WorkplaceMembersService, ProjectMembersService and the creation in      *)
(* ProjectsService that adds the first member.  The two kinds of group     *)
(* differ in their roles and in how the owner is protected; a behaviour    *)
(* follows one group, of either kind.                                      *)
(*                                                                         *)
(* The indexes that would make a user's row unique are commented out in    *)
(* the entities: rows are a sequence in insertion order, and findOne,      *)
(* updateOne and deleteOne take the first match.                           *)
(***************************************************************************)
EXTENDS Naturals, Sequences

CONSTANTS
  Req,        \* request slots
  User,
  Creator,    \* the user who creates the group, its ownerId
  None,
  MaxCalls,   \* bound on the requests
  MaxRows,    \* bound on the rows of the group
  MaxFaults   \* bound on crashes

VARIABLES
  kind,       \* workplace or project, fixed
  group,      \* the group's document: its status, "none" before it exists
  rows,       \* its member documents
  req,        \* the requests in flight
  calls, faults,
  ownerless   \* history: why the workplace may be without an OWNER row

vars == <<kind, group, rows, req, calls, faults, ownerless>>

WorkplaceMemberRole == {"owner", "admin", "member"}
ProjectMemberRole   == {"manager", "developer"}
Role(k) == IF k = "workplace" THEN WorkplaceMemberRole ELSE ProjectMemberRole

\* outdated (history): a row of the user appeared, changed or went since the
\* request looked for one (another OWNER row, for who looked for an owner).
Member  == [user: User, role: WorkplaceMemberRole \cup ProjectMemberRole, outdated: BOOLEAN]
Pc      == {"idle", "create", "first", "owner", "insert", "ownerOf", "delete", "update",
            "archive", "edit"}
Request == [pc: Pc, user: User \cup {None},
            role: WorkplaceMemberRole \cup ProjectMemberRole \cup {None}, outdated: BOOLEAN]
Idle    == [pc |-> "idle", user |-> None, role |-> None, outdated |-> FALSE]

Init ==
  /\ kind \in {"workplace", "project"}
  /\ group = "none" /\ rows = <<>>
  /\ req = [r \in Req |-> Idle]
  /\ calls = 0 /\ faults = 0 /\ ownerless = FALSE

Has(u)      == \E i \in DOMAIN rows : rows[i].user = u
HasOwner    == \E i \in DOMAIN rows : rows[i].role = "owner"
First(u)    == CHOOSE i \in DOMAIN rows : rows[i].user = u /\ \A j \in 1..(i - 1) : rows[j].user # u
RowOf(u)    == rows[First(u)]
At(r, l)    == req[r].pc = l

\* A route whose first awaited checks passed; it makes call l next.
Call(r, l, u, role) ==
  /\ At(r, "idle") /\ calls < MaxCalls /\ calls' = calls + 1
  /\ req' = [req EXCEPT ![r] = [pc |-> l, user |-> u, role |-> role, outdated |-> FALSE]]
  /\ UNCHANGED <<kind, group, rows, faults, ownerless>>

Goto(r, l) ==
  /\ req' = [req EXCEPT ![r].pc = l]
  /\ UNCHANGED <<kind, group, rows, calls, faults, ownerless>>
Throw(r) ==
  /\ req' = [req EXCEPT ![r] = Idle]
  /\ UNCHANGED <<kind, group, rows, calls, faults, ownerless>>

\* Request r ends with the rows of user u written.
SetRows(r, u, new, touched) ==
  /\ rows' = new
  /\ req' = [q \in Req |-> IF q = r THEN Idle
       ELSE [req[q] EXCEPT !.outdated = @ \/ req[q].user = u \/ (touched = "owner" /\ req[q].role = "owner")]]
  /\ UNCHANGED <<kind, group, calls, faults>>

-----------------------------------------------------------------------------
(* createWorkplace and createProject: the document, then the first row.    *)

\* The slug (the key) is free.
CreateGroup(r) == group = "none" /\ Call(r, "create", Creator, None)

\* A second creation that passed the check fails on the unique slug; a second
\* project is another group.
InsertGroup(r) ==
  /\ At(r, "create")
  /\ IF group # "none" THEN Throw(r)
     ELSE /\ group' = "active" /\ req' = [req EXCEPT ![r].pc = "first"]
          /\ UNCHANGED <<kind, rows, calls, faults, ownerless>>

FirstMember(r) ==
  LET role == IF kind = "workplace" THEN "owner" ELSE "manager" IN
  /\ At(r, "first") /\ Len(rows) < MaxRows
  /\ SetRows(r, Creator, Append(rows, [user |-> Creator, role |-> role,
                  outdated |-> Has(Creator) \/ (role = "owner" /\ HasOwner)]), role)
  /\ UNCHANGED ownerless

-----------------------------------------------------------------------------
(* addMember (join is addMember of oneself).                               *)

\* Mutant: no look for an existing row.
AddMemberBlind(r, u, role) ==
  group # "none" /\ Call(r, IF role = "owner" THEN "owner" ELSE "insert", u, role)

\* The group and the user exist, the user has no row.
AddMember(r, u, role) ==
  group # "none" /\ ~Has(u) /\ Call(r, IF role = "owner" THEN "owner" ELSE "insert", u, role)

\* Cannot add another owner.
CheckOwner(r) ==
  /\ At(r, "owner")
  /\ IF HasOwner THEN Throw(r) ELSE Goto(r, "insert")

InsertMember(r) ==
  /\ At(r, "insert") /\ Len(rows) < MaxRows
  /\ SetRows(r, req[r].user, Append(rows, [user |-> req[r].user, role |-> req[r].role,
                                           outdated |-> req[r].outdated]), req[r].role)
  /\ UNCHANGED ownerless

-----------------------------------------------------------------------------
(* removeMember and updateMemberRole.                                      *)

\* Mutant: the owner can be removed.
MayRemoveAny(u) == TRUE

\* A workplace's OWNER row is refused here, by the row found.
MayRemove(u) == kind = "workplace" => RowOf(u).role # "owner"

RemoveMember(r, u) ==
  /\ Has(u) /\ MayRemove(u)
  /\ Call(r, IF kind = "workplace" THEN "delete" ELSE "ownerOf", u, None)

\* A project looks at its ownerId next, which never changes.
CheckProjectOwner(r) ==
  /\ At(r, "ownerOf")
  /\ IF req[r].user = Creator THEN Throw(r) ELSE Goto(r, "delete")

\* deleteOne: the first row of the user, whichever it is by now.
DeleteMember(r) ==
  LET u == req[r].user
      i == First(u) IN
  /\ At(r, "delete")
  /\ IF Has(u)
     THEN /\ SetRows(r, u, SubSeq(rows, 1, i - 1) \o SubSeq(rows, i + 1, Len(rows)), rows[i].role)
          /\ ownerless' = (ownerless \/ (rows[i].role = "owner" /\ req[r].outdated))
     ELSE Throw(r)

\* Neither the OWNER row nor a promotion to OWNER.
UpdateMemberRole(r, u, role) ==
  /\ Has(u) /\ RowOf(u).role # "owner" /\ role # "owner"
  /\ Call(r, "update", u, role)

SetRole(r) ==
  LET u == req[r].user IN
  /\ At(r, "update")
  /\ IF Has(u)
     THEN /\ SetRows(r, u, [rows EXCEPT ![First(u)].role = req[r].role], "admin")
          /\ ownerless' = (ownerless \/ (RowOf(u).role = "owner" /\ req[r].outdated))
     ELSE Throw(r)

-----------------------------------------------------------------------------
(* PUT and DELETE of a workplace: isAdminOrOwner, then the write.          *)

IsAdminOrOwner(u) == \E i \in DOMAIN rows : rows[i].user = u /\ rows[i].role \in {"owner", "admin"}
UpdateWorkplace(r, u) == kind = "workplace" /\ IsAdminOrOwner(u) /\ Call(r, "edit", u, None)
DeleteWorkplace(r, u) == kind = "workplace" /\ IsAdminOrOwner(u) /\ Call(r, "archive", u, None)

\* The body of PUT may set either status; DELETE archives.
WriteWorkplace(r) ==
  /\ \/ At(r, "edit") /\ group' \in {"active", "archived"}
     \/ At(r, "archive") /\ group' = "archived"
  /\ req' = [req EXCEPT ![r] = Idle]
  /\ UNCHANGED <<kind, rows, calls, faults, ownerless>>

\* The process dies: a creation may be left without its first row.
Crash ==
  /\ faults < MaxFaults /\ faults' = faults + 1
  /\ ownerless' = (ownerless \/ \E r \in Req : At(r, "first"))
  /\ req' = [r \in Req |-> Idle]
  /\ UNCHANGED <<kind, group, rows, calls>>

Routes(r) ==
  \/ CreateGroup(r)
  \/ \E u \in User : \/ \E role \in Role(kind) : AddMember(r, u, role) \/ UpdateMemberRole(r, u, role)
                     \/ RemoveMember(r, u) \/ UpdateWorkplace(r, u) \/ DeleteWorkplace(r, u)

Next ==
  \/ \E r \in Req : \/ Routes(r)
                    \/ InsertGroup(r) \/ FirstMember(r) \/ CheckOwner(r) \/ InsertMember(r)
                    \/ CheckProjectOwner(r) \/ DeleteMember(r) \/ SetRole(r) \/ WriteWorkplace(r)
  \/ Crash

Spec == Init /\ [][Next]_vars

-----------------------------------------------------------------------------
(* Properties.                                                             *)

\* Every user has one row, and a workplace one OWNER, although no index says
\* so: of two rows that clash one was inserted by a request whose look for
\* the other was outdated by then.
RowsAreSingle ==
  \A i, j \in DOMAIN rows : i # j =>
    \/ rows[i].user # rows[j].user /\ ~(rows[i].role = "owner" /\ rows[j].role = "owner")
    \/ rows[i].outdated \/ rows[j].outdated

\* A workplace keeps an OWNER row, who may edit and archive it, and a project
\* the row of its owner, unless the creation was cut short or a removal or
\* change of role hit a row that it had not read.
OwnerStays ==
  group # "none" /\ ~ownerless /\ (\A r \in Req : req[r].pc # "first") =>
    IF kind = "workplace" THEN HasOwner ELSE Has(Creator)

\* Both: every user has one row, a workplace one OWNER, and it stays.
MemberRules == RowsAreSingle /\ OwnerStays
=============================================================================

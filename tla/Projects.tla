------------------------------ MODULE Projects ------------------------------
(***************************************************************************)
(* The projects of one owner in one workplace: ProjectsService over        *)
(* MongoDB and its three cached lists of active projects, by workplace, by *)
(* owner and of all.  A behaviour follows one of the lists, watched, as    *)
(* TaskBoard does.  The member row that createProject adds is in Members.  *)
(* An awaited call may fail, and its handler with it; the process may die. *)
(***************************************************************************)
EXTENDS Naturals, FiniteSets

CONSTANTS
  Req,        \* request slots
  Project,    \* project ids, bounds the projects created
  Key,        \* the keys clients ask for
  None,
  MaxCalls,   \* bound on the requests
  MaxFaults   \* bound on failed calls and crashes

VARIABLES
  project,    \* MongoDB: the projects collection
  watched,    \* the list followed, fixed
  cache,      \* Redis: its keys
  req,        \* the requests in flight
  calls, faults,
  excused     \* history: an answer older than a write was stored, or who owed
              \* the deletion of the stale list failed or died

vars == <<project, watched, cache, req, calls, faults, excused>>

List   == {"workplace", "owner", "active"}
\* crossed (history): the key was found free before the other's insertion.
Row    == [status: {"none", "active", "archived"}, key: Key \cup {None}, crossed: BOOLEAN]
Absent == [status |-> "none", key |-> None, crossed |-> FALSE]
Request == [pc: {"idle", "create", "update", "archive", "activate", "member", "bust", "query", "store"},
            project: Project \cup {None}, key: Key \cup {None}, busts: SUBSET List,
            seen: {"fresh", "stale"}, crossed: BOOLEAN]
Idle == [pc |-> "idle", project |-> None, key |-> None, busts |-> {}, seen |-> "fresh", crossed |-> FALSE]

Init ==
  /\ project = [p \in Project |-> Absent]
  /\ watched \in List /\ cache = "absent"
  /\ req = [r \in Req |-> Idle]
  /\ calls = 0 /\ faults = 0 /\ excused = FALSE

Exists(p) == project[p].status # "none"

Call(r, l, p, k) ==
  /\ req[r].pc = "idle" /\ calls < MaxCalls /\ calls' = calls + 1
  /\ req' = [req EXCEPT ![r] = [Idle EXCEPT !.pc = l, !.project = p, !.key = k]]
  /\ UNCHANGED <<project, watched, cache, faults, excused>>

\* Project p becomes row; every list that shows it changes, copies included.
Write(r, p, row, next, busts) ==
  /\ project' = [project EXCEPT ![p] = row]
  /\ LET shown == row.status = "active" \/ project[p].status = "active" IN
     /\ cache' = IF shown /\ cache = "fresh" THEN "stale" ELSE cache
     /\ req' = [q \in Req |->
          IF q = r THEN [Idle EXCEPT !.pc = next, !.busts = busts]
          ELSE [req[q] EXCEPT !.seen = IF shown /\ req[q].pc = "store" THEN "stale" ELSE @,
                              !.crossed = @ \/ (~Exists(p) /\ req[q].key = row.key)]]
  /\ UNCHANGED <<watched, calls, faults, excused>>

\* Mutant: archived projects do not count.
CreateProjectActive(r, k) ==
  /\ \A p \in Project : project[p].status = "active" => project[p].key # k
  /\ Call(r, "create", None, k)

\* The key is not taken in the workplace.
CreateProject(r, k) ==
  /\ \A p \in Project : Exists(p) => project[p].key # k
  /\ Call(r, "create", None, k)
InsertProject(r, p) ==
  /\ req[r].pc = "create" /\ ~Exists(p)
  /\ Write(r, p, [status |-> "active", key |-> req[r].key, crossed |-> req[r].crossed],
           "member", {"workplace", "owner", "active"})
\* The creator becomes manager (see Members) before any list is deleted.
AddManager(r) ==
  /\ req[r].pc = "member" /\ req' = [req EXCEPT ![r].pc = "bust"]
  /\ UNCHANGED <<project, watched, cache, calls, faults, excused>>

\* Mutant: the list of all is forgotten.
UpdateBustsOne(p) == {"workplace"}

\* updateProject and activateProject do not delete the owner's list.
UpdateBusts(p) == {"workplace", "active"}

\* The body of PUT may set the status.
UpdateProject(r, p) == Exists(p) /\ Call(r, "update", p, None)
WriteUpdate(r) ==
  /\ req[r].pc = "update"
  /\ \E x \in {"active", "archived"} :
       Write(r, req[r].project, [project[req[r].project] EXCEPT !.status = x], "bust", UpdateBusts(req[r].project))

\* Mutant: the owner's list is forgotten.
ArchiveBustsTwo(p) == {"workplace", "active"}

ArchiveBusts(p) == {"workplace", "owner", "active"}

\* DELETE and archive.
ArchiveProject(r, p) == Exists(p) /\ Call(r, "archive", p, None)
WriteArchive(r) ==
  LET p == req[r].project IN
  /\ req[r].pc = "archive"
  /\ Write(r, p, [project[p] EXCEPT !.status = "archived"], "bust", ArchiveBusts(p))

ActivateProject(r, p) == Exists(p) /\ Call(r, "activate", p, None)
WriteActivate(r) ==
  LET p == req[r].project IN
  /\ req[r].pc = "activate"
  /\ Write(r, p, [project[p] EXCEPT !.status = "active"], "bust", UpdateBusts(p))

\* delPattern of each list, all at once: one is watched.
DelPatterns(r) ==
  /\ req[r].pc = "bust"
  /\ IF watched \in req[r].busts THEN cache' = "absent" /\ excused' = FALSE ELSE UNCHANGED <<cache, excused>>
  /\ req' = [req EXCEPT ![r] = Idle]
  /\ UNCHANGED <<project, watched, calls, faults>>

\* getOrSet: miss, factory, set.
Lookup(r) == cache = "absent" /\ Call(r, "query", None, None)
Query(r) ==
  /\ req[r].pc = "query" /\ req' = [req EXCEPT ![r].pc = "store"]
  /\ UNCHANGED <<project, watched, cache, calls, faults, excused>>
StoreList(r) ==
  /\ req[r].pc = "store"
  /\ cache' = req[r].seen /\ excused' = (req[r].seen = "stale")
  /\ req' = [req EXCEPT ![r] = Idle]
  /\ UNCHANGED <<project, watched, calls, faults>>
ExpireList == cache' = "absent" /\ excused' = FALSE /\ UNCHANGED <<project, watched, req, calls, faults>>

\* The call request r awaits fails, and its handler: the insertion of the
\* member or a delPattern as well, after which nobody deletes the lists.  A
\* delPattern of another list changes nothing for this one: DelPatterns.
CallFails(r) ==
  /\ faults < MaxFaults /\ faults' = faults + 1
  /\ req[r].pc # "idle" /\ req' = [req EXCEPT ![r] = Idle]
  /\ excused' = (excused \/ (cache = "stale" /\ watched \in req[r].busts))
  /\ UNCHANGED <<project, watched, cache, calls>>

\* The process dies; MongoDB and Redis keep what they have.
Crash ==
  /\ faults < MaxFaults /\ faults' = faults + 1
  /\ req' = [r \in Req |-> Idle]
  /\ excused' = (excused \/ (cache = "stale" /\ \E r \in Req : watched \in req[r].busts))
  /\ UNCHANGED <<project, watched, cache, calls>>

Next ==
  \/ \E r \in Req :
       \/ \E k \in Key : CreateProject(r, k)
       \/ \E p \in Project : InsertProject(r, p) \/ UpdateProject(r, p)
                             \/ ArchiveProject(r, p) \/ ActivateProject(r, p)
       \/ AddManager(r) \/ WriteUpdate(r) \/ WriteArchive(r) \/ WriteActivate(r)
       \/ DelPatterns(r) \/ Lookup(r) \/ Query(r) \/ StoreList(r) \/ CallFails(r)
  \/ ExpireList \/ Crash

Spec == Init /\ [][Next]_vars

-----------------------------------------------------------------------------
(* Properties.                                                             *)

\* A list is out of date only while a request is still to delete it ("busted
\* when a project is created / archived in this workplace"), or after one of
\* three accidents: an older answer was stored, a call failed between the write
\* and the end of the deletion, or the process died there.  The owner's list
\* may also be so after a PUT or an activation, which do not delete it: that is
\* OwnerListForgotten.
ListsRecover ==
  watched # "owner" /\ cache = "stale" => excused \/ \E r \in Req : watched \in req[r].busts

\* A write puts the owner's cached list out of date without deleting it next
\* only as a PUT or an activation.
OwnerListForgotten ==
  [][watched = "owner" /\ project' # project /\ cache = "fresh" /\ cache' = "stale" =>
       \E r \in Req : (req[r].pc \in {"create", "archive"} /\ watched \in req'[r].busts)
                      \/ req[r].pc \in {"update", "activate"}]_vars

\* No index backs the keys: two projects share one only if one of them was
\* inserted between the other's check and its insertion.
KeysDistinct ==
  \A p, q \in Project : Exists(p) /\ project[p].key = project[q].key =>
    p = q \/ project[p].crossed \/ project[q].crossed

ProjectRules == ListsRecover /\ KeysDistinct
=============================================================================

----------------------------- MODULE TaskBoard ------------------------------
(***************************************************************************)
(* The tasks of one project: TasksService over MongoDB, the cached lists   *)
(* of CacheService in Redis, and the points TasksController awards.        *)
(*                                                                         *)
(* A request does one awaited call per step.  A list is cached whole: all  *)
(* its pages share one pattern and are deleted together.  Of a cached list *)
(* only its truth is kept: "fresh" while MongoDB would answer the same,    *)
(* "stale" afterwards.  The lists share nothing, so a behaviour follows    *)
(* one of them, watched, whichever.  The project list shows every field of *)
(* its tasks, the other lists are followed for who is in them.             *)
(***************************************************************************)
EXTENDS Naturals, FiniteSets, Sequences

CONSTANTS
  Req,        \* request slots: how many requests are in flight at once
  MaxCalls,   \* bound on the requests that get past their first guard
  Task,       \* task ids, bounds how many tasks are created
  Sprint, User,
  None,       \* an absent field
  Null,       \* a field a PUT stored as null
  Keep,       \* a field a body leaves out
  Posts, Puts, \* the bodies of POST and of PUT tried
  Boards,     \* the collections a run may start with
  MaxFaults   \* bound on failed Redis calls and crashes

VARIABLES
  task,       \* MongoDB: the tasks collection
  watched,    \* the list that is followed
  cache,      \* Redis: its keys
  req,        \* the requests and their locals
  calls, faults,
  \* history
  awards,     \* how often points were awarded for a task
  completed,  \* how often a write took a task from not done to done
  raced,      \* tasks whose status was written by a request with an outdated read
  excused     \* an older answer was stored to the watched list, its deletion
              \* failed, or a reorder could not tell that it is this project's

points  == <<awards, completed, raced>>
vars    == <<task, watched, cache, req, calls, faults, points, excused>>

Status == {"todo", "done"}    \* todo: any status but done
ProjectList == {"project", "backlog"}
List   == ProjectList \cup Sprint \cup User
Op     == {"create", "update", "delete", "assign", "unassign", "status", "move", "reorder"}
Pc     == {"idle", "keys", "read", "write", "first", "bust", "award", "query", "store"}

\* crossed (history): another task was inserted between the choice of its
\* key and its own insertion.
Row    == [key: Nat \ {0}, status: Status, sprint: Sprint \cup {None, Null},
           assignee: User \cup {None}, crossed: BOOLEAN]
Absent == [key |-> 0, status |-> "todo", sprint |-> None, assignee |-> None, crossed |-> FALSE]

\* The fields of a body that matter.
Dto    == [sprint: Sprint \cup {None, Null, Keep}, assignee: User \cup {None, Keep},
           status: Status \cup {Keep}]

ASSUME TaskBoardAssumption ==
  /\ IsFiniteSet(Task) /\ IsFiniteSet(Req)
  /\ {"project", "backlog"} \cap (Sprint \cup User) = {} /\ Sprint \cap User = {}
  /\ {None, Null, Keep} \cap (Sprint \cup User \cup Status) = {}
  /\ None # Null /\ None # Keep /\ Null # Keep
  /\ \A b \in Boards : /\ b \in [Task -> Row \cup {Absent}]
                       /\ \A t, u \in Task : b[t].key = b[u].key => t = u \/ b[t].key = 0
  /\ Posts \cup Puts \subseteq Dto
  /\ MaxFaults \in Nat /\ MaxCalls \in Nat

Merge(row, d) ==
  [row EXCEPT !.sprint = IF d.sprint = Keep THEN @ ELSE d.sprint,
              !.assignee = IF d.assignee = Keep THEN @ ELSE d.assignee,
              !.status = IF d.status = Keep THEN @ ELSE d.status]
NoDto  == [sprint |-> Keep, assignee |-> Keep, status |-> Keep]

\* read: the row the request loaded; number: the next key it computed;
\* busts: the lists still to delete, a set for each awaited (group of) calls;
\* outdated (history): what it read was overwritten since.
Request == [pc: Pc, op: Op \cup {"get"}, task: Task \cup {None}, dto: Dto, number: Nat,
            read: Row \cup {Absent}, busts: Seq(SUBSET List),
            seen: {"fresh", "stale"}, outdated: BOOLEAN]
Idle == [pc |-> "idle", op |-> "get", task |-> None, dto |-> NoDto, number |-> 0,
         read |-> Absent, busts |-> <<>>, seen |-> "fresh", outdated |-> FALSE]

Init ==
  /\ task \in Boards
  /\ watched \in List /\ cache = "absent"
  /\ req = [r \in Req |-> Idle]
  /\ calls = 0 /\ faults = 0
  /\ awards = [t \in Task |-> 0] /\ completed = [t \in Task |-> 0] /\ raced = {}
  /\ excused = FALSE

Exists(t)   == task[t].key # 0
At(r, op, l) == req[r].pc = l /\ req[r].op = op
Return(r)   == req' = [req EXCEPT ![r] = Idle]

-----------------------------------------------------------------------------
(* What a write of the collection does to the copies of it: those in Redis *)
(* and those in the hands of a reader.                                     *)

Members(l, rows) ==
  CASE l = "backlog" -> {t \in Task : rows[t].key # 0 /\ rows[t].sprint = None}
    [] l \in Sprint  -> {t \in Task : rows[t].key # 0 /\ rows[t].sprint = l}
    [] l \in User    -> {t \in Task : rows[t].key # 0 /\ rows[t].assignee = l}

Changed(rows) ==
  {"project"} \cup {l \in List \ {"project"} : Members(l, rows) # Members(l, task)}

\* A request at work whose read the new rows contradict.
Outdates(q, rows) ==
  \/ req[q].outdated
  \/ /\ req[q].pc = "write"
     /\ \/ req[q].op = "create" /\ \E t \in Task : rows[t].key # 0 /\ ~Exists(t)
        \/ /\ req[q].op \in {"status", "move", "delete"}
           /\ rows[req[q].task] # task[req[q].task]

\* Request r has written rows and goes on to delete the lists of busts.
Write(r, rows, next, busts) ==
  LET changed == Changed(rows) IN
  /\ task' = rows
  /\ cache' = IF watched \in changed /\ cache = "fresh" THEN "stale" ELSE cache
  /\ req' = [q \in Req |->
       IF q = r THEN [IF req[r].op = "status" THEN req[r] ELSE [Idle EXCEPT !.op = req[r].op, !.task = req[r].task]
                       EXCEPT !.pc = next, !.busts = busts]
       ELSE [req[q] EXCEPT
              !.seen = IF req[q].pc = "store" /\ watched \in changed THEN "stale" ELSE @,
              !.outdated = Outdates(q, rows)]]
  /\ UNCHANGED <<calls, faults, awards, excused>>

\* One task becomes row.
WriteTask(r, row, busts) ==
  /\ Write(r, [task EXCEPT ![req[r].task] = row], "bust", busts)
  /\ LET t == req[r].task IN
     /\ completed' = [completed EXCEPT ![t] =
          IF task[t].status # "done" /\ row.status = "done" THEN @ + 1 ELSE @]
     /\ raced' = IF req[r].op = "status" /\ req[r].outdated THEN raced \cup {t} ELSE raced

\* findByIdAndUpdate returned null: NotFound.
Missing(r) ==
  /\ req[r].pc = "write" /\ req[r].op \notin {"create", "delete", "reorder"}
  /\ ~Exists(req[r].task)
  /\ Return(r) /\ UNCHANGED <<task, cache, calls, faults, points, excused>>

-----------------------------------------------------------------------------
(* The routes: what each first awaits.                                     *)

Begin(r, op, t, dto, l) ==
  /\ req[r].pc = "idle" /\ (t # None => Exists(t))    \* an id the client was shown
  /\ req' = [req EXCEPT ![r].pc = l, ![r].op = op, ![r].task = t, ![r].dto = dto]
  /\ calls < MaxCalls /\ calls' = calls + 1
  /\ UNCHANGED <<task, cache, faults, points, excused>>

CreateRequest(r, dto) == Begin(r, "create", None, dto, "keys")
\* The row the handler of PUT reads is only compared for the activity log.
UpdateRequest(r, t, dto) == Begin(r, "update", t, dto, "write")
DeleteRequest(r, t)      == Begin(r, "delete", t, NoDto, "read")
AssignRequest(r, t, u)   == Begin(r, "assign", t, [NoDto EXCEPT !.assignee = u], "write")
UnassignRequest(r, t)    == Begin(r, "unassign", t, [NoDto EXCEPT !.assignee = None], "write")
StatusRequest(r, t, x)   == Begin(r, "status", t, [NoDto EXCEPT !.status = x], "read")
MoveRequest(r, t, s)     == Begin(r, "move", t, [NoDto EXCEPT !.sprint = s], "read")
ReorderRequest(r, t)     == Begin(r, "reorder", t, NoDto, "write")

\* findById before a status change, a move or a deletion.
LoadTask(r) ==
  LET t == req[r].task IN
  /\ req[r].pc = "read"
  /\ req' = [req EXCEPT ![r] = IF req[r].op = "delete" /\ ~Exists(t) THEN Idle
                               ELSE [@ EXCEPT !.pc = "write", !.read = task[t]]]
  /\ UNCHANGED <<task, cache, calls, faults, points, excused>>

\* Mutant: the number of tasks decides.
GenerateTaskKeyByCount(r) ==
  /\ req[r].pc = "keys"
  /\ req' = [req EXCEPT ![r].pc = "write",
                       ![r].number = Cardinality({t \in Task : Exists(t)}) + 1]
  /\ UNCHANGED <<task, cache, calls, faults, points, excused>>

\* generateTaskKey: one more than the largest number in use.
GenerateTaskKey(r) ==
  /\ req[r].pc = "keys"
  /\ \E n \in {task[t].key : t \in Task} \cup {0} :
       /\ \A t \in Task : task[t].key <= n
       /\ req' = [req EXCEPT ![r].pc = "write", ![r].number = n + 1]
  /\ UNCHANGED <<task, cache, calls, faults, points, excused>>

-----------------------------------------------------------------------------
(* The writes, each with the lists it deletes next.                        *)

\* The sprint's list is deleted last; the assignee's is not.
CreateTask(r, t) ==
  LET d == req[r].dto
      row == [key |-> req[r].number, status |-> IF d.status = Keep THEN "todo" ELSE d.status,
              sprint |-> IF d.sprint = Keep THEN None ELSE d.sprint,
              assignee |-> IF d.assignee = Keep THEN None ELSE d.assignee,
              crossed |-> req[r].outdated] IN
  /\ At(r, "create", "write") /\ ~Exists(t)
  /\ awards[t] = 0 /\ completed[t] = 0
  /\ Write(r, [task EXCEPT ![t] = row], "bust",
           <<{"project"}, {"backlog"}>> \o
           (IF d.sprint \in Sprint THEN <<{d.sprint}>> ELSE <<>>))
  /\ UNCHANGED <<completed, raced>>

\* Mutant: the backlog is left out.
UpdateBustsNoBacklog(d) ==
  <<{"project"}>> \o (IF d.sprint \in Sprint THEN <<{d.sprint}>> ELSE <<>>)
                  \o (IF d.assignee \in User THEN <<{d.assignee}>> ELSE <<>>)

\* The new sprint and the new assignee, never the old ones.
UpdateBusts(d) ==
  <<{"project", "backlog"}>> \o (IF d.sprint \in Sprint THEN <<{d.sprint}>> ELSE <<>>)
                             \o (IF d.assignee \in User THEN <<{d.assignee}>> ELSE <<>>)

UpdateTask(r) ==
  /\ At(r, "update", "write") /\ Exists(req[r].task)
  /\ WriteTask(r, Merge(task[req[r].task], req[r].dto), UpdateBusts(req[r].dto))

\* Who deletes it second deletes nothing, and goes on.
DeleteTask(r) ==
  LET s == req[r].read.sprint IN
  /\ At(r, "delete", "write")
  /\ WriteTask(r, Absent, <<{"project", "backlog"}>> \o
                          (IF s \in Sprint THEN <<{s}>> ELSE <<>>))

AssignTask(r) ==
  /\ At(r, "assign", "write") /\ Exists(req[r].task)
  /\ WriteTask(r, Merge(task[req[r].task], req[r].dto), <<{"project", req[r].dto.assignee}>>)

UnassignTask(r) ==
  /\ At(r, "unassign", "write") /\ Exists(req[r].task)
  /\ WriteTask(r, Merge(task[req[r].task], req[r].dto), <<{"project"}>>)

UpdateStatus(r) ==
  /\ At(r, "status", "write") /\ Exists(req[r].task)
  /\ WriteTask(r, Merge(task[req[r].task], req[r].dto), <<{"project"}>>)

\* Mutant: only the new sprint's list is deleted.
MoveBustsNew(r) == <<{"project", "backlog"} \cup ({req[r].dto.sprint} \cap Sprint)>>

\* The new sprint and the one read before the write.
MoveBusts(r) ==
  <<{"project", "backlog"} \cup ({req[r].dto.sprint, req[r].read.sprint} \cap Sprint)>>

MoveToSprint(r) ==
  /\ At(r, "move", "write") /\ Exists(req[r].task)
  /\ WriteTask(r, Merge(task[req[r].task], req[r].dto), MoveBusts(r))

\* bulkWrite of the orders; the first task is looked up afterwards.
ReorderTasks(r) ==
  /\ At(r, "reorder", "write")
  /\ Write(r, task, "first", <<{"project"}>>)
  /\ UNCHANGED <<completed, raced>>

\* Its project is the one to delete; a first task that is gone ends the call.
FirstTask(r) ==
  /\ req[r].pc = "first"
  /\ IF Exists(req[r].task)
     THEN req' = [req EXCEPT ![r].pc = "bust"] /\ UNCHANGED excused
     ELSE Return(r) /\ excused' = (excused \/ watched = "project")
  /\ UNCHANGED <<task, cache, calls, faults, points>>

-----------------------------------------------------------------------------
(* After the write: lists are deleted, then points are awarded.            *)

\* The lists L are deleted.
Delete(L) ==
  IF watched \in L THEN cache' = "absent" /\ excused' = FALSE
                   ELSE UNCHANGED <<cache, excused>>

\* delPattern of the next list, or of all of a Promise.all: they end in any
\* order, but only one of them is watched.
DelPatterns(r) ==
  LET rest == Tail(req[r].busts) IN
  /\ req[r].pc = "bust"
  /\ Delete(Head(req[r].busts))
  /\ req' = [req EXCEPT ![r] = IF rest # <<>> THEN [@ EXCEPT !.busts = rest]
                                ELSE IF @.op = "status" THEN [@ EXCEPT !.busts = rest, !.pc = "award"]
                                ELSE Idle]
  /\ UNCHANGED <<task, calls, faults, points>>

\* Mutant: whatever the status was.
AwardsAlways(r) == req[r].dto.status = "done" /\ req[r].read.assignee # None

\* By the row read before the write.
Awards(r) ==
  /\ req[r].read.key # 0
  /\ req[r].dto.status = "done" /\ req[r].read.status # "done"
  /\ req[r].read.assignee # None

\* usersService.addPoints ($inc) and the notification.
AwardPoints(r) ==
  /\ req[r].pc = "award"
  /\ awards' = IF Awards(r) THEN [awards EXCEPT ![req[r].task] = @ + 1] ELSE awards
  /\ Return(r)
  /\ UNCHANGED <<task, cache, calls, faults, completed, raced, excused>>

-----------------------------------------------------------------------------
(* getOrSet and the time to live.                                          *)

\* get: a hit is the answer and ends the call.
Lookup(r) ==
  /\ req[r].pc = "idle" /\ cache = "absent"
  /\ req' = [req EXCEPT ![r].pc = "query"]
  /\ calls < MaxCalls /\ calls' = calls + 1
  /\ UNCHANGED <<task, cache, faults, points, excused>>

\* The factory reads MongoDB.
Query(r) ==
  /\ req[r].pc = "query"
  /\ req' = [req EXCEPT ![r].pc = "store", ![r].seen = "fresh"]
  /\ UNCHANGED <<task, cache, calls, faults, points, excused>>

\* set: whatever happened to the list in between.
StoreList(r) ==
  /\ req[r].pc = "store"
  /\ cache' = req[r].seen
  /\ excused' = (req[r].seen = "stale")
  /\ Return(r)
  /\ UNCHANGED <<task, calls, faults, points>>

ExpireList ==
  /\ cache' = "absent" /\ excused' = FALSE
  /\ UNCHANGED <<task, req, calls, faults, points>>

-----------------------------------------------------------------------------
(* Faults.                                                                 *)

Owed(r) == IF req[r].pc \in {"first", "bust"}
           THEN UNION {req[r].busts[i] : i \in DOMAIN req[r].busts} ELSE {}

\* The deletion of list l fails and the handler with it; the others of its
\* Promise.all are already on their way.
DelFails(r, l) ==
  /\ faults < MaxFaults /\ faults' = faults + 1
  /\ req[r].pc = "bust" /\ l \in Head(req[r].busts)
  /\ IF watched \in Head(req[r].busts) \ {l} THEN Delete({watched})
     ELSE excused' = (excused \/ watched \in Owed(r)) /\ UNCHANGED cache
  /\ Return(r)
  /\ UNCHANGED <<task, calls, points>>

\* The process dies; MongoDB and Redis keep what they have.
Crash ==
  /\ faults < MaxFaults /\ faults' = faults + 1
  /\ excused' = (excused \/ \E r \in Req : watched \in Owed(r))
  /\ req' = [r \in Req |-> Idle]
  /\ UNCHANGED <<task, cache, calls, points>>

-----------------------------------------------------------------------------
Routes(r) ==
  \/ \E d \in Posts : CreateRequest(r, d)
  \/ \E t \in Task :
       \/ \E d \in Puts : UpdateRequest(r, t, d)
       \/ DeleteRequest(r, t)
       \/ \E u \in User : AssignRequest(r, t, u)
       \/ UnassignRequest(r, t)
       \/ \E x \in Status : StatusRequest(r, t, x)
       \/ \E s \in Sprint \cup {None} : MoveRequest(r, t, s)
       \/ ReorderRequest(r, t)
  \/ Lookup(r)

Steps(r) ==
  \/ LoadTask(r) \/ GenerateTaskKey(r) \/ Missing(r)
  \/ \E t \in Task : CreateTask(r, t)
  \/ UpdateTask(r) \/ DeleteTask(r) \/ AssignTask(r) \/ UnassignTask(r)
  \/ UpdateStatus(r) \/ MoveToSprint(r) \/ ReorderTasks(r) \/ FirstTask(r)
  \/ DelPatterns(r) \/ AwardPoints(r) \/ Query(r) \/ StoreList(r)

Next ==
  \/ \E r \in Req : Routes(r) \/ Steps(r) \/ \E l \in List : DelFails(r, l)
  \/ ExpireList \/ Crash

Spec == Init /\ [][Next /\ UNCHANGED watched]_vars

-----------------------------------------------------------------------------
(* Properties.                                                             *)

\* What TasksService promises of its lists ("Any mutation calls delPattern
\* to bust these keys"): the project's list and its backlog are out of date
\* only while the request that changed them is still to delete them, or after
\* a reader stored an older answer, a deletion failed, or a reorder could not
\* tell its project because the first task had gone.
ProjectListsRecover ==
  watched \in ProjectList /\ cache = "stale" => excused \/ \E r \in Req : watched \in Owed(r)

\* A write that puts a cached sprint list out of date goes on to delete it,
\* except updateTask, which deletes the new sprint's list only, and a move or
\* deletion whose task was written between its read and its write.  The list
\* of an assignee is deleted by the requests that give the task to the user,
\* except createTask.
StaleListsAreDeleted ==
  [][watched \notin ProjectList /\ task' # task /\ cache = "fresh" /\ cache' = "stale" =>
       \E r \in Req :
         /\ req[r].pc = "write"
         /\ \/ watched \in Owed(r)'
            \/ watched \in Sprint /\ (req[r].op = "update" \/ req[r].outdated)
            \/ watched \in User /\ (req[r].op = "create" \/
                                     Members(watched, task)' \subseteq Members(watched, task))]_vars

\* No unique index backs the keys: two tasks share one only if one of them
\* was inserted between the other's choice of a key and its insertion.
KeysDistinct ==
  \A t, u \in Task : Exists(t) /\ task[t].key = task[u].key =>
    t = u \/ task[t].crossed \/ task[u].crossed

\* Points are not awarded more often than the task was completed (an award
\* for each completion: that is what the code does, not what its comment says,
\* see AwardedForFirstTime), unless the task was written between a status
\* request's read and its write.
AwardsMatchCompletions ==
  \A t \in Task : awards[t] <= completed[t] \/ t \in raced

\* "Award 5 points when a task is moved to done for the first time"
\* (updateStatus of the controller): nobody is paid twice for one task.  The
\* code does not keep this: nothing remembers a first time, and a task that is
\* reopened and done again is paid again.
AwardedForFirstTime == \A t \in Task : awards[t] <= 1
=============================================================================

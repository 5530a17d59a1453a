----------------------------- MODULE BoardProofs ------------------------------
(***************************************************************************)
(* Proofs about TaskBoard, for any number of requests, tasks, sprints and  *)
(* users, any bodies of POST and PUT, and any number of faults: that the   *)
(* project's lists recover, that keys are shared only after a crossing,    *)
(* that points match completions, and which stale lists are deleted.       *)
(***************************************************************************)
EXTENDS TaskBoard, FiniteSetTheorems, TLAPS

-----------------------------------------------------------------------------
(* The inductive invariant.                                                *)

Rows == [Task -> Row \cup {Absent}]

TypeOK ==
  /\ task \in Rows
  /\ watched \in List /\ cache \in {"absent", "fresh", "stale"}
  /\ req \in [Req -> Request]
  /\ awards \in [Task -> Nat] /\ completed \in [Task -> Nat]
  /\ excused \in BOOLEAN

\* The fields an operation leaves out of its body.
Asked(q) ==
  /\ q.op \in {"assign", "unassign", "status"} => q.dto.sprint = Keep
  /\ q.op \in {"status", "move"} => q.dto.assignee = Keep
  /\ q.op = "assign" => q.dto.assignee \in User
  /\ q.op = "unassign" => q.dto.assignee = None

\* What a request holds follows from how far it is.
Shape(q) ==
  /\ q.pc \in {"read", "write", "first", "bust", "award"} /\ q.op # "create" => q.task \in Task
  /\ q.pc = "keys" => q.op = "create"
  /\ q.pc = "read" => q.op \in {"status", "move", "delete"}
  /\ q.pc \in {"read", "write"} => Asked(q)
  /\ q.pc = "write" /\ q.op = "create" => q.number # 0
  /\ q.pc = "first" => q.op = "reorder" /\ q.busts = <<{"project"}>>
  /\ q.pc = "bust" => q.busts # <<>>
  /\ q.pc = "award" => q.op = "status"

\* A read that nobody overtook is still what MongoDB holds.
Current(q, rows) ==
  q.pc = "write" /\ ~q.outdated =>
    /\ q.op \in {"status", "move", "delete"} => q.read = rows[q.task]
    /\ q.op = "create" => \A t \in Task : rows[t].key < q.number

\* Request q has completed t and is still to award the points for it.
Earned(q) == /\ q.read.key # 0
             /\ q.dto.status = "done" /\ q.read.status # "done"
             /\ q.read.assignee # None
Pending(q, t) == q.pc \in {"bust", "award"} /\ q.op = "status" /\ q.task = t /\ Earned(q)
Payers(t) == {q \in Req : Pending(req[q], t)}

\* Completions cover the points awarded and those still to be awarded.
Covered ==
  \A t \in Task : awards[t] + Cardinality(Payers(t)) <= completed[t] \/ t \in raced

Shapes   == \A q \in Req : Shape(req[q])
Currents == \A q \in Req : Current(req[q], task)

BoardInv == /\ TypeOK /\ Shapes /\ Currents /\ Covered
            /\ ProjectListsRecover /\ KeysDistinct

-----------------------------------------------------------------------------
(* Operators.                                                              *)

OwedIn(b)  == UNION {b[i] : i \in DOMAIN b}
OwedBy(q)  == IF q.pc \in {"first", "bust"} THEN OwedIn(q.busts) ELSE {}
Apart(rows) == \A t, u \in Task : rows[t].key # 0 /\ rows[t].key = rows[u].key =>
                 t = u \/ rows[t].crossed \/ rows[u].crossed

LEMMA OwedIsBy == \A r : Owed(r) = OwedBy(req[r])
BY DEF Owed, OwedBy, OwedIn

LEMMA OneOwed == \A A : OwedIn(<<A>>) = A
BY DEF OwedIn

LEMMA NoneOwed == OwedIn(<<>>) = {}
BY DEF OwedIn

\* What two sequences of lists owe together.
LEMMA OwedConcat ==
  ASSUME NEW b \in Seq(SUBSET List), NEW c \in Seq(SUBSET List)
  PROVE  OwedIn(b \o c) = OwedIn(b) \cup OwedIn(c)
<1>1. ASSUME NEW x \in OwedIn(b) PROVE x \in OwedIn(b \o c)
  <2>1. PICK i \in DOMAIN b : x \in b[i] BY <1>1 DEF OwedIn
  <2>2. i \in DOMAIN (b \o c) /\ (b \o c)[i] = b[i] OBVIOUS
  <2> QED BY <2>1, <2>2 DEF OwedIn
<1>2. ASSUME NEW x \in OwedIn(c) PROVE x \in OwedIn(b \o c)
  <2>1. PICK i \in DOMAIN c : x \in c[i] BY <1>2 DEF OwedIn
  <2>2. i + Len(b) \in DOMAIN (b \o c) /\ (b \o c)[i + Len(b)] = c[i] OBVIOUS
  <2> QED BY <2>1, <2>2 DEF OwedIn
<1>3. ASSUME NEW x \in OwedIn(b \o c) PROVE x \in OwedIn(b) \cup OwedIn(c)
  <2>1. PICK i \in DOMAIN (b \o c) : x \in (b \o c)[i] BY <1>3 DEF OwedIn
  <2>2. CASE i \in DOMAIN b
    <3>1. (b \o c)[i] = b[i] BY <2>2
    <3> QED BY <2>1, <2>2, <3>1 DEF OwedIn
  <2>3. CASE i \notin DOMAIN b
    <3>1. i - Len(b) \in DOMAIN c /\ (b \o c)[i] = c[i - Len(b)] BY <2>3
    <3> QED BY <2>1, <3>1 DEF OwedIn
  <2> QED BY <2>2, <2>3
<1> QED BY <1>1, <1>2, <1>3

\* Deleting the first leaves what the rest owes.
LEMMA OwedTail ==
  ASSUME NEW b \in Seq(SUBSET List), b # <<>>
  PROVE  /\ OwedIn(b) = Head(b) \cup OwedIn(Tail(b))
         /\ Head(b) \in SUBSET List /\ Tail(b) \in Seq(SUBSET List)
<1>1. b = <<Head(b)>> \o Tail(b) OBVIOUS
<1>2. Head(b) \in SUBSET List /\ Tail(b) \in Seq(SUBSET List) OBVIOUS
<1>3. <<Head(b)>> \in Seq(SUBSET List) BY <1>2
<1>4. OwedIn(<<Head(b)>> \o Tail(b)) = OwedIn(<<Head(b)>>) \cup OwedIn(Tail(b))
  BY <1>2, <1>3, OwedConcat
<1> QED BY <1>1, <1>2, <1>4, OneOwed

LEMMA ListsAreLists == ProjectList \subseteq List /\ Sprint \subseteq List /\ User \subseteq List
BY DEF List, ProjectList

\* Any number of one-list deletions.
LEMMA Optional ==
  ASSUME NEW P, P \in BOOLEAN, NEW l, P => l \in List
  PROVE  LET b == IF P THEN <<{l}>> ELSE <<>> IN
         b \in Seq(SUBSET List) /\ (P => l \in OwedIn(b))
<1>1. CASE P
  <2>1. {l} \in SUBSET List BY <1>1
  <2>2. <<{l}>> \in Seq(SUBSET List) BY <2>1
  <2> QED BY <1>1, <2>2, OneOwed
<1>2. CASE ~P
  <2>1. <<>> \in Seq(SUBSET List) OBVIOUS
  <2> QED BY <1>2, <2>1
<1> QED BY <1>1, <1>2

\* The lists PUT deletes.
LEMMA UpdateOwes ==
  ASSUME NEW d
  PROVE  LET b == UpdateBusts(d) IN
         /\ b \in Seq(SUBSET List) /\ b # <<>>
         /\ ProjectList \subseteq OwedIn(b)
         /\ d.assignee \in User => d.assignee \in OwedIn(b)
<1> DEFINE p == <<{"project", "backlog"}>>
           s == IF d.sprint \in Sprint THEN <<{d.sprint}>> ELSE <<>>
           a == IF d.assignee \in User THEN <<{d.assignee}>> ELSE <<>>
<1>1. p \in Seq(SUBSET List) /\ p # <<>> /\ OwedIn(p) = ProjectList
  <2>1. {"project", "backlog"} \in SUBSET List BY DEF List, ProjectList
  <2>2. OwedIn(p) = {"project", "backlog"} BY OneOwed
  <2> QED BY <2>1, <2>2 DEF ProjectList
<1>2. s \in Seq(SUBSET List) BY Optional, ListsAreLists
<1>3. a \in Seq(SUBSET List) /\ (d.assignee \in User => d.assignee \in OwedIn(a))
  BY Optional, ListsAreLists
<1>4. UpdateBusts(d) = (p \o s) \o a BY DEF UpdateBusts
<1> HIDE DEF p, s, a
<1>5. p \o s \in Seq(SUBSET List) /\ p \o s # <<>> BY <1>1, <1>2
<1>6. (p \o s) \o a \in Seq(SUBSET List) /\ (p \o s) \o a # <<>> BY <1>5, <1>3
<1>7. OwedIn(p \o s) = OwedIn(p) \cup OwedIn(s) BY <1>1, <1>2, OwedConcat
<1>8. OwedIn((p \o s) \o a) = OwedIn(p \o s) \cup OwedIn(a) BY <1>3, <1>5, OwedConcat
<1> QED BY <1>1, <1>3, <1>4, <1>6, <1>7, <1>8

\* The lists POST and DELETE delete: those of the project, then a sprint's.
LEMMA SprintOwes ==
  ASSUME NEW p \in Seq(SUBSET List), p # <<>>, ProjectList \subseteq OwedIn(p), NEW s
  PROVE  LET b == p \o (IF s \in Sprint THEN <<{s}>> ELSE <<>>) IN
         /\ b \in Seq(SUBSET List) /\ b # <<>>
         /\ ProjectList \subseteq OwedIn(b)
         /\ s \in Sprint => s \in OwedIn(b)
<1> DEFINE e == IF s \in Sprint THEN <<{s}>> ELSE <<>>
<1>1. e \in Seq(SUBSET List) /\ (s \in Sprint => s \in OwedIn(e)) BY Optional, ListsAreLists
<1> HIDE DEF e
<1>2. p \o e \in Seq(SUBSET List) /\ p \o e # <<>> BY <1>1
<1>3. OwedIn(p \o e) = OwedIn(p) \cup OwedIn(e) BY <1>1, OwedConcat
<1> QED BY <1>1, <1>2, <1>3 DEF e

\* A list of sets deleted in one go.
LEMMA TogetherOwes ==
  ASSUME NEW A \in SUBSET List
  PROVE  <<A>> \in Seq(SUBSET List) /\ <<A>> # <<>> /\ OwedIn(<<A>>) = A
BY OneOwed

\* A task that exists has a full row.
LEMMA ExistingRow ==
  ASSUME NEW rows \in Rows, NEW t \in Task
  PROVE  /\ rows[t] \in Row \cup {Absent} /\ rows[t].key \in Nat
         /\ rows[t].key # 0 => rows[t] \in Row
BY DEF Rows, Row, Absent

\* What a merged body leaves and changes.
LEMMA MergedRow ==
  ASSUME NEW row \in Row, NEW d \in Dto
  PROVE  LET m == Merge(row, d) IN
         /\ m \in Row /\ m.key = row.key /\ m.crossed = row.crossed
         /\ m.sprint = (IF d.sprint = Keep THEN row.sprint ELSE d.sprint)
         /\ m.assignee = (IF d.assignee = Keep THEN row.assignee ELSE d.assignee)
         /\ m.status = (IF d.status = Keep THEN row.status ELSE d.status)
<1> DEFINE SS == Sprint \cup {None, Null}
           AA == User \cup {None}
<1>1. Row = [key: Nat \ {0}, status: Status, sprint: SS, assignee: AA, crossed: BOOLEAN] BY DEF Row
<1>2. Dto = [sprint: SS \cup {Keep}, assignee: AA \cup {Keep}, status: Status \cup {Keep}]
  BY DEF Dto
<1> HIDE DEF SS, AA
<1> QED BY <1>1, <1>2 DEF Merge

\* The members of a list follow from who exists and where.
LEMMA SameMembers ==
  ASSUME NEW l, NEW rows, NEW old,
         l = "backlog" \/ l \in Sprint,
         \A u \in Task : /\ rows[u].key # 0 <=> old[u].key # 0
                         /\ rows[u].key # 0 => rows[u].sprint = old[u].sprint
  PROVE  Members(l, rows) = Members(l, old)
BY TaskBoardAssumption DEF Members

LEMMA SameAssignees ==
  ASSUME NEW l \in User, NEW rows, NEW old,
         \A u \in Task : /\ rows[u].key # 0 <=> old[u].key # 0
                         /\ rows[u].key # 0 => rows[u].assignee = old[u].assignee
  PROVE  Members(l, rows) = Members(l, old)
BY TaskBoardAssumption DEF Members

-----------------------------------------------------------------------------
(* Steps that leave MongoDB alone.                                         *)

LEMMA IdleOK == Idle \in Request /\ Shape(Idle) /\ (\A rows : Current(Idle, rows))
                /\ OwedBy(Idle) = {} /\ (\A t : ~Pending(Idle, t))
<1>1. NoDto \in Dto BY DEF NoDto, Dto
<1>2. <<>> \in Seq(SUBSET List) OBVIOUS
<1>3. Idle \in Request BY <1>1, <1>2 DEF Idle, Request, Pc, Op
<1>4. Idle.pc = "idle" BY DEF Idle
<1> QED BY <1>3, <1>4 DEF Shape, Current, OwedBy, Pending

LEMMA FinitePayers ==
  ASSUME NEW t
  PROVE  IsFiniteSet(Payers(t)) /\ Cardinality(Payers(t)) \in Nat
<1>1. Payers(t) \subseteq Req BY DEF Payers
<1>2. IsFiniteSet(Payers(t)) BY <1>1, FS_Subset, TaskBoardAssumption
<1> QED BY <1>2, FS_CardinalityType

\* Request r becomes new; what it still owes to the watched list it keeps,
\* or the list is none of its business.
LEMMA LocalStep ==
  ASSUME BoardInv, NEW r \in Req, NEW new \in Request,
         req' = [req EXCEPT ![r] = new],
         UNCHANGED <<task, watched>>,
         cache' \in {"absent", "fresh", "stale"}, excused' \in BOOLEAN,
         awards' \in [Task -> Nat], completed' = completed,
         Shape(new), Current(new, task),
         watched \in ProjectList /\ cache' = "stale" =>
           \/ excused'
           \/ /\ cache = "stale"
              /\ excused => excused'
              /\ watched \in OwedBy(req[r]) => watched \in OwedBy(new)
  PROVE  TypeOK' /\ Shapes' /\ Currents' /\ ProjectListsRecover' /\ KeysDistinct'
<1>1. /\ req \in [Req -> Request] /\ req' \in [Req -> Request] /\ req'[r] = new
      /\ \A q \in Req \ {r} : req'[q] = req[q]
  BY DEF BoardInv, TypeOK
<1>2. TypeOK' BY <1>1 DEF BoardInv, TypeOK
<1>3. Shapes'
  BY <1>1 DEF BoardInv, Shapes
<1>4. Currents'
  <2>1. \A q \in Req : Current(req'[q], task) BY <1>1 DEF BoardInv, Currents
  <2> QED BY <2>1 DEF Currents
<1>5. KeysDistinct' BY DEF BoardInv, KeysDistinct, Exists
<1>6. ProjectListsRecover'
  <2> SUFFICES ASSUME watched \in ProjectList, cache' = "stale", ~excused'
               PROVE  \E q \in Req : watched \in OwedBy(req'[q])
    BY DEF ProjectListsRecover, Owed, OwedBy, OwedIn
  <2>1. PICK q \in Req : watched \in OwedBy(req[q])
    BY OwedIsBy DEF BoardInv, ProjectListsRecover
  <2>2. CASE q = r BY <2>1, <2>2, <1>1
  <2>3. CASE q # r BY <2>1, <2>3, <1>1
  <2> QED BY <2>2, <2>3
<1> QED BY <1>2, <1>3, <1>4, <1>5, <1>6

\* No step of this kind adds to what is still to be awarded.
LEMMA LocalCovered ==
  ASSUME BoardInv, NEW r \in Req, NEW new \in Request,
         req' = [req EXCEPT ![r] = new],
         UNCHANGED <<awards, completed, raced>>,
         \A t \in Task : Pending(new, t) => Pending(req[r], t)
  PROVE  Covered'
<1>1. /\ req' \in [Req -> Request] /\ req'[r] = new
      /\ \A q \in Req \ {r} : req'[q] = req[q]
  BY DEF BoardInv, TypeOK
<1> SUFFICES ASSUME NEW t \in Task
             PROVE  awards[t] + Cardinality(Payers(t)') <= completed[t] \/ t \in raced
  BY DEF Covered, Payers
<1>2. Payers(t)' \subseteq Payers(t) BY <1>1 DEF Payers
<1>3. /\ Cardinality(Payers(t)') <= Cardinality(Payers(t))
      /\ Cardinality(Payers(t)') \in Nat /\ Cardinality(Payers(t)) \in Nat
  <2>1. IsFiniteSet(Payers(t)') BY <1>2, FinitePayers, FS_Subset
  <2>2. Cardinality(Payers(t)') \in Nat BY <2>1, FS_CardinalityType
  <2> QED BY <1>2, <2>2, FinitePayers, FS_Subset
<1>4. awards[t] \in Nat /\ completed[t] \in Nat BY DEF BoardInv, TypeOK
<1> DEFINE m == Cardinality(Payers(t)')
           n == Cardinality(Payers(t))
<1>5. awards[t] + n <= completed[t] \/ t \in raced BY DEF BoardInv, Covered
<1> HIDE DEF m, n
<1>6. m <= n /\ m \in Nat /\ n \in Nat BY <1>3 DEF m, n
<1>7. awards[t] + m <= completed[t] \/ t \in raced BY <1>4, <1>5, <1>6
<1> QED BY <1>7 DEF m

LEMMA BeginKeeps ==
  ASSUME BoardInv, NEW r \in Req, NEW op \in Op, NEW t \in Task \cup {None},
         NEW dto \in Dto, NEW l \in {"keys", "read", "write"},
         Begin(r, op, t, dto, l), watched' = watched,
         op = "create" <=> l = "keys", l # "keys" => t \in Task,
         op \in {"status", "move", "delete"} <=> l = "read",
         Asked([op |-> op, dto |-> dto])
  PROVE  BoardInv'
<1> DEFINE new == [req[r] EXCEPT !.pc = l, !.op = op, !.task = t, !.dto = dto]
<1>1. req[r] \in Request /\ req[r].pc = "idle" BY DEF BoardInv, TypeOK, Begin
<1>2. /\ new \in Request
      /\ new.pc = l /\ new.op = op /\ new.task = t /\ new.dto = dto
  <2>1. l \in Pc /\ op \in Op \cup {"get"} BY DEF Pc
  <2> QED BY <1>1, <2>1 DEF Request
<1>3. req' = [req EXCEPT ![r] = new] BY DEF Begin, BoardInv, TypeOK
<1> HIDE DEF new
<1>4. Shape(new) BY <1>2 DEF Shape, Asked
<1>5. Current(new, task) BY <1>2 DEF Current
<1>6. UNCHANGED <<task, cache, awards, completed, raced, excused>> BY DEF Begin, points
<1>7. OwedBy(req[r]) = {} BY <1>1 DEF OwedBy
<1>8. \A u \in Task : ~Pending(new, u) BY <1>2 DEF Pending
<1>9. Covered' BY <1>2, <1>3, <1>6, <1>8, LocalCovered
<1>10. cache \in {"absent", "fresh", "stale"} /\ excused \in BOOLEAN /\ awards \in [Task -> Nat]
  BY DEF BoardInv, TypeOK
<1>11. TypeOK' /\ Shapes' /\ Currents' /\ ProjectListsRecover' /\ KeysDistinct'
  BY <1>2, <1>3, <1>4, <1>5, <1>6, <1>7, <1>10, LocalStep
<1> QED BY <1>9, <1>11 DEF BoardInv

LEMMA NoBody ==
  ASSUME NEW d \in {NoDto} \cup {[NoDto EXCEPT !.assignee = u] : u \in User \cup {None}}
                   \cup {[NoDto EXCEPT !.status = x] : x \in Status}
                   \cup {[NoDto EXCEPT !.sprint = s] : s \in Sprint \cup {None}}
  PROVE  d \in Dto
<1>1. CASE d = NoDto BY <1>1 DEF NoDto, Dto
<1>2. CASE \E u \in User \cup {None} : d = [NoDto EXCEPT !.assignee = u] BY <1>2 DEF NoDto, Dto
<1>3. CASE \E x \in Status : d = [NoDto EXCEPT !.status = x] BY <1>3 DEF NoDto, Dto
<1>4. CASE \E s \in Sprint \cup {None} : d = [NoDto EXCEPT !.sprint = s] BY <1>4 DEF NoDto, Dto
<1> QED BY <1>1, <1>2, <1>3, <1>4

\* A request that ends keeps what there is: it owed nothing to the watched list.
LEMMA ReturnKeeps ==
  ASSUME BoardInv, NEW r \in Req, Return(r), UNCHANGED <<task, watched, points>>,
         cache' \in {"absent", "fresh", "stale"}, excused' \in BOOLEAN,
         watched \in ProjectList /\ cache' = "stale" =>
           \/ excused'
           \/ /\ cache = "stale" /\ (excused => excused')
              /\ watched \notin OwedBy(req[r])
  PROVE  BoardInv'
<1>1. req' = [req EXCEPT ![r] = Idle] BY DEF Return
<1>2. awards \in [Task -> Nat] /\ UNCHANGED <<awards, completed, raced>>
  BY DEF BoardInv, TypeOK, points
<1>3. Covered' BY <1>1, <1>2, IdleOK, LocalCovered
<1>4. TypeOK' /\ Shapes' /\ Currents' /\ ProjectListsRecover' /\ KeysDistinct'
  BY <1>1, <1>2, IdleOK, LocalStep
<1> QED BY <1>3, <1>4 DEF BoardInv

\* A request goes on, and neither owes nor earns less or more than before.
LEMMA GoOnKeeps ==
  ASSUME BoardInv, NEW r \in Req, NEW new \in Request,
         req' = [req EXCEPT ![r] = new],
         UNCHANGED <<task, watched, cache, points, excused>>,
         Shape(new), Current(new, task),
         OwedBy(req[r]) \subseteq OwedBy(new),
         \A t \in Task : Pending(new, t) => Pending(req[r], t)
  PROVE  BoardInv'
<1>1. /\ awards \in [Task -> Nat] /\ excused \in BOOLEAN
      /\ cache \in {"absent", "fresh", "stale"}
      /\ UNCHANGED <<awards, completed, raced>>
  BY DEF BoardInv, TypeOK, points
<1>2. Covered' BY <1>1, LocalCovered
<1>3. TypeOK' /\ Shapes' /\ Currents' /\ ProjectListsRecover' /\ KeysDistinct'
  BY <1>1, LocalStep
<1> QED BY <1>2, <1>3 DEF BoardInv

LEMMA MissingKeeps ==
  ASSUME BoardInv, NEW r \in Req, Missing(r), watched' = watched
  PROVE  BoardInv'
<1>1. OwedBy(req[r]) = {} BY DEF Missing, OwedBy
<1>2. cache \in {"absent", "fresh", "stale"} /\ excused \in BOOLEAN BY DEF BoardInv, TypeOK
<1> QED BY <1>1, <1>2, ReturnKeeps DEF Missing

LEMMA LoadTaskKeeps ==
  ASSUME BoardInv, NEW r \in Req, LoadTask(r), watched' = watched
  PROVE  BoardInv'
<1> DEFINE t == req[r].task
           new == [req[r] EXCEPT !.pc = "write", !.read = task[t]]
<1>1. req[r] \in Request /\ req[r].pc = "read" /\ Shape(req[r]) /\ OwedBy(req[r]) = {}
  BY DEF BoardInv, TypeOK, Shapes, LoadTask, OwedBy
<1>2. CASE req[r].op = "delete" /\ ~Exists(t)
  <2>1. Return(r) BY <1>2 DEF LoadTask, Return
  <2>2. cache \in {"absent", "fresh", "stale"} /\ excused \in BOOLEAN BY DEF BoardInv, TypeOK
  <2>3. UNCHANGED <<task, cache, points, excused>> BY DEF LoadTask
  <2> QED BY <1>1, <2>1, <2>2, <2>3, ReturnKeeps
<1>3. CASE ~(req[r].op = "delete" /\ ~Exists(t))
  <2> req[r].op # "create" BY <1>1 DEF Shape
  <2>1. req' = [req EXCEPT ![r] = new] BY <1>3 DEF LoadTask
  <2>2. task[t] \in Row \cup {Absent} BY <1>1, <1>3 DEF BoardInv, TypeOK, Rows, Shape
  <2>3. /\ new \in Request /\ new.pc = "write" /\ new.read = task[t]
        /\ new.op = req[r].op /\ new.task = t /\ new.dto = req[r].dto
    BY <1>1, <2>2 DEF Request, Pc
  <2> HIDE DEF new
  <2>4. Shape(new) BY <1>1, <1>3, <2>3 DEF Shape, Asked
  <2>5. Current(new, task) BY <1>3, <2>3 DEF Current
  <2>6. \A u \in Task : ~Pending(new, u) BY <2>3 DEF Pending
  <2>7. UNCHANGED <<task, cache, points, excused>> BY DEF LoadTask
  <2> QED BY <1>1, <2>1, <2>3, <2>4, <2>5, <2>6, <2>7, GoOnKeeps
<1> QED BY <1>2, <1>3

LEMMA GenerateTaskKeyKeeps ==
  ASSUME BoardInv, NEW r \in Req, GenerateTaskKey(r), watched' = watched
  PROVE  BoardInv'
<1>1. PICK n \in {task[t].key : t \in Task} \cup {0} :
        /\ \A t \in Task : task[t].key <= n
        /\ req' = [req EXCEPT ![r].pc = "write", ![r].number = n + 1]
  BY DEF GenerateTaskKey
<1>2. n \in Nat /\ \A t \in Task : task[t].key \in Nat
  BY ExistingRow DEF BoardInv, TypeOK
<1> DEFINE k == n + 1
           new == [req[r] EXCEPT !.pc = "write", !.number = k]
<1>3. k \in Nat /\ k # 0 /\ \A t \in Task : task[t].key < k BY <1>1, <1>2
<1> HIDE DEF k
<1>4. req[r] \in Request /\ req[r].pc = "keys" /\ Shape(req[r]) /\ OwedBy(req[r]) = {}
  BY DEF BoardInv, TypeOK, Shapes, GenerateTaskKey, OwedBy
<1>5. req' = [req EXCEPT ![r] = new] BY <1>1 DEF BoardInv, TypeOK, k
<1>6. /\ new \in Request /\ new.pc = "write" /\ new.op = "create" /\ new.number = k
  BY <1>3, <1>4 DEF Request, Pc, Shape
<1> HIDE DEF new
<1>7. Shape(new) BY <1>3, <1>6 DEF Shape, Asked
<1>8. Current(new, task) BY <1>3, <1>6 DEF Current
<1>9. \A u \in Task : ~Pending(new, u) BY <1>6 DEF Pending
<1>10. UNCHANGED <<task, cache, points, excused>> BY DEF GenerateTaskKey
<1> QED BY <1>4, <1>5, <1>6, <1>7, <1>8, <1>9, <1>10, GoOnKeeps

LEMMA FirstTaskKeeps ==
  ASSUME BoardInv, NEW r \in Req, FirstTask(r), watched' = watched
  PROVE  BoardInv'
<1> DEFINE new == [req[r] EXCEPT !.pc = "bust"]
<1>1. req[r] \in Request /\ req[r].pc = "first" /\ Shape(req[r])
  BY DEF BoardInv, TypeOK, Shapes, FirstTask
<1>2. OwedBy(req[r]) = {"project"}
  <2>1. req[r].busts = <<{"project"}>> BY <1>1 DEF Shape
  <2> QED BY <1>1, <2>1, OneOwed DEF OwedBy
<1>3. /\ cache \in {"absent", "fresh", "stale"} /\ excused \in BOOLEAN
      /\ UNCHANGED <<task, cache, points>>
  BY DEF BoardInv, TypeOK, FirstTask
<1>4. CASE Exists(req[r].task)
  <2>1. req' = [req EXCEPT ![r] = new] /\ UNCHANGED excused
    BY <1>4 DEF FirstTask, BoardInv, TypeOK
  <2>2. /\ new \in Request /\ new.pc = "bust" /\ new.op = req[r].op /\ new.task = req[r].task
        /\ new.busts = req[r].busts
    BY <1>1 DEF Request, Pc
  <2> HIDE DEF new
  <2>3. Shape(new)
    <3>1. <<{"project"}>> # <<>> OBVIOUS
    <3> QED BY <1>1, <2>2, <3>1 DEF Shape
  <2>4. Current(new, task) BY <2>2 DEF Current
  <2>5. OwedBy(new) = OwedBy(req[r]) BY <1>1, <2>2 DEF OwedBy
  <2>6. \A u \in Task : ~Pending(new, u)
    BY <1>1, <2>2 DEF Pending, Shape
  <2> QED BY <1>3, <2>1, <2>2, <2>3, <2>4, <2>5, <2>6, GoOnKeeps
<1>5. CASE ~Exists(req[r].task)
  <2> DEFINE e == excused \/ watched = "project"
  <2>1. Return(r) /\ excused' = e BY <1>5 DEF FirstTask
  <2>2. e \in BOOLEAN OBVIOUS
  <2>3. (excused => e) /\ (watched \in OwedBy(req[r]) => e) BY <1>2
  <2> HIDE DEF e
  <2> QED BY <1>3, <2>1, <2>2, <2>3, ReturnKeeps
<1> QED BY <1>4, <1>5

\* A list that is deleted is gone, and with it the excuse.
LEMMA DeleteOutcome ==
  ASSUME BoardInv, NEW L, Delete(L)
  PROVE  /\ cache' \in {"absent", "fresh", "stale"} /\ excused' \in BOOLEAN
         /\ watched \in L => cache' = "absent"
         /\ watched \notin L => UNCHANGED <<cache, excused>>
BY DEF BoardInv, TypeOK, Delete

LEMMA DelPatternsKeeps ==
  ASSUME BoardInv, NEW r \in Req, DelPatterns(r), watched' = watched
  PROVE  BoardInv'
<1> DEFINE rest == Tail(req[r].busts)
           last == [req[r] EXCEPT !.busts = rest, !.pc = "award"]
           more == [req[r] EXCEPT !.busts = rest]
           new == IF rest # <<>> THEN more
                  ELSE IF req[r].op = "status" THEN last ELSE Idle
<1>1. /\ req[r] \in Request /\ req[r].pc = "bust" /\ Shape(req[r])
      /\ req[r].busts \in Seq(SUBSET List) /\ req[r].busts # <<>>
  BY DEF BoardInv, TypeOK, Shapes, DelPatterns, Request, Shape
<1>2. /\ OwedBy(req[r]) = Head(req[r].busts) \cup OwedIn(rest)
      /\ rest \in Seq(SUBSET List)
  BY <1>1, OwedTail DEF OwedBy
<1>3. req' = [req EXCEPT ![r] = new] BY DEF DelPatterns, BoardInv, TypeOK
<1> HIDE DEF rest
<1>4. /\ last \in Request /\ last.pc = "award" /\ last.op = req[r].op /\ last.task = req[r].task
      /\ last.read = req[r].read /\ last.dto = req[r].dto
  BY <1>1, <1>2 DEF Request, Pc
<1>5. /\ more \in Request /\ more.pc = "bust" /\ more.op = req[r].op /\ more.task = req[r].task
      /\ more.read = req[r].read /\ more.dto = req[r].dto /\ more.busts = rest
  BY <1>1, <1>2 DEF Request
<1> HIDE DEF last, more
<1>6. new \in Request /\ Shape(new) /\ Current(new, task)
  <2>1. Shape(last) \/ req[r].op # "status" BY <1>1, <1>4 DEF Shape
  <2>2. Shape(more) \/ rest = <<>> BY <1>1, <1>5 DEF Shape
  <2>3. Current(last, task) /\ Current(more, task) BY <1>4, <1>5 DEF Current
  <2> QED BY <1>4, <1>5, <2>1, <2>2, <2>3, IdleOK
<1>7. OwedIn(rest) \subseteq OwedBy(new)
  <2>1. CASE rest # <<>> BY <1>5, <2>1 DEF OwedBy
  <2>2. CASE rest = <<>> BY <2>2, NoneOwed
  <2> QED BY <2>1, <2>2
<1>8. \A t \in Task : Pending(new, t) => Pending(req[r], t)
  <2>1. \A t \in Task : Pending(last, t) => Pending(req[r], t)
    BY <1>1, <1>4 DEF Pending, Earned
  <2>2. \A t \in Task : Pending(more, t) => Pending(req[r], t)
    BY <1>1, <1>5 DEF Pending, Earned
  <2> QED BY <2>1, <2>2, IdleOK
<1> HIDE DEF new
<1>9. Delete(Head(req[r].busts)) /\ UNCHANGED <<task, awards, completed, raced>>
  BY DEF DelPatterns, points
<1>10. /\ cache' \in {"absent", "fresh", "stale"} /\ excused' \in BOOLEAN
       /\ watched \in Head(req[r].busts) => cache' = "absent"
       /\ watched \notin Head(req[r].busts) => UNCHANGED <<cache, excused>>
  BY <1>9, DeleteOutcome
<1>11. awards \in [Task -> Nat] BY DEF BoardInv, TypeOK
<1>12. Covered' BY <1>3, <1>6, <1>8, <1>9, LocalCovered
<1>13. watched \in ProjectList /\ cache' = "stale" =>
         \/ excused'
         \/ /\ cache = "stale"
            /\ excused => excused'
            /\ watched \in OwedBy(req[r]) => watched \in OwedBy(new)
  BY <1>2, <1>7, <1>10
<1>14. TypeOK' /\ Shapes' /\ Currents' /\ ProjectListsRecover' /\ KeysDistinct'
  BY <1>3, <1>6, <1>9, <1>10, <1>11, <1>13, LocalStep
<1> QED BY <1>12, <1>14 DEF BoardInv

LEMMA AwardPointsKeeps ==
  ASSUME BoardInv, NEW r \in Req, AwardPoints(r), watched' = watched
  PROVE  BoardInv'
<1>1. /\ req[r] \in Request /\ req[r].pc = "award" /\ Shape(req[r]) /\ OwedBy(req[r]) = {}
      /\ req' = [req EXCEPT ![r] = Idle]
      /\ UNCHANGED <<task, cache, completed, raced, excused>>
  BY DEF BoardInv, TypeOK, Shapes, AwardPoints, OwedBy, Return
<1>2. req[r].op = "status" /\ req[r].task \in Task BY <1>1 DEF Shape
<1> DEFINE t == req[r].task
<1>3. awards \in [Task -> Nat] /\ completed \in [Task -> Nat] BY DEF BoardInv, TypeOK
<1>4. Awards(r) <=> Earned(req[r]) BY DEF Awards, Earned
<1>5. CASE ~Awards(r)
  <2>1. UNCHANGED points BY <1>1, <1>5 DEF AwardPoints, points
  <2>2. cache \in {"absent", "fresh", "stale"} /\ excused \in BOOLEAN BY DEF BoardInv, TypeOK
  <2>3. Return(r) BY DEF AwardPoints
  <2> QED BY <1>1, <2>1, <2>2, <2>3, ReturnKeeps
<1>6. CASE Awards(r)
  <2>1. awards' = [awards EXCEPT ![t] = awards[t] + 1] BY <1>6 DEF AwardPoints
  <2>2. awards' \in [Task -> Nat]
    <3>1. awards[t] + 1 \in Nat BY <1>2, <1>3
    <3> QED BY <1>3, <2>1, <3>1
  <2>3. Pending(req[r], t) BY <1>1, <1>2, <1>4, <1>6 DEF Pending
  <2>4. Covered'
    <3> SUFFICES ASSUME NEW u \in Task
                 PROVE  awards'[u] + Cardinality(Payers(u)') <= completed[u] \/ u \in raced
      BY <1>1 DEF Covered, Payers
    <3>1. req' \in [Req -> Request] /\ req'[r] = Idle /\ \A q \in Req \ {r} : req'[q] = req[q]
      BY <1>1, IdleOK DEF BoardInv, TypeOK
    <3>2. CASE u = t
      <4>1. Payers(u)' = Payers(u) \ {r} BY <3>1, IdleOK DEF Payers
      <4>2. r \in Payers(u) BY <2>3, <3>2 DEF Payers
      <4> DEFINE m == Cardinality(Payers(u)')
                 n == Cardinality(Payers(u))
      <4>3. m = n - 1 BY <4>1, <4>2, FinitePayers, FS_RemoveElement
      <4>4. n \in Nat BY FinitePayers
      <4>5. awards[u] + n <= completed[u] \/ u \in raced BY DEF BoardInv, Covered
      <4> HIDE DEF m, n
      <4>6. awards'[u] = awards[u] + 1 BY <1>3, <2>1, <3>2
      <4>7. awards[u] \in Nat /\ completed[u] \in Nat BY <1>3
      <4>8. awards'[u] + m <= completed[u] \/ u \in raced BY <4>3, <4>4, <4>5, <4>6, <4>7
      <4> QED BY <4>8 DEF m
    <3>3. CASE u # t
      <4>1. Payers(u)' = Payers(u)
        <5>1. ~Pending(req[r], u) BY <3>3 DEF Pending
        <5> QED BY <3>1, <5>1, IdleOK DEF Payers
      <4>2. awards'[u] = awards[u] BY <1>3, <2>1, <3>3
      <4> QED BY <4>1, <4>2 DEF BoardInv, Covered
    <3> QED BY <3>2, <3>3
  <2>5. TypeOK' /\ Shapes' /\ Currents' /\ ProjectListsRecover' /\ KeysDistinct'
    <3>1. cache \in {"absent", "fresh", "stale"} /\ excused \in BOOLEAN BY DEF BoardInv, TypeOK
    <3> QED BY <1>1, <2>2, <3>1, IdleOK, LocalStep
  <2> QED BY <2>4, <2>5 DEF BoardInv
<1> QED BY <1>5, <1>6

LEMMA LookupKeeps ==
  ASSUME BoardInv, NEW r \in Req, Lookup(r), watched' = watched
  PROVE  BoardInv'
<1> DEFINE new == [req[r] EXCEPT !.pc = "query"]
<1>1. req[r] \in Request /\ OwedBy(req[r]) = {} /\ req' = [req EXCEPT ![r] = new]
  BY DEF BoardInv, TypeOK, Lookup, OwedBy
<1>2. new \in Request /\ new.pc = "query" BY <1>1 DEF Request, Pc
<1> HIDE DEF new
<1>3. Shape(new) /\ Current(new, task) /\ \A t \in Task : ~Pending(new, t)
  BY <1>2 DEF Shape, Current, Pending
<1>4. UNCHANGED <<task, cache, points, excused>> BY DEF Lookup
<1> QED BY <1>1, <1>2, <1>3, <1>4, GoOnKeeps

LEMMA QueryKeeps ==
  ASSUME BoardInv, NEW r \in Req, Query(r), watched' = watched
  PROVE  BoardInv'
<1> DEFINE new == [req[r] EXCEPT !.pc = "store", !.seen = "fresh"]
<1>1. req[r] \in Request /\ OwedBy(req[r]) = {} /\ req' = [req EXCEPT ![r] = new]
  BY DEF BoardInv, TypeOK, Query, OwedBy
<1>2. new \in Request /\ new.pc = "store" BY <1>1 DEF Request, Pc
<1> HIDE DEF new
<1>3. Shape(new) /\ Current(new, task) /\ \A t \in Task : ~Pending(new, t)
  BY <1>2 DEF Shape, Current, Pending
<1>4. UNCHANGED <<task, cache, points, excused>> BY DEF Query
<1> QED BY <1>1, <1>2, <1>3, <1>4, GoOnKeeps

LEMMA StoreListKeeps ==
  ASSUME BoardInv, NEW r \in Req, StoreList(r), watched' = watched
  PROVE  BoardInv'
<1>1. req[r].seen \in {"fresh", "stale"} /\ cache' = req[r].seen
  BY DEF BoardInv, TypeOK, StoreList, Request
<1>2. excused' \in BOOLEAN /\ (cache' = "stale" => excused')
  <2>1. excused' = (cache' = "stale") BY <1>1 DEF StoreList
  <2> QED BY <2>1
<1>3. Return(r) /\ UNCHANGED <<task, points>> BY DEF StoreList
<1> QED BY <1>1, <1>2, <1>3, ReturnKeeps

LEMMA DelFailsKeeps ==
  ASSUME BoardInv, NEW r \in Req, NEW l \in List, DelFails(r, l), watched' = watched
  PROVE  BoardInv'
<1>1. Return(r) /\ UNCHANGED <<task, points>> BY DEF DelFails
<1>2. CASE watched \in Head(req[r].busts) \ {l}
  <2>1. Delete({watched}) BY <1>2 DEF DelFails
  <2>2. cache' = "absent" /\ excused' \in BOOLEAN BY <2>1, DeleteOutcome
  <2> QED BY <1>1, <2>2, ReturnKeeps
<1>3. CASE watched \notin Head(req[r].busts) \ {l}
  <2> DEFINE e == excused \/ watched \in Owed(r)
  <2>1. excused' = e /\ UNCHANGED cache BY <1>3 DEF DelFails
  <2>2. e \in BOOLEAN /\ (excused => e) /\ (watched \in OwedBy(req[r]) => e)
    BY OwedIsBy
  <2>3. cache \in {"absent", "fresh", "stale"} BY DEF BoardInv, TypeOK
  <2> HIDE DEF e
  <2> QED BY <1>1, <2>1, <2>2, <2>3, ReturnKeeps
<1> QED BY <1>2, <1>3

LEMMA ExpireListKeeps ==
  ASSUME BoardInv, ExpireList, watched' = watched
  PROVE  BoardInv'
<1>1. UNCHANGED <<task, req, awards, completed, raced>> /\ cache' = "absent" /\ excused' = FALSE
  BY DEF ExpireList, points
<1>2. TypeOK' BY <1>1 DEF BoardInv, TypeOK
<1>3. Shapes' /\ Currents' BY <1>1 DEF BoardInv, Shapes, Currents
<1>4. Covered' BY <1>1 DEF BoardInv, Covered, Payers
<1>5. ProjectListsRecover' BY <1>1 DEF ProjectListsRecover
<1>6. KeysDistinct' BY <1>1 DEF BoardInv, KeysDistinct, Exists
<1> QED BY <1>2, <1>3, <1>4, <1>5, <1>6 DEF BoardInv

LEMMA CrashKeeps ==
  ASSUME BoardInv, Crash, watched' = watched
  PROVE  BoardInv'
<1> DEFINE e == excused \/ \E r \in Req : watched \in Owed(r)
<1>1. /\ UNCHANGED <<task, cache, awards, completed, raced>> /\ excused' = e
      /\ req' = [r \in Req |-> Idle]
  BY DEF Crash, points
<1>2. e \in BOOLEAN /\ (excused => e) /\ \A r \in Req : watched \in Owed(r) => e OBVIOUS
<1> HIDE DEF e
<1>3. TypeOK' BY <1>1, <1>2, IdleOK DEF BoardInv, TypeOK
<1>4. Shapes' /\ Currents' BY <1>1, IdleOK DEF Shapes, Currents
<1>5. Covered'
  <2> SUFFICES ASSUME NEW t \in Task
               PROVE  awards[t] + Cardinality(Payers(t)') <= completed[t] \/ t \in raced
    BY <1>1 DEF Covered, Payers
  <2>1. Payers(t)' = {} BY <1>1, IdleOK DEF Payers
  <2>2. Cardinality(Payers(t)') = 0 BY <2>1, FS_EmptySet
  <2>3. awards[t] \in Nat /\ completed[t] \in Nat BY DEF BoardInv, TypeOK
  <2> DEFINE n == Cardinality(Payers(t))
  <2>4. n \in Nat BY FinitePayers
  <2>5. awards[t] + n <= completed[t] \/ t \in raced BY DEF BoardInv, Covered
  <2> HIDE DEF n
  <2>6. awards[t] + 0 <= completed[t] \/ t \in raced BY <2>3, <2>4, <2>5
  <2> QED BY <2>2, <2>6
<1>6. ProjectListsRecover' BY <1>1, <1>2 DEF BoardInv, ProjectListsRecover
<1>7. KeysDistinct' BY <1>1 DEF BoardInv, KeysDistinct, Exists
<1> QED BY <1>3, <1>4, <1>5, <1>6, <1>7 DEF BoardInv

-----------------------------------------------------------------------------
(* Steps that write MongoDB.                                               *)

\* What a write leaves of the request that wrote, and of another.
Wrote(r, next, b) ==
  /\ req'[r].pc = next /\ req'[r].op = req[r].op /\ req'[r].task = req[r].task
  /\ req'[r].busts = b
  /\ req[r].op = "status" => req'[r].read = req[r].read /\ req'[r].dto = req[r].dto
Bystander(q, rows) ==
  /\ req'[q].pc = req[q].pc /\ req'[q].op = req[q].op /\ req'[q].task = req[q].task
  /\ req'[q].dto = req[q].dto /\ req'[q].number = req[q].number
  /\ req'[q].read = req[q].read /\ req'[q].busts = req[q].busts
  /\ req'[q].outdated = Outdates(q, rows)

LEMMA WriteFrame ==
  ASSUME BoardInv, NEW r \in Req, NEW rows, NEW next \in Pc, NEW b \in Seq(SUBSET List),
         Write(r, rows, next, b)
  PROVE  req' \in [Req -> Request] /\ Wrote(r, next, b) /\ \A q \in Req \ {r} : Bystander(q, rows)
<1> DEFINE base == IF req[r].op = "status" THEN req[r]
                   ELSE [Idle EXCEPT !.op = req[r].op, !.task = req[r].task]
           mine == [base EXCEPT !.pc = next, !.busts = b]
           seen(q) == IF req[q].pc = "store" /\ watched \in Changed(rows) THEN "stale"
                      ELSE req[q].seen
           other(q) == [req[q] EXCEPT !.seen = seen(q), !.outdated = Outdates(q, rows)]
<1>1. req \in [Req -> Request] BY DEF BoardInv, TypeOK
<1>2. req' = [q \in Req |-> IF q = r THEN mine ELSE other(q)] BY DEF Write
<1>3. base \in Request /\ base.op = req[r].op /\ base.task = req[r].task
  <2>1. CASE req[r].op = "status" BY <1>1, <2>1
  <2>2. CASE req[r].op # "status"
    <3>1. base = [Idle EXCEPT !.op = req[r].op, !.task = req[r].task] BY <2>2
    <3>2. req[r].op \in Op \cup {"get"} /\ req[r].task \in Task \cup {None} /\ Idle \in Request
      BY <1>1, IdleOK DEF Request
    <3> QED BY <3>1, <3>2 DEF Request
  <2> QED BY <2>1, <2>2
<1>4. req[r].op = "status" => base = req[r] OBVIOUS
<1> HIDE DEF base
<1>5. /\ mine \in Request /\ mine.pc = next /\ mine.op = base.op /\ mine.task = base.task
      /\ mine.busts = b /\ mine.read = base.read /\ mine.dto = base.dto
  BY <1>3 DEF Request
<1>6. ASSUME NEW q \in Req
      PROVE  /\ other(q) \in Request
             /\ other(q).pc = req[q].pc /\ other(q).op = req[q].op /\ other(q).task = req[q].task
             /\ other(q).dto = req[q].dto /\ other(q).number = req[q].number
             /\ other(q).read = req[q].read /\ other(q).busts = req[q].busts
             /\ other(q).outdated = Outdates(q, rows)
  <2>1. req[q] \in Request BY <1>1
  <2>2. seen(q) \in {"fresh", "stale"} BY <2>1 DEF Request
  <2>3. Outdates(q, rows) \in BOOLEAN BY <2>1 DEF Outdates, Request
  <2> HIDE DEF seen
  <2> DEFINE o == Outdates(q, rows)
             s == seen(q)
  <2>4. s \in {"fresh", "stale"} /\ o \in BOOLEAN BY <2>2, <2>3
  <2> HIDE DEF o, s
  <2>5. other(q) = [req[q] EXCEPT !.seen = s, !.outdated = o] BY DEF o, s
  <2>6. /\ [req[q] EXCEPT !.seen = s, !.outdated = o] \in Request
        /\ [req[q] EXCEPT !.seen = s, !.outdated = o].outdated = o
    BY <2>1, <2>4 DEF Request
  <2>7. other(q) \in Request /\ other(q).outdated = Outdates(q, rows)
    BY <2>5, <2>6 DEF o
  <2> QED BY <2>1, <2>7 DEF Request
<1> HIDE DEF mine, other
<1>7. req' \in [Req -> Request] BY <1>2, <1>5, <1>6
<1>8. req'[r] = mine /\ \A q \in Req \ {r} : req'[q] = other(q) BY <1>2
<1>9. Wrote(r, next, b) BY <1>3, <1>4, <1>5, <1>8 DEF Wrote
<1>10. \A q \in Req \ {r} : Bystander(q, rows) BY <1>6, <1>8 DEF Bystander
<1> QED BY <1>7, <1>9, <1>10

\* The invariant but for the points, after a write that deletes the project
\* lists it changes and keeps the keys apart.
LEMMA WriteStep ==
  ASSUME BoardInv, NEW r \in Req, NEW rows \in Rows, NEW next \in {"first", "bust"},
         NEW b \in Seq(SUBSET List), b # <<>>,
         Write(r, rows, next, b), watched' = watched,
         awards \in [Task -> Nat], completed' \in [Task -> Nat],
         req[r].pc = "write",
         next = "first" => req[r].op = "reorder" /\ b = <<{"project"}>>,
         Changed(rows) \cap ProjectList \subseteq OwedIn(b),
         Apart(rows),
         \A t \in Task : Exists(t) => rows[t].key \in {0, task[t].key}
  PROVE  TypeOK' /\ Shapes' /\ Currents' /\ ProjectListsRecover' /\ KeysDistinct'
<1> next \in Pc BY DEF Pc
<1>1. /\ req' \in [Req -> Request]
      /\ req'[r].pc = next /\ req'[r].op = req[r].op /\ req'[r].task = req[r].task
      /\ req'[r].busts = b
      /\ \A q \in Req \ {r} :
           /\ req'[q].pc = req[q].pc /\ req'[q].op = req[q].op /\ req'[q].task = req[q].task
           /\ req'[q].dto = req[q].dto /\ req'[q].number = req[q].number
           /\ req'[q].read = req[q].read /\ req'[q].busts = req[q].busts
           /\ req'[q].outdated = Outdates(q, rows)
  <2>1. req' \in [Req -> Request] /\ Wrote(r, next, b) /\ \A q \in Req \ {r} : Bystander(q, rows)
    BY WriteFrame
  <2> QED BY <2>1 DEF Wrote, Bystander
<1>2. /\ task' = rows /\ UNCHANGED <<awards, excused>>
      /\ cache' = IF watched \in Changed(rows) /\ cache = "fresh" THEN "stale" ELSE cache
  BY DEF Write
<1>3. TypeOK' BY <1>1, <1>2 DEF BoardInv, TypeOK
<1>4. Shapes'
  <2> SUFFICES ASSUME NEW q \in Req PROVE Shape(req'[q]) BY DEF Shapes
  <2>1. Shape(req[q]) BY DEF BoardInv, Shapes
  <2>2. CASE q = r
    <3>1. Shape(req[r]) BY <2>1, <2>2
    <3> QED BY <1>1, <2>2, <3>1 DEF Shape
  <2>3. CASE q # r BY <1>1, <2>1, <2>3 DEF Shape, Asked
  <2> QED BY <2>2, <2>3
<1>5. Currents'
  <2> SUFFICES ASSUME NEW q \in Req, req'[q].pc = "write", ~req'[q].outdated
               PROVE  /\ req'[q].op \in {"status", "move", "delete"} =>
                           req'[q].read = rows[req'[q].task]
                      /\ req'[q].op = "create" => \A t \in Task : rows[t].key < req'[q].number
    BY <1>2 DEF Currents, Current
  <2>1. q # r BY <1>1
  <2>2. req[q].pc = "write" /\ ~Outdates(q, rows) BY <1>1, <2>1
  <2>3. Current(req[q], task) /\ Shape(req[q]) /\ req[q] \in Request
    BY DEF BoardInv, TypeOK, Shapes, Currents
  <2>4. ~req[q].outdated BY <2>2 DEF Outdates
  <2>5. ASSUME req[q].op \in {"status", "move", "delete"}
        PROVE  req[q].read = rows[req[q].task]
    BY <2>2, <2>3, <2>4, <2>5 DEF Outdates, Current
  <2>6. ASSUME req[q].op = "create", NEW t \in Task
        PROVE  rows[t].key < req[q].number
    <3>1. rows[t].key # 0 => Exists(t) BY <2>2, <2>6 DEF Outdates
    <3>2. task[t].key < req[q].number BY <2>2, <2>3, <2>4, <2>6 DEF Current
    <3>3. req[q].number \in Nat \ {0} BY <2>2, <2>3, <2>6 DEF Shape, Request
    <3>4. rows[t].key \in {0, task[t].key} BY <3>1
    <3> QED BY <3>2, <3>3, <3>4
  <2> QED BY <1>1, <2>1, <2>5, <2>6
<1>6. ProjectListsRecover'
  <2> SUFFICES ASSUME watched \in ProjectList, cache' = "stale", ~excused
               PROVE  \E q \in Req : watched \in OwedBy(req'[q])
    BY <1>2 DEF ProjectListsRecover, Owed, OwedBy, OwedIn
  <2>1. CASE watched \in Changed(rows)
    <3>1. watched \in OwedIn(b) BY <2>1
    <3>2. watched \in OwedBy(req'[r]) BY <1>1, <3>1 DEF OwedBy
    <3> QED BY <3>2
  <2>2. CASE watched \notin Changed(rows)
    <3>1. cache = "stale" BY <1>2, <2>2
    <3>2. PICK q \in Req : watched \in OwedBy(req[q])
      BY <3>1, OwedIsBy DEF BoardInv, ProjectListsRecover
    <3>3. q # r BY <3>2 DEF OwedBy
    <3>4. watched \in OwedBy(req'[q]) BY <1>1, <3>2, <3>3 DEF OwedBy
    <3> QED BY <3>4
  <2> QED BY <2>1, <2>2
<1>7. KeysDistinct' BY <1>2 DEF KeysDistinct, Exists, Apart
<1> QED BY <1>3, <1>4, <1>5, <1>6, <1>7

\* A write of which no award may follow.
LEMMA WriteCovered ==
  ASSUME BoardInv, NEW r \in Req, NEW rows, NEW next \in Pc, NEW b \in Seq(SUBSET List),
         Write(r, rows, next, b),
         completed' \in [Task -> Nat],
         \A t \in Task : completed[t] <= completed'[t],
         raced \subseteq raced',
         req[r].pc = "write",
         req[r].op = "status" /\ Earned(req[r]) =>
           LET t == req[r].task IN t \in raced' \/ completed'[t] = completed[t] + 1
  PROVE  Covered'
<1>1. /\ req' \in [Req -> Request]
      /\ req'[r].op = req[r].op /\ req'[r].task = req[r].task
      /\ req[r].op = "status" => req'[r].read = req[r].read /\ req'[r].dto = req[r].dto
      /\ \A q \in Req \ {r} :
           /\ req'[q].pc = req[q].pc /\ req'[q].op = req[q].op /\ req'[q].task = req[q].task
           /\ req'[q].dto = req[q].dto /\ req'[q].read = req[q].read
  <2>1. req' \in [Req -> Request] /\ Wrote(r, next, b) /\ \A q \in Req \ {r} : Bystander(q, rows)
    BY WriteFrame
  <2> QED BY <2>1 DEF Wrote, Bystander
<1>2. awards' = awards BY DEF Write
<1> SUFFICES ASSUME NEW t \in Task, t \notin raced'
             PROVE  awards[t] + Cardinality(Payers(t)') <= completed'[t]
  BY <1>2 DEF Covered, Payers
<1>3. \A q \in Req \ {r} : Pending(req'[q], t) <=> Pending(req[q], t)
  BY <1>1 DEF Pending, Earned
<1>4. r \notin Payers(t) BY DEF Payers, Pending
<1> DEFINE n == Cardinality(Payers(t))
           m == Cardinality(Payers(t)')
<1>5. awards[t] \in Nat /\ completed[t] \in Nat /\ completed'[t] \in Nat /\ n \in Nat
  BY FinitePayers DEF BoardInv, TypeOK
<1>6. awards[t] + n <= completed[t] BY DEF BoardInv, Covered
<1>7. CASE Pending(req'[r], t)
  <2>1. Payers(t)' = Payers(t) \cup {r} BY <1>3, <1>4, <1>7 DEF Payers
  <2>2. m = n + 1 BY <1>4, <2>1, FinitePayers, FS_AddElement
  <2>3. req[r].op = "status" /\ Earned(req[r]) /\ req[r].task = t
    BY <1>1, <1>7 DEF Pending, Earned
  <2>4. completed'[t] = completed[t] + 1 BY <2>3
  <2> HIDE DEF n, m
  <2>5. awards[t] + m <= completed'[t] BY <1>5, <1>6, <2>2, <2>4
  <2> QED BY <2>5 DEF m
<1>8. CASE ~Pending(req'[r], t)
  <2>1. Payers(t)' = Payers(t) BY <1>3, <1>4, <1>8 DEF Payers
  <2>2. m = n BY <2>1
  <2>3. completed[t] <= completed'[t] OBVIOUS
  <2> HIDE DEF n, m
  <2>4. awards[t] + m <= completed'[t] BY <1>5, <1>6, <2>2, <2>3
  <2> QED BY <2>4 DEF m
<1> QED BY <1>7, <1>8

\* StaleListsAreDeleted, of one step.
Stales ==
  watched \notin ProjectList /\ task' # task /\ cache = "fresh" /\ cache' = "stale" =>
    \E r \in Req :
      /\ req[r].pc = "write"
      /\ \/ watched \in Owed(r)'
         \/ watched \in Sprint /\ (req[r].op = "update" \/ req[r].outdated)
         \/ watched \in User /\ (req[r].op = "create" \/
                                  Members(watched, task)' \subseteq Members(watched, task))

LEMMA WriteStales ==
  ASSUME BoardInv, NEW r \in Req, NEW rows, NEW b \in Seq(SUBSET List),
         Write(r, rows, "bust", b), watched' = watched, req[r].pc = "write",
         watched \in Changed(rows) \ ProjectList =>
           \/ watched \in OwedIn(b)
           \/ watched \in Sprint /\ (req[r].op = "update" \/ req[r].outdated)
           \/ watched \in User /\ (req[r].op = "create" \/
                                    Members(watched, rows) \subseteq Members(watched, task))
  PROVE  Stales
<1>1. "bust" \in Pc BY DEF Pc
<1>2. req'[r].pc = "bust" /\ req'[r].busts = b
  <2>1. Wrote(r, "bust", b) BY <1>1, WriteFrame
  <2> QED BY <2>1 DEF Wrote
<1>3. task' = rows /\ (cache = "fresh" /\ cache' = "stale" => watched \in Changed(rows))
  BY DEF Write
<1>4. Owed(r)' = OwedIn(b) BY <1>2 DEF Owed, OwedIn
<1>5. Members(watched, task)' = Members(watched, rows) BY <1>3 DEF Members
<1> QED BY <1>3, <1>4, <1>5 DEF Stales

LEMMA SameTaskStales ==
  ASSUME task' = task
  PROVE  Stales
BY DEF Stales

\* Which lists change when one task gets another row.
LEMMA OneTask ==
  ASSUME NEW t \in Task, NEW row \in Row, task \in Rows, Exists(t),
         row.key = task[t].key
  PROVE  LET rows == [task EXCEPT ![t] = row] IN
         /\ row.sprint = task[t].sprint => Changed(rows) \cap ({"backlog"} \cup Sprint) = {}
         /\ row.assignee = task[t].assignee => Changed(rows) \cap User = {}
         /\ \A l \in Sprint \cap Changed(rows) : row.sprint = l \/ task[t].sprint = l
         /\ \A l \in User \cap Changed(rows) :
              row.assignee = l \/ Members(l, rows) \subseteq Members(l, task)
<1> DEFINE rows == [task EXCEPT ![t] = row]
<1>1. /\ rows[t] = row /\ \A u \in Task \ {t} : rows[u] = task[u]
      /\ \A u \in Task : rows[u].key = task[u].key
  BY DEF Rows
<1>2. task[t].key # 0 BY DEF Exists
<1> HIDE DEF rows
<1>3. ASSUME row.sprint = task[t].sprint PROVE Changed(rows) \cap ({"backlog"} \cup Sprint) = {}
  <2>1. \A u \in Task : /\ rows[u].key # 0 <=> task[u].key # 0
                        /\ rows[u].key # 0 => rows[u].sprint = task[u].sprint
    BY <1>1, <1>3
  <2>2. \A l \in {"backlog"} \cup Sprint : Members(l, rows) = Members(l, task)
    BY <2>1, SameMembers
  <2>3. "project" \notin {"backlog"} \cup Sprint BY TaskBoardAssumption
  <2> QED BY <2>2, <2>3 DEF Changed
<1>4. ASSUME row.assignee = task[t].assignee PROVE Changed(rows) \cap User = {}
  <2>1. \A u \in Task : /\ rows[u].key # 0 <=> task[u].key # 0
                        /\ rows[u].key # 0 => rows[u].assignee = task[u].assignee
    BY <1>1, <1>4
  <2>2. \A l \in User : Members(l, rows) = Members(l, task) BY <2>1, SameAssignees
  <2>3. "project" \notin User BY TaskBoardAssumption
  <2> QED BY <2>2, <2>3 DEF Changed
<1>5. ASSUME NEW l \in Sprint, l \in Changed(rows), row.sprint # l, task[t].sprint # l
      PROVE  FALSE
  <2>1. l # "project" /\ l # "backlog" /\ l \notin User BY TaskBoardAssumption
  <2>2. Members(l, rows) # Members(l, task) BY <1>5, <2>1 DEF Changed
  <2>3. \A x : Members(l, x) = {u \in Task : x[u].key # 0 /\ x[u].sprint = l}
    BY <2>1 DEF Members
  <2>4. \A u \in Task : rows[u].key # 0 /\ rows[u].sprint = l <=>
                         task[u].key # 0 /\ task[u].sprint = l
    BY <1>1, <1>5
  <2> QED BY <2>2, <2>3, <2>4
<1>6. ASSUME NEW l \in User, row.assignee # l
      PROVE  Members(l, rows) \subseteq Members(l, task)
  <2>1. l # "backlog" /\ l \notin Sprint BY TaskBoardAssumption
  <2>2. \A x : Members(l, x) = {u \in Task : x[u].key # 0 /\ x[u].assignee = l}
    BY <2>1 DEF Members
  <2> QED BY <1>1, <1>6, <2>2
<1> QED BY <1>3, <1>4, <1>5, <1>6 DEF rows

\* One row becomes another of the same key, or is removed.
LEMMA WriteTaskKeeps ==
  ASSUME BoardInv, NEW r \in Req, NEW row \in Row \cup {Absent},
         NEW b \in Seq(SUBSET List), b # <<>>,
         WriteTask(r, row, b), watched' = watched,
         req[r].pc = "write", req[r].task \in Task,
         LET old == task[req[r].task] IN
           /\ row.key # 0 => row.key = old.key /\ row.crossed = old.crossed
           /\ req[r].op = "status" /\ Earned(req[r]) /\ ~req[r].outdated =>
                old.status # "done" /\ row.status = "done",
         Changed([task EXCEPT ![req[r].task] = row]) \cap ProjectList \subseteq OwedIn(b)
  PROVE  BoardInv'
<1> DEFINE t == req[r].task
           rows == [task EXCEPT ![t] = row]
           done == task[t].status # "done" /\ row.status = "done"
<1>1. task \in Rows /\ awards \in [Task -> Nat] /\ completed \in [Task -> Nat] /\ Apart(task)
  BY DEF BoardInv, TypeOK, KeysDistinct, Apart, Exists
<1>2. /\ rows \in Rows /\ rows[t] = row /\ \A u \in Task \ {t} : rows[u] = task[u]
  BY <1>1 DEF Rows
<1>3. Write(r, rows, "bust", b) BY DEF WriteTask
<1>4. /\ completed' = [completed EXCEPT ![t] = IF done THEN @ + 1 ELSE @]
      /\ raced' = IF req[r].op = "status" /\ req[r].outdated THEN raced \cup {t} ELSE raced
  BY DEF WriteTask
<1> HIDE DEF done
<1>5. completed[t] \in Nat /\ completed[t] + 1 \in Nat BY <1>1
<1>6. /\ completed' \in [Task -> Nat]
      /\ \A u \in Task : completed'[u] = IF u = t /\ done THEN completed[u] + 1 ELSE completed[u]
  BY <1>1, <1>4, <1>5
<1>7. \A u \in Task : completed[u] <= completed'[u]
  <2> SUFFICES ASSUME NEW u \in Task PROVE completed[u] <= completed'[u] OBVIOUS
  <2>1. completed[u] \in Nat BY <1>1
  <2>2. completed'[u] = completed[u] \/ completed'[u] = completed[u] + 1 BY <1>6
  <2> QED BY <2>1, <2>2
<1> HIDE DEF rows
<1>8. Covered'
  <2>1. "bust" \in Pc BY DEF Pc
  <2>2. raced \subseteq raced' BY <1>4
  <2>3. ASSUME req[r].op = "status", Earned(req[r])
        PROVE  t \in raced' \/ completed'[t] = completed[t] + 1
    <3>1. CASE req[r].outdated BY <1>4, <2>3, <3>1
    <3>2. CASE ~req[r].outdated
      <4>1. done BY <2>3, <3>2 DEF done
      <4> QED BY <1>6, <4>1
    <3> QED BY <3>1, <3>2
  <2> QED BY <1>3, <1>6, <1>7, <2>1, <2>2, <2>3, WriteCovered
<1>9. Apart(rows)
  <2> SUFFICES ASSUME NEW u \in Task, NEW v \in Task,
                      rows[u].key # 0, rows[u].key = rows[v].key
               PROVE  u = v \/ rows[u].crossed \/ rows[v].crossed
    BY DEF Apart
  <2>1. \A w \in Task : rows[w].key # 0 =>
          rows[w].key = task[w].key /\ rows[w].crossed = task[w].crossed
    BY <1>2
  <2> QED BY <1>1, <2>1 DEF Apart
<1>10. \A u \in Task : Exists(u) => rows[u].key \in {0, task[u].key} BY <1>2
<1>11. Changed(rows) \cap ProjectList \subseteq OwedIn(b) BY DEF rows
<1>12. TypeOK' /\ Shapes' /\ Currents' /\ ProjectListsRecover' /\ KeysDistinct'
  BY <1>1, <1>2, <1>3, <1>6, <1>9, <1>10, <1>11, WriteStep
<1> QED BY <1>8, <1>12 DEF BoardInv

\* What a request that merges a body into a task that exists starts from.
LEMMA MergeFacts ==
  ASSUME BoardInv, NEW r \in Req, req[r].pc = "write", Exists(req[r].task),
         req[r].op \notin {"create", "delete"}
  PROVE  LET t == req[r].task
             d == req[r].dto
             m == Merge(task[t], d)
         IN  /\ t \in Task /\ task[t] \in Row /\ d \in Dto
             /\ m \in Row /\ m.key = task[t].key /\ m.crossed = task[t].crossed
             /\ m.sprint = (IF d.sprint = Keep THEN task[t].sprint ELSE d.sprint)
             /\ m.assignee = (IF d.assignee = Keep THEN task[t].assignee ELSE d.assignee)
             /\ m.status = (IF d.status = Keep THEN task[t].status ELSE d.status)
             /\ Shape(req[r]) /\ Asked(req[r]) /\ Current(req[r], task)
<1>1. req[r] \in Request /\ Shape(req[r]) /\ Current(req[r], task) /\ task \in Rows
  BY DEF BoardInv, TypeOK, Shapes, Currents
<1>2. req[r].task \in Task /\ req[r].dto \in Dto /\ Asked(req[r]) BY <1>1 DEF Shape, Request
<1>3. task[req[r].task] \in Row BY <1>1, <1>2, ExistingRow DEF Exists
<1> QED BY <1>1, <1>2, <1>3, MergedRow

LEMMA UpdateTaskKeeps ==
  ASSUME BoardInv, NEW r \in Req, UpdateTask(r), watched' = watched
  PROVE  BoardInv' /\ Stales
<1> DEFINE t == req[r].task
           d == req[r].dto
           m == Merge(task[t], d)
           b == UpdateBusts(d)
           rows == [task EXCEPT ![t] = m]
<1>1. /\ At(r, "update", "write") /\ Exists(t) /\ WriteTask(r, m, b)
      /\ req[r].pc = "write" /\ req[r].op = "update"
  BY DEF UpdateTask, At
<1>2. /\ t \in Task /\ task[t] \in Row /\ m \in Row
      /\ m.key = task[t].key /\ m.crossed = task[t].crossed
      /\ m.assignee = (IF d.assignee = Keep THEN task[t].assignee ELSE d.assignee)
  BY <1>1, MergeFacts
<1>3. /\ b \in Seq(SUBSET List) /\ b # <<>> /\ ProjectList \subseteq OwedIn(b)
      /\ d.assignee \in User => d.assignee \in OwedIn(b)
  BY UpdateOwes
<1> HIDE DEF b, m, d
<1>4. BoardInv'
  <2>1. /\ m.key # 0 => m.key = task[t].key /\ m.crossed = task[t].crossed
        /\ req[r].op # "status"
    BY <1>1, <1>2
  <2>2. Changed(rows) \cap ProjectList \subseteq OwedIn(b) BY <1>3
  <2>3. m \in Row \cup {Absent} BY <1>2
  <2> QED BY <1>1, <1>2, <1>3, <2>1, <2>2, <2>3, WriteTaskKeeps
<1>5. Stales
  <2>1. Write(r, rows, "bust", b) BY <1>1 DEF WriteTask
  <2>2. task \in Rows BY DEF BoardInv, TypeOK
  <2>3. ASSUME watched \in Changed(rows) \ ProjectList
        PROVE  \/ watched \in OwedIn(b)
               \/ watched \in Sprint
               \/ watched \in User /\ Members(watched, rows) \subseteq Members(watched, task)
    <3>1. watched \in Sprint \cup User BY <2>3 DEF Changed, List, ProjectList
    <3>2. CASE watched \in User
      <4>1. \/ m.assignee = watched
            \/ Members(watched, rows) \subseteq Members(watched, task)
        BY <1>1, <1>2, <2>2, <2>3, <3>2, OneTask
      <4>2. CASE d.assignee = Keep
        <5>1. Changed(rows) \cap User = {} BY <1>1, <1>2, <2>2, <4>2, OneTask
        <5> QED BY <2>3, <3>2, <5>1
      <4>3. CASE d.assignee # Keep /\ m.assignee = watched
        BY <1>2, <1>3, <3>2, <4>3
      <4> QED BY <3>2, <4>1, <4>2, <4>3
    <3> QED BY <3>1, <3>2
  <2> HIDE DEF rows
  <2> QED BY <1>1, <1>3, <2>1, <2>3, WriteStales
<1> QED BY <1>4, <1>5

\* A task gets a new assignee, or a new status, and keeps its sprint.
LEMMA KeptSprint ==
  ASSUME BoardInv, NEW r \in Req, req[r].pc = "write", Exists(req[r].task),
         req[r].op \in {"assign", "unassign", "status"},
         NEW b \in Seq(SUBSET List), b # <<>>, "project" \in OwedIn(b),
         req[r].dto.assignee \in User => req[r].dto.assignee \in OwedIn(b),
         WriteTask(r, Merge(task[req[r].task], req[r].dto), b), watched' = watched
  PROVE  BoardInv' /\ Stales
<1> DEFINE t == req[r].task
           d == req[r].dto
           m == Merge(task[t], d)
           rows == [task EXCEPT ![t] = m]
<1>1. /\ t \in Task /\ task[t] \in Row /\ d \in Dto /\ m \in Row
      /\ m.key = task[t].key /\ m.crossed = task[t].crossed
      /\ m.sprint = (IF d.sprint = Keep THEN task[t].sprint ELSE d.sprint)
      /\ m.assignee = (IF d.assignee = Keep THEN task[t].assignee ELSE d.assignee)
      /\ m.status = (IF d.status = Keep THEN task[t].status ELSE d.status)
      /\ Asked(req[r]) /\ Current(req[r], task)
  BY MergeFacts
<1> HIDE DEF m
<1>2. m.sprint = task[t].sprint BY <1>1 DEF Asked
<1>3. task \in Rows BY DEF BoardInv, TypeOK
<1>4. /\ Changed(rows) \cap ({"backlog"} \cup Sprint) = {}
      /\ m.assignee = task[t].assignee => Changed(rows) \cap User = {}
      /\ \A l \in User \cap Changed(rows) :
           m.assignee = l \/ Members(l, rows) \subseteq Members(l, task)
  BY <1>1, <1>2, <1>3, OneTask
<1> HIDE DEF rows
<1>5. BoardInv'
  <2>1. ASSUME req[r].op = "status", Earned(req[r]), ~req[r].outdated
        PROVE  task[t].status # "done" /\ m.status = "done"
    <3>1. req[r].read = task[t] BY <1>1, <2>1 DEF Current
    <3>2. d.status = "done" /\ "done" # Keep
      BY <2>1, TaskBoardAssumption DEF Earned, Status
    <3> QED BY <1>1, <2>1, <3>1, <3>2 DEF Earned
  <2>2. Changed(rows) \cap ProjectList \subseteq OwedIn(b)
    BY <1>4 DEF ProjectList
  <2>3. m \in Row \cup {Absent} BY <1>1
  <2>4. WriteTask(r, m, b) BY DEF m
  <2> QED BY <1>1, <2>1, <2>2, <2>3, <2>4, WriteTaskKeeps DEF rows
<1>6. Stales
  <2>1. Write(r, rows, "bust", b) BY DEF WriteTask, m, rows
  <2>2. ASSUME watched \in Changed(rows) \ ProjectList
        PROVE  \/ watched \in OwedIn(b)
               \/ watched \in User /\ Members(watched, rows) \subseteq Members(watched, task)
    <3>1. watched \in User BY <1>4, <2>2 DEF Changed, List, ProjectList
    <3>2. d.assignee # Keep BY <1>1, <1>4, <2>2, <3>1
    <3>3. CASE m.assignee = watched
      <4>1. d.assignee = watched BY <1>1, <3>2, <3>3
      <4> QED BY <3>1, <4>1
    <3> QED BY <1>4, <2>2, <3>1, <3>3
  <2> QED BY <2>1, <2>2, WriteStales
<1> QED BY <1>5, <1>6

LEMMA AssignTaskKeeps ==
  ASSUME BoardInv, NEW r \in Req, AssignTask(r), watched' = watched
  PROVE  BoardInv' /\ Stales
<1> DEFINE u == req[r].dto.assignee
           b == <<{"project", u}>>
<1>1. /\ req[r].pc = "write" /\ req[r].op = "assign" /\ Exists(req[r].task)
      /\ WriteTask(r, Merge(task[req[r].task], req[r].dto), b)
  BY DEF AssignTask, At
<1>2. u \in User BY <1>1, MergeFacts DEF Asked
<1>3. {"project", u} \in SUBSET List BY <1>2 DEF List, ProjectList
<1>4. b \in Seq(SUBSET List) /\ b # <<>> /\ OwedIn(b) = {"project", u}
  BY <1>3, TogetherOwes
<1> HIDE DEF b
<1> QED BY <1>1, <1>4, KeptSprint

\* The project's list alone, for a body without an assignee.
LEMMA UnassignTaskKeeps ==
  ASSUME BoardInv, NEW r \in Req, UnassignTask(r), watched' = watched
  PROVE  BoardInv' /\ Stales
<1> DEFINE b == <<{"project"}>>
<1>1. /\ req[r].pc = "write" /\ req[r].op = "unassign" /\ Exists(req[r].task)
      /\ WriteTask(r, Merge(task[req[r].task], req[r].dto), b)
  BY DEF UnassignTask, At
<1>2. req[r].dto.assignee \notin User BY <1>1, MergeFacts, TaskBoardAssumption DEF Asked
<1>3. b \in Seq(SUBSET List) /\ b # <<>> /\ OwedIn(b) = {"project"}
  BY TogetherOwes DEF List, ProjectList
<1> HIDE DEF b
<1> QED BY <1>1, <1>2, <1>3, KeptSprint

LEMMA UpdateStatusKeeps ==
  ASSUME BoardInv, NEW r \in Req, UpdateStatus(r), watched' = watched
  PROVE  BoardInv' /\ Stales
<1> DEFINE b == <<{"project"}>>
<1>1. /\ req[r].pc = "write" /\ req[r].op = "status" /\ Exists(req[r].task)
      /\ WriteTask(r, Merge(task[req[r].task], req[r].dto), b)
  BY DEF UpdateStatus, At
<1>2. req[r].dto.assignee \notin User BY <1>1, MergeFacts, TaskBoardAssumption DEF Asked
<1>3. b \in Seq(SUBSET List) /\ b # <<>> /\ OwedIn(b) = {"project"}
  BY TogetherOwes DEF List, ProjectList
<1> HIDE DEF b
<1> QED BY <1>1, <1>2, <1>3, KeptSprint

LEMMA MoveToSprintKeeps ==
  ASSUME BoardInv, NEW r \in Req, MoveToSprint(r), watched' = watched
  PROVE  BoardInv' /\ Stales
<1> DEFINE t == req[r].task
           d == req[r].dto
           m == Merge(task[t], d)
           A == {"project", "backlog"} \cup ({d.sprint, req[r].read.sprint} \cap Sprint)
           b == <<A>>
           rows == [task EXCEPT ![t] = m]
<1>1. /\ req[r].pc = "write" /\ req[r].op = "move" /\ Exists(t) /\ WriteTask(r, m, b)
  BY DEF MoveToSprint, MoveBusts, At
<1>2. /\ t \in Task /\ task[t] \in Row /\ m \in Row
      /\ m.key = task[t].key /\ m.crossed = task[t].crossed
      /\ m.sprint = (IF d.sprint = Keep THEN task[t].sprint ELSE d.sprint)
      /\ m.assignee = (IF d.assignee = Keep THEN task[t].assignee ELSE d.assignee)
      /\ Asked(req[r]) /\ Current(req[r], task)
  BY <1>1, MergeFacts
<1>3. /\ b \in Seq(SUBSET List) /\ b # <<>> /\ OwedIn(b) = A
  BY TogetherOwes DEF List, ProjectList
<1> HIDE DEF m, b
<1>4. task \in Rows BY DEF BoardInv, TypeOK
<1>5. m.assignee = task[t].assignee BY <1>1, <1>2 DEF Asked
<1>6. /\ Changed(rows) \cap User = {}
      /\ \A l \in Sprint \cap Changed(rows) : m.sprint = l \/ task[t].sprint = l
  BY <1>1, <1>2, <1>4, <1>5, OneTask
<1> HIDE DEF rows
<1>7. BoardInv'
  <2>1. Changed(rows) \cap ProjectList \subseteq OwedIn(b) BY <1>3 DEF ProjectList
  <2>2. m \in Row \cup {Absent} /\ req[r].op # "status" BY <1>1, <1>2
  <2> QED BY <1>1, <1>2, <1>3, <2>1, <2>2, WriteTaskKeeps DEF rows
<1>8. Stales
  <2>1. Write(r, rows, "bust", b) BY <1>1 DEF WriteTask, rows
  <2>2. ASSUME watched \in Changed(rows) \ ProjectList
        PROVE  \/ watched \in OwedIn(b)
               \/ watched \in Sprint /\ req[r].outdated
    <3>1. watched \in Sprint BY <1>6, <2>2 DEF Changed, List, ProjectList
    <3>2. m.sprint = watched \/ task[t].sprint = watched BY <1>6, <2>2, <3>1
    <3>3. ~req[r].outdated => req[r].read = task[t] BY <1>1, <1>2 DEF Current
    <3>4. CASE ~req[r].outdated
      <4>1. watched \in {d.sprint, req[r].read.sprint} BY <1>2, <3>2, <3>3, <3>4
      <4>2. watched \in A BY <3>1, <4>1
      <4> HIDE DEF A
      <4> QED BY <1>3, <4>2
    <3> QED BY <3>1, <3>4
  <2> QED BY <1>1, <1>3, <2>1, <2>2, WriteStales
<1> QED BY <1>7, <1>8

\* One task less: no list gains a member.
LEMMA Removed ==
  ASSUME NEW t \in Task, task \in Rows, NEW l \in List \ {"project"}
  PROVE  LET rows == [task EXCEPT ![t] = Absent] IN
         /\ Members(l, rows) \subseteq Members(l, task)
         /\ l \in Sprint /\ task[t].sprint # l => Members(l, rows) = Members(l, task)
<1> DEFINE rows == [task EXCEPT ![t] = Absent]
<1>1. /\ rows[t].key = 0 /\ \A u \in Task \ {t} : rows[u] = task[u]
  BY DEF Rows, Absent
<1> HIDE DEF rows
<1>2. CASE l = "backlog"
  <2>1. l \notin Sprint \cup User BY <1>2, TaskBoardAssumption
  <2>2. \A x : Members(l, x) = {u \in Task : x[u].key # 0 /\ x[u].sprint = None}
    BY <1>2, <2>1 DEF Members
  <2>3. Members(l, rows) \subseteq Members(l, task) BY <1>1, <2>2
  <2> QED BY <2>1, <2>3 DEF rows
<1>3. CASE l \in Sprint
  <2>1. l # "backlog" /\ l \notin User BY <1>3, TaskBoardAssumption
  <2>2. \A x : Members(l, x) = {u \in Task : x[u].key # 0 /\ x[u].sprint = l}
    BY <1>3, <2>1 DEF Members
  <2>3. Members(l, rows) \subseteq Members(l, task) BY <1>1, <2>2
  <2>4. task[t].sprint # l => Members(l, task) \subseteq Members(l, rows) BY <1>1, <2>2
  <2> QED BY <2>3, <2>4 DEF rows
<1>4. CASE l \in User
  <2>1. l # "backlog" /\ l \notin Sprint BY <1>4, TaskBoardAssumption
  <2>2. \A x : Members(l, x) = {u \in Task : x[u].key # 0 /\ x[u].assignee = l}
    BY <1>4, <2>1 DEF Members
  <2>3. Members(l, rows) \subseteq Members(l, task) BY <1>1, <2>2
  <2> QED BY <2>1, <2>3 DEF rows
<1> QED BY <1>2, <1>3, <1>4 DEF List, ProjectList

LEMMA DeleteTaskKeeps ==
  ASSUME BoardInv, NEW r \in Req, DeleteTask(r), watched' = watched
  PROVE  BoardInv' /\ Stales
<1> DEFINE t == req[r].task
           s == req[r].read.sprint
           p == <<{"project", "backlog"}>>
           b == p \o (IF s \in Sprint THEN <<{s}>> ELSE <<>>)
           rows == [task EXCEPT ![t] = Absent]
<1>1. /\ req[r].pc = "write" /\ req[r].op = "delete" /\ WriteTask(r, Absent, b)
  BY DEF DeleteTask, At
<1>2. t \in Task /\ Current(req[r], task) /\ task \in Rows
  BY <1>1 DEF BoardInv, TypeOK, Shapes, Currents, Shape
<1>3. /\ p \in Seq(SUBSET List) /\ p # <<>> /\ ProjectList \subseteq OwedIn(p)
  BY TogetherOwes DEF List, ProjectList
<1>4. /\ b \in Seq(SUBSET List) /\ b # <<>> /\ ProjectList \subseteq OwedIn(b)
      /\ s \in Sprint => s \in OwedIn(b)
  BY <1>3, SprintOwes
<1> HIDE DEF b
<1>5. BoardInv'
  <2>1. Absent.key = 0 /\ req[r].op # "status" BY <1>1 DEF Absent
  <2>2. Changed(rows) \cap ProjectList \subseteq OwedIn(b) BY <1>4
  <2>3. Absent \in Row \cup {Absent} OBVIOUS
  <2> QED BY <1>1, <1>2, <1>4, <2>1, <2>2, <2>3, WriteTaskKeeps
<1>6. Stales
  <2>1. Write(r, rows, "bust", b) BY <1>1 DEF WriteTask
  <2>2. ASSUME watched \in Changed(rows) \ ProjectList
        PROVE  \/ watched \in OwedIn(b)
               \/ watched \in Sprint /\ req[r].outdated
               \/ watched \in User /\ Members(watched, rows) \subseteq Members(watched, task)
    <3>1. /\ watched \in List \ {"project"} /\ watched \in Sprint \cup User
          /\ Members(watched, rows) # Members(watched, task)
      BY <2>2 DEF Changed, List, ProjectList
    <3>2. CASE watched \in User BY <1>2, <3>1, <3>2, Removed
    <3>3. CASE watched \in Sprint /\ ~req[r].outdated
      <4>1. req[r].read = task[t] BY <1>1, <1>2, <3>3 DEF Current
      <4>2. task[t].sprint = watched BY <1>2, <3>1, <3>3, Removed
      <4> QED BY <1>4, <3>3, <4>1, <4>2
    <3> QED BY <3>1, <3>2, <3>3
  <2> HIDE DEF rows
  <2> QED BY <1>1, <1>4, <2>1, <2>2, WriteStales
<1> QED BY <1>5, <1>6

LEMMA ReorderTasksKeeps ==
  ASSUME BoardInv, NEW r \in Req, ReorderTasks(r), watched' = watched
  PROVE  BoardInv' /\ Stales
<1> DEFINE b == <<{"project"}>>
<1>1. /\ req[r].pc = "write" /\ req[r].op = "reorder" /\ Write(r, task, "first", b)
      /\ UNCHANGED <<completed, raced>>
  BY DEF ReorderTasks, At
<1>2. /\ task \in Rows /\ awards \in [Task -> Nat] /\ completed \in [Task -> Nat] /\ Apart(task)
      /\ \A t \in Task : completed[t] \in Nat
  BY DEF BoardInv, TypeOK, KeysDistinct, Apart, Exists
<1>3. /\ b \in Seq(SUBSET List) /\ b # <<>> /\ OwedIn(b) = {"project"}
  BY TogetherOwes DEF List, ProjectList
<1>4. Changed(task) \cap ProjectList \subseteq OwedIn(b) BY <1>3 DEF Changed
<1>5. Covered'
  <2>1. "first" \in Pc BY DEF Pc
  <2>2. \A t \in Task : completed[t] <= completed'[t] BY <1>1, <1>2
  <2> HIDE DEF b
  <2> QED BY <1>1, <1>2, <1>3, <2>1, <2>2, WriteCovered
<1>6. TypeOK' /\ Shapes' /\ Currents' /\ ProjectListsRecover' /\ KeysDistinct'
  <2>1. b = <<{"project"}>> OBVIOUS
  <2> HIDE DEF b
  <2> QED BY <1>1, <1>2, <1>3, <1>4, <2>1, WriteStep
<1>7. Stales
  <2>1. task' = task BY <1>1 DEF Write
  <2> QED BY <2>1, SameTaskStales
<1> QED BY <1>5, <1>6, <1>7 DEF BoardInv

\* One task more, with a number no other has unless it was overtaken.
LEMMA CreateTaskKeeps ==
  ASSUME BoardInv, NEW r \in Req, NEW t \in Task, CreateTask(r, t), watched' = watched
  PROVE  BoardInv' /\ Stales
<1> DEFINE d == req[r].dto
           row == [key |-> req[r].number, status |-> IF d.status = Keep THEN "todo" ELSE d.status,
                   sprint |-> IF d.sprint = Keep THEN None ELSE d.sprint,
                   assignee |-> IF d.assignee = Keep THEN None ELSE d.assignee,
                   crossed |-> req[r].outdated]
           rows == [task EXCEPT ![t] = row]
           p == <<{"project"}, {"backlog"}>>
           b == p \o (IF d.sprint \in Sprint THEN <<{d.sprint}>> ELSE <<>>)
<1>1. /\ req[r].pc = "write" /\ req[r].op = "create" /\ ~Exists(t)
      /\ Write(r, rows, "bust", b) /\ UNCHANGED <<completed, raced>>
  BY DEF CreateTask, At
<1>2. /\ task \in Rows /\ awards \in [Task -> Nat] /\ completed \in [Task -> Nat] /\ Apart(task)
      /\ req[r] \in Request /\ Shape(req[r]) /\ Current(req[r], task)
      /\ \A u \in Task : completed[u] \in Nat
  BY DEF BoardInv, TypeOK, KeysDistinct, Apart, Exists, Shapes, Currents
<1>3. /\ row \in Row /\ row.key = req[r].number /\ row.crossed = req[r].outdated
      /\ row.sprint = IF d.sprint = Keep THEN None ELSE d.sprint
  <2>1. d \in Dto /\ req[r].number \in Nat \ {0} /\ req[r].outdated \in BOOLEAN
    BY <1>1, <1>2 DEF Request, Shape
  <2>2. "todo" \in Status BY DEF Status
  <2> HIDE DEF d
  <2> QED BY <2>1, <2>2 DEF Row, Dto
<1>4. /\ p \in Seq(SUBSET List) /\ p # <<>> /\ ProjectList \subseteq OwedIn(p)
  <2>1. /\ <<{"project"}>> \in Seq(SUBSET List) /\ OwedIn(<<{"project"}>>) = {"project"}
        /\ <<{"backlog"}>> \in Seq(SUBSET List) /\ OwedIn(<<{"backlog"}>>) = {"backlog"}
    BY TogetherOwes DEF List, ProjectList
  <2>2. p = <<{"project"}>> \o <<{"backlog"}>> OBVIOUS
  <2> DEFINE x == <<{"project"}>>
             y == <<{"backlog"}>>
  <2>3. OwedIn(x \o y) = {"project"} \cup {"backlog"}
    <3> HIDE DEF x, y
    <3>1. /\ x \in Seq(SUBSET List) /\ OwedIn(x) = {"project"}
          /\ y \in Seq(SUBSET List) /\ OwedIn(y) = {"backlog"}
      BY <2>1 DEF x, y
    <3> QED BY <3>1, OwedConcat
  <2>4. p \in Seq(SUBSET List) /\ p # <<>> BY DEF List, ProjectList
  <2> QED BY <2>2, <2>3, <2>4 DEF ProjectList
<1> HIDE DEF row, p
<1>5. /\ b \in Seq(SUBSET List) /\ b # <<>> /\ ProjectList \subseteq OwedIn(b)
      /\ d.sprint \in Sprint => d.sprint \in OwedIn(b)
  BY <1>4, SprintOwes
<1> HIDE DEF b
<1>6. /\ rows \in Rows /\ rows[t] = row /\ \A u \in Task \ {t} : rows[u] = task[u]
  BY <1>2, <1>3 DEF Rows
<1> HIDE DEF rows
<1>7. task[t].key = 0 /\ \A u \in Task : task[u].key \in Nat
  BY <1>1, <1>2, ExistingRow DEF Exists
<1>8. Apart(rows)
  <2>1. \A u \in Task : row.crossed \/ task[u].key < row.key
    BY <1>1, <1>2, <1>3 DEF Current
  <2>2. row.key \in Nat BY <1>3 DEF Row
  <2>3. \A u \in Task \ {t} : row.crossed \/ rows[u].key # row.key
    BY <1>6, <1>7, <2>1, <2>2
  <2> SUFFICES ASSUME NEW u \in Task, NEW v \in Task,
                      rows[u].key # 0, rows[u].key = rows[v].key
               PROVE  u = v \/ rows[u].crossed \/ rows[v].crossed
    BY DEF Apart
  <2>4. CASE u # t /\ v # t BY <1>2, <1>6, <2>4 DEF Apart
  <2>5. CASE u = t \/ v = t BY <1>6, <2>3, <2>5
  <2> QED BY <2>4, <2>5
<1>9. Covered'
  <2>1. "bust" \in Pc BY DEF Pc
  <2>2. \A u \in Task : completed[u] <= completed'[u] BY <1>1, <1>2
  <2> QED BY <1>1, <1>2, <1>5, <2>1, <2>2, WriteCovered
<1>10. TypeOK' /\ Shapes' /\ Currents' /\ ProjectListsRecover' /\ KeysDistinct'
  <2>1. \A u \in Task : Exists(u) => rows[u].key \in {0, task[u].key}
    BY <1>1, <1>6
  <2> QED BY <1>1, <1>2, <1>5, <1>6, <1>8, <2>1, WriteStep
<1>11. Stales
  <2>1. ASSUME watched \in Changed(rows) \ ProjectList
        PROVE  watched \in OwedIn(b) \/ watched \in User
    <3>1. watched \in Sprint \cup User /\ Members(watched, rows) # Members(watched, task)
      BY <2>1 DEF Changed, List, ProjectList
    <3>2. CASE watched \in Sprint
      <4>1. watched # "backlog" /\ watched \notin User /\ watched # None
        BY <3>2, TaskBoardAssumption
      <4>2. \A x : Members(watched, x) = {u \in Task : x[u].key # 0 /\ x[u].sprint = watched}
        BY <3>2, <4>1 DEF Members
      <4>3. row.sprint = watched
        <5>1. SUFFICES ASSUME row.sprint # watched PROVE Members(watched, rows) = Members(watched, task)
          BY <3>1
        <5>2. \A u \in Task : rows[u].key # 0 /\ rows[u].sprint = watched <=>
                               task[u].key # 0 /\ task[u].sprint = watched
          BY <1>6, <1>7, <5>1
        <5> QED BY <4>2, <5>2
      <4>4. d.sprint = watched BY <1>3, <4>1, <4>3
      <4> QED BY <1>5, <3>2, <4>4
    <3> QED BY <3>1, <3>2
  <2> QED BY <1>1, <1>5, <2>1, WriteStales
<1> QED BY <1>9, <1>10, <1>11 DEF BoardInv

-----------------------------------------------------------------------------
(* All steps.                                                              *)

LEMMA RoutesKeep ==
  ASSUME BoardInv, NEW r \in Req, Routes(r), watched' = watched
  PROVE  BoardInv' /\ Stales
<1>1. task' = task
  BY DEF Routes, CreateRequest, UpdateRequest, DeleteRequest, AssignRequest, UnassignRequest,
         StatusRequest, MoveRequest, ReorderRequest, Begin, Lookup
<1>2. NoDto \in Dto /\ NoDto.sprint = Keep /\ NoDto.assignee = Keep BY NoBody DEF NoDto
<1>3. ASSUME NEW dto \in Posts, CreateRequest(r, dto) PROVE BoardInv'
  <2>1. dto \in Dto BY TaskBoardAssumption
  <2> QED BY <1>3, <2>1, BeginKeeps DEF CreateRequest, Asked, Op
<1>4. ASSUME NEW t \in Task, NEW dto \in Puts, UpdateRequest(r, t, dto) PROVE BoardInv'
  <2>1. dto \in Dto BY TaskBoardAssumption
  <2> QED BY <1>4, <2>1, BeginKeeps DEF UpdateRequest, Asked, Op
<1>5. ASSUME NEW t \in Task, DeleteRequest(r, t) PROVE BoardInv'
  BY <1>2, <1>5, BeginKeeps DEF DeleteRequest, Asked, Op
<1>6. ASSUME NEW t \in Task, ReorderRequest(r, t) PROVE BoardInv'
  BY <1>2, <1>6, BeginKeeps DEF ReorderRequest, Asked, Op
<1>7. ASSUME NEW t \in Task, NEW u \in User, AssignRequest(r, t, u) PROVE BoardInv'
  <2> DEFINE dto == [NoDto EXCEPT !.assignee = u]
  <2>1. dto \in Dto /\ dto.sprint = Keep /\ dto.assignee = u BY NoBody DEF NoDto
  <2>2. Begin(r, "assign", t, dto, "write") BY <1>7 DEF AssignRequest
  <2> HIDE DEF dto
  <2> QED BY <2>1, <2>2, BeginKeeps DEF Asked, Op
<1>8. ASSUME NEW t \in Task, UnassignRequest(r, t) PROVE BoardInv'
  <2> DEFINE dto == [NoDto EXCEPT !.assignee = None]
  <2>1. dto \in Dto /\ dto.sprint = Keep /\ dto.assignee = None BY NoBody DEF NoDto
  <2>2. Begin(r, "unassign", t, dto, "write") BY <1>8 DEF UnassignRequest
  <2> HIDE DEF dto
  <2> QED BY <2>1, <2>2, BeginKeeps DEF Asked, Op
<1>9. ASSUME NEW t \in Task, NEW x \in Status, StatusRequest(r, t, x) PROVE BoardInv'
  <2> DEFINE dto == [NoDto EXCEPT !.status = x]
  <2>1. dto \in Dto /\ dto.sprint = Keep /\ dto.assignee = Keep BY NoBody DEF NoDto
  <2>2. Begin(r, "status", t, dto, "read") BY <1>9 DEF StatusRequest
  <2> HIDE DEF dto
  <2> QED BY <2>1, <2>2, BeginKeeps DEF Asked, Op
<1>10. ASSUME NEW t \in Task, NEW s \in Sprint \cup {None}, MoveRequest(r, t, s) PROVE BoardInv'
  <2> DEFINE dto == [NoDto EXCEPT !.sprint = s]
  <2>1. dto \in Dto /\ dto.assignee = Keep BY NoBody DEF NoDto
  <2>2. Begin(r, "move", t, dto, "read") BY <1>10 DEF MoveRequest
  <2> HIDE DEF dto
  <2> QED BY <2>1, <2>2, BeginKeeps DEF Asked, Op
<1>11. BoardInv' BY <1>3, <1>4, <1>5, <1>6, <1>7, <1>8, <1>9, <1>10, LookupKeeps DEF Routes
<1> QED BY <1>1, <1>11, SameTaskStales

LEMMA StepsKeep ==
  ASSUME BoardInv, NEW r \in Req, Steps(r), watched' = watched
  PROVE  BoardInv' /\ Stales
<1>1. CASE LoadTask(r)
  <2>1. task' = task BY <1>1 DEF LoadTask
  <2> QED BY <1>1, <2>1, LoadTaskKeeps, SameTaskStales
<1>2. CASE GenerateTaskKey(r)
  <2>1. task' = task BY <1>2 DEF GenerateTaskKey
  <2> QED BY <1>2, <2>1, GenerateTaskKeyKeeps, SameTaskStales
<1>3. CASE Missing(r)
  <2>1. task' = task BY <1>3 DEF Missing
  <2> QED BY <1>3, <2>1, MissingKeeps, SameTaskStales
<1>4. CASE FirstTask(r)
  <2>1. task' = task BY <1>4 DEF FirstTask
  <2> QED BY <1>4, <2>1, FirstTaskKeeps, SameTaskStales
<1>5. CASE DelPatterns(r)
  <2>1. task' = task BY <1>5 DEF DelPatterns
  <2> QED BY <1>5, <2>1, DelPatternsKeeps, SameTaskStales
<1>6. CASE AwardPoints(r)
  <2>1. task' = task BY <1>6 DEF AwardPoints
  <2> QED BY <1>6, <2>1, AwardPointsKeeps, SameTaskStales
<1>7. CASE Query(r)
  <2>1. task' = task BY <1>7 DEF Query
  <2> QED BY <1>7, <2>1, QueryKeeps, SameTaskStales
<1>8. CASE StoreList(r)
  <2>1. task' = task BY <1>8 DEF StoreList
  <2> QED BY <1>8, <2>1, StoreListKeeps, SameTaskStales
<1> QED BY <1>1, <1>2, <1>3, <1>4, <1>5, <1>6, <1>7, <1>8, CreateTaskKeeps, UpdateTaskKeeps,
          DeleteTaskKeeps, AssignTaskKeeps, UnassignTaskKeeps, UpdateStatusKeeps,
          MoveToSprintKeeps, ReorderTasksKeeps DEF Steps

LEMMA NextKeeps == BoardInv /\ [Next /\ UNCHANGED watched]_vars => BoardInv' /\ Stales
<1> SUFFICES ASSUME BoardInv, [Next /\ UNCHANGED watched]_vars PROVE BoardInv' /\ Stales
  OBVIOUS
<1>1. CASE Next /\ watched' = watched
  <2>1. ASSUME NEW r \in Req, NEW l \in List, DelFails(r, l) PROVE BoardInv' /\ Stales
    <3>1. task' = task BY <2>1 DEF DelFails
    <3> QED BY <1>1, <2>1, <3>1, DelFailsKeeps, SameTaskStales
  <2>2. CASE ExpireList
    <3>1. task' = task BY <2>2 DEF ExpireList
    <3> QED BY <1>1, <2>2, <3>1, ExpireListKeeps, SameTaskStales
  <2>3. CASE Crash
    <3>1. task' = task BY <2>3 DEF Crash
    <3> QED BY <1>1, <2>3, <3>1, CrashKeeps, SameTaskStales
  <2> QED BY <1>1, <2>1, <2>2, <2>3, RoutesKeep, StepsKeep DEF Next
<1>2. CASE UNCHANGED vars
  <2>1. /\ UNCHANGED <<task, watched, cache, req, excused>>
        /\ UNCHANGED <<awards, completed, raced>>
    BY <1>2 DEF vars, points
  <2>2. TypeOK' BY <2>1 DEF BoardInv, TypeOK
  <2>3. Shapes' /\ Currents' BY <2>1 DEF BoardInv, Shapes, Currents
  <2>4. Covered' BY <2>1 DEF BoardInv, Covered, Payers
  <2>5. ProjectListsRecover' BY <2>1 DEF BoardInv, ProjectListsRecover, Owed
  <2>6. KeysDistinct' BY <2>1 DEF BoardInv, KeysDistinct, Exists
  <2> QED BY <2>1, <2>2, <2>3, <2>4, <2>5, <2>6, SameTaskStales DEF BoardInv
<1> QED BY <1>1, <1>2

LEMMA InitHolds == Init => BoardInv
<1> SUFFICES ASSUME Init PROVE BoardInv OBVIOUS
<1>1. /\ task \in Boards /\ watched \in List /\ cache = "absent" /\ excused = FALSE
      /\ req = [r \in Req |-> Idle]
      /\ awards = [t \in Task |-> 0] /\ completed = [t \in Task |-> 0]
  BY DEF Init
<1>2. task \in Rows BY <1>1, TaskBoardAssumption DEF Rows
<1>3. TypeOK BY <1>1, <1>2, IdleOK DEF TypeOK
<1>4. Shapes /\ Currents BY <1>1, IdleOK DEF Shapes, Currents
<1>5. Covered
  <2>1. \A t \in Task : Payers(t) = {} BY <1>1, IdleOK DEF Payers
  <2>2. \A t \in Task : Cardinality(Payers(t)) = 0 BY <2>1, FS_EmptySet
  <2> QED BY <1>1, <2>2 DEF Covered
<1>6. ProjectListsRecover BY <1>1 DEF ProjectListsRecover
<1>7. KeysDistinct BY <1>1, TaskBoardAssumption DEF KeysDistinct, Exists
<1> QED BY <1>3, <1>4, <1>5, <1>6, <1>7 DEF BoardInv

-----------------------------------------------------------------------------
(* Theorems.                                                               *)

LEMMA Kept == Spec => []BoardInv
<1>1. BoardInv /\ [Next /\ UNCHANGED watched]_vars => BoardInv' BY NextKeeps
<1> QED BY <1>1, InitHolds, PTL DEF Spec

\* The project's list and its backlog are out of date only while the request
\* that changed them is still to delete them, or with an excuse the code has:
\* a reader that stored an older answer, a deletion that failed, a reorder
\* whose first task had gone.
THEOREM ListsRecover == Spec => []ProjectListsRecover
<1>1. BoardInv => ProjectListsRecover BY DEF BoardInv
<1> QED BY <1>1, Kept, PTL

\* generateTaskKey gives two tasks one key only if an insertion came between
\* its choice of the key and its own.
THEOREM KeysApart == Spec => []KeysDistinct
<1>1. BoardInv => KeysDistinct BY DEF BoardInv
<1> QED BY <1>1, Kept, PTL

\* updateStatus awards points no more often than a task was completed, unless
\* the task was written between its read and its write.
THEOREM AwardsEarned == Spec => []AwardsMatchCompletions
<1>1. BoardInv => AwardsMatchCompletions
  <2> SUFFICES ASSUME BoardInv, NEW t \in Task
               PROVE  awards[t] <= completed[t] \/ t \in raced
    BY DEF AwardsMatchCompletions
  <2> DEFINE n == Cardinality(Payers(t))
  <2>1. n \in Nat /\ awards[t] \in Nat /\ completed[t] \in Nat
    BY FinitePayers DEF BoardInv, TypeOK
  <2>2. awards[t] + n <= completed[t] \/ t \in raced BY DEF BoardInv, Covered
  <2> HIDE DEF n
  <2> QED BY <2>1, <2>2
<1> QED BY <1>1, Kept, PTL

\* A write that puts a cached list of a sprint or of an assignee out of date
\* goes on to delete it, but for the gaps the property names.
THEOREM StalesDeleted == Spec => StaleListsAreDeleted
<1>1. BoardInv /\ [Next /\ UNCHANGED watched]_vars => [Stales]_vars BY NextKeeps
<1>2. Spec => [][Stales]_vars BY <1>1, Kept, PTL DEF Spec
<1> QED BY <1>2, PTL DEF StaleListsAreDeleted, Stales
=============================================================================

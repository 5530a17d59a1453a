------------------------------- MODULE MCBoard -------------------------------
(* Instances of TaskBoard for TLC. *)
EXTENDS TaskBoard, TLC

CONSTANTS t1, s1, u1

T1(s) == [key |-> 1, status |-> "todo", sprint |-> s, assignee |-> u1, crossed |-> FALSE]
MCBoards == {[t \in Task |-> IF t = t1 THEN T1(s) ELSE Absent] : s \in {s1}}
MCPosts == {NoDto, [NoDto EXCEPT !.status = "done"]}
           \cup {[NoDto EXCEPT !.sprint = s, !.assignee = a] : s \in Sprint, a \in User \cup {Keep}}
MCPuts == {[NoDto EXCEPT !.sprint = s] : s \in Sprint \cup {Null}}
          \cup {[NoDto EXCEPT !.assignee = u] : u \in User}
          \cup {[NoDto EXCEPT !.status = x] : x \in Status}
Symmetric == Permutations(Req)
=============================================================================

------------------------------- MODULE Names -------------------------------
(***************************************************************************)
(* Rows with a name that may occur once: the labels of a project           *)
(* (LabelsService), and the saved replies of a user with their shortcuts   *)
(* (ChatService).  Both look for the name and write later; only the saved  *)
(* replies have a unique index, that of the labels is commented out.       *)
(***************************************************************************)
EXTENDS Naturals

CONSTANTS
  Req, Document, Name, None,
  MaxCalls   \* bound on requests

VARIABLES
  kind,      \* "label" or "savedReply"
  name,      \* the names of the rows there are
  req,       \* [op, at, row, name]; at is idle, look, or write
  calls,
  \* history
  crossed    \* rows whose name was written though another wrote that row or name since the look

vars == <<kind, name, req, calls, crossed>>

Idle == [op |-> None, at |-> "idle", row |-> None, name |-> None, outdated |-> FALSE]
Init ==
  /\ kind \in {"label", "savedReply"} /\ name = [x \in Document |-> None]
  /\ req = [r \in Req |-> Idle] /\ calls = 0 /\ crossed = {}

Existing == {x \in Document : name[x] # None}
Bearers(n) == {x \in Existing : name[x] = n}
At(r, op, at) == req[r].op = op /\ req[r].at = at
Done(r) == req' = [req EXCEPT ![r] = Idle]
Kept == UNCHANGED <<kind, name, crossed>>

Request(r) ==
  /\ req[r].at = "idle" /\ calls < MaxCalls /\ calls' = calls + 1
  /\ \/ \E n \in Name : req' = [req EXCEPT ![r] = [Idle EXCEPT !.op = "create", !.at = "look", !.name = n]]
     \* A name that is the one the row was read with is not looked for.
     \/ \E x \in Existing, n \in Name :
          req' = [req EXCEPT ![r] = [Idle EXCEPT !.op = "update", !.at = IF n = name[x] THEN "write" ELSE "look",
                                                 !.row = x, !.name = n]]
     \/ \E x \in Existing : req' = [req EXCEPT ![r] = [Idle EXCEPT !.op = "delete", !.at = "write", !.row = x]]
  /\ Kept

\* Mutant: an update that renames does not look.
FindNameOfNew(r) ==
  /\ req[r].at = "look"
  /\ IF req[r].op = "create" /\ Bearers(req[r].name) # {} THEN Done(r) ELSE req' = [req EXCEPT ![r].at = "write"]
  /\ calls' = calls /\ Kept
\* The row itself does not count for an update: it had another name when it was read.
FindName(r) ==
  /\ req[r].at = "look"
  /\ IF Bearers(req[r].name) \ (IF kind = "label" THEN {req[r].row} ELSE {}) # {} THEN Done(r)
     ELSE req' = [req EXCEPT ![r].at = "write"]
  /\ calls' = calls /\ Kept

\* Row x gets the name of r's request, if the index lets it.
Write(r, x) ==
  LET n == req[r].name
      refused == kind = "savedReply" /\ Bearers(n) \ {x} # {}
  IN /\ name' = IF refused THEN name ELSE [name EXCEPT ![x] = n]
     /\ crossed' = IF refused \/ name[x] = n THEN crossed
                   ELSE IF req[r].outdated THEN crossed \cup {x} ELSE crossed \ {x}
     /\ req' = [q \in Req |-> IF q = r \/ req[q].at = "idle" THEN Idle
                              ELSE [req[q] EXCEPT !.outdated =
                                      @ \/ (~refused /\ req[q].at = "write" /\ (req[q].name = n \/ req[q].row = x))]]
     /\ UNCHANGED <<kind, calls>>
Create(r) == At(r, "create", "write") /\ \E x \in Document \ Existing : (\A q \in Req : req[q].row # x) /\ Write(r, x)
Update(r) ==
  /\ At(r, "update", "write")
  /\ IF req[r].row \in Existing THEN Write(r, req[r].row) ELSE Done(r) /\ calls' = calls /\ Kept
Delete(r) ==
  /\ At(r, "delete", "write")
  /\ name' = [name EXCEPT ![req[r].row] = None] /\ crossed' = crossed \ {req[r].row}
  /\ Done(r) /\ UNCHANGED <<kind, calls>>

Next == \E r \in Req : Request(r) \/ FindName(r) \/ Create(r) \/ Update(r) \/ Delete(r)
Spec == Init /\ [][Next]_vars

-----------------------------------------------------------------------------
\* No two rows bear a name, except two labels of which one got its name from a
\* request that looked before another wrote that name or that row.
NamesDistinct ==
  \A x, y \in Existing : x # y /\ name[x] = name[y] => kind = "label" /\ {x, y} \cap crossed # {}
=============================================================================

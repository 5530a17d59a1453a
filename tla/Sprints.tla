------------------------------ MODULE Sprints -------------------------------
(***************************************************************************)
(* The sprints of one project: SprintsService over MongoDB.  Every         *)
(* operation reads, checks, and writes later by id alone; no index and no  *)
(* condition in the write repeats the check.  Dates are moments of a small *)
(* clock that stands at Now.                                               *)
(***************************************************************************)
EXTENDS Naturals

CONSTANTS
  Req,        \* request slots
  Sprint,     \* sprint ids
  Now, Last,  \* the current moment, the last one
  None,
  MaxCalls    \* bound on the requests

ASSUME SprintsAssumption == Now \in 0..Last

VARIABLES
  sprint,     \* MongoDB: the sprints collection
  req,        \* the requests in flight
  calls,
  \* history
  unchecked,  \* ACTIVE by a PUT, or by a start whose check was outdated
  skewed      \* dates set by start, close, or a PUT whose read was outdated

vars == <<sprint, req, calls, unchecked, skewed>>

Date         == 0..Last \cup {None}
SprintStatus == {"planning", "active", "closed"}
Row          == [status: SprintStatus \cup {"none"}, start: Date, end: Date]
NoSprint     == [status |-> "none", start |-> None, end |-> None]

\* read: the document loaded; body: the fields of PUT, None when left out;
\* outdated (history): the document, or who is ACTIVE, changed since.
Body    == [status: SprintStatus \cup {None}, start: Date, end: Date]
NoBody  == [status |-> None, start |-> None, end |-> None]
Request == [pc: {"idle", "active", "start", "close", "put", "delete"}, sprint: Sprint \cup {None},
            read: Row, body: Body, outdated: BOOLEAN]
Idle    == [pc |-> "idle", sprint |-> None, read |-> NoSprint, body |-> NoBody, outdated |-> FALSE]

Init ==
  /\ sprint = [s \in Sprint |-> NoSprint]
  /\ req = [r \in Req |-> Idle]
  /\ calls = 0 /\ unchecked = {} /\ skewed = {}

Exists(s)  == sprint[s].status # "none"
Active(s)  == sprint[s].status = "active"
InOrder(a, b) == a # None /\ b # None => a < b
Or(a, b)   == IF a # None THEN a ELSE b

\* findById and the checks on what it found.
Load(r, s, l, body) ==
  /\ req[r].pc = "idle" /\ calls < MaxCalls /\ calls' = calls + 1
  /\ req' = [req EXCEPT ![r] = [pc |-> l, sprint |-> s, read |-> sprint[s], body |-> body, outdated |-> FALSE]]
  /\ UNCHANGED <<sprint, unchecked, skewed>>

\* The document of r's sprint becomes row, if it is still there.
Write(r, row) ==
  LET s == req[r].sprint
      new == IF Exists(s) THEN row ELSE sprint[s] IN
  /\ sprint' = [sprint EXCEPT ![s] = new]
  /\ req' = [q \in Req |-> IF q = r THEN Idle
       ELSE [req[q] EXCEPT !.outdated = @ \/ (new # sprint[s] /\ (req[q].sprint = s \/
               (req[q].pc = "start" /\ new.status = "active" /\ ~Active(s))))]]
  /\ unchecked' = IF new.status # "active" THEN unchecked \ {s}
                  ELSE IF ~Active(s) /\ (req[r].pc = "put" \/ req[r].outdated) THEN unchecked \cup {s}
                  ELSE unchecked
  /\ skewed' = IF <<new.start, new.end>> = <<sprint[s].start, sprint[s].end>> THEN skewed
               ELSE IF req[r].pc # "put" \/ req[r].outdated THEN skewed \cup {s} ELSE skewed \ {s}
  /\ UNCHANGED calls

\* A new sprint has a new id: not that of a sprint a request still knows of.
CreateSprint(r, s, a, b) ==
  /\ req[r].pc = "idle" /\ calls < MaxCalls /\ calls' = calls + 1
  /\ ~Exists(s) /\ InOrder(a, b) /\ s \notin {req[q].sprint : q \in Req}
  /\ sprint' = [sprint EXCEPT ![s] = [status |-> "planning", start |-> a, end |-> b]]
  /\ skewed' = skewed \ {s}
  /\ UNCHANGED <<req, unchecked>>

\* PUT: the dates are checked against those read, the status against nothing.
UpdateSprint(r, s, body) ==
  /\ Exists(s) /\ InOrder(Or(body.start, sprint[s].start), Or(body.end, sprint[s].end))
  /\ Load(r, s, "put", body)
\* Only the fields of the body are written.
WritePut(r) ==
  LET s == req[r].sprint IN
  /\ req[r].pc = "put"
  /\ Write(r, [status |-> Or(req[r].body.status, sprint[s].status),
               start |-> Or(req[r].body.start, sprint[s].start),
               end |-> Or(req[r].body.end, sprint[s].end)])

\* Mutants: any sprint may be started; no look for an ACTIVE sprint.
StartSprintAny(r, s)   == Exists(s) /\ Load(r, s, "active", NoBody)
StartSprintAlone(r, s) == sprint[s].status = "planning" /\ Load(r, s, "start", NoBody)

StartSprint(r, s) == sprint[s].status = "planning" /\ Load(r, s, "active", NoBody)

\* getActiveSprint of the project.
CheckActive(r) ==
  /\ req[r].pc = "active"
  /\ req' = [req EXCEPT ![r] = IF \E s \in Sprint : Active(s) THEN Idle ELSE [@ EXCEPT !.pc = "start"]]
  /\ UNCHANGED <<sprint, calls, unchecked, skewed>>

\* The start date is stamped when the document read had none.
WriteStart(r) ==
  LET s == req[r].sprint IN
  /\ req[r].pc = "start"
  /\ Write(r, [sprint[s] EXCEPT !.status = "active", !.start = IF req[r].read.start = None THEN Now ELSE @])

CloseSprint(r, s) == Active(s) /\ Load(r, s, "close", NoBody)

WriteClose(r) ==
  LET s == req[r].sprint IN
  /\ req[r].pc = "close"
  /\ Write(r, [sprint[s] EXCEPT !.status = "closed", !.end = IF req[r].read.end = None THEN Now ELSE @])

DeleteSprint(r, s) == Exists(s) /\ ~Active(s) /\ Load(r, s, "delete", NoBody)
WriteDelete(r) == req[r].pc = "delete" /\ Write(r, NoSprint)

Next ==
  \E r \in Req :
    \/ \E s \in Sprint :
         \/ \E a, b \in Date : CreateSprint(r, s, a, b)
         \/ \E x \in SprintStatus \cup {None}, a, b \in Date :
              UpdateSprint(r, s, [status |-> x, start |-> a, end |-> b])
         \/ StartSprint(r, s) \/ CloseSprint(r, s) \/ DeleteSprint(r, s)
    \/ CheckActive(r) \/ WritePut(r) \/ WriteStart(r) \/ WriteClose(r) \/ WriteDelete(r)

Spec == Init /\ [][Next]_vars

-----------------------------------------------------------------------------
(* Properties.                                                             *)

\* "There is already an active sprint ... Close it before starting a new
\* one": of two ACTIVE sprints one was made so by a PUT, which does not look,
\* or by a start that looked before the other was started.
OneActive ==
  \A s, t \in Sprint : Active(s) /\ Active(t) => s = t \/ s \in unchecked \/ t \in unchecked

\* "End date must be after start date": unless start or close stamped the
\* present, or a PUT compared with a date that was replaced meanwhile.
DatesInOrder ==
  \A s \in Sprint : InOrder(sprint[s].start, sprint[s].end) \/ s \in skewed

SprintRules == OneActive /\ DatesInOrder

\* A sprint goes from planning to active to closed, and is not deleted while
\* active; a step that breaks this is a PUT or one whose read is outdated.
SprintLifecycle ==
  [][\A s \in Sprint :
       sprint'[s].status # sprint[s].status =>
         \/ <<sprint[s].status, sprint'[s].status>> \in
              {<<"none", "planning">>, <<"planning", "active">>, <<"active", "closed">>,
               <<"planning", "none">>, <<"closed", "none">>}
         \/ \E r \in Req : req[r].sprint = s /\ (req[r].pc = "put" \/ req[r].outdated)]_vars
=============================================================================

---------------------------- MODULE FeatureFlags ----------------------------
(***************************************************************************)
(* FeatureFlagService, of one flag: its document, the requests that change *)
(* it, what the room feature-flags is told of it, and what it says to a    *)
(* user.  The key is unique in the collection; a create whose key has      *)
(* spaces looks for the key as given and inserts the normalised one.       *)
(*                                                                         *)
(* An update is one write.  A toggle reads and saves; enable, disable and  *)
(* toggle broadcast when the answer to their write is back, in any order.  *)
(***************************************************************************)
EXTENDS Naturals

CONSTANTS
  Req, User, None,
  Full,        \* 100: the buckets of hashUserToBucket, and the largest percentage
  MaxRequests  \* bound on requests that change the flag

VARIABLES
  flag,      \* the document, or None
  bucket,    \* hashUserToBucket
  req,       \* [op, at, value]; at is idle, find, write or broadcast
  told,      \* the last value told to the room
  requests,
  \* history
  silent,    \* enabled was changed by a request that tells nobody
  overtaken  \* the last broadcast told of a write that another one has followed

vars == <<flag, bucket, req, told, requests, silent, overtaken>>

FlagType == {"boolean", "percentage", "users"}
Idle == [op |-> None, at |-> "idle", value |-> FALSE, last |-> FALSE]
NewFlag == [enabled : {FALSE}, type : FlagType, percentage : 0..Full, userIds : SUBSET User]

Init ==
  /\ flag = None /\ bucket \in [User -> 1..Full]
  /\ req = [r \in Req |-> Idle] /\ told = FALSE /\ requests = 0
  /\ silent = FALSE /\ overtaken = FALSE

Set(r, q)   == req' = [req EXCEPT ![r] = q]
\* r's write is the last one; the others' no longer is.
Wrote(r, v) == req' = [q \in Req |-> IF q = r THEN [req[r] EXCEPT !.at = "broadcast", !.value = v, !.last = TRUE]
                                     ELSE [req[q] EXCEPT !.last = FALSE]]
WroteSilently(q) == req' = [x \in Req |-> IF x = q THEN Idle ELSE [req[x] EXCEPT !.last = FALSE]]

\* Toggle and create look the flag up first; the rest go to their write.
Request(r, op) ==
  /\ req[r].at = "idle" /\ requests < MaxRequests /\ requests' = requests + 1
  /\ Set(r, [Idle EXCEPT !.op = op, !.at = IF op \in {"toggle", "create", "createSpaced"} THEN "find" ELSE "write"])
  /\ UNCHANGED <<flag, bucket, told, silent, overtaken>>

\* create and seedDefaults: a key with spaces is never found.
FindForCreate(r) ==
  /\ req[r].at = "find" /\ req[r].op \in {"create", "createSpaced"}
  /\ Set(r, IF flag # None /\ req[r].op = "create" THEN Idle ELSE [req[r] EXCEPT !.at = "write"])
  /\ UNCHANGED <<flag, bucket, told, requests, silent, overtaken>>
\* The unique index refuses a second flag.
Create(r) ==
  /\ req[r].at = "write" /\ req[r].op \in {"create", "createSpaced"}
  /\ IF flag # None THEN Set(r, Idle) /\ UNCHANGED <<flag, silent>>
     ELSE flag' \in NewFlag /\ WroteSilently(r) /\ silent' = (silent \/ told)
  /\ UNCHANGED <<bucket, told, requests, overtaken>>

\* PUT: of its fields, the two that an evaluation depends on most; nobody is told.
Update(r) ==
  /\ req[r].at = "write" /\ req[r].op = "put"
  /\ IF flag = None THEN Set(r, Idle) /\ UNCHANGED <<flag, silent>>
     ELSE /\ \E v \in BOOLEAN, p \in {flag.percentage, Full} : flag' = [flag EXCEPT !.enabled = v, !.percentage = p]
          /\ WroteSilently(r)
          /\ silent' = (silent \/ flag'.enabled # flag.enabled)
  /\ UNCHANGED <<bucket, told, requests, overtaken>>

Delete(r) ==
  /\ req[r].at = "write" /\ req[r].op = "delete"
  /\ flag' = None /\ WroteSilently(r)
  /\ silent' = (silent \/ (flag # None /\ flag.enabled))
  /\ UNCHANGED <<bucket, told, requests, overtaken>>

EnableOrDisable(r) ==
  /\ req[r].at = "write" /\ req[r].op \in {"enable", "disable"}
  /\ IF flag = None THEN Set(r, Idle) /\ UNCHANGED flag
     ELSE LET v == req[r].op = "enable" IN flag' = [flag EXCEPT !.enabled = v] /\ Wrote(r, v)
  /\ UNCHANGED <<bucket, told, requests, silent, overtaken>>

FindForToggle(r) ==
  /\ req[r].at = "find" /\ req[r].op = "toggle"
  /\ Set(r, IF flag = None THEN Idle ELSE [req[r] EXCEPT !.at = "write", !.value = ~flag.enabled])
  /\ UNCHANGED <<flag, bucket, told, requests, silent, overtaken>>
\* Saving a document that was deleted meanwhile fails.
Toggle(r) ==
  /\ req[r].at = "write" /\ req[r].op = "toggle"
  /\ IF flag = None THEN Set(r, Idle) /\ UNCHANGED flag
     ELSE flag' = [flag EXCEPT !.enabled = req[r].value] /\ Wrote(r, req[r].value)
  /\ UNCHANGED <<bucket, told, requests, silent, overtaken>>

\* Mutant: the room is told the value before the write.
BroadcastBefore(r) ==
  /\ req[r].at = "broadcast"
  /\ told' = (IF req[r].op = "toggle" THEN ~req[r].value ELSE req[r].value)
  /\ silent' = FALSE /\ overtaken' = ~req[r].last
  /\ Set(r, Idle) /\ UNCHANGED <<flag, bucket, requests>>
BroadcastToRoom(r) ==
  /\ req[r].at = "broadcast"
  /\ told' = req[r].value
  /\ silent' = (silent /\ ~req[r].last) /\ overtaken' = ~req[r].last
  /\ Set(r, Idle) /\ UNCHANGED <<flag, bucket, requests>>

Step(r) ==
  \/ FindForCreate(r) \/ Create(r) \/ Update(r) \/ Delete(r) \/ EnableOrDisable(r)
  \/ FindForToggle(r) \/ Toggle(r) \/ BroadcastToRoom(r)
  \/ \E op \in {"create", "createSpaced", "put", "delete", "enable", "disable", "toggle"} : Request(r, op)
Next == \E r \in Req : Step(r)
Spec == Init /\ [][Next]_vars

-----------------------------------------------------------------------------
\* Mutant: the last bucket is left out.
EvaluateBelow(f, u) ==
  f # None /\ f.enabled /\ CASE f.type = "boolean" -> TRUE
                             [] f.type = "percentage" -> bucket[u] < f.percentage
                             [] f.type = "users" -> u \in f.userIds
Evaluate(f, u) ==
  f # None /\ f.enabled /\ CASE f.type = "boolean" -> TRUE
                             [] f.type = "percentage" -> bucket[u] <= f.percentage
                             [] f.type = "users" -> u \in f.userIds

\* Once no request is on its way, the room was told what the flag is, unless a
\* request that tells nobody changed it since, or the last broadcast came after
\* another one's write.
RoomIsTold == (\A r \in Req : req[r].at = "idle") => told = (flag # None /\ flag.enabled) \/ silent \/ overtaken

\* A percentage flag that is on is on for nobody at 0, for everybody at 100, and
\* raising the percentage takes it from no one.
RolloutBounds ==
  flag # None /\ flag.type = "percentage" =>
    LET On(p) == {u \in User : Evaluate([flag EXCEPT !.enabled = TRUE, !.percentage = p], u)}
    IN On(0) = {} /\ On(Full) = User /\ \A p, q \in 0..Full : p <= q => On(p) \subseteq On(q)

FlagRules == RoomIsTold /\ RolloutBounds
=============================================================================

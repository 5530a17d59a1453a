------------------------------ MODULE FundPools ------------------------------
(***************************************************************************)
(* One fund pool: the requests of FundPoolsController, the repeatable job  *)
(* of FundPoolExecutorWorker, which adds the recurring amount to the pools *)
(* that are due, and the feature flag it looks at.  Every process has a    *)
(* worker for the one queue of jobs.                                       *)
(*                                                                         *)
(* Time passes in periods; a pool is due Interval of them after its stamp, *)
(* or without one.  Amounts are counted in additions.  The other pools of  *)
(* a job are independent of this one, and a job ends when all of them are. *)
(***************************************************************************)
EXTENDS Naturals, FiniteSets

CONSTANTS
  Worker,     \* the workers, one per process
  Req,        \* request slots
  Interval,   \* intervalMinutes, in periods
  MaxJobs,    \* bound on the jobs waiting
  MaxAdditions, MaxCalls,
  MaxFaults   \* bound on process exits and failed writes

VARIABLES
  pool,       \* the document: isEnabled, periods since lastExecutedAt
  twin,       \* another pool of the same name
  flag,       \* the flag fund-pool-executor
  waiting,    \* jobs in the queue
  job,        \* where each worker is in processJob
  additions, records,  \* of recurringAmount, and execution documents
  req, calls, faults,
  \* history
  since,      \* periods since the last addition
  hasty,      \* an addition came sooner than the interval
  shared,     \* a job added what another had read as due as well
  restamped,  \* an update set the stamp
  outlived,   \* the pool was deleted under a job that had added to it
  raced       \* two creations had both found the name free

vars == <<pool, twin, flag, waiting, job, additions, records, req, calls, faults,
          since, hasty, shared, restamped, outlived, raced>>

Free    == [at |-> "idle", saw |-> FALSE]
Request == {"create", "toggle", "delete", "toggleFlag"}

Init ==
  /\ pool \in [state : {"absent", "live"}, enabled : {TRUE}, age : {Interval}] /\ twin = FALSE
  /\ flag \in {"absent", "on"} /\ waiting = 0 /\ job = [w \in Worker |-> "idle"]
  /\ additions = 0 /\ records = 0
  /\ req = [r \in Req |-> Free] /\ calls = 0 /\ faults = 0
  /\ since = Interval /\ hasty = FALSE /\ shared = FALSE /\ restamped = FALSE
  /\ outlived = FALSE /\ raced = FALSE

history  == <<since, hasty, shared, restamped, outlived, raced>>
worker   == <<waiting, job, additions>>
Live     == pool.state = "live"

-----------------------------------------------------------------------------
(* The requests.  Those that check before they write are two steps; one    *)
(* that is answered by a find alone changes nothing.                       *)

Return(r) == req' = [req EXCEPT ![r] = Free]

\* The find of the request: no pool of the name, or the pool (the flag) itself.
Find(r, what) ==
  /\ req[r] = Free /\ calls < MaxCalls /\ calls' = calls + 1
  /\ CASE what = "create" -> ~Live /\ ~twin
       [] what = "toggleFlag" -> flag # "absent"
       [] OTHER -> Live
  /\ raced' = (raced \/ (what = "create" /\ \E q \in Req : req[q].at = "create"))
  /\ req' = [req EXCEPT ![r] = [at |-> what, saw |-> IF what = "toggleFlag" THEN flag = "on" ELSE pool.enabled]]
  /\ UNCHANGED <<pool, twin, flag, worker, records, faults, since, hasty, shared, restamped, outlived>>

\* A second pool is nothing but its name here. A request that gives another
\* pool this name checks and writes like a creation.
CreateFundPool(r) ==
  /\ req[r].at = "create" /\ Return(r)
  /\ IF pool.state = "absent"
     THEN \E on \in BOOLEAN, age \in {0, Interval} : pool' = [state |-> "live", enabled |-> on, age |-> age] /\ twin' = twin
     ELSE twin' = TRUE /\ pool' = pool
  /\ UNCHANGED <<flag, worker, records, calls, faults, history>>

\* updateFundPool of the stamp or isEnabled; the second pool is renamed or deleted.
UpdateTwin ==
  /\ twin /\ twin' = FALSE
  /\ UNCHANGED <<pool, flag, worker, records, req, calls, faults, history>>
UpdateFundPool(field) ==
  /\ Live /\ calls < MaxCalls /\ calls' = calls + 1
  /\ CASE field = "stamp"   -> pool' = [pool EXCEPT !.age = Interval] /\ restamped' = TRUE
       [] field = "enabled" -> pool' = [pool EXCEPT !.enabled = ~@] /\ UNCHANGED restamped
  /\ UNCHANGED <<twin, flag, worker, records, req, faults, since, hasty, shared, outlived, raced>>
\* recordExecution stamps and adds nothing.
RecordExecution ==
  /\ Live /\ pool.age > 0 /\ calls < MaxCalls /\ calls' = calls + 1
  /\ pool' = [pool EXCEPT !.age = 0]
  /\ UNCHANGED <<twin, flag, worker, records, req, faults, history>>

\* The negation of what was read is written; a 404 if the pool is gone.
ToggleEnabled(r) ==
  /\ req[r].at = "toggle" /\ Return(r)
  /\ pool' = IF Live THEN [pool EXCEPT !.enabled = ~req[r].saw] ELSE pool
  /\ UNCHANGED <<twin, flag, worker, records, calls, faults, history>>

\* The pool first, its executions after it.
DeleteFundPool(r) ==
  /\ req[r].at = "delete"
  /\ pool' = [pool EXCEPT !.state = "deleted"] /\ req' = [req EXCEPT ![r].at = "executions"]
  /\ outlived' = (outlived \/ \E w \in Worker : job[w] = "record")
  /\ UNCHANGED <<twin, flag, worker, records, calls, faults, since, hasty, shared, restamped, raced>>
DeleteExecutions(r) ==
  /\ req[r].at = "executions" /\ Return(r) /\ records' = 0
  /\ UNCHANGED <<pool, twin, flag, worker, calls, faults, history>>

\* Of the flag: create (disabled), update, enable, disable, delete; toggle.
WriteFlag(value) ==
  /\ flag # value /\ (flag = "absent" => value = "off")
  /\ calls < MaxCalls /\ calls' = calls + 1 /\ flag' = value
  /\ UNCHANGED <<pool, twin, worker, records, req, faults, history>>
ToggleFlag(r) ==
  /\ req[r].at = "toggleFlag" /\ Return(r)
  /\ flag' = IF flag = "absent" THEN flag ELSE IF req[r].saw THEN "off" ELSE "on"
  /\ UNCHANGED <<pool, twin, worker, records, calls, faults, history>>

-----------------------------------------------------------------------------
(* The executor.                                                           *)

Goto(w, l) == job' = [job EXCEPT ![w] = l]

\* A period passes: a job is queued, the stamp ages.
Tick ==
  /\ waiting' = IF waiting < MaxJobs THEN waiting + 1 ELSE waiting
  /\ pool' = IF pool.age < Interval THEN [pool EXCEPT !.age = @ + 1] ELSE pool
  /\ since' = IF since < Interval THEN since + 1 ELSE since
  /\ UNCHANGED <<twin, flag, job, additions, records, req, calls, faults, hasty, shared, restamped, outlived, raced>>

\* isEnabled: a flag that is not there is off.
ProcessJob(w) ==
  /\ job[w] = "idle" /\ waiting > 0 /\ waiting' = waiting - 1
  /\ Goto(w, IF flag = "on" THEN "find" ELSE "idle")
  /\ UNCHANGED <<pool, twin, flag, additions, records, req, calls, faults, history>>

GetDuePools(w) ==
  /\ job[w] = "find"
  /\ Goto(w, IF Live /\ pool.enabled /\ pool.age = Interval THEN "apply" ELSE "idle")
  /\ UNCHANGED <<pool, twin, flag, waiting, additions, records, req, calls, faults, history>>

\* Mutant: the stamp is left to recordExecution.
AddRecurring(w) ==
  /\ job[w] = "apply" /\ Live /\ additions < MaxAdditions
  /\ additions' = additions + 1 /\ since' = 0 /\ hasty' = (hasty \/ since < Interval)
  /\ shared' = (shared \/ \E v \in Worker \ {w} : job[v] = "apply")
  /\ Goto(w, "record")
  /\ UNCHANGED <<pool, twin, flag, waiting, records, req, calls, faults, restamped, outlived, raced>>
\* applyRecurring: the addition and the stamp are one update, which no longer
\* asks whether the pool is due.
ApplyRecurring(w) ==
  /\ job[w] = "apply" /\ Live /\ additions < MaxAdditions
  /\ additions' = additions + 1 /\ pool' = [pool EXCEPT !.age = 0]
  /\ since' = 0 /\ hasty' = (hasty \/ since < Interval)
  /\ shared' = (shared \/ \E v \in Worker \ {w} : job[v] = "apply")
  /\ Goto(w, "record")
  /\ UNCHANGED <<twin, flag, waiting, records, req, calls, faults, restamped, outlived, raced>>
\* The pool is gone; the error is caught.
ApplyFails(w) ==
  /\ job[w] = "apply" /\ ~Live /\ Goto(w, "idle")
  /\ UNCHANGED <<pool, twin, flag, waiting, additions, records, req, calls, faults, history>>
CreateExecution(w) ==
  /\ job[w] = "record" /\ records' = records + 1 /\ Goto(w, "idle")
  /\ UNCHANGED <<pool, twin, flag, waiting, additions, req, calls, faults, history>>

\* A process exits under its job, which BullMQ finds stalled and queues again;
\* the write of an execution fails, and the error is caught; a request fails.
Crash(w) ==
  /\ job[w] # "idle" /\ faults < MaxFaults /\ faults' = faults + 1
  /\ Goto(w, "idle") /\ waiting' = waiting + 1
  /\ UNCHANGED <<pool, twin, flag, additions, records, req, calls, history>>
CreateExecutionFails(w) ==
  /\ job[w] = "record" /\ faults < MaxFaults /\ faults' = faults + 1 /\ Goto(w, "idle")
  /\ UNCHANGED <<pool, twin, flag, waiting, additions, records, req, calls, history>>
Fail(r) ==
  /\ req[r].at = "executions" /\ faults < MaxFaults /\ faults' = faults + 1 /\ Return(r)
  /\ UNCHANGED <<pool, twin, flag, worker, records, calls, history>>

Requests(r) ==
  \/ \E what \in Request : Find(r, what)
  \/ CreateFundPool(r) \/ ToggleEnabled(r) \/ DeleteFundPool(r) \/ DeleteExecutions(r)
  \/ ToggleFlag(r) \/ Fail(r)
Writes ==
  \/ \E field \in {"stamp", "enabled"} : UpdateFundPool(field)
  \/ UpdateTwin \/ RecordExecution
  \/ \E value \in {"absent", "off", "on"} : WriteFlag(value)
Executes(w) ==
  \/ ProcessJob(w) \/ GetDuePools(w) \/ ApplyRecurring(w) \/ ApplyFails(w) \/ CreateExecution(w)
  \/ Crash(w) \/ CreateExecutionFails(w)
Next == Writes \/ Tick \/ (\E r \in Req : Requests(r)) \/ (\E w \in Worker : Executes(w))

Spec == Init /\ [][Next]_vars

-----------------------------------------------------------------------------
\* The recurring amount is added at most once per interval, also when a job is
\* run again after its process exited halfway: too soon only if two jobs had
\* both read the pool as due, or an update set its stamp back.  Every addition
\* has its execution document, or a job that is about to write it, unless
\* something failed; a deleted pool leaves none behind unless a job had just
\* added to it.  Two pools share a name only if two creations overlapped.
PoolsExact ==
  /\ hasty => shared \/ restamped
  /\ Live /\ faults = 0 =>
       additions = records + Cardinality({w \in Worker : job[w] = "record"})
  /\ ~Live /\ records > 0 => faults > 0 \/ outlived \/ \E r \in Req : req[r].at = "executions"
  /\ Live /\ twin => raced
=============================================================================

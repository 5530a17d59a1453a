----------------------------- MODULE ChatSchedule -----------------------------
(***************************************************************************)
(* The scheduled messages and reminders of ChatService: a row in MongoDB,  *)
(* a delayed BullMQ job that acts on it, and a cancellation that may come  *)
(* at any moment.  A job that failed stays in its queue, where an operator *)
(* may have it run again.  Each awaited call is a step; an item is one row *)
(* with the one job made for it.  Requests the service refuses before it   *)
(* writes anything are left out, and so are the routes by which an         *)
(* operator pauses a queue or deletes a job.  The parts of sendMessage     *)
(* count here as before and after the message is stored.                   *)
(***************************************************************************)
EXTENDS Integers, FiniteSets

CONSTANTS
  Items,      \* rows that may be made
  Reminders,  \* those of them that are reminders; the others are messages
  Cancels,    \* bound on the cancel requests under way at once
  MaxFaults   \* bound on failed calls and process exits

ASSUME ChatScheduleAssumption == Reminders \subseteq Items /\ MaxFaults \in Nat

VARIABLES
  status,     \* ScheduledMessageStatus, MessageReminderStatus; "none" before the row
  jobId,      \* items whose row has its jobId
  job,        \* the BullMQ job: "none", "waiting", "active", "failed", "gone"
  making,     \* scheduleMessage, setReminder: the call it waits in
  worker,     \* processJob of the active job: the call it waits in
  cancel,     \* the cancel requests: item and call
  stalled,    \* items whose worker died; BullMQ gives a stalled job one more run
  \* history
  delivered,  \* messages or notifications stored for the item
  again,      \* how often the item's job was put back for another run
  removed,    \* items whose waiting job a cancel took out
  faults

rows == <<status, jobId>>
vars == <<rows, job, making, worker, cancel, stalled, delivered, again, removed, faults>>

Idle == [at |-> "idle"]
Request == [item : Items, at : {"remove", "write"}]

Init ==
  /\ status = [i \in Items |-> "none"] /\ jobId = {}
  /\ job = [i \in Items |-> "none"]
  /\ making = [i \in Items |-> "idle"] /\ worker = [i \in Items |-> "idle"]
  /\ cancel = [c \in Cancels |-> Idle]
  /\ stalled = {} /\ delivered = [i \in Items |-> 0] /\ again = [i \in Items |-> 0]
  /\ removed = {} /\ faults = 0

Fault == faults < MaxFaults /\ faults' = faults + 1

-----------------------------------------------------------------------------
(* scheduleMessage, setReminder, setStandaloneReminder.                     *)

Create(i) ==
  /\ status[i] = "none" /\ making[i] = "idle"
  /\ status' = [status EXCEPT ![i] = "pending"]
  /\ making' = [making EXCEPT ![i] = "enqueue"]
  /\ UNCHANGED <<jobId, job, worker, cancel, delivered, stalled, again, removed, faults>>

Enqueue(i) ==
  /\ making[i] = "enqueue"
  /\ job' = [job EXCEPT ![i] = "waiting"]
  /\ making' = [making EXCEPT ![i] = "store"]
  /\ UNCHANGED <<rows, worker, cancel, delivered, stalled, again, removed, faults>>

StoreJobId(i) ==
  /\ making[i] = "store"
  /\ jobId' = jobId \cup {i}
  /\ making' = [making EXCEPT ![i] = "done"]
  /\ UNCHANGED <<status, job, worker, cancel, delivered, stalled, again, removed, faults>>

\* Redis or MongoDB fails: the request ends with an error, the row stays as it is.
MakingFails(i) ==
  /\ making[i] \in {"enqueue", "store"} /\ Fault
  /\ making' = [making EXCEPT ![i] = "done"]
  /\ UNCHANGED <<rows, job, worker, cancel, delivered, stalled, again, removed>>

-----------------------------------------------------------------------------
(* The worker: sendScheduledMessage and fireReminder.                       *)

\* The delay is over and the worker takes the job.
JobStarts(i) ==
  /\ job[i] = "waiting"
  /\ job' = [job EXCEPT ![i] = "active"]
  /\ worker' = [worker EXCEPT ![i] = "load"]
  /\ UNCHANGED <<rows, making, cancel, delivered, stalled, again, removed, faults>>

\* The handler returns or throws: a completed job is removed, a failed one is kept.
JobEnds(i, how) ==
  /\ job' = [job EXCEPT ![i] = how]
  /\ worker' = [worker EXCEPT ![i] = "idle"]

Load(i) ==
  /\ worker[i] = "load"
  /\ IF status[i] = "pending"
     THEN worker' = [worker EXCEPT ![i] = "deliver"] /\ UNCHANGED job
     ELSE JobEnds(i, "gone")
  /\ UNCHANGED <<rows, making, cancel, delivered, stalled, again, removed, faults>>

\* The message or the notification is stored.
Deliver(i) ==
  /\ worker[i] = "deliver"
  /\ delivered' = [delivered EXCEPT ![i] = @ + 1]
  /\ worker' = [worker EXCEPT ![i] = "mark"]
  /\ UNCHANGED <<rows, job, making, cancel, stalled, again, removed, faults>>

\* sendMessage throws before it stores anything: the sender has left or is blocked.
SendRefused(i) ==
  /\ i \notin Reminders /\ worker[i] = "deliver"
  /\ worker' = [worker EXCEPT ![i] = "markFailed"]
  /\ UNCHANGED <<rows, job, making, cancel, delivered, stalled, again, removed, faults>>

\* The status is written whatever it has become.
MarkSent(i) ==
  /\ worker[i] = "mark"
  /\ status' = [status EXCEPT ![i] = "sent"] /\ JobEnds(i, "gone")
  /\ UNCHANGED <<jobId, making, cancel, delivered, stalled, again, removed, faults>>

\* Mutant: the catch block only logs.
MarkFailedNot(i) ==
  /\ worker[i] = "markFailed" /\ JobEnds(i, "gone")
  /\ UNCHANGED <<rows, making, cancel, delivered, stalled, again, removed, faults>>

MarkFailed(i) ==
  /\ worker[i] = "markFailed"
  /\ status' = [status EXCEPT ![i] = "failed"] /\ JobEnds(i, "gone")
  /\ UNCHANGED <<jobId, making, cancel, delivered, stalled, again, removed, faults>>

\* Mutant: the job has further attempts.
WorkerFailsRetried(i) ==
  /\ worker[i] # "idle" /\ Fault
  /\ JobEnds(i, "waiting")
  /\ UNCHANGED <<rows, making, cancel, delivered, stalled, again, removed>>

\* A call fails.  sendScheduledMessage catches it and marks the row failed, even after
\* the message was stored; fireReminder and the catch block let the job fail: it has
\* one attempt, and BullMQ keeps it.
WorkerFails(i) ==
  /\ worker[i] # "idle" /\ Fault
  /\ IF i \notin Reminders /\ worker[i] \in {"deliver", "mark"}
     THEN worker' = [worker EXCEPT ![i] = "markFailed"] /\ UNCHANGED job
     ELSE JobEnds(i, "failed")
  /\ UNCHANGED <<rows, making, cancel, delivered, stalled, again, removed>>

\* retryFailedJobs, at an operator's request: a failed job is run again, whatever the
\* failed run had done before.
RetryFailed(i) ==
  /\ job[i] = "failed"
  /\ job' = [job EXCEPT ![i] = "waiting"]
  /\ again' = [again EXCEPT ![i] = @ + 1]
  /\ UNCHANGED <<rows, making, worker, cancel, delivered, stalled, removed, faults>>

-----------------------------------------------------------------------------
(* cancelScheduledMessage and cancelReminder.                               *)

\* Only a pending row; a row without a jobId goes straight to the update.
CancelRead(c, i) ==
  /\ cancel[c] = Idle /\ status[i] = "pending"
  /\ cancel' = [cancel EXCEPT ![c] =
       [item |-> i, at |-> IF i \in jobId THEN "remove" ELSE "write"]]
  /\ UNCHANGED <<rows, job, making, worker, delivered, stalled, again, removed, faults>>

\* Mutant: the job is looked up and not removed.
CancelRemoveNothing(c) ==
  LET i == cancel[c].item IN
  /\ cancel[c].at = "remove"
  /\ cancel' = [cancel EXCEPT ![c].at = "write"]
  /\ removed' = IF job[i] = "waiting" THEN removed \cup {i} ELSE removed
  /\ UNCHANGED <<rows, job, making, worker, delivered, stalled, again, faults>>

\* removeJob: BullMQ throws when a worker has the job; a job that is gone is no error.
CancelRemove(c) ==
  LET i == cancel[c].item IN
  /\ cancel[c].at = "remove"
  /\ IF job[i] = "active"
     THEN cancel' = [cancel EXCEPT ![c] = Idle] /\ UNCHANGED <<job, removed>>
     ELSE /\ cancel' = [cancel EXCEPT ![c].at = "write"]
          /\ job' = [job EXCEPT ![i] = "gone"]
          /\ removed' = IF job[i] = "waiting" THEN removed \cup {i} ELSE removed
  /\ UNCHANGED <<rows, making, worker, delivered, stalled, again, faults>>

CancelWrite(c) ==
  /\ cancel[c].at = "write"
  /\ status' = [status EXCEPT ![cancel[c].item] = "cancelled"]
  /\ cancel' = [cancel EXCEPT ![c] = Idle]
  /\ UNCHANGED <<jobId, job, making, worker, delivered, stalled, again, removed, faults>>

-----------------------------------------------------------------------------
\* The process exits (external): requests end where they are; the active jobs stall and
\* are run once more, or fail when they had stalled before (maxStalledCount 1).
Active == {i \in Items : job[i] = "active"}
Crash ==
  /\ Fault
  /\ making' = [i \in Items |-> IF making[i] = "idle" THEN "idle" ELSE "done"]
  /\ worker' = [i \in Items |-> "idle"]
  /\ cancel' = [c \in Cancels |-> Idle]
  /\ job' = [i \in Items |-> IF i \notin Active THEN job[i]
                             ELSE IF i \in stalled THEN "failed" ELSE "waiting"]
  /\ stalled' = stalled \cup Active
  /\ again' = [i \in Items |-> IF i \in Active \ stalled THEN again[i] + 1 ELSE again[i]]
  /\ UNCHANGED <<rows, delivered, removed>>

Making(i) == Enqueue(i) \/ StoreJobId(i)
Working(i) == Load(i) \/ Deliver(i) \/ SendRefused(i) \/ MarkSent(i) \/ MarkFailed(i)

Next ==
  \/ \E i \in Items : \/ Create(i) \/ Enqueue(i) \/ StoreJobId(i) \/ MakingFails(i)
                      \/ JobStarts(i) \/ Load(i) \/ Deliver(i) \/ SendRefused(i)
                      \/ MarkSent(i) \/ MarkFailed(i) \/ WorkerFails(i) \/ RetryFailed(i)
  \/ \E c \in Cancels : CancelRemove(c) \/ CancelWrite(c) \/ \E i \in Items : CancelRead(c, i)
  \/ Crash

Spec == Init /\ [][Next]_vars
\* Calls return, delays end, and the worker takes what is due.
FairSpec == /\ Spec
            /\ \A i \in Items : WF_vars(Making(i)) /\ WF_vars(JobStarts(i)) /\ WF_vars(Working(i))
            /\ \A c \in Cancels : WF_vars(CancelRemove(c) \/ CancelWrite(c))

-----------------------------------------------------------------------------
(* Properties.                                                             *)

\* Rows, jobs and the calls under way; a handler runs exactly for an active job.
TypeOK ==
  /\ status \in [Items -> {"none", "pending", "sent", "cancelled", "failed"}]
  /\ jobId \subseteq Items
  /\ job \in [Items -> {"none", "waiting", "active", "failed", "gone"}]
  /\ making \in [Items -> {"idle", "enqueue", "store", "done"}]
  /\ worker \in [Items -> {"idle", "load", "deliver", "mark", "markFailed"}]
  /\ cancel \in [Cancels -> Request \cup {Idle}]
  /\ stalled \subseteq Items /\ removed \subseteq Items
  /\ delivered \in [Items -> Nat] /\ again \in [Items -> Nat]
  /\ faults \in 0..MaxFaults
  /\ \A i \in Items : worker[i] # "idle" <=> job[i] = "active"

\* One delivery per item, whatever fails or is cancelled meanwhile, and at most one more
\* for each time its job is put back: by BullMQ once, when the process died over it, and
\* by the operator after a failed run, which may have delivered and left the row pending.
DeliveredOnce == \A i \in Items : delivered[i] <= 1 + again[i]

\* A cancel that took the waiting job out has come in time: the run it took out delivers
\* nothing, then or ever -- the promise behind keeping the jobId.
RemovedInTime == \A i \in removed : delivered[i] <= again[i]

\* A cancelled row stays cancelled, and its job delivers nothing, unless the worker
\* had read the row before: also where the cancel knew no jobId and left the job alone.
CancelledStays ==
  [][\A i \in Items : status[i] = "cancelled" /\ worker[i] \in {"idle", "load"}
        => /\ status'[i] = "cancelled" /\ worker'[i] \in {"idle", "load"}
           /\ delivered'[i] = delivered[i]]_vars

\* What is marked sent was delivered, also where cancels and failures cross.
SentWasDelivered == \A i \in Items : status[i] = "sent" => delivered[i] > 0

\* Unless a call fails or the process exits, no row stays pending for ever.
PendingEnds ==
  [](faults = 0) => \A i \in Items : status[i] = "pending" ~> status[i] # "pending"
=============================================================================

-------------------------- MODULE ChatScheduleProofs --------------------------
(***************************************************************************)
(* Theorems about ChatSchedule for any rows, any cancel requests and any   *)
(* number of faults: one delivery per item and run its job is given, none  *)
(* after a cancel that came in time, and a status that does not claim more *)
(* than happened.                                                          *)
(*                                                                         *)
(* Inv is what makes them inductive: how much may have been delivered at   *)
(* every stage of an item's job, and which job a cancel can still meet.    *)
(***************************************************************************)
EXTENDS ChatSchedule, TLAPS

\* A job not yet at its delivery has at most delivered in the runs before this one.
NotYet(i) == job[i] \in {"none", "waiting"} \/ worker[i] \in {"load", "deliver"}
Counted == \A i \in Items : /\ delivered[i] <= again[i] + 1
                            /\ NotYet(i) => delivered[i] <= again[i]

\* There is no job before it is enqueued, and a cancel that goes for the job has read
\* a jobId, which is stored last.
Ordered ==
  /\ \A i \in Items : making[i] \in {"idle", "enqueue"} => job[i] = "none"
  /\ \A i \in jobId : making[i] = "done"
  /\ \A c \in Cancels : cancel[c].at = "remove" => making[cancel[c].item] = "done"

\* A job that a cancel took out while it waited does not come back.
TakenOut == \A i \in removed : delivered[i] <= again[i] /\ job[i] = "gone"

\* What is about to be marked sent was delivered.
Told == \A i \in Items : status[i] = "sent" \/ worker[i] = "mark" => delivered[i] > 0

-----------------------------------------------------------------------------
LEMMA InitTyped == Init => TypeOK
  BY ChatScheduleAssumption DEF Init, TypeOK

\* A handler runs exactly for an active job: no job is enqueued over it, because there
\* is none before (Ordered).
LEMMA TypedStep == TypeOK /\ Ordered /\ [Next]_vars => TypeOK'
  <1> SUFFICES ASSUME TypeOK, Ordered, [Next]_vars PROVE TypeOK'
    OBVIOUS
  <1> USE ChatScheduleAssumption DEF TypeOK
  <1>1. ASSUME NEW i \in Items, Create(i) PROVE TypeOK'
    BY <1>1 DEF Create
  <1>2. ASSUME NEW i \in Items, Enqueue(i) PROVE TypeOK'
    BY <1>2 DEF Enqueue, Ordered, rows
  <1>3. ASSUME NEW i \in Items, StoreJobId(i) PROVE TypeOK'
    BY <1>3 DEF StoreJobId
  <1>4. ASSUME NEW i \in Items, MakingFails(i) PROVE TypeOK'
    BY <1>4 DEF MakingFails, Fault, rows
  <1>5. ASSUME NEW i \in Items, JobStarts(i) PROVE TypeOK'
    BY <1>5 DEF JobStarts, rows
  <1>6. ASSUME NEW i \in Items, Load(i) PROVE TypeOK'
    BY <1>6 DEF Load, JobEnds, rows
  <1>7. ASSUME NEW i \in Items, Deliver(i) PROVE TypeOK'
    BY <1>7 DEF Deliver, rows
  <1>8. ASSUME NEW i \in Items, SendRefused(i) PROVE TypeOK'
    BY <1>8 DEF SendRefused, rows
  <1>9. ASSUME NEW i \in Items, MarkSent(i) \/ MarkFailed(i) PROVE TypeOK'
    BY <1>9 DEF MarkSent, MarkFailed, JobEnds
  <1>10. ASSUME NEW i \in Items, WorkerFails(i) PROVE TypeOK'
    BY <1>10 DEF WorkerFails, JobEnds, Fault, rows
  <1>16. ASSUME NEW i \in Items, RetryFailed(i) PROVE TypeOK'
    BY <1>16 DEF RetryFailed, rows
  <1>11. ASSUME NEW c \in Cancels, NEW i \in Items, CancelRead(c, i) PROVE TypeOK'
    BY <1>11 DEF CancelRead, Request, rows
  <1>12. ASSUME NEW c \in Cancels, CancelRemove(c) PROVE TypeOK'
    <2>1. cancel[c] \in Request
      BY <1>12 DEF CancelRemove, Idle
    <2>2. [cancel[c] EXCEPT !.at = "write"] \in Request
      BY <2>1 DEF Request
    <2>3. cancel' \in [Cancels -> Request \cup {Idle}]
      BY <1>12, <2>2 DEF CancelRemove
    <2>4. cancel[c].item \in Items
      BY <2>1 DEF Request
    <2> QED BY <1>12, <2>3, <2>4 DEF CancelRemove, rows
  <1>13. ASSUME NEW c \in Cancels, CancelWrite(c) PROVE TypeOK'
    <2>1. cancel[c].item \in Items
      BY <1>13 DEF CancelWrite, Idle, Request
    <2> QED BY <1>13, <2>1 DEF CancelWrite
  <1>14. CASE Crash
    BY <1>14 DEF Crash, Fault, Active, rows
  <1>15. CASE UNCHANGED vars
    BY <1>15 DEF vars, rows
  <1> QED BY <1>1, <1>2, <1>3, <1>4, <1>5, <1>6, <1>7, <1>8, <1>9, <1>10, <1>11, <1>12, <1>13,
             <1>14, <1>15, <1>16 DEF Next

-----------------------------------------------------------------------------
\* Enqueuing happens before there is a job, and a cancel meets one only afterwards.
LEMMA OrderedStep == TypeOK /\ Ordered /\ [Next]_vars => Ordered'
  <1> SUFFICES ASSUME TypeOK, Ordered, [Next]_vars PROVE Ordered'
    OBVIOUS
  <1> USE DEF TypeOK, Ordered
  <1>1. ASSUME NEW i \in Items, Create(i) \/ Enqueue(i) \/ StoreJobId(i) \/ MakingFails(i)
        PROVE Ordered'
    <2>1. \A c \in Cancels : cancel[c].at = "remove" => cancel[c].item \in Items
      BY DEF Idle, Request
    <2> QED BY <1>1, <2>1 DEF Create, Enqueue, StoreJobId, MakingFails, rows
  <1>2. ASSUME NEW i \in Items, JobStarts(i) \/ Load(i) \/ Deliver(i) \/ SendRefused(i)
        PROVE Ordered'
    BY <1>2 DEF JobStarts, Load, Deliver, SendRefused, JobEnds, rows
  <1>3. ASSUME NEW i \in Items, MarkSent(i) \/ MarkFailed(i) \/ WorkerFails(i) \/ RetryFailed(i)
        PROVE Ordered'
    BY <1>3 DEF MarkSent, MarkFailed, WorkerFails, RetryFailed, JobEnds, rows
  <1>4. ASSUME NEW c \in Cancels, NEW i \in Items, CancelRead(c, i) PROVE Ordered'
    BY <1>4 DEF CancelRead, rows
  <1>5. ASSUME NEW c \in Cancels, CancelRemove(c) PROVE Ordered'
    <2>1. cancel[c].item \in Items /\ making[cancel[c].item] = "done"
      BY <1>5 DEF CancelRemove, Idle, Request
    <2>2. UNCHANGED <<making, jobId>>
      BY <1>5 DEF CancelRemove, rows
    <2>3. \A i \in Items : making'[i] \in {"idle", "enqueue"} => job'[i] = "none"
      BY <1>5, <2>1, <2>2 DEF CancelRemove
    <2>4. \A d \in Cancels : cancel'[d].at = "remove" => cancel'[d] = cancel[d]
      <3>1. ASSUME NEW d \in Cancels, d # c PROVE cancel'[d] = cancel[d]
        BY <1>5, <3>1 DEF CancelRemove
      <3>2. cancel'[c].at # "remove"
        <4>1. CASE job[cancel[c].item] = "active"
          BY <1>5, <4>1 DEF CancelRemove, Idle
        <4>2. CASE job[cancel[c].item] # "active"
          <5>1. cancel[c] \in Request
            BY <1>5 DEF CancelRemove, Idle
          <5>2. cancel' = [cancel EXCEPT ![c].at = "write"]
            BY <1>5, <4>2 DEF CancelRemove
          <5> QED BY <5>1, <5>2 DEF Request
        <4> QED BY <4>1, <4>2
      <3> QED BY <3>1, <3>2
    <2> QED BY <2>2, <2>3, <2>4
  <1>6. ASSUME NEW c \in Cancels, CancelWrite(c) PROVE Ordered'
    BY <1>6 DEF CancelWrite, Idle
  <1>7. CASE Crash
    BY <1>7 DEF Crash, Active, Idle, rows
  <1>8. CASE UNCHANGED vars
    BY <1>8 DEF vars, rows
  <1> QED BY <1>1, <1>2, <1>3, <1>4, <1>5, <1>6, <1>7, <1>8 DEF Next

\* The rows, the jobs and the calls under way keep their types, and a handler runs
\* exactly for an active job.
THEOREM Typed == Spec => []TypeOK
  <1>1. Init => Ordered
    BY DEF Init, Ordered, Idle
  <1> QED BY InitTyped, TypedStep, OrderedStep, <1>1, PTL DEF Spec

-----------------------------------------------------------------------------
\* Only Deliver counts up, once in a run; whoever puts the job back for another run has
\* counted it.
LEMMA CountedStep == TypeOK /\ Ordered /\ Counted /\ [Next]_vars => Counted'
  <1> SUFFICES ASSUME TypeOK, Ordered, Counted, [Next]_vars PROVE Counted'
    OBVIOUS
  <1> USE DEF TypeOK, Counted, NotYet
  <1>1. ASSUME NEW i \in Items, Create(i) \/ Enqueue(i) \/ StoreJobId(i) \/ MakingFails(i)
        PROVE Counted'
    BY <1>1 DEF Create, Enqueue, StoreJobId, MakingFails, Ordered, rows
  <1>2. ASSUME NEW i \in Items, JobStarts(i) \/ Load(i) \/ SendRefused(i) PROVE Counted'
    BY <1>2 DEF JobStarts, Load, SendRefused, JobEnds, rows
  <1>3. ASSUME NEW i \in Items, Deliver(i) PROVE Counted'
    BY <1>3 DEF Deliver, rows
  <1>4. ASSUME NEW i \in Items, MarkSent(i) \/ MarkFailed(i) PROVE Counted'
    BY <1>4 DEF MarkSent, MarkFailed, JobEnds
  <1>5. ASSUME NEW i \in Items, WorkerFails(i) \/ RetryFailed(i) PROVE Counted'
    BY <1>5 DEF WorkerFails, RetryFailed, JobEnds, rows
  <1>6. ASSUME NEW c \in Cancels, CancelRemove(c) PROVE Counted'
    <2>1. \A i \in Items : job'[i] = job[i] \/ (job'[i] = "gone" /\ worker[i] = "idle")
      BY <1>6 DEF CancelRemove
    <2>2. UNCHANGED <<worker, delivered, again>>
      BY <1>6 DEF CancelRemove
    <2> QED BY <2>1, <2>2
  <1>7. ASSUME NEW c \in Cancels, \/ CancelWrite(c)
                                  \/ \E i \in Items : CancelRead(c, i)
        PROVE Counted'
    BY <1>7 DEF CancelWrite, CancelRead, rows
  <1>8. CASE Crash
    BY <1>8 DEF Crash, Active, rows
  <1>9. CASE UNCHANGED vars
    BY <1>9 DEF vars, rows
  <1> QED BY <1>1, <1>2, <1>3, <1>4, <1>5, <1>6, <1>7, <1>8, <1>9 DEF Next

\* However calls fail and cancels cross, an item is delivered once, and at most once more
\* for each time BullMQ or the operator put its job back.
THEOREM Once == Spec => []DeliveredOnce
  <1>1. Init => Counted /\ Ordered
    BY DEF Init, Counted, Ordered, Idle
  <1>2. TypeOK /\ Counted => DeliveredOnce
    BY DEF TypeOK, Counted, DeliveredOnce
  <1> QED BY InitTyped, TypedStep, OrderedStep, CountedStep, <1>1, <1>2, PTL DEF Spec

-----------------------------------------------------------------------------
\* A job taken out while it waited has delivered nothing (Counted) and, since its row
\* was made long ago (Ordered), is not enqueued again.
LEMMA TakenOutStep == TypeOK /\ Ordered /\ Counted /\ TakenOut /\ [Next]_vars => TakenOut'
  <1> SUFFICES ASSUME TypeOK, Ordered, Counted, TakenOut, [Next]_vars PROVE TakenOut'
    OBVIOUS
  <1> USE DEF TypeOK, TakenOut
  <1>1. ASSUME NEW i \in Items, Create(i) \/ Enqueue(i) \/ StoreJobId(i) \/ MakingFails(i)
        PROVE TakenOut'
    BY <1>1 DEF Create, Enqueue, StoreJobId, MakingFails, Ordered, rows
  <1>2. ASSUME NEW i \in Items, JobStarts(i) \/ Load(i) \/ Deliver(i) \/ SendRefused(i)
        PROVE TakenOut'
    BY <1>2 DEF JobStarts, Load, Deliver, SendRefused, JobEnds, rows
  <1>3. ASSUME NEW i \in Items, MarkSent(i) \/ MarkFailed(i) \/ WorkerFails(i) \/ RetryFailed(i)
        PROVE TakenOut'
    BY <1>3 DEF MarkSent, MarkFailed, WorkerFails, RetryFailed, JobEnds, rows
  <1>4. ASSUME NEW c \in Cancels, CancelRemove(c) PROVE TakenOut'
    <2>1. cancel[c].item \in Items
      BY <1>4 DEF CancelRemove, Idle, Request
    <2>2. UNCHANGED <<delivered, again>>
      BY <1>4 DEF CancelRemove
    <2>3. ASSUME NEW i \in removed' PROVE delivered[i] <= again[i] /\ job'[i] = "gone"
      <3>1. CASE i \in removed
        BY <1>4, <2>1, <2>2, <2>3, <3>1 DEF CancelRemove
      <3>2. CASE i \notin removed
        <4>1. i = cancel[c].item /\ job[i] = "waiting" /\ job'[i] = "gone"
          BY <1>4, <2>1, <2>3, <3>2 DEF CancelRemove
        <4>2. delivered[i] <= again[i]
          BY <2>1, <2>2, <2>3, <4>1 DEF Counted, NotYet
        <4> QED BY <2>1, <4>1, <4>2
      <3> QED BY <3>1, <3>2
    <2> QED BY <2>2, <2>3
  <1>5. ASSUME NEW c \in Cancels, \/ CancelWrite(c)
                                  \/ \E i \in Items : CancelRead(c, i)
        PROVE TakenOut'
    BY <1>5 DEF CancelWrite, CancelRead, rows
  <1>6. CASE Crash
    BY <1>6 DEF Crash, Active, rows
  <1>7. CASE UNCHANGED vars
    BY <1>7 DEF vars, rows
  <1> QED BY <1>1, <1>2, <1>3, <1>4, <1>5, <1>6, <1>7 DEF Next

\* A cancel that removed the waiting job has come in time: that run never delivers.
THEOREM InTime == Spec => []RemovedInTime
  <1>1. Init => Ordered /\ Counted /\ TakenOut
    BY DEF Init, Ordered, Counted, TakenOut, Idle
  <1>2. TakenOut => RemovedInTime
    BY DEF TakenOut, RemovedInTime
  <1> QED BY InitTyped, TypedStep, OrderedStep, CountedStep, TakenOutStep, <1>1, <1>2, PTL
          DEF Spec

-----------------------------------------------------------------------------
\* The worker writes "sent" only after the delivery, and nobody else writes it.
LEMMA ToldStep == TypeOK /\ Told /\ [Next]_vars => Told'
  <1> SUFFICES ASSUME TypeOK, Told, [Next]_vars PROVE Told'
    OBVIOUS
  <1> USE DEF TypeOK, Told
  <1>1. ASSUME NEW i \in Items, Create(i) \/ Enqueue(i) \/ StoreJobId(i) \/ MakingFails(i)
        PROVE Told'
    BY <1>1 DEF Create, Enqueue, StoreJobId, MakingFails, rows
  <1>2. ASSUME NEW i \in Items, JobStarts(i) \/ Load(i) \/ Deliver(i) \/ SendRefused(i)
        PROVE Told'
    BY <1>2 DEF JobStarts, Load, Deliver, SendRefused, JobEnds, rows
  <1>3. ASSUME NEW i \in Items, MarkSent(i) \/ MarkFailed(i) \/ WorkerFails(i) \/ RetryFailed(i)
        PROVE Told'
    BY <1>3 DEF MarkSent, MarkFailed, WorkerFails, RetryFailed, JobEnds, rows
  <1>4. ASSUME NEW c \in Cancels, \/ CancelRemove(c) \/ CancelWrite(c)
                                  \/ \E i \in Items : CancelRead(c, i)
        PROVE Told'
    BY <1>4 DEF CancelRemove, CancelWrite, CancelRead, Idle, Request, rows
  <1>5. CASE Crash
    BY <1>5 DEF Crash, Active, rows
  <1>6. CASE UNCHANGED vars
    BY <1>6 DEF vars, rows
  <1> QED BY <1>1, <1>2, <1>3, <1>4, <1>5, <1>6 DEF Next

\* A row marked sent was delivered.
THEOREM SentDelivered == Spec => []SentWasDelivered
  <1>1. Init => Told /\ Ordered
    BY DEF Init, Told, Ordered, Idle
  <1>2. Told => SentWasDelivered
    BY DEF Told, SentWasDelivered
  <1> QED BY InitTyped, TypedStep, OrderedStep, ToldStep, <1>1, <1>2, PTL DEF Spec

-----------------------------------------------------------------------------
\* No step takes a cancelled row to another status or its job to a delivery, unless
\* the worker had read the row before.
THEOREM Stays == Spec => CancelledStays
  <1> DEFINE Kept(i) == status[i] = "cancelled" /\ worker[i] \in {"idle", "load"}
                        => /\ status'[i] = "cancelled" /\ worker'[i] \in {"idle", "load"}
                           /\ delivered'[i] = delivered[i]
  <1>1. TypeOK /\ [Next]_vars => [\A i \in Items : Kept(i)]_vars
    <2> SUFFICES ASSUME TypeOK, Next, NEW i \in Items PROVE Kept(i)
      OBVIOUS
    <2> USE DEF TypeOK
    <2>1. ASSUME NEW j \in Items, Create(j) \/ Enqueue(j) \/ StoreJobId(j) \/ MakingFails(j)
          PROVE Kept(i)
      BY <2>1 DEF Create, Enqueue, StoreJobId, MakingFails, rows
    <2>2. ASSUME NEW j \in Items, JobStarts(j) \/ Load(j) \/ Deliver(j) \/ SendRefused(j)
          PROVE Kept(i)
      BY <2>2 DEF JobStarts, Load, Deliver, SendRefused, JobEnds, rows
    <2>3. ASSUME NEW j \in Items, MarkSent(j) \/ MarkFailed(j) \/ WorkerFails(j) \/ RetryFailed(j)
          PROVE Kept(i)
      BY <2>3 DEF MarkSent, MarkFailed, WorkerFails, RetryFailed, JobEnds, rows
    <2>4. ASSUME NEW c \in Cancels, \/ CancelRemove(c) \/ CancelWrite(c)
                                    \/ \E j \in Items : CancelRead(c, j)
          PROVE Kept(i)
      BY <2>4 DEF CancelRemove, CancelWrite, CancelRead, rows
    <2>5. CASE Crash
      BY <2>5 DEF Crash, rows
    <2> QED BY <2>1, <2>2, <2>3, <2>4, <2>5 DEF Next
  <1> QED BY <1>1, Typed, PTL DEF Spec, CancelledStays
=============================================================================

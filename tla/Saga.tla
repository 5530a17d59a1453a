-------------------------------- MODULE Saga --------------------------------
(***************************************************************************)
(* SagaOrchestratorService.runOrderSaga: the commands of an order are sent *)
(* step by step to the queues of the services; when a step fails, the      *)
(* completed ones are compensated in reverse.  A saga shares nothing with  *)
(* another but the list of the last logs, a view that is left out.         *)
(*                                                                         *)
(* Sending fails once RabbitMQ is gone (RabbitmqService never connects     *)
(* again); after it comes a simulated delay and the step to fail, if one   *)
(* is configured.                                                          *)
(***************************************************************************)
EXTENDS Naturals, Sequences

CONSTANTS
  N,          \* the steps, in order
  Compensable,\* those with a compensationQueue
  None

Steps == 1..N

VARIABLES
  failAtStep,   \* config.failAtStep; None without
  at,           \* what the saga does next: send a command, end its delay, and so for compensations
  step,         \* for which step
  status,       \* of the saga
  stepStatus, compensationStatus,
  failedAtStep,
  commands, compensations, \* what the queues got, in order
  connected

vars == <<failAtStep, at, step, status, stepStatus, compensationStatus, failedAtStep,
          commands, compensations, connected>>

Init ==
  /\ failAtStep \in Steps \cup {None} /\ connected \in BOOLEAN
  /\ at = "idle" /\ step = 1 /\ status = "running" /\ failedAtStep = None
  /\ stepStatus = [i \in Steps |-> "pending"]
  /\ compensationStatus = [i \in Steps |-> "none"]
  /\ commands = <<>> /\ compensations = <<>>

\* The request comes in.
Start ==
  /\ at = "idle" /\ at' = "send"
  /\ UNCHANGED <<failAtStep, step, status, stepStatus, compensationStatus, failedAtStep, commands, compensations, connected>>

\* sendToQueue of the step's command; throws when not connected.
Send ==
  /\ at = "send" /\ connected
  /\ commands' = Append(commands, step) /\ at' = "delay"
  /\ stepStatus' = [stepStatus EXCEPT ![step] = "running"]
  /\ UNCHANGED <<failAtStep, step, status, compensationStatus, failedAtStep, compensations, connected>>

\* The catch block; the way back begins with the step before.
StepFails ==
  /\ \/ at = "send" /\ ~connected
     \/ at = "delay" /\ failAtStep = step
  /\ stepStatus' = [stepStatus EXCEPT ![step] = "failed"]
  /\ failedAtStep' = step /\ status' = "failed"
  /\ step' = step - 1 /\ at' = "undo"
  /\ UNCHANGED <<failAtStep, compensationStatus, commands, compensations, connected>>

StepCompletes ==
  /\ at = "delay" /\ failAtStep # step
  /\ stepStatus' = [stepStatus EXCEPT ![step] = "completed"]
  /\ IF step = N
     THEN at' = "done" /\ status' = "completed" /\ step' = step
     ELSE at' = "send" /\ status' = status /\ step' = step + 1
  /\ UNCHANGED <<failAtStep, compensationStatus, failedAtStep, commands, compensations, connected>>

\* Mutant: the way back ends at the first compensation that fails.
UndoFailsForGood ==
  /\ at = "undo" /\ step > 0 /\ step \in Compensable /\ ~connected
  /\ compensationStatus' = [compensationStatus EXCEPT ![step] = "failed"]
  /\ step' = 0 /\ UNCHANGED <<failAtStep, at, status, stepStatus, failedAtStep, commands, compensations, connected>>
\* A compensation that cannot be sent is logged, and the next one tried.
UndoFails ==
  /\ at = "undo" /\ step > 0 /\ step \in Compensable /\ ~connected
  /\ compensationStatus' = [compensationStatus EXCEPT ![step] = "failed"]
  /\ step' = step - 1 /\ UNCHANGED <<failAtStep, at, status, stepStatus, failedAtStep, commands, compensations, connected>>
Skip ==
  /\ at = "undo" /\ step > 0 /\ step \notin Compensable
  /\ step' = step - 1
  /\ UNCHANGED <<failAtStep, at, status, stepStatus, compensationStatus, failedAtStep, commands, compensations, connected>>
Undo ==
  /\ at = "undo" /\ step > 0 /\ step \in Compensable /\ connected
  /\ compensations' = Append(compensations, step) /\ at' = "undone"
  /\ compensationStatus' = [compensationStatus EXCEPT ![step] = "running"]
  /\ UNCHANGED <<failAtStep, step, status, stepStatus, failedAtStep, commands, connected>>
UndoCompletes ==
  /\ at = "undone" /\ at' = "undo"
  /\ compensationStatus' = [compensationStatus EXCEPT ![step] = "completed"]
  /\ step' = step - 1
  /\ UNCHANGED <<failAtStep, status, stepStatus, failedAtStep, commands, compensations, connected>>
\* "compensated", whatever became of the compensations.
Finish ==
  /\ at = "undo" /\ step = 0 /\ at' = "done" /\ status' = "compensated"
  /\ UNCHANGED <<failAtStep, step, stepStatus, compensationStatus, failedAtStep, commands, compensations, connected>>

\* The channel closes, for good.
Disconnect ==
  /\ connected /\ connected' = FALSE
  /\ UNCHANGED <<failAtStep, at, step, status, stepStatus, compensationStatus, failedAtStep, commands, compensations>>

Run == Send \/ StepFails \/ StepCompletes \/ UndoFails \/ Skip \/ Undo \/ UndoCompletes \/ Finish
Next == Start \/ Run \/ Disconnect

Spec == Init /\ [][Next]_vars

-----------------------------------------------------------------------------
Sent(i)    == \E k \in DOMAIN commands : commands[k] = i
Undone(i)  == \E k \in DOMAIN compensations : compensations[k] = i

\* A saga that ends has sent every command and compensated nothing, or every
\* command it sent was compensated, last first, but for that of the failed step
\* itself, steps that have no compensation and compensations that could not be
\* sent; nothing is compensated that was not commanded, or twice.
SagaSettles ==
  /\ status = "completed" => (\A i \in Steps : Sent(i)) /\ compensations = <<>>
  /\ status = "compensated" =>
       \A i \in Steps : Sent(i) /\ i # failedAtStep =>
         Undone(i) \/ compensationStatus[i] = "failed" \/ i \notin Compensable
  /\ \A i \in Steps : Undone(i) => Sent(i) /\ i # failedAtStep
  /\ \A j, k \in DOMAIN compensations : j < k => compensations[j] > compensations[k]
=============================================================================

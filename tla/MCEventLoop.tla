----------------------------- MODULE MCEventLoop -----------------------------
(***************************************************************************)
(* Instance of TaskScheduler and DelayQueue for TLC.  Both are parts of    *)
(* BasicTaskScheduler that share no state, so a behaviour is one of one    *)
(* part: the sockets, or the delayed tasks.                                *)
(***************************************************************************)
EXTENDS TaskScheduler, DelayQueue

CONSTANTS readable, writable

VARIABLE part

allVars == <<part, vars, queueVars>>

InSockets(A) == part = "sockets" /\ A /\ UNCHANGED <<part, queueVars>>
InTasks(A) == part = "tasks" /\ A /\ UNCHANGED <<part, vars>>

MCInit == part \in {"sockets", "tasks"} /\ Init /\ QueueInit

MCNext == InSockets(Next) \/ InTasks(QueueNext)

\* The fairness of the two specifications.
MCFairness ==
  /\ WF_allVars(InSockets(Select))
  /\ WF_allVars(InSockets(Dispatch))
  /\ WF_allVars(InSockets(HandlerReturns))
  /\ WF_allVars(InTasks(TimeToNextAlarm))
  /\ WF_allVars(InTasks(SelectReturns))
  /\ WF_allVars(InTasks(HandleAlarm))
  /\ WF_allVars(InTasks(TimePasses))

MCSpec == MCInit /\ [][MCNext]_allVars /\ MCFairness

=============================================================================

------------------------------- MODULE Timers -------------------------------
(***************************************************************************)
(* What TaskScheduler promises of delayed tasks (UsageEnvironment.hh       *)
(* 109-119), without saying how: a task becomes due once the time it was   *)
(* given has passed, due tasks run one at a time, and no task overtakes    *)
(* one that was to run before it, or at the same time and was scheduled    *)
(* earlier.  DelayQueue is shown to implement this.                        *)
(***************************************************************************)
EXTENDS Naturals

CONSTANTS
  Task,
  MaxDelay,  \* the longest delay asked for
  MaxPass    \* the longest time that passes unnoticed by the scheduler

VARIABLES
  scheduled,  \* tasks that are neither run nor cancelled
  left,       \* the time left to each, 0 when due
  ahead       \* the scheduled tasks that run before it

vars == <<scheduled, left, ahead>>

Init ==
  /\ scheduled = {}
  /\ left = [t \in Task |-> 0]
  /\ ahead = [t \in Task |-> {}]

\* The time left when e has passed.
After(e) == [t \in Task |-> IF left[t] > e THEN left[t] - e ELSE 0]

\* Task t no longer is scheduled, when the time left is l.
Drop(t, l) ==
  /\ scheduled' = scheduled \ {t}
  /\ left' = [l EXCEPT ![t] = 0]
  /\ ahead' = [u \in Task |-> IF u = t THEN {} ELSE ahead[u] \ {t}]

TimePasses(e) ==
  /\ left' = After(e)
  /\ UNCHANGED <<scheduled, ahead>>

\* The new task runs after those due no later, and before all others.
Schedule(t, d, e) ==
  LET earlier == {u \in scheduled : After(e)[u] <= d}
  IN /\ t \notin scheduled
     /\ scheduled' = scheduled \cup {t}
     /\ left' = [After(e) EXCEPT ![t] = d]
     /\ ahead' = [u \in Task |-> IF u = t THEN earlier
                                 ELSE IF u \in scheduled \ earlier THEN ahead[u] \cup {t}
                                 ELSE ahead[u]]

Cancel(t) == t \in scheduled /\ Drop(t, left)

Run(t, e) ==
  /\ t \in scheduled
  /\ ahead[t] = {}
  /\ After(e)[t] = 0
  /\ Drop(t, After(e))

Next ==
  \/ \E e \in 0 .. MaxPass : TimePasses(e)
  \/ \E t \in Task, d \in 0 .. MaxDelay, e \in 0 .. MaxPass : Schedule(t, d, e)
  \/ \E t \in Task : Cancel(t)
  \/ \E t \in Task, e \in 0 .. MaxPass : Run(t, e)

Spec == Init /\ [][Next]_vars

\* Every task runs, unless it is cancelled.
EveryTaskRuns == \A t \in Task : t \in scheduled ~> t \notin scheduled

=============================================================================

----------------------------- MODULE DelayQueue -----------------------------
(***************************************************************************)
(* The delayed tasks of BasicTaskScheduler0 (BasicUsageEnvironment): a     *)
(* list of entries, each with the time between the one before it and       *)
(* itself, brought up to date with the wall clock only when synchronize()  *)
(* runs, and the steps of the event loop that use it.                      *)
(*                                                                         *)
(* The sentinel's delay (ETERNITY, 68 years) is infinite here, so neither  *)
(* loop over the list passes it.  A token is a task: the code's counter    *)
(* never repeats one, here one is used again when its entry is gone.       *)
(* rescheduleDelayedTask is an unscheduleDelayedTask and a                 *)
(* scheduleDelayedTask; updateEntry has no caller.                         *)
(***************************************************************************)
EXTENDS Integers, Sequences, SequencesExt

CONSTANTS
  Task,
  MaxDelay,    \* bound on the delay asked for
  MaxSetBacks  \* bound on how often the wall clock is set back

ASSUME DelayAssumption == MaxDelay \in Nat /\ MaxSetBacks \in Nat

\* The wall clock is followed up to this distance from fLastSyncTime: a longer
\* stall of the loop makes no more entries due.
MaxDrift == MaxDelay + 1

VARIABLES
  queue,    \* the entries from head(): [task, delta], delta is fDeltaTimeRemaining
  drift,    \* the wall clock less fLastSyncTime; negative once it was set back
  step,     \* of SingleStep: "select", "sockets" or "alarm" handlers
  timeout,  \* what is left of the time select() may sleep
  setBacks  \* how often the wall clock was set back

queueVars == <<queue, drift, step, timeout, setBacks>>

QueueTypeOK ==
  /\ queue \in Seq([task : Task, delta : 0 .. MaxDelay])
  /\ drift \in -1 .. MaxDrift
  /\ step \in {"select", "sockets", "alarm"}
  /\ timeout \in 0 .. MaxDrift
  /\ setBacks \in 0 .. MaxSetBacks

\* Before doEventLoop the application schedules tasks, as an alarm handler may.
QueueInit ==
  /\ queue = <<>>
  /\ drift = 0
  /\ step = "alarm"
  /\ timeout = 0
  /\ setBacks = 0

-----------------------------------------------------------------------------
(* DelayQueue's functions, on a list. *)

AtLeast0(n) == IF n < 0 THEN 0 ELSE n

\* The time left to the i-th entry.
TimeLeft(q, i) ==
  LET sum[k \in 0 .. Len(q)] == IF k = 0 THEN 0 ELSE sum[k - 1] + q[k].delta
  IN sum[i]

Position(q, t) == CHOOSE i \in DOMAIN q : q[i].task = t
Queued(t) == \E i \in DOMAIN queue : queue[i].task = t

\* synchronize after e: entries whose time is up get 0, the next one the rest.
Passed(q, e) ==
  [i \in DOMAIN q |->
    [q[i] EXCEPT !.delta = AtLeast0(TimeLeft(q, i) - e) - AtLeast0(TimeLeft(q, i - 1) - e)]]

\* A clock that went back only resets fLastSyncTime.
Synchronized == Passed(queue, AtLeast0(drift))

\* The delay of the i-th entry changes by d; past the end, the sentinel's.
Adjust(q, i, d) == IF i \in DOMAIN q THEN [q EXCEPT ![i].delta = @ + d] ELSE q

\* Mutants: a new entry goes before those of the same time; a removal forgets
\* the time its successor inherits.
InsertBeforeEqual(q, t, d) ==
  LET k == Cardinality({i \in DOMAIN q : TimeLeft(q, i) < d})
      rest == d - TimeLeft(q, k)
  IN InsertAt(Adjust(q, k + 1, -rest), k + 1, [task |-> t, delta |-> rest])
RemoveEntryOnly(q, i) == RemoveAt(q, i)

\* addEntry, once synchronized: past all entries due no later than d.
Insert(q, t, d) ==
  LET k == Cardinality({i \in DOMAIN q : TimeLeft(q, i) <= d})
      rest == d - TimeLeft(q, k)
  IN InsertAt(Adjust(q, k + 1, -rest), k + 1, [task |-> t, delta |-> rest])

\* removeEntry.
RemoveEntry(q, i) == RemoveAt(Adjust(q, i + 1, q[i].delta), i)

\* timeToNextAlarm and handleAlarm look at the clock only if the head is not due.
HeadUpToDate ==
  IF queue # <<>> /\ queue[1].delta = 0 THEN queue ELSE Synchronized

\* Mutant: synchronize leaves fLastSyncTime as it was.
SyncTimeKept == drift

DriftAfterLook == IF queue # <<>> /\ queue[1].delta = 0 THEN drift ELSE 0

-----------------------------------------------------------------------------
(* Socket, event and alarm handlers schedule and unschedule tasks. *)

InHandler == step \in {"sockets", "alarm"}

ScheduleDelayedTask(t, d) ==
  /\ InHandler
  /\ ~Queued(t)
  /\ queue' = Insert(Synchronized, t, d)
  /\ drift' = 0
  /\ UNCHANGED <<step, timeout, setBacks>>

\* A token that is not found, one of a task that has run, changes nothing.
UnscheduleDelayedTask(t) ==
  /\ InHandler
  /\ Queued(t)
  /\ queue' = RemoveEntry(queue, Position(queue, t))
  /\ UNCHANGED <<drift, step, timeout, setBacks>>

-----------------------------------------------------------------------------
(* SingleStep. *)

\* Without entries select() may sleep longer than anything here.
TimeToNextAlarm ==
  /\ step = "alarm"
  /\ queue' = HeadUpToDate
  /\ drift' = DriftAfterLook
  /\ timeout' = IF queue = <<>> THEN MaxDrift ELSE HeadUpToDate[1].delta
  /\ step' = "select"
  /\ UNCHANGED setBacks

\* A socket became ready, or the timeout expired.
SelectReturns ==
  /\ step = "select"
  /\ step' = "sockets"
  /\ timeout' = 0
  /\ UNCHANGED <<queue, drift, setBacks>>

\* handleAlarm: the head is removed before its handler runs.
HandleAlarm ==
  LET q == HeadUpToDate
  IN /\ step = "sockets"
     /\ queue' = IF q # <<>> /\ q[1].delta = 0 THEN RemoveEntry(q, 1) ELSE q
     /\ drift' = DriftAfterLook
     /\ step' = "alarm"
     /\ UNCHANGED <<timeout, setBacks>>

TimePasses ==
  /\ drift' = IF drift < MaxDrift THEN drift + 1 ELSE drift
  /\ timeout' = AtLeast0(timeout - 1)
  /\ UNCHANGED <<queue, step, setBacks>>

\* gettimeofday() is not monotonic.
ClockSetBack ==
  /\ setBacks < MaxSetBacks
  /\ setBacks' = setBacks + 1
  /\ drift' \in -1 .. drift - 1
  /\ UNCHANGED <<queue, step, timeout>>

QueueNext ==
  \/ \E t \in Task, d \in 0 .. MaxDelay : ScheduleDelayedTask(t, d)
  \/ \E t \in Task : UnscheduleDelayedTask(t)
  \/ TimeToNextAlarm \/ SelectReturns \/ HandleAlarm
  \/ TimePasses \/ ClockSetBack

\* doEventLoop repeats SingleStep, handlers return, and time goes on.
QueueFairness ==
  /\ WF_queueVars(TimeToNextAlarm) /\ WF_queueVars(SelectReturns)
  /\ WF_queueVars(HandleAlarm) /\ WF_queueVars(TimePasses)

QueueSpec == QueueInit /\ [][QueueNext]_queueVars /\ QueueFairness

-----------------------------------------------------------------------------
\* select() never sleeps past the moment the first task is due.
SelectWakesInTime ==
  step = "select" /\ queue # <<>> /\ timeout > 0 => timeout <= queue[1].delta - drift

\* What a list says of tasks: which are scheduled, the time left to each, and
\* those that run before it.
Tasks(q) == {q[i].task : i \in DOMAIN q}
Firsts(q, i) == {q[j].task : j \in 1 .. i}
LeftOf(q) == [t \in Task |-> IF t \in Tasks(q) THEN TimeLeft(q, Position(q, t)) ELSE 0]
AheadOf(q) == [t \in Task |-> IF t \in Tasks(q) THEN Firsts(q, Position(q, t) - 1) ELSE {}]

Promise == INSTANCE Timers WITH
  MaxPass <- MaxDrift,
  scheduled <- Tasks(queue),
  left <- LeftOf(queue),
  ahead <- AheadOf(queue)

\* The delta list does what is promised of delayed tasks: the time left to each
\* and the order in which they run survive insertions, removals, late looks at
\* the clock and a clock that is set back.
ImplementsTimers == Promise!Spec

\* Every scheduled task is run or unscheduled, however often others are
\* scheduled again with no delay.
EveryTaskRuns == Promise!EveryTaskRuns

=============================================================================

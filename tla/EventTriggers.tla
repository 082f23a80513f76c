----------------------------- MODULE EventTriggers -----------------------------
(***************************************************************************)
(* The event triggers of the loop (BasicTaskScheduler0 and the second half *)
(* of SingleStep).  triggerEvent records the data of an event and sets its *)
(* bit; the loop clears the bit and calls the handler.  Another thread may *)
(* call triggerEvent and no lock is taken, so each access to the shared    *)
(* members is a step of its own: a "|=" or "&=~" reads the mask in one     *)
(* step and writes it in a later one.  Memory is sequentially consistent.  *)
(*                                                                         *)
(* A trigger is its index; its mask bit and its index are kept in two      *)
(* members, fLastUsedTriggerMask and fLastUsedTriggerNum, and so here.     *)
(* The module has the steps; LoopThread puts them under the threads.       *)
(***************************************************************************)
EXTENDS Integers, FiniteSets

CONSTANTS
  N,         \* MAX_NUM_EVENT_TRIGGERS
  MaxCalls,  \* bound on the calls of triggerEvent
  Usages     \* subset of {"handlers", "foreign", "mixed"}: who triggers events

ASSUME TriggerAssumption ==
  /\ N \in Nat \ {0}
  /\ MaxCalls \in Nat
  /\ Usages \subseteq {"handlers", "foreign", "mixed"}

VARIABLES
  handlers,  \* triggers with a handler: fTriggeredEventHandlers[i] # NULL
  data,      \* fTriggeredEventClientDatas, 0 for NULL
  awaiting,  \* fTriggersAwaitingHandling
  lastMask,  \* fLastUsedTriggerMask
  lastNum,   \* fLastUsedTriggerNum
  call,      \* triggerEvent as each thread executes it
  search,    \* SingleStep's locals while it looks for a triggered event
  owed,      \* data of the newest triggerEvent that returned, until it is handled
  calls,     \* calls of triggerEvent so far; the data of each is its number
  usage      \* how this application uses triggers

shared == <<handlers, data, awaiting, lastMask, lastNum>>
trigVars == <<shared, call, search, owed, calls, usage>>

Trigger == 0 .. N - 1
Caller == {"app", "loop"}

NoCall == [at |-> "idle", trigger |-> 0, data |-> 0, seen |-> {}]
NoSearch == [at |-> "done", mask |-> 0, num |-> 0, seen |-> {}]

TriggerTypeOK ==
  /\ handlers \subseteq Trigger
  /\ data \in [Trigger -> 0 .. MaxCalls]
  /\ awaiting \subseteq Trigger
  /\ lastMask \in Trigger
  /\ lastNum \in Trigger
  /\ call \in [Caller -> [at : {"idle", "compare", "common", "store", "mask", "num", "or", "write"},
                          trigger : Trigger, data : 0 .. MaxCalls, seen : SUBSET Trigger]]
  /\ search \in [at : {"done", "check", "test", "clear", "common", "and", "write", "call", "mask", "num"},
                 mask : Trigger, num : Trigger, seen : SUBSET Trigger]
  /\ owed \in [Trigger -> 0 .. MaxCalls]
  /\ calls \in 0 .. MaxCalls
  /\ usage \in Usages

\* The constructor: no handler, and the last trigger used is the last one.
FreshTriggers ==
  /\ handlers = {}
  /\ data = [t \in Trigger |-> 0]
  /\ awaiting = {}
  /\ lastMask = N - 1
  /\ lastNum = N - 1
  /\ call = [c \in Caller |-> NoCall]
  /\ search = NoSearch
  /\ owed = [t \in Trigger |-> 0]

\* server_init makes a new scheduler; the one before it stays as it is, unused.
ResetTriggers ==
  /\ handlers' = {}
  /\ data' = [t \in Trigger |-> 0]
  /\ awaiting' = {}
  /\ lastMask' = N - 1
  /\ lastNum' = N - 1
  /\ call' = [c \in Caller |-> NoCall]
  /\ search' = NoSearch
  /\ owed' = [t \in Trigger |-> 0]
  /\ UNCHANGED <<calls, usage>>

\* The i-th trigger that a search meets which starts after t, i in 1 .. N.
After(t, i) == (t + i) % N

\* Triggers are made by handlers of the loop; an application with a foreign
\* thread makes its triggers before it uses them.
CreateEventTrigger ==
  /\ call["loop"].at = "idle"
  /\ usage # "handlers" => calls = 0
  /\ \E i \in 1 .. N :
       /\ After(lastNum, i) \notin handlers
       /\ \A j \in 1 .. i - 1 : After(lastNum, j) \in handlers
       /\ handlers' = handlers \cup {After(lastNum, i)}
       /\ data' = [data EXCEPT ![After(lastNum, i)] = 0]
       /\ lastMask' = After(lastMask, i)
       /\ lastNum' = After(lastNum, i)
  /\ UNCHANGED <<awaiting, call, search, owed, calls, usage>>

\* The common case goes through fLastUsedTriggerNum, the other through the mask.
DeleteEventTrigger(t) ==
  /\ call["loop"].at = "idle"
  /\ usage = "handlers"
  /\ t \in handlers
  /\ LET i == IF t = lastMask THEN lastNum ELSE t IN
       /\ handlers' = handlers \ {i}
       /\ data' = [data EXCEPT ![i] = 0]
  /\ awaiting' = awaiting \ {t}
  /\ owed' = [owed EXCEPT ![t] = 0]
  /\ UNCHANGED <<lastMask, lastNum, call, search, calls, usage>>

-----------------------------------------------------------------------------
(* triggerEvent(t, d) by thread c. *)

BeginTrigger(c, t) ==
  /\ c = "app" => usage # "handlers"
  /\ c = "loop" => usage # "foreign"
  /\ usage = "foreign" => t = 0
  /\ call[c].at = "idle"
  /\ t \in handlers
  /\ calls < MaxCalls
  /\ calls' = calls + 1
  /\ call' = [call EXCEPT ![c] = [NoCall EXCEPT !.at = "compare", !.trigger = t, !.data = calls + 1]]
  /\ UNCHANGED <<shared, search, owed, usage>>

CallGoes(c, at) == call' = [call EXCEPT ![c].at = at]

\* Is it the trigger used last?
CompareMask(c) ==
  /\ call[c].at = "compare"
  /\ CallGoes(c, IF call[c].trigger = lastMask THEN "common" ELSE "store")
  /\ UNCHANGED shared

StoreCommon(c) ==
  /\ call[c].at = "common"
  /\ data' = [data EXCEPT ![lastNum] = call[c].data]
  /\ CallGoes(c, "or")
  /\ UNCHANGED <<handlers, awaiting, lastMask, lastNum>>

\* The three assignments in the search for the trigger's bit.
StoreData(c) ==
  /\ call[c].at = "store"
  /\ data' = [data EXCEPT ![call[c].trigger] = call[c].data]
  /\ CallGoes(c, "mask")
  /\ UNCHANGED <<handlers, awaiting, lastMask, lastNum>>

StoreMask(c) ==
  /\ call[c].at = "mask"
  /\ lastMask' = call[c].trigger
  /\ CallGoes(c, "num")
  /\ UNCHANGED <<handlers, data, awaiting, lastNum>>

StoreNum(c) ==
  /\ call[c].at = "num"
  /\ lastNum' = call[c].trigger
  /\ CallGoes(c, "or")
  /\ UNCHANGED <<handlers, data, awaiting, lastMask>>

\* fTriggersAwaitingHandling |= eventTriggerId: the read ...
ReadAwaiting(c) ==
  /\ call[c].at = "or"
  /\ call' = [call EXCEPT ![c].seen = awaiting, ![c].at = "write"]
  /\ UNCHANGED shared

\* ... and the write, after which triggerEvent returns.
WriteAwaiting(c) ==
  /\ call[c].at = "write"
  /\ awaiting' = call[c].seen \cup {call[c].trigger}
  /\ call' = [call EXCEPT ![c] = NoCall]
  /\ owed' = [owed EXCEPT ![call[c].trigger] = call[c].data]
  /\ UNCHANGED <<handlers, data, lastMask, lastNum, search, calls, usage>>

TriggerStep(c) ==
  \/ /\ \/ CompareMask(c) \/ StoreCommon(c) \/ StoreData(c)
        \/ StoreMask(c) \/ StoreNum(c) \/ ReadAwaiting(c)
     /\ UNCHANGED <<search, owed, calls, usage>>
  \/ WriteAwaiting(c)

-----------------------------------------------------------------------------
(* SingleStep, after its socket handler. *)

\* A call of trigger i's handler, if it has one, settles what it is owed.
Handled(i) ==
  owed' = IF i \in handlers /\ data[i] >= owed[i] THEN [owed EXCEPT ![i] = 0] ELSE owed

AnyAwaiting ==
  /\ search.at = "check"
  /\ search' = [search EXCEPT !.at = IF awaiting = {} THEN "done" ELSE "test"]
  /\ UNCHANGED <<shared, owed>>

\* Mutant: the common case is taken when other events wait too.
TakesCommonCase ==
  /\ search.at = "test"
  /\ search' = IF lastMask \in awaiting THEN [search EXCEPT !.at = "clear"]
               ELSE [search EXCEPT !.at = "and", !.mask = lastMask, !.num = lastNum]
  /\ UNCHANGED <<shared, owed>>

\* Only the last used one?  If not, the search starts from members read now.
OnlyLastUsed ==
  /\ search.at = "test"
  /\ search' = IF awaiting = {lastMask} THEN [search EXCEPT !.at = "clear"]
               ELSE [search EXCEPT !.at = "and", !.mask = lastMask, !.num = lastNum]
  /\ UNCHANGED <<shared, owed>>

ClearAll ==
  /\ search.at = "clear"
  /\ awaiting' = {}
  /\ search' = [search EXCEPT !.at = "common"]
  /\ UNCHANGED <<handlers, data, lastMask, lastNum, owed>>

CallCommon ==
  /\ search.at = "common"
  /\ Handled(lastNum)
  /\ search' = NoSearch
  /\ UNCHANGED shared

\* The next bit that is set, and the read of "&=~ mask"; the index moves along.
FindNext ==
  /\ search.at = "and"
  /\ LET found == {i \in 1 .. N : After(search.mask, i) \in awaiting} IN
       search' = IF found = {} THEN NoSearch
                 ELSE LET i == CHOOSE i \in found : \A j \in found : i <= j
                      IN [at |-> "write", mask |-> After(search.mask, i),
                          num |-> After(search.num, i), seen |-> awaiting]
  /\ UNCHANGED <<shared, owed>>

ClearOne ==
  /\ search.at = "write"
  /\ awaiting' = search.seen \ {search.mask}
  /\ search' = [search EXCEPT !.at = "call"]
  /\ UNCHANGED <<handlers, data, lastMask, lastNum, owed>>

CallFound ==
  /\ search.at = "call"
  /\ Handled(search.num)
  /\ search' = [search EXCEPT !.at = "mask"]
  /\ UNCHANGED shared

RememberMask ==
  /\ search.at = "mask"
  /\ lastMask' = search.mask
  /\ search' = [search EXCEPT !.at = "num"]
  /\ UNCHANGED <<handlers, data, awaiting, lastNum, owed>>

RememberNum ==
  /\ search.at = "num"
  /\ lastNum' = search.num
  /\ search' = NoSearch
  /\ UNCHANGED <<handlers, data, awaiting, lastMask, owed>>

SearchStep ==
  /\ \/ AnyAwaiting \/ OnlyLastUsed \/ ClearAll \/ CallCommon
     \/ FindNext \/ ClearOne \/ CallFound \/ RememberMask \/ RememberNum
  /\ UNCHANGED <<call, calls, usage>>

-----------------------------------------------------------------------------
\* Mask and index name the same trigger whenever neither thread is between
\* the two assignments.  (triggerEvent lines 131-148, SingleStep 153-184.)
LastUsedAgrees ==
  ((\A c \in Caller : call[c].at # "num") /\ search.at # "num") => lastMask = lastNum

=============================================================================

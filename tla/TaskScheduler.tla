---------------------------- MODULE TaskScheduler ----------------------------
(***************************************************************************)
(* The socket part of the event loop: BasicTaskScheduler and its           *)
(* HandlerSet (BasicUsageEnvironment).  Two data structures say what is    *)
(* watched: the fd_sets given to select(), cut off at fMaxNumSockets, and  *)
(* the list of handler descriptors, which SingleStep searches for one      *)
(* handler to call, beginning past the last one it called.                 *)
(*                                                                         *)
(* Handlers, and the application's own thread (AFDRTSPClient.cpp 393-462), *)
(* change the watched sockets at any point between two steps of the loop;  *)
(* each such call is atomic here.  A handler that re-enters doEventLoop    *)
(* (RTSPClient::blockForResponse) is a handler that ends earlier: nothing  *)
(* the outer SingleStep remembers is used after its handler returns.       *)
(***************************************************************************)
EXTENDS Integers, Sequences, FiniteSets

CONSTANTS
  Socket,      \* socket numbers
  Condition,   \* SOCKET_READABLE, SOCKET_WRITABLE, SOCKET_EXCEPTION
  MaxChanges   \* bound on the calls that change what is watched

ASSUME SchedulerAssumption ==
  /\ Socket \subseteq Nat
  /\ MaxChanges \in Nat

VARIABLES
  order,          \* fHandlers: the socketNum of each descriptor, from the head
  conditionSet,   \* of the socket's descriptor, {} without one
  fds,            \* fReadSet, fWriteSet, fExceptionSet
  maxNumSockets,  \* fMaxNumSockets
  lastHandled,    \* fLastHandledSocketNum
  ready,          \* the kernel's view: <<socket, condition>>
  selected,       \* the copies of the fd_sets that select() filled in, {} outside
  phase,          \* of SingleStep
  changes         \* calls made so far that change what is watched

watched == <<order, conditionSet, fds, maxNumSockets>>
vars == <<watched, lastHandled, ready, selected, phase, changes>>

TypeOK ==
  /\ order \in Seq(Socket)
  /\ conditionSet \in [Socket -> SUBSET Condition]
  /\ fds \in [Condition -> SUBSET Socket]
  /\ maxNumSockets \in Nat
  /\ lastHandled \in Socket \cup {-1}
  /\ ready \subseteq Socket \X Condition
  /\ selected \subseteq Socket \X Condition
  /\ phase \in {"loop", "selected", "handler"}
  /\ changes \in 0 .. MaxChanges

Init ==
  /\ order = <<>>
  /\ conditionSet = [s \in Socket |-> {}]
  /\ fds = [c \in Condition |-> {}]
  /\ maxNumSockets = 0
  /\ lastHandled = -1
  /\ ready = {}
  /\ selected = {}
  /\ phase = "loop"
  /\ changes = 0

-----------------------------------------------------------------------------
(* setBackgroundHandling and moveSocketHandling. *)

\* The list without its i-th descriptor (~HandlerDescriptor), i = 0 for none.
Unlink(l, i) == IF i = 0 THEN l ELSE SubSeq(l, 1, i - 1) \o SubSeq(l, i + 1, Len(l))

\* Mutant: a lookup that stops at the head of the list.
LookupHead(l, s) == IF l # <<>> /\ Head(l) = s THEN 1 ELSE 0

\* lookupHandler: the position of the first descriptor of s, 0 if it has none.
Lookup(l, s) ==
  LET at == {i \in DOMAIN l : l[i] = s}
  IN IF at = {} THEN 0 ELSE CHOOSE i \in at : \A j \in at : i <= j

\* FD_CLR in all three sets, FD_SET in those of cs.
Watch(s, cs) == [c \in Condition |-> IF c \in cs THEN fds[c] \cup {s} ELSE fds[c] \ {s}]

RaisedTo(m, s) == IF s + 1 > m THEN s + 1 ELSE m

LoweredFrom(m, s) == IF s + 1 = m THEN m - 1 ELSE m

\* Mutant: the bound is not raised when a handler moves to a higher number.
MoveWithoutRaise(m, old, new) == LoweredFrom(m, old)

MaxAfterMove(m, old, new) == RaisedTo(LoweredFrom(m, old), new)

Changed == changes < MaxChanges /\ changes' = changes + 1

\* A new descriptor is linked in at the head; an existing one is updated.
EnableHandling(s, cs) ==
  /\ Changed
  /\ cs # {}
  /\ fds' = Watch(s, cs)
  /\ order' = IF Lookup(order, s) = 0 THEN <<s>> \o order ELSE order
  /\ conditionSet' = [conditionSet EXCEPT ![s] = cs]
  /\ maxNumSockets' = RaisedTo(maxNumSockets, s)
  /\ UNCHANGED <<lastHandled, ready, selected, phase>>

\* conditionSet == 0.
DisableHandling(s) ==
  /\ Changed
  /\ fds' = Watch(s, {})
  /\ order' = Unlink(order, Lookup(order, s))
  /\ conditionSet' = [conditionSet EXCEPT ![s] = {}]
  /\ maxNumSockets' = LoweredFrom(maxNumSockets, s)
  /\ UNCHANGED <<lastHandled, ready, selected, phase>>

\* Socket::changePort gives the socket another number, which has no handler
\* (the old socket is closed first, NetInterface.cpp 97-110).
MoveSocketHandling(old, new) ==
  LET at == Lookup(order, old)
  IN /\ Changed
     /\ old # new /\ conditionSet[new] = {}
     /\ fds' = [c \in Condition |-> IF old \in fds[c] THEN (fds[c] \ {old}) \cup {new}
                                                       ELSE fds[c]]
     /\ order' = IF at = 0 THEN order ELSE [order EXCEPT ![at] = new]
     /\ conditionSet' = [conditionSet EXCEPT ![new] = conditionSet[old], ![old] = {}]
     /\ maxNumSockets' = MaxAfterMove(maxNumSockets, old, new)
     /\ ready' = ready \ ({old} \X Condition)
     /\ UNCHANGED <<lastHandled, selected, phase>>

-----------------------------------------------------------------------------
(* SingleStep. *)

\* A packet, a connection or buffer space arrives on a socket that is watched
\* for it (until it is, it may as well arrive later).
BecomeReady(s, c) ==
  /\ c \in conditionSet[s]
  /\ ready' = ready \cup {<<s, c>>}
  /\ UNCHANGED <<watched, lastHandled, selected, phase, changes>>

\* select() sees the sockets of the fd_sets that are below fMaxNumSockets.
Select ==
  /\ phase = "loop"
  /\ selected' = {r \in ready : r[1] \in fds[r[2]] /\ r[1] < maxNumSockets}
  /\ phase' = "selected"
  /\ UNCHANGED <<watched, lastHandled, ready, changes>>

\* The test before a handler is called, with its sanity check on the fd_sets.
Callable(s) == \E c \in conditionSet[s] : <<s, c>> \in selected /\ s \in fds[c]

Candidates == {i \in DOMAIN order : Callable(order[i])}

\* Mutant: the search always starts at the head of the list.
FirstCandidate(i) == \A j \in Candidates : i <= j

\* i is the first candidate past the descriptor of the last handled socket, or
\* the first one of all if there is none past it or that descriptor is gone.
NextCandidate(i) ==
  LET past == {j \in Candidates : j > Lookup(order, lastHandled)}
  IN IF past = {} THEN \A j \in Candidates : i <= j
                  ELSE i \in past /\ \A j \in past : i <= j

\* The handler is called and takes what made its socket ready.
CallHandler(i) ==
  /\ phase = "selected"
  /\ i \in Candidates
  /\ NextCandidate(i)
  /\ lastHandled' = order[i]
  /\ ready' = ready \ ({order[i]} \X Condition)
  /\ phase' = "handler"
  /\ selected' = {}
  /\ UNCHANGED <<watched, changes>>

CallNoHandler ==
  /\ phase = "selected"
  /\ Candidates = {}
  /\ lastHandled' = -1
  /\ phase' = "loop"
  /\ selected' = {}
  /\ UNCHANGED <<watched, ready, changes>>

\* The handler returns (event triggers and alarms come before the next select).
HandlerReturns ==
  /\ phase = "handler"
  /\ phase' = "loop"
  /\ UNCHANGED <<watched, lastHandled, ready, selected, changes>>

Dispatch == CallNoHandler \/ \E i \in DOMAIN order : CallHandler(i)

Change ==
  \/ \E s \in Socket, cs \in SUBSET Condition : EnableHandling(s, cs)
  \/ \E s \in Socket : DisableHandling(s)
  \/ \E old, new \in Socket : MoveSocketHandling(old, new)

Next ==
  \/ Change
  \/ \E s \in Socket, c \in Condition : BecomeReady(s, c)
  \/ Select \/ Dispatch \/ HandlerReturns

\* doEventLoop calls SingleStep for ever, and handlers return.
Fairness == WF_vars(Select) /\ WF_vars(Dispatch) /\ WF_vars(HandlerReturns)

Spec == Init /\ [][Next]_vars /\ Fairness

-----------------------------------------------------------------------------
\* select() watches exactly the conditions of the descriptors, and its first
\* argument leaves none of them out: a socket above fMaxNumSockets would never
\* be served, whatever sequence of calls lowered the bound.
SelectSeesEveryHandler ==
  \A c \in Condition, s \in Socket :
    /\ s \in fds[c] <=> c \in conditionSet[s]
    /\ s \in fds[c] => s < maxNumSockets

\* The list holds one descriptor for each watched socket: a second one for the
\* same number would survive disableBackgroundHandling, with its clientData.
OneDescriptorPerSocket ==
  /\ \A i, j \in DOMAIN order : order[i] = order[j] => i = j
  /\ \A s \in Socket : conditionSet[s] # {} <=> \E i \in DOMAIN order : order[i] = s

\* "To ensure forward progress through the handlers" (BasicTaskScheduler.cpp
\* 107): once the watched sockets no longer change, one that is ready is called,
\* however often the others are.
Waiting(s) == \E c \in conditionSet[s] : <<s, c>> \in ready
ReadySocketServed == \A s \in Socket : Waiting(s) ~> ~Waiting(s)

=============================================================================

-------------------------- MODULE EventLoopProofs --------------------------
(***************************************************************************)
(* Proofs about the event loop: its two lists, for every set of sockets    *)
(* and of tasks, and the threads that run it, for any number of threads,   *)
(* triggers and calls.                                                     *)
(*                                                                         *)
(* TaskScheduler: that each descriptor's socket is below fMaxNumSockets    *)
(* needs, for the call that lowers the bound, that no fd_set holds the     *)
(* number being given up, hence SelectSeesEveryHandler as a whole; that    *)
(* the list has no duplicates needs that conditionSet tells which sockets  *)
(* have a descriptor.                                                      *)
(*                                                                         *)
(* DelayQueue: a list of deltas is understood by what it says of tasks     *)
(* (Tasks, LeftOf, AheadOf).  PassedView, InsertView and RemoveView tell   *)
(* what synchronize, addEntry and removeEntry change of that; the          *)
(* refinement of Timers follows operation by operation.                    *)
(*                                                                         *)
(* LoopThread: one loop at a time, on a live object, a thread in its loop  *)
(* when server_init has returned, and one trigger that was used last.      *)
(***************************************************************************)
EXTENDS TaskScheduler, DelayQueue, LoopThread, SequenceTheorems, FiniteSetTheorems, TLAPS

SchedulerInv == TypeOK /\ SelectSeesEveryHandler /\ OneDescriptorPerSocket

Distinct(l) == \A i, j \in DOMAIN l : l[i] = l[j] => i = j

-----------------------------------------------------------------------------
(* The handler list. *)

\* lookupHandler in a list without duplicates finds the descriptor, if any.
LEMMA LookupFinds ==
  ASSUME NEW l \in Seq(Socket), NEW s, Distinct(l)
  PROVE  /\ Lookup(l, s) \in 0 .. Len(l)
         /\ Lookup(l, s) = 0 => \A i \in DOMAIN l : l[i] # s
         /\ Lookup(l, s) # 0 => l[Lookup(l, s)] = s
<1> DEFINE at == {i \in DOMAIN l : l[i] = s}
<1>1. CASE at = {}
  BY <1>1 DEF Lookup
<1>2. CASE at # {}
  <2>1. PICK k \in at : TRUE
    BY <1>2
  <2>2. at = {k} /\ k \in 1 .. Len(l) /\ l[k] = s
    BY <2>1 DEF Distinct
  <2>3. \A j \in at : k <= j
    BY <2>2
  <2>4. Lookup(l, s) = CHOOSE i \in at : \A j \in at : i <= j
    BY <1>2 DEF Lookup
  <2>5. Lookup(l, s) = k
    BY <2>2, <2>3, <2>4
  <2>6. QED
    BY <2>2, <2>5
<1>3. QED
  BY <1>1, <1>2

\* Unlinking the i-th descriptor of a list without duplicates removes that
\* socket and no other.
LEMMA UnlinkRemoves ==
  ASSUME NEW l \in Seq(Socket), Distinct(l), NEW i \in 1 .. Len(l)
  PROVE  /\ Unlink(l, i) \in Seq(Socket)
         /\ Distinct(Unlink(l, i))
         /\ \A s : (\E j \in DOMAIN Unlink(l, i) : Unlink(l, i)[j] = s)
                    <=> (s # l[i] /\ \E j \in DOMAIN l : l[j] = s)
<1> DEFINE front == SubSeq(l, 1, i - 1)
           back == SubSeq(l, i + 1, Len(l))
           u == front \o back
<1>0. Unlink(l, i) = u /\ Len(l) \in Nat /\ DOMAIN l = 1 .. Len(l)
  <2>1. Len(l) \in Nat /\ DOMAIN l = 1 .. Len(l)
    BY LenProperties
  <2>2. i # 0
    BY <2>1
  <2>3. QED
    BY <2>1, <2>2, Zenon DEF Unlink
<1>1. /\ front \in Seq(Socket) /\ Len(front) = i - 1
      /\ \A j \in 1 .. i - 1 : front[j] = l[j]
  <2>1. \A j \in 1 .. i - 1 : l[j] \in Socket
    BY <1>0
  <2>2. /\ front \in Seq(Socket)
        /\ Len(front) = IF 1 <= i - 1 THEN (i - 1) - 1 + 1 ELSE 0
        /\ \A j \in 1 .. (i - 1) - 1 + 1 : front[j] = l[1 + j - 1]
    BY <2>1, <1>0, SubSeqProperties
  <2>3. QED
    BY <2>2, <1>0
<1>2a. /\ back \in Seq(Socket) /\ Len(back) = Len(l) - i
      /\ \A j \in 1 .. Len(l) - i : back[j] = l[i + j]
  <2>1. \A j \in i + 1 .. Len(l) : l[j] \in Socket
    BY <1>0
  <2>2. /\ i + 1 \in Int /\ Len(l) \in Int
    BY <1>0
  <2>3. /\ back \in Seq(Socket)
        /\ Len(back) = IF i + 1 <= Len(l) THEN Len(l) - (i + 1) + 1 ELSE 0
        /\ \A j \in 1 .. Len(l) - (i + 1) + 1 : back[j] = l[(i + 1) + j - 1]
    BY <2>1, <2>2, SubSeqProperties
  <2> HIDE DEF back
  <2>4. ASSUME NEW j \in 1 .. Len(l) - i
        PROVE  back[j] = l[i + j]
    <3>1. (i + 1) + j - 1 = i + j /\ j \in 1 .. Len(l) - (i + 1) + 1
      BY <1>0
    <3>2. QED
      BY <2>3, <3>1
  <2>5. Len(l) \in Nat /\ i \in Nat /\ i <= Len(l)
    BY <1>0
  <2>6. Len(back) = Len(l) - i
    <3>1. CASE i + 1 <= Len(l)
      BY <2>3, <2>5, <3>1
    <3>2. CASE ~(i + 1 <= Len(l))
      BY <2>3, <2>5, <3>2
    <3>3. QED
      BY <3>1, <3>2
  <2>7. QED
    BY <2>3, <2>4, <2>6
<1>2b. /\ u \in Seq(Socket)
      /\ Len(u) = Len(front) + Len(back)
      /\ \A j \in 1 .. Len(front) + Len(back) :
           u[j] = IF j <= Len(front) THEN front[j] ELSE back[j - Len(front)]
  BY <1>1, <1>2a, ConcatProperties
<1> HIDE DEF front, back, u
<1>2. u \in Seq(Socket) /\ Len(u) = Len(l) - 1
  BY <1>0, <1>1, <1>2a, <1>2b
<1>3. \A j \in 1 .. Len(u) : u[j] = IF j < i THEN l[j] ELSE l[j + 1]
  BY <1>0, <1>1, <1>2a, <1>2b
<1>4. DOMAIN u = 1 .. Len(u) /\ DOMAIN l = 1 .. Len(l)
  BY <1>0, <1>2
<1>5. Distinct(u)
  <2>1. Len(u) = Len(l) - 1 /\ Len(l) \in Nat /\ i \in 1 .. Len(l)
    BY <1>0, <1>2
  <2>2. ASSUME NEW x \in 1 .. Len(u)
        PROVE  \E y \in 1 .. Len(l) : u[x] = l[y] /\ y = IF x < i THEN x ELSE x + 1
    <3>1. PICK y : y = IF x < i THEN x ELSE x + 1
      OBVIOUS
    <3>2. y \in 1 .. Len(l)
      BY ONLY <2>1, <2>2, <3>1
    <3>3. u[x] = l[y]
      BY <1>3, <3>1
    <3> QED BY <3>1, <3>2, <3>3
  <2>3. ASSUME NEW a \in 1 .. Len(u), NEW b \in 1 .. Len(u), u[a] = u[b]
        PROVE  a = b
    <3>1. PICK x \in 1 .. Len(l) : u[a] = l[x] /\ x = IF a < i THEN a ELSE a + 1
      BY <2>2
    <3>2. PICK y \in 1 .. Len(l) : u[b] = l[y] /\ y = IF b < i THEN b ELSE b + 1
      BY <2>2
    <3>3. x = y
      BY <1>4, <2>3, <3>1, <3>2 DEF Distinct
    <3> QED BY ONLY <2>1, <2>3, <3>1, <3>2, <3>3
  <2> QED BY <1>4, <2>3 DEF Distinct
<1>6. ASSUME NEW s
      PROVE  (\E j \in DOMAIN u : u[j] = s)
               <=> (s # l[i] /\ \E j \in DOMAIN l : l[j] = s)
  <2>1. ASSUME NEW j \in DOMAIN u, u[j] = s
        PROVE  s # l[i] /\ \E k \in DOMAIN l : l[k] = s
    <3>1. CASE j < i
      BY <2>1, <3>1, <1>2, <1>3, <1>4 DEF Distinct
    <3>2. CASE ~(j < i)
      <4>1. j + 1 \in DOMAIN l /\ l[j + 1] = s /\ j + 1 # i
        BY <2>1, <3>2, <1>2, <1>3, <1>4
      <4>2. QED
        BY <4>1, <1>4 DEF Distinct
    <3>3. QED
      BY <3>1, <3>2
  <2>2. ASSUME s # l[i], NEW k \in DOMAIN l, l[k] = s
        PROVE  \E j \in DOMAIN u : u[j] = s
    <3>1. CASE k < i
      <4>1. k \in DOMAIN u /\ u[k] = s
        BY <2>2, <3>1, <1>2, <1>3, <1>4
      <4>2. QED
        BY <4>1
    <3>2. CASE k > i
      <4>1. k - 1 \in DOMAIN u /\ u[k - 1] = s
        BY <2>2, <3>2, <1>2, <1>3, <1>4
      <4>2. QED
        BY <4>1
    <3>3. QED
      BY <2>2, <3>1, <3>2, <1>4
  <2>3. QED
    BY <2>1, <2>2
<1>7. QED
  BY <1>0, <1>2, <1>5, <1>6

-----------------------------------------------------------------------------
(* The calls that change what is watched. *)

LEMMA EnableKeepsInv ==
  ASSUME SchedulerInv, NEW s \in Socket, NEW cs \in SUBSET Condition,
         EnableHandling(s, cs)
  PROVE  SchedulerInv'
<1> USE SchedulerAssumption
<1>1. TypeOK'
  BY DEF EnableHandling, SchedulerInv, TypeOK, Changed, Watch, RaisedTo
<1>2. SelectSeesEveryHandler'
  BY DEF EnableHandling, SchedulerInv, TypeOK, SelectSeesEveryHandler, Watch, RaisedTo
<1>3. OneDescriptorPerSocket'
  <2> DEFINE at == Lookup(order, s)
  <2>1. /\ at \in 0 .. Len(order)
        /\ at = 0 => \A i \in DOMAIN order : order[i] # s
        /\ at # 0 => order[at] = s
    BY LookupFinds DEF SchedulerInv, TypeOK, OneDescriptorPerSocket, Distinct
  <2>2. conditionSet' = [conditionSet EXCEPT ![s] = cs] /\ cs # {}
    BY DEF EnableHandling
  <2>3. CASE at # 0
    <3>1. order' = order
      BY <2>3 DEF EnableHandling
    <3>2. QED
      BY <2>1, <2>2, <2>3, <3>1 DEF SchedulerInv, TypeOK, OneDescriptorPerSocket
  <2>4. CASE at = 0
    <3>1. order' = <<s>> \o order
      BY <2>4 DEF EnableHandling
    <3>2. /\ Len(order') = Len(order) + 1
          /\ DOMAIN order' = 1 .. Len(order) + 1
          /\ DOMAIN order = 1 .. Len(order)
          /\ order'[1] = s
          /\ \A i \in DOMAIN order : order'[i + 1] = order[i]
      BY <3>1 DEF SchedulerInv, TypeOK
    <3>3. \A i \in DOMAIN order' : i = 1 \/ (i - 1 \in DOMAIN order /\ order'[i] = order[i - 1])
      BY <3>2 DEF SchedulerInv, TypeOK
    <3>4. \A i, j \in DOMAIN order' : order'[i] = order'[j] => i = j
      BY <2>1, <2>4, <3>2, <3>3 DEF SchedulerInv, OneDescriptorPerSocket
    <3>5. ASSUME NEW r \in Socket
          PROVE  conditionSet'[r] # {} <=> \E i \in DOMAIN order' : order'[i] = r
      <4>1. CASE r = s
        BY <2>2, <3>2, <4>1 DEF SchedulerInv, TypeOK
      <4>2. CASE r # s
        <5>1. (\E i \in DOMAIN order' : order'[i] = r) <=> \E i \in DOMAIN order : order[i] = r
          BY <3>2, <3>3, <4>2 DEF SchedulerInv, TypeOK
        <5>2. QED
          BY <2>2, <4>2, <5>1 DEF SchedulerInv, TypeOK, OneDescriptorPerSocket
      <4>3. QED
        BY <4>1, <4>2
    <3>6. QED
      BY <3>4, <3>5 DEF OneDescriptorPerSocket
  <2>5. QED
    BY <2>3, <2>4
<1>4. QED
  BY <1>1, <1>2, <1>3 DEF SchedulerInv

LEMMA DisableKeepsInv ==
  ASSUME SchedulerInv, NEW s \in Socket, DisableHandling(s)
  PROVE  SchedulerInv'
<1> USE SchedulerAssumption
<1> DEFINE at == Lookup(order, s)
<1>1. /\ at \in 0 .. Len(order)
      /\ at = 0 => \A i \in DOMAIN order : order[i] # s
      /\ at # 0 => order[at] = s
  BY LookupFinds DEF SchedulerInv, TypeOK, OneDescriptorPerSocket, Distinct
<1>2. /\ order' \in Seq(Socket)
      /\ \A i, j \in DOMAIN order' : order'[i] = order'[j] => i = j
      /\ \A r : (\E i \in DOMAIN order' : order'[i] = r)
                 <=> (r # s /\ \E i \in DOMAIN order : order[i] = r)
  <2>1. order' = Unlink(order, at)
    BY DEF DisableHandling
  <2>2. CASE at = 0
    BY <1>1, <2>1, <2>2 DEF Unlink, SchedulerInv, TypeOK, OneDescriptorPerSocket
  <2>3. CASE at # 0
    <3>1. at \in 1 .. Len(order)
      BY <1>1, <2>3
    <3>2. Distinct(order) /\ order \in Seq(Socket)
      BY DEF SchedulerInv, TypeOK, OneDescriptorPerSocket, Distinct
    <3>3. /\ Unlink(order, at) \in Seq(Socket)
          /\ Distinct(Unlink(order, at))
          /\ \A r : (\E j \in DOMAIN Unlink(order, at) : Unlink(order, at)[j] = r)
                     <=> (r # order[at] /\ \E j \in DOMAIN order : order[j] = r)
      <4> HIDE DEF at
      <4>1. QED
        BY <3>1, <3>2, UnlinkRemoves
    <3>4. QED
      BY <1>1, <2>1, <2>3, <3>3 DEF Distinct
  <2>4. QED
    BY <2>2, <2>3
<1>3. TypeOK'
  BY <1>2 DEF DisableHandling, SchedulerInv, TypeOK, Changed, Watch, LoweredFrom
<1>4. SelectSeesEveryHandler'
  BY DEF DisableHandling, SchedulerInv, TypeOK, SelectSeesEveryHandler, Watch, LoweredFrom
<1>5. OneDescriptorPerSocket'
  BY <1>2 DEF DisableHandling, SchedulerInv, TypeOK, OneDescriptorPerSocket
<1>6. QED
  BY <1>3, <1>4, <1>5 DEF SchedulerInv

LEMMA MoveKeepsInv ==
  ASSUME SchedulerInv, NEW old \in Socket, NEW new \in Socket,
         MoveSocketHandling(old, new)
  PROVE  SchedulerInv'
<1> USE SchedulerAssumption
<1> DEFINE at == Lookup(order, old)
<1>1. /\ at \in 0 .. Len(order)
      /\ at = 0 => \A i \in DOMAIN order : order[i] # old
      /\ at # 0 => order[at] = old
  BY LookupFinds DEF SchedulerInv, TypeOK, OneDescriptorPerSocket, Distinct
<1>2. old # new /\ conditionSet[new] = {}
  BY DEF MoveSocketHandling
<1>3. TypeOK'
  <2>1. order' \in Seq(Socket)
    BY <1>1 DEF MoveSocketHandling, SchedulerInv, TypeOK
  <2>2. fds' \in [Condition -> SUBSET Socket]
    BY DEF MoveSocketHandling, SchedulerInv, TypeOK
  <2>3. conditionSet' \in [Socket -> SUBSET Condition]
    BY DEF MoveSocketHandling, SchedulerInv, TypeOK
  <2>4. maxNumSockets' \in Nat
    BY DEF MoveSocketHandling, MaxAfterMove, RaisedTo, LoweredFrom, SchedulerInv, TypeOK
  <2>5. QED
    BY <2>1, <2>2, <2>3, <2>4 DEF MoveSocketHandling, Changed, SchedulerInv, TypeOK
<1>4. SelectSeesEveryHandler'
  <2>1. ASSUME NEW c \in Condition, NEW s \in Socket
        PROVE  /\ s \in fds'[c] <=> c \in conditionSet'[s]
               /\ s \in fds'[c] => s < maxNumSockets'
    <3>1. fds'[c] = IF old \in fds[c] THEN (fds[c] \ {old}) \cup {new} ELSE fds[c]
      BY DEF MoveSocketHandling
    <3>2. conditionSet'[s] = IF s = old THEN {} ELSE IF s = new THEN conditionSet[old] ELSE conditionSet[s]
      BY <1>2 DEF MoveSocketHandling, SchedulerInv, TypeOK
    <3>3. s \in fds'[c] <=> c \in conditionSet'[s]
      BY <1>2, <3>1, <3>2 DEF SchedulerInv, TypeOK, SelectSeesEveryHandler
    <3>4. s \in fds'[c] => s < maxNumSockets'
      BY <1>2, <3>1 DEF MoveSocketHandling, MaxAfterMove, RaisedTo, LoweredFrom,
                        SchedulerInv, TypeOK, SelectSeesEveryHandler
    <3>5. QED
      BY <3>3, <3>4
  <2>2. QED
    BY <2>1 DEF SelectSeesEveryHandler
<1>5. OneDescriptorPerSocket'
  <2>1. conditionSet' = [conditionSet EXCEPT ![new] = conditionSet[old], ![old] = {}]
    BY DEF MoveSocketHandling
  <2>2. CASE at = 0
    <3>1. order' = order /\ conditionSet[old] = {}
      BY <1>1, <2>2 DEF MoveSocketHandling, SchedulerInv, OneDescriptorPerSocket
    <3>2. conditionSet' = conditionSet
      BY <1>2, <2>1, <3>1 DEF SchedulerInv, TypeOK
    <3>3. QED
      BY <3>1, <3>2 DEF SchedulerInv, OneDescriptorPerSocket
  <2>3. CASE at # 0
    <3>1. order' = [order EXCEPT ![at] = new]
      BY <2>3 DEF MoveSocketHandling
    <3>2. DOMAIN order' = DOMAIN order /\ at \in DOMAIN order
      BY <1>1, <2>3, <3>1 DEF SchedulerInv, TypeOK
    <3>3. \A i \in DOMAIN order : order'[i] = IF i = at THEN new ELSE order[i]
      BY <3>1, <3>2
    <3>4. \A i \in DOMAIN order : order[i] # new
      BY <1>2 DEF SchedulerInv, OneDescriptorPerSocket
    <3>5. \A i \in DOMAIN order : order[i] = old => i = at
      BY <1>1, <2>3, <3>2 DEF SchedulerInv, OneDescriptorPerSocket
    <3>6. \A i, j \in DOMAIN order' : order'[i] = order'[j] => i = j
      BY <3>2, <3>3, <3>4 DEF SchedulerInv, OneDescriptorPerSocket
    <3>7. ASSUME NEW s \in Socket
          PROVE  conditionSet'[s] # {} <=> \E i \in DOMAIN order' : order'[i] = s
      <4>1. conditionSet'[s] = IF s = old THEN {} ELSE IF s = new THEN conditionSet[old] ELSE conditionSet[s]
        BY <1>2, <2>1 DEF SchedulerInv, TypeOK
      <4>2. CASE s = old
        BY <1>2, <3>2, <3>3, <3>5, <4>1, <4>2
      <4>3. CASE s = new
        <5>1. conditionSet[old] # {}
          BY <1>1, <2>3, <3>2 DEF SchedulerInv, OneDescriptorPerSocket
        <5>2. QED
          BY <1>2, <3>2, <3>3, <4>1, <4>3, <5>1
      <4>4. CASE s # old /\ s # new
        <5>1. (\E i \in DOMAIN order' : order'[i] = s) <=> \E i \in DOMAIN order : order[i] = s
          BY <1>1, <2>3, <3>2, <3>3, <4>4
        <5>2. QED
          BY <4>1, <4>4, <5>1 DEF SchedulerInv, OneDescriptorPerSocket
      <4>5. QED
        BY <4>2, <4>3, <4>4
    <3>8. QED
      BY <3>6, <3>7 DEF OneDescriptorPerSocket
  <2>4. QED
    BY <2>2, <2>3
<1>6. QED
  BY <1>3, <1>4, <1>5 DEF SchedulerInv

-----------------------------------------------------------------------------
(* SingleStep leaves what is watched alone. *)

LEMMA LoopKeepsInv ==
  ASSUME SchedulerInv, TypeOK', UNCHANGED watched
  PROVE  SchedulerInv'
BY DEF SchedulerInv, watched, SelectSeesEveryHandler, OneDescriptorPerSocket

LEMMA SchedulerInitInv == Init => SchedulerInv
BY SchedulerAssumption DEF Init, SchedulerInv, TypeOK, SelectSeesEveryHandler,
                           OneDescriptorPerSocket

LEMMA SchedulerNextInv == SchedulerInv /\ [Next]_vars => SchedulerInv'
<1> SUFFICES ASSUME SchedulerInv, [Next]_vars PROVE SchedulerInv'
  OBVIOUS
<1>1. ASSUME NEW s \in Socket, NEW cs \in SUBSET Condition, EnableHandling(s, cs)
      PROVE  SchedulerInv'
  BY <1>1, EnableKeepsInv
<1>2. ASSUME NEW s \in Socket, DisableHandling(s)
      PROVE  SchedulerInv'
  BY <1>2, DisableKeepsInv
<1>3. ASSUME NEW old \in Socket, NEW new \in Socket, MoveSocketHandling(old, new)
      PROVE  SchedulerInv'
  BY <1>3, MoveKeepsInv
<1>4. ASSUME NEW s \in Socket, NEW c \in Condition, BecomeReady(s, c)
      PROVE  SchedulerInv'
  <2>1. TypeOK' /\ UNCHANGED watched
    BY <1>4 DEF BecomeReady, SchedulerInv, TypeOK, watched
  <2>2. QED
    BY <2>1, LoopKeepsInv
<1>5. CASE Select
  <2>1. TypeOK' /\ UNCHANGED watched
    BY <1>5 DEF Select, SchedulerInv, TypeOK, watched
  <2>2. QED
    BY <2>1, LoopKeepsInv
<1>6. ASSUME NEW i \in DOMAIN order, CallHandler(i)
      PROVE  SchedulerInv'
  <2>1. order[i] \in Socket
    BY DEF SchedulerInv, TypeOK
  <2>2. TypeOK' /\ UNCHANGED watched
    BY <1>6, <2>1 DEF CallHandler, SchedulerInv, TypeOK, watched
  <2>3. QED
    BY <2>2, LoopKeepsInv
<1>7. CASE CallNoHandler
  <2>1. TypeOK' /\ UNCHANGED watched
    BY <1>7 DEF CallNoHandler, SchedulerInv, TypeOK, watched
  <2>2. QED
    BY <2>1, LoopKeepsInv
<1>8. CASE HandlerReturns
  <2>1. TypeOK' /\ UNCHANGED watched
    BY <1>8 DEF HandlerReturns, SchedulerInv, TypeOK, watched
  <2>2. QED
    BY <2>1, LoopKeepsInv
<1>9. CASE UNCHANGED vars
  <2>1. TypeOK' /\ UNCHANGED watched
    BY <1>9 DEF vars, watched, SchedulerInv, TypeOK
  <2>2. QED
    BY <2>1, LoopKeepsInv
<1>10. QED
  BY <1>1, <1>2, <1>3, <1>4, <1>5, <1>6, <1>7, <1>8, <1>9 DEF Next, Change, Dispatch

\* Whatever the handlers and the application ask of the scheduler, in whatever
\* order, select() is told of every socket that has a handler and of no other.
THEOREM SchedulerWatchesAll == Spec => []SelectSeesEveryHandler
<1>1. SchedulerInv => SelectSeesEveryHandler
  BY DEF SchedulerInv
<1>2. QED
  BY SchedulerInitInv, SchedulerNextInv, <1>1, PTL DEF Spec

\* The handler list never holds two descriptors for one socket.
THEOREM SchedulerListExact == Spec => []OneDescriptorPerSocket
<1>1. SchedulerInv => OneDescriptorPerSocket
  BY DEF SchedulerInv
<1>2. QED
  BY SchedulerInitInv, SchedulerNextInv, <1>1, PTL DEF Spec

\* Type correctness of the scheduler's structures and of SingleStep's variables.
THEOREM SchedulerTypeCorrect == Spec => []TypeOK
<1>1. SchedulerInv => TypeOK
  BY DEF SchedulerInv
<1>2. QED
  BY SchedulerInitInv, SchedulerNextInv, <1>1, PTL DEF Spec

-----------------------------------------------------------------------------
(* The delta list: the time left to an entry is the sum of the deltas up to it. *)

Entry == [task : Task, delta : Nat]

\* Where a natural number has a property, a least one has it.
LEMMA LeastOf ==
  ASSUME NEW S, S \subseteq Nat, S # {}
  PROVE  \E i \in S : \A j \in S : i <= j
<1> DEFINE R == {ss \in Nat \X Nat : ss[1] < ss[2]}
<1>1. IsWellFoundedOn(R, Nat)
  BY NatLessThanWellFounded DEF OpToRel
<1>2. PICK i \in S : \A j \in S : ~ (<<j, i>> \in R)
  <2> HIDE DEF R
  <2> QED BY <1>1, WFMin, Zenon
<1>3. ASSUME NEW j \in S PROVE i <= j
  <2>1. i \in Nat /\ j \in Nat
    OBVIOUS
  <2>2. <<j, i>> \in Nat \X Nat /\ <<j, i>>[1] = j /\ <<j, i>>[2] = i
    BY <2>1
  <2>3. ~ (j < i)
    BY <1>2, <2>2
  <2> QED BY <2>1, <2>3
<1> QED BY <1>3

\* Sums of a list up to its k-th entry.
Sums(f, q, k) == f = [i \in 0 .. k |-> IF i = 0 THEN 0 ELSE f[i - 1] + q[i].delta]

LEMMA SumsExist ==
  ASSUME NEW n \in Nat, NEW q
  PROVE  \E f : Sums(f, q, n)
<1> DEFINE Has(k) == \E f : Sums(f, q, k)
           Without1 == {k \in Nat : ~Has(k)}
<1>1. Has(0)
  <2> DEFINE f == [i \in 0 .. 0 |-> 0]
             g == [i \in 0 .. 0 |-> IF i = 0 THEN 0 ELSE f[i - 1] + q[i].delta]
  <2>1. \A i \in 0 .. 0 : f[i] = g[i]
    OBVIOUS
  <2>2. f = [i \in 0 .. 0 |-> f[i]] /\ g = [i \in 0 .. 0 |-> g[i]]
    OBVIOUS
  <2> HIDE DEF f, g
  <2>3. f = g
    BY <2>1, <2>2
  <2>4. Sums(f, q, 0)
    BY <2>3 DEF Sums, g
  <2> QED BY <2>4
<1>2. ASSUME NEW k \in Nat, Has(k) PROVE Has(k + 1)
  <2>1. PICK f : Sums(f, q, k)
    BY <1>2
  <2> DEFINE h == [i \in 0 .. k + 1 |-> IF i = k + 1 THEN f[k] + q[k + 1].delta ELSE f[i]]
             g == [i \in 0 .. k + 1 |-> IF i = 0 THEN 0 ELSE h[i - 1] + q[i].delta]
  <2>2. \A i \in 0 .. k : h[i] = f[i]
    OBVIOUS
  <2>3. ASSUME NEW i \in 0 .. k + 1 PROVE h[i] = g[i]
    <3>1. CASE i = k + 1
      <4>1. h[i] = f[k] + q[i].delta
        BY <3>1
      <4>2. i # 0 /\ i - 1 = k /\ h[k] = f[k]
        BY <2>2, <3>1
      <4>3. g[i] = IF i = 0 THEN 0 ELSE h[i - 1] + q[i].delta
        OBVIOUS
      <4> HIDE DEF h, g
      <4> QED BY <4>1, <4>2, <4>3
    <3>2. CASE i # k + 1
      <4>1. i \in 0 .. k /\ h[i] = f[i]
        BY <2>2, <3>2
      <4>2. f[i] = IF i = 0 THEN 0 ELSE f[i - 1] + q[i].delta
        <5> DEFINE r == [j \in 0 .. k |-> IF j = 0 THEN 0 ELSE f[j - 1] + q[j].delta]
        <5>1. f = r
          BY <2>1 DEF Sums
        <5>2. r[i] = IF i = 0 THEN 0 ELSE f[i - 1] + q[i].delta
          BY <4>1
        <5> HIDE DEF r
        <5> QED BY <5>1, <5>2
      <4>3. i # 0 => i - 1 \in 0 .. k
        BY <4>1
      <4>4. i # 0 => h[i - 1] = f[i - 1]
        BY <2>2, <4>3
      <4>5. g[i] = IF i = 0 THEN 0 ELSE h[i - 1] + q[i].delta
        OBVIOUS
      <4> HIDE DEF h, g
      <4> QED BY <4>1, <4>2, <4>4, <4>5
    <3> QED BY <3>1, <3>2
  <2>4. h = [i \in 0 .. k + 1 |-> h[i]] /\ g = [i \in 0 .. k + 1 |-> g[i]]
    OBVIOUS
  <2>5. g = [i \in 0 .. k + 1 |-> IF i = 0 THEN 0 ELSE h[i - 1] + q[i].delta]
    OBVIOUS
  <2> HIDE DEF h, g
  <2>6. h = g
    BY <2>3, <2>4
  <2>7. Sums(h, q, k + 1)
    BY <2>5, <2>6 DEF Sums
  <2> QED BY <2>7
<1> HIDE DEF Has
<1>3. CASE Without1 = {}
  <2>1. Has(n)
    BY <1>3
  <2> QED BY <2>1 DEF Has
<1>4. CASE Without1 # {}
  <2>1. PICK i \in Without1 : \A j \in Without1 : i <= j
    BY <1>4, LeastOf
  <2>2. i \in Nat /\ ~Has(i) /\ i # 0
    BY <1>1, <2>1
  <2>3. i - 1 \in Nat /\ i - 1 \notin Without1
    BY <2>1, <2>2
  <2>4. Has(i - 1)
    BY <2>3
  <2>5. i - 1 + 1 = i
    BY <2>2
  <2>6. Has(i - 1 + 1)
    BY <1>2, <2>3, <2>4
  <2> QED BY <2>2, <2>5, <2>6
<1> QED BY <1>3, <1>4

\* The time left to an entry is that to the one before it and its delta.
LEMMA TimeLeftStep ==
  ASSUME NEW q \in Seq(Entry)
  PROVE  /\ TimeLeft(q, 0) = 0
         /\ \A i \in 1 .. Len(q) : TimeLeft(q, i) = TimeLeft(q, i - 1) + q[i].delta
<1> DEFINE n == Len(q)
           f == CHOOSE g : g = [k \in 0 .. Len(q) |-> IF k = 0 THEN 0 ELSE g[k - 1] + q[k].delta]
<1>1. \A i : TimeLeft(q, i) = f[i]
  BY DEF TimeLeft
<1>2. n \in Nat
  OBVIOUS
<1>3. \E g : g = [k \in 0 .. Len(q) |-> IF k = 0 THEN 0 ELSE g[k - 1] + q[k].delta]
  BY <1>2, SumsExist DEF Sums
<1>4. f = [k \in 0 .. Len(q) |-> IF k = 0 THEN 0 ELSE f[k - 1] + q[k].delta]
  BY <1>3
<1> DEFINE r == [k \in 0 .. Len(q) |-> IF k = 0 THEN 0 ELSE f[k - 1] + q[k].delta]
<1> HIDE DEF f
<1>5. r[0] = 0 /\ \A i \in 1 .. n : r[i] = f[i - 1] + q[i].delta
  BY <1>2
<1>6. f = r
  BY <1>4
<1> HIDE DEF r, n
<1>7. f[0] = 0 /\ \A i \in 1 .. n : f[i] = f[i - 1] + q[i].delta
  BY <1>5, <1>6
<1> QED BY <1>1, <1>7 DEF n

\* Induction up to n, as far as it is a matter of a set.
LEMMA UpTo ==
  ASSUME NEW n \in Nat, NEW P, 0 \in P, \A i \in 1 .. n : i - 1 \in P => i \in P
  PROVE  \A i \in 0 .. n : i \in P
<1> DEFINE Bad == {i \in 0 .. n : i \notin P}
<1>1. CASE Bad = {}
  BY <1>1
<1>2. CASE Bad # {}
  <2>1. Bad \subseteq Nat
    OBVIOUS
  <2>2. PICK i \in Bad : \A j \in Bad : i <= j
    <3> HIDE DEF Bad
    <3> QED BY <1>2, <2>1, LeastOf
  <2>3. i \in 1 .. n /\ i - 1 \in 0 .. n /\ ~(i <= i - 1)
    BY <2>2
  <2>4. i - 1 \in P
    BY <2>2, <2>3
  <2> QED BY <2>2, <2>3, <2>4
<1> QED BY <1>1, <1>2

\* The times left are what follows from 0 step by step.
LEMMA TimeLeftIs ==
  ASSUME NEW q \in Seq(Entry), NEW f, f[0] = 0,
         \A i \in 1 .. Len(q) : f[i] = f[i - 1] + q[i].delta
  PROVE  \A i \in 0 .. Len(q) : TimeLeft(q, i) = f[i]
<1> DEFINE n == Len(q)
           P == {i \in 0 .. n : TimeLeft(q, i) = f[i]}
<1>1. n \in Nat /\ TimeLeft(q, 0) = 0
      /\ \A i \in 1 .. n : TimeLeft(q, i) = TimeLeft(q, i - 1) + q[i].delta
  BY TimeLeftStep
<1> HIDE DEF n
<1>2. 0 \in P
  BY <1>1
<1>3. ASSUME NEW i \in 1 .. n, i - 1 \in P PROVE i \in P
  <2>1. f[i] = f[i - 1] + q[i].delta
    BY DEF n
  <2> QED BY <1>1, <1>3, <2>1
<1>4. \A i \in 0 .. n : i \in P
  <2> HIDE DEF P
  <2> QED BY <1>1, <1>2, <1>3, UpTo
<1> QED BY <1>4 DEF n

LEMMA DeltaNat ==
  ASSUME NEW q \in Seq(Entry), NEW i \in 1 .. Len(q)
  PROVE  q[i].delta \in Nat /\ q[i].task \in Task
<1>1. q[i] \in Entry
  OBVIOUS
<1> QED BY <1>1 DEF Entry

LEMMA TimeLeftNat ==
  ASSUME NEW q \in Seq(Entry)
  PROVE  \A i \in 0 .. Len(q) : TimeLeft(q, i) \in Nat
<1> DEFINE n == Len(q)
           P == {i \in 0 .. n : TimeLeft(q, i) \in Nat}
<1>1. n \in Nat /\ TimeLeft(q, 0) = 0
      /\ \A i \in 1 .. n : /\ TimeLeft(q, i) = TimeLeft(q, i - 1) + q[i].delta
                           /\ q[i].delta \in Nat
  BY TimeLeftStep, DeltaNat
<1> HIDE DEF n
<1>2. 0 \in P
  BY <1>1
<1>3. ASSUME NEW i \in 1 .. n, i - 1 \in P PROVE i \in P
  <2>1. PICK x : x = TimeLeft(q, i - 1)
    OBVIOUS
  <2>2. PICK y : y = q[i].delta
    OBVIOUS
  <2>3. x \in Nat /\ y \in Nat /\ TimeLeft(q, i) = x + y
    BY <1>1, <1>3, <2>1, <2>2
  <2>4. TimeLeft(q, i) \in Nat /\ i \in 0 .. n
    BY <1>1, <2>3
  <2> QED BY <2>4
<1>4. \A i \in 0 .. n : i \in P
  <2> HIDE DEF P
  <2> QED BY <1>1, <1>2, <1>3, UpTo
<1> QED BY <1>4 DEF n

\* Later entries are due no earlier.
LEMMA TimeLeftGrows ==
  ASSUME NEW q \in Seq(Entry), NEW i \in 0 .. Len(q), NEW j \in i .. Len(q)
  PROVE  TimeLeft(q, i) <= TimeLeft(q, j)
<1> DEFINE n == Len(q)
           P == {k \in 0 .. n : i <= k => TimeLeft(q, i) <= TimeLeft(q, k)}
<1>1. n \in Nat /\ i \in Nat /\ \A k \in 0 .. n : TimeLeft(q, k) \in Nat
  BY TimeLeftNat
<1>2. \A k \in 1 .. n : TimeLeft(q, k) = TimeLeft(q, k - 1) + q[k].delta /\ q[k].delta \in Nat
  BY TimeLeftStep, DeltaNat
<1>3. i \in 0 .. n /\ j \in i .. n
  OBVIOUS
<1> HIDE DEF n
<1>4. 0 \in P
  BY <1>1, <1>3
<1>5. ASSUME NEW k \in 1 .. n, k - 1 \in P PROVE k \in P
  <2>1. k - 1 \in 0 .. n /\ k \in 0 .. n
    BY <1>1
  <2>2. CASE k <= i
    BY <1>1, <1>3, <2>1, <2>2
  <2>3. CASE i < k
    <3>1. i <= k - 1
      BY <1>1, <2>1, <2>3
    <3>2. TimeLeft(q, i) <= TimeLeft(q, k - 1)
      BY <1>5, <3>1
    <3>3. /\ TimeLeft(q, i) \in Nat /\ TimeLeft(q, k - 1) \in Nat /\ q[k].delta \in Nat
          /\ TimeLeft(q, k) = TimeLeft(q, k - 1) + q[k].delta
      BY <1>1, <1>2, <1>3, <2>1
    <3>4. TimeLeft(q, i) <= TimeLeft(q, k)
      BY <3>2, <3>3
    <3> QED BY <2>1, <3>4
  <2> QED BY <1>1, <2>2, <2>3
<1>6. \A k \in 0 .. n : k \in P
  <2> HIDE DEF P
  <2> QED BY <1>1, <1>4, <1>5, UpTo
<1>7. j \in 0 .. n /\ i <= j
  BY <1>1, <1>3
<1> QED BY <1>6, <1>7

-----------------------------------------------------------------------------
(* Lists, cut in two. *)

LEMMA FrontOf ==
  ASSUME NEW S, NEW q \in Seq(S), NEW k \in 0 .. Len(q), NEW u, u = SubSeq(q, 1, k)
  PROVE  u \in Seq(S) /\ Len(u) = k /\ \A j \in 1 .. k : u[j] = q[j]
<1>1. Len(q) \in Nat /\ k \in Nat /\ k <= Len(q) /\ \A i \in 1 .. k : q[i] \in S
  OBVIOUS
<1>2. /\ u \in Seq(S) /\ Len(u) = IF 1 <= k THEN k - 1 + 1 ELSE 0
      /\ \A i \in 1 .. k - 1 + 1 : u[i] = q[1 + i - 1]
  BY <1>1, SubSeqProperties
<1> QED BY <1>1, <1>2

LEMMA BackOf ==
  ASSUME NEW S, NEW q \in Seq(S), NEW k \in 0 .. Len(q), NEW u, u = SubSeq(q, k + 1, Len(q))
  PROVE  u \in Seq(S) /\ Len(u) = Len(q) - k /\ \A j \in 1 .. Len(q) - k : u[j] = q[k + j]
<1> DEFINE n == Len(q)
           m == k + 1
<1>1. n \in Nat /\ k \in Nat /\ k <= n /\ m \in Int /\ \A i \in m .. n : q[i] \in S
  OBVIOUS
<1>2. /\ u \in Seq(S) /\ Len(u) = IF m <= n THEN n - m + 1 ELSE 0
      /\ \A i \in 1 .. n - m + 1 : u[i] = q[m + i - 1]
  BY <1>1, SubSeqProperties
<1>3. m = k + 1
  OBVIOUS
<1> HIDE DEF n, m
<1>4. Len(u) = n - k
  BY <1>1, <1>2, <1>3
<1>5. ASSUME NEW j \in 1 .. n - k PROVE u[j] = q[k + j]
  <2>1. j \in 1 .. n - m + 1 /\ m + j - 1 = k + j
    BY <1>1, <1>3
  <2> QED BY <1>2, <2>1
<1> QED BY <1>2, <1>4, <1>5 DEF n

LEMMA InsertAtIs ==
  ASSUME NEW q \in Seq(Entry), NEW m \in 1 .. Len(q) + 1, NEW e \in Entry,
         NEW p, p = InsertAt(q, m, e)
  PROVE  /\ p \in Seq(Entry) /\ Len(p) = Len(q) + 1
         /\ \A j \in 1 .. Len(q) + 1 :
              p[j] = IF j < m THEN q[j] ELSE IF j = m THEN e ELSE q[j - 1]
<1> DEFINE n == Len(q)
           k == m - 1
           u == SubSeq(q, 1, k)
           v == SubSeq(q, k + 1, n)
           w == u \o <<e>>
<1>1. p = w \o v
  <2>1. k + 1 = m
    OBVIOUS
  <2>2. p = SubSeq(q, 1, m - 1) \o <<e>> \o SubSeq(q, m, Len(q))
    BY DEF InsertAt
  <2> QED BY <2>1, <2>2
<1>2. n \in Nat /\ k \in Nat /\ k <= n /\ m = k + 1 /\ k \in 0 .. n
  OBVIOUS
<1>3. u \in Seq(Entry) /\ Len(u) = k /\ \A j \in 1 .. k : u[j] = q[j]
  BY <1>2, FrontOf
<1>4. v \in Seq(Entry) /\ Len(v) = n - k /\ \A j \in 1 .. n - k : v[j] = q[k + j]
  BY <1>2, BackOf
<1>5. <<e>> \in Seq(Entry) /\ Len(<<e>>) = 1 /\ <<e>>[1] = e
  OBVIOUS
<1> HIDE DEF u, v, k
<1>6. /\ w \in Seq(Entry) /\ Len(w) = k + 1
      /\ \A j \in 1 .. k + 1 : w[j] = IF j <= k THEN q[j] ELSE e
  <2>1. /\ w \in Seq(Entry) /\ Len(w) = Len(u) + Len(<<e>>)
        /\ \A j \in 1 .. Len(u) + Len(<<e>>) : w[j] = IF j <= Len(u) THEN u[j] ELSE <<e>>[j - Len(u)]
    BY <1>3, <1>5, ConcatProperties
  <2> HIDE DEF w
  <2>2. \A j \in 1 .. k + 1 : w[j] = IF j <= k THEN q[j] ELSE e
    <3> SUFFICES ASSUME NEW j \in 1 .. k + 1 PROVE w[j] = IF j <= k THEN q[j] ELSE e
      OBVIOUS
    <3>1. w[j] = IF j <= k THEN u[j] ELSE <<e>>[j - k]
      BY <1>3, <1>5, <2>1
    <3>2. j > k => j - k = 1
      BY <1>2
    <3>3. j <= k => j \in 1 .. k
      BY <1>2
    <3> QED BY <1>2, <1>3, <1>5, <3>1, <3>2, <3>3
  <2> QED BY <1>3, <1>5, <2>1, <2>2
<1> HIDE DEF w
<1>7. /\ p \in Seq(Entry) /\ Len(p) = Len(w) + Len(v)
      /\ \A j \in 1 .. Len(w) + Len(v) : p[j] = IF j <= Len(w) THEN w[j] ELSE v[j - Len(w)]
  <2>1. w \in Seq(Entry) /\ v \in Seq(Entry)
    BY <1>4, <1>6
  <2> QED BY ONLY <1>1, <2>1, ConcatProperties
<1>8. Len(p) = n + 1
  BY <1>2, <1>4, <1>6, <1>7
<1>9. ASSUME NEW j \in 1 .. n + 1
      PROVE  p[j] = IF j <= k THEN q[j] ELSE IF j = k + 1 THEN e ELSE q[j - 1]
  <2>1. p[j] = IF j <= k + 1 THEN w[j] ELSE v[j - (k + 1)]
    BY <1>2, <1>4, <1>6, <1>7
  <2>2. CASE j <= k + 1
    BY <1>2, <1>6, <2>1, <2>2
  <2>3. CASE ~(j <= k + 1)
    <3>1. j - (k + 1) \in 1 .. n - k /\ k + (j - (k + 1)) = j - 1
      BY <1>2, <2>3
    <3>2. v[j - (k + 1)] = q[j - 1]
      BY <1>4, <3>1
    <3> QED BY <1>2, <2>1, <2>3, <3>2
  <2> QED BY <2>2, <2>3
<1>10. \A j \in 1 .. n + 1 : (j <= k <=> j < m) /\ (j = k + 1 <=> j = m)
  BY <1>2
<1> QED BY <1>7, <1>8, <1>9, <1>10

LEMMA RemoveAtIs ==
  ASSUME NEW q \in Seq(Entry), NEW i \in 1 .. Len(q), NEW p, p = RemoveAt(q, i)
  PROVE  /\ p \in Seq(Entry) /\ Len(p) = Len(q) - 1
         /\ \A j \in 1 .. Len(q) - 1 : p[j] = IF j < i THEN q[j] ELSE q[j + 1]
<1> DEFINE n == Len(q)
           u == SubSeq(q, 1, i - 1)
           v == SubSeq(q, i + 1, n)
<1>1. p = u \o v
  BY DEF RemoveAt
<1>2. n \in Nat /\ i \in Nat /\ 1 <= i /\ i <= n
  OBVIOUS
<1>3. u \in Seq(Entry) /\ Len(u) = i - 1 /\ \A j \in 1 .. i - 1 : u[j] = q[j]
  <2>1. i - 1 \in 0 .. Len(q)
    BY <1>2
  <2> QED BY <2>1, FrontOf
<1>4. v \in Seq(Entry) /\ Len(v) = n - i /\ \A j \in 1 .. n - i : v[j] = q[i + j]
  <2>1. i \in 0 .. Len(q)
    BY <1>2
  <2> QED BY <2>1, BackOf
<1> HIDE DEF u, v
<1>5. /\ p \in Seq(Entry) /\ Len(p) = Len(u) + Len(v)
      /\ \A j \in 1 .. Len(u) + Len(v) : p[j] = IF j <= Len(u) THEN u[j] ELSE v[j - Len(u)]
  <2>1. u \in Seq(Entry) /\ v \in Seq(Entry)
    BY <1>3, <1>4
  <2> QED BY ONLY <1>1, <2>1, ConcatProperties
<1>6. Len(p) = n - 1
  BY <1>2, <1>3, <1>4, <1>5
<1>7. ASSUME NEW j \in 1 .. n - 1 PROVE p[j] = IF j < i THEN q[j] ELSE q[j + 1]
  <2>1. p[j] = IF j <= i - 1 THEN u[j] ELSE v[j - (i - 1)]
    BY <1>2, <1>3, <1>4, <1>5
  <2>2. CASE j < i
    BY <1>2, <1>3, <2>1, <2>2
  <2>3. CASE ~(j < i)
    <3>1. j - (i - 1) \in 1 .. n - i /\ i + (j - (i - 1)) = j + 1
      BY <1>2, <2>3
    <3>2. v[j - (i - 1)] = q[j + 1]
      BY <1>4, <3>1
    <3> QED BY <1>2, <2>1, <2>3, <3>2
  <2> QED BY <2>2, <2>3
<1> QED BY <1>5, <1>6, <1>7

-----------------------------------------------------------------------------
(* What the list's functions do to the times left. *)

DistinctTasks(q) == \A i, j \in DOMAIN q : q[i].task = q[j].task => i = j

LEMMA EntryIs ==
  ASSUME NEW t \in Task, NEW d \in Nat, NEW e, e = [task |-> t, delta |-> d]
  PROVE  e \in Entry /\ e.task = t /\ e.delta = d
BY DEF Entry

\* synchronize: e less for all, never below 0.
LEMMA PassedIs ==
  ASSUME NEW q \in Seq(Entry), NEW e \in Nat, NEW p, p = Passed(q, e)
  PROVE  /\ p \in Seq(Entry) /\ Len(p) = Len(q)
         /\ \A i \in 1 .. Len(q) : p[i].task = q[i].task
         /\ \A i \in 0 .. Len(q) : TimeLeft(p, i) = AtLeast0(TimeLeft(q, i) - e)
<1> DEFINE n == Len(q)
           f == [i \in 0 .. n |-> AtLeast0(TimeLeft(q, i) - e)]
           r(i) == [q[i] EXCEPT !.delta =
                      AtLeast0(TimeLeft(q, i) - e) - AtLeast0(TimeLeft(q, i - 1) - e)]
<1>1. n \in Nat /\ DOMAIN q = 1 .. n /\ TimeLeft(q, 0) = 0
      /\ \A i \in 0 .. n : TimeLeft(q, i) \in Nat
  BY TimeLeftStep, TimeLeftNat
<1>2. \A i \in 0 .. n : f[i] = AtLeast0(TimeLeft(q, i) - e) /\ f[i] \in Nat
  BY <1>1 DEF AtLeast0
<1>3. p = [i \in 1 .. n |-> r(i)]
  BY <1>1 DEF Passed
<1>4. ASSUME NEW i \in 1 .. n
      PROVE  p[i] \in Entry /\ p[i].task = q[i].task /\ f[i] = f[i - 1] + p[i].delta
  <2>1. q[i] \in Entry /\ i \in 0 .. n /\ i - 1 \in 0 .. n /\ i \in i - 1 .. n
    BY <1>1
  <2>2. TimeLeft(q, i - 1) <= TimeLeft(q, i)
    BY <2>1, TimeLeftGrows
  <2>3. /\ TimeLeft(q, i) \in Nat /\ TimeLeft(q, i - 1) \in Nat
        /\ f[i] = AtLeast0(TimeLeft(q, i) - e) /\ f[i - 1] = AtLeast0(TimeLeft(q, i - 1) - e)
    BY <1>1, <1>2, <2>1
  <2> DEFINE d == f[i] - f[i - 1]
  <2>4. p[i] = [q[i] EXCEPT !.delta = d]
    BY <1>3, <2>3
  <2> HIDE DEF f, r
  <2>5. d \in Nat /\ f[i] = f[i - 1] + d
    BY <2>2, <2>3 DEF AtLeast0
  <2> HIDE DEF d
  <2> QED BY <2>1, <2>4, <2>5 DEF Entry
<1>5. p \in Seq(Entry) /\ Len(p) = n
  <2> HIDE DEF r
  <2>1. p = [i \in 1 .. n |-> p[i]]
    BY <1>3
  <2>2. p \in [1 .. n -> Entry]
    BY <1>4, <2>1
  <2> QED BY <1>1, <2>2
<1>6. f[0] = 0
  BY <1>1, <1>2 DEF AtLeast0
<1> HIDE DEF f, r
<1>7. \A i \in 0 .. n : TimeLeft(p, i) = f[i]
  BY <1>4, <1>5, <1>6, TimeLeftIs
<1> QED BY <1>2, <1>4, <1>5, <1>7

\* The delay of one entry, or of none.
LEMMA AdjustIs ==
  ASSUME NEW q \in Seq(Entry), NEW i \in Nat, NEW d \in Int,
         i \in 1 .. Len(q) => q[i].delta + d \in Nat, NEW a, a = Adjust(q, i, d)
  PROVE  /\ a \in Seq(Entry) /\ Len(a) = Len(q)
         /\ \A j \in 1 .. Len(q) : /\ a[j].task = q[j].task
                                   /\ a[j].delta = q[j].delta + (IF j = i THEN d ELSE 0)
<1>1. Len(q) \in Nat /\ DOMAIN q = 1 .. Len(q)
      /\ \A j \in 1 .. Len(q) : q[j] \in Entry /\ q[j].delta \in Nat
  BY DeltaNat
<1>2. CASE i \in 1 .. Len(q)
  <2> DEFINE e == [q[i] EXCEPT !.delta = q[i].delta + d]
  <2>1. q[i] \in Entry
    BY <1>1, <1>2
  <2>2. e \in Entry /\ e.task = q[i].task /\ e.delta = q[i].delta + d
    BY <1>2, <2>1 DEF Entry
  <2>3. a = [q EXCEPT ![i] = e]
    BY <1>1, <1>2 DEF Adjust
  <2> HIDE DEF e
  <2>4. /\ a \in Seq(Entry) /\ Len(a) = Len(q)
        /\ \A j \in 1 .. Len(q) : a[j] = IF j = i THEN e ELSE q[j]
    BY <1>2, <2>2, <2>3, ExceptSeq
  <2> QED BY <1>1, <2>2, <2>4
<1>3. CASE i \notin 1 .. Len(q)
  <2>1. a = q
    BY <1>1, <1>3 DEF Adjust
  <2> QED BY <1>1, <1>3, <2>1
<1> QED BY <1>2, <1>3

\* The entries due no later than d are the first ones, as many as the loop of
\* addEntry passes.
LEMMA DueFirst ==
  ASSUME NEW q \in Seq(Entry), NEW d \in Nat,
         NEW k, k = Cardinality({i \in DOMAIN q : TimeLeft(q, i) <= d})
  PROVE  k \in 0 .. Len(q) /\ \A i \in 1 .. Len(q) : TimeLeft(q, i) <= d <=> i <= k
<1> DEFINE n == Len(q)
           Late == {i \in 1 .. n : ~(TimeLeft(q, i) <= d)}
           Due == {i \in DOMAIN q : TimeLeft(q, i) <= d}
<1>1. n \in Nat /\ DOMAIN q = 1 .. n
  OBVIOUS
<1>2. \E m \in 0 .. n : Due = 1 .. m
  <2>1. CASE Late = {}
    <3>1. Due = 1 .. n /\ n \in 0 .. n
      BY <1>1, <2>1
    <3> QED BY <3>1
  <2>2. CASE Late # {}
    <3>1. Late \subseteq Nat
      OBVIOUS
    <3>2. PICK m \in Late : \A j \in Late : m <= j
      <4> HIDE DEF Late
      <4> QED BY <2>2, <3>1, LeastOf
    <3>3. m \in 1 .. n /\ m \in 0 .. n /\ m - 1 \in 0 .. n
      BY <1>1, <3>2
    <3>4. \A i \in 1 .. n : i < m => TimeLeft(q, i) <= d
      BY <3>2, <3>3
    <3>5. ASSUME NEW i \in 1 .. n, m <= i PROVE ~(TimeLeft(q, i) <= d)
      <4>1. i \in m .. n /\ i \in 0 .. n
        BY <1>1, <3>3, <3>5
      <4>2. TimeLeft(q, m) <= TimeLeft(q, i)
        BY <3>3, <4>1, TimeLeftGrows
      <4>3. TimeLeft(q, m) \in Nat /\ TimeLeft(q, i) \in Nat /\ ~(TimeLeft(q, m) <= d)
        BY <3>2, <3>3, <4>1, TimeLeftNat
      <4> QED BY <4>2, <4>3
    <3>6. Due = 1 .. m - 1
      BY <1>1, <3>3, <3>4, <3>5
    <3> QED BY <3>3, <3>6
  <2> QED BY <2>1, <2>2
<1>3. PICK m \in 0 .. n : Due = 1 .. m
  BY <1>2
<1>4. Cardinality(1 .. m) = m
  <2>1. Cardinality(1 .. m) = IF 1 > m THEN 0 ELSE m - 1 + 1
    BY <1>1, <1>3, FS_Interval
  <2> QED BY <1>1, <1>3, <2>1
<1>5. k = m
  BY <1>3, <1>4
<1>6. ASSUME NEW i \in 1 .. n PROVE TimeLeft(q, i) <= d <=> i <= k
  <2>1. i \in Due <=> TimeLeft(q, i) <= d
    BY <1>1
  <2>2. i \in 1 .. m <=> i <= m
    BY <1>1
  <2> HIDE DEF Due
  <2> QED BY <1>3, <1>5, <2>1, <2>2
<1> QED BY <1>3, <1>5, <1>6

\* p is q with t, due in d, after its first k entries, those due no later.
InsertedAfter(q, t, d, p, k) ==
  /\ \A i \in 1 .. Len(q) : TimeLeft(q, i) <= d <=> i <= k
  /\ p \in Seq(Entry) /\ Len(p) = Len(q) + 1
  /\ \A i \in 1 .. k : p[i].task = q[i].task /\ TimeLeft(p, i) = TimeLeft(q, i)
  /\ p[k + 1].task = t /\ TimeLeft(p, k + 1) = d
  /\ \A i \in k + 1 .. Len(q) :
       p[i + 1].task = q[i].task /\ TimeLeft(p, i + 1) = TimeLeft(q, i)

\* addEntry: the new entry after those due no later, all times left kept.
LEMMA InsertIs ==
  ASSUME NEW q \in Seq(Entry), NEW t \in Task, NEW d \in Nat, NEW p, p = Insert(q, t, d)
  PROVE  \E k \in 0 .. Len(q) : InsertedAfter(q, t, d, p, k)
<1> DEFINE n == Len(q)
           k == Cardinality({i \in DOMAIN q : TimeLeft(q, i) <= d})
           rest == d - TimeLeft(q, k)
           a == Adjust(q, k + 1, -rest)
           e == [task |-> t, delta |-> rest]
<1>1. p = InsertAt(a, k + 1, e)
  BY DEF Insert
<1>2. k \in 0 .. n /\ \A i \in 1 .. n : TimeLeft(q, i) <= d <=> i <= k
  BY DueFirst
<1> HIDE DEF k
<1>3. /\ n \in Nat /\ k \in Nat /\ k <= n
      /\ TimeLeft(q, 0) = 0 /\ \A i \in 0 .. n : TimeLeft(q, i) \in Nat
      /\ \A i \in 1 .. n : TimeLeft(q, i) = TimeLeft(q, i - 1) + q[i].delta /\ q[i].delta \in Nat
  BY <1>2, TimeLeftStep, TimeLeftNat, DeltaNat
<1>4. TimeLeft(q, k) <= d /\ TimeLeft(q, k) \in Nat
  <2>1. CASE k = 0
    BY <1>3, <2>1
  <2>2. CASE k # 0
    <3>1. k \in 1 .. n
      BY <1>3, <2>2
    <3> QED BY <1>2, <1>3, <3>1
  <2> QED BY <2>1, <2>2
<1>5. rest \in Nat /\ TimeLeft(q, k) + rest = d
  BY <1>4
<1> HIDE DEF rest
<1>6. k + 1 \in 1 .. n => /\ q[k + 1].delta + (-rest) \in Nat
                         /\ TimeLeft(q, k + 1) = d + (q[k + 1].delta + (-rest))
  <2> SUFFICES ASSUME k + 1 \in 1 .. n
               PROVE  /\ q[k + 1].delta + (-rest) \in Nat
                      /\ TimeLeft(q, k + 1) = d + (q[k + 1].delta + (-rest))
    OBVIOUS
  <2>1. ~(TimeLeft(q, k + 1) <= d)
    BY <1>2, <1>3
  <2>2. TimeLeft(q, k + 1) = TimeLeft(q, k) + q[k + 1].delta /\ q[k + 1].delta \in Nat
    <3>1. (k + 1) - 1 = k
      BY <1>3
    <3> QED BY <1>3, <3>1
  <2>3. PICK x : x = TimeLeft(q, k)
    OBVIOUS
  <2>4. PICK y : y = q[k + 1].delta
    OBVIOUS
  <2>5. PICK z : z = TimeLeft(q, k + 1)
    OBVIOUS
  <2>6. x \in Nat /\ y \in Nat /\ rest \in Nat /\ x + rest = d /\ z = x + y /\ ~(z <= d)
    BY <1>4, <1>5, <2>1, <2>2, <2>3, <2>4, <2>5
  <2>7. y + (-rest) \in Nat /\ z = d + (y + (-rest))
    BY ONLY <2>6
  <2> QED BY <2>4, <2>5, <2>7
<1>7. /\ a \in Seq(Entry) /\ Len(a) = n
      /\ \A j \in 1 .. n : /\ a[j].task = q[j].task
                           /\ a[j].delta = q[j].delta + (IF j = k + 1 THEN -rest ELSE 0)
  <2>1. k + 1 \in Nat /\ -rest \in Int
    BY <1>3, <1>5
  <2> QED BY <1>6, <2>1, AdjustIs
<1>8. e \in Entry /\ e.task = t /\ e.delta = rest
  BY <1>5, EntryIs
<1> HIDE DEF a, e
<1>9. /\ p \in Seq(Entry) /\ Len(p) = n + 1
      /\ \A j \in 1 .. n + 1 :
           p[j] = IF j <= k THEN a[j] ELSE IF j = k + 1 THEN e ELSE a[j - 1]
  <2>1. a \in Seq(Entry) /\ k \in 0 .. Len(a) /\ e \in Entry
    BY <1>2, <1>7, <1>8
  <2> DEFINE m == k + 1
  <2>2. m \in 1 .. Len(a) + 1
    BY <1>3, <2>1
  <2>5. \A j \in Nat : j < m <=> j <= k
    BY <1>3
  <2>3. p = InsertAt(a, m, e)
    BY <1>1
  <2> HIDE DEF m
  <2>4. /\ p \in Seq(Entry) /\ Len(p) = Len(a) + 1
        /\ \A j \in 1 .. Len(a) + 1 :
             p[j] = IF j < m THEN a[j] ELSE IF j = m THEN e ELSE a[j - 1]
    <3>1. a \in Seq(Entry) /\ e \in Entry
      BY <2>1
    <3> QED BY ONLY <3>1, <2>2, <2>3, InsertAtIs, SMTT(60)
  <2> QED BY <1>7, <2>5, <2>4 DEF m
<1> DEFINE f == [i \in 0 .. n + 1 |-> IF i <= k THEN TimeLeft(q, i)
                                      ELSE IF i = k + 1 THEN d ELSE TimeLeft(q, i - 1)]
<1>10. /\ f[0] = 0
       /\ \A i \in 0 .. n + 1 : f[i] = IF i <= k THEN TimeLeft(q, i)
                                       ELSE IF i = k + 1 THEN d ELSE TimeLeft(q, i - 1)
  BY <1>3
<1> HIDE DEF f, n
<1>11. ASSUME NEW i \in 1 .. n + 1 PROVE f[i] = f[i - 1] + p[i].delta
  <2>1. i \in 0 .. n + 1 /\ i - 1 \in 0 .. n + 1 /\ i \in Nat
    BY <1>3
  <2>2. CASE i <= k
    <3>1. p[i].delta = q[i].delta
      <4>1. p[i] = a[i] /\ i \in 1 .. n /\ i # k + 1
        BY <1>3, <1>9, <2>2
      <4>2. a[i].delta = q[i].delta + 0
        BY <1>7, <4>1
      <4> QED BY <1>3, <4>1, <4>2
    <3>2. f[i] = TimeLeft(q, i) /\ f[i - 1] = TimeLeft(q, i - 1) /\ i \in 1 .. n
      BY <1>3, <1>10, <2>1, <2>2
    <3> QED BY <1>3, <3>1, <3>2
  <2>3. CASE i = k + 1
    <3>1. p[i].delta = rest
      BY <1>3, <1>8, <1>9, <2>3
    <3>2. f[i] = d /\ f[i - 1] = TimeLeft(q, k)
      <4>1. i - 1 = k /\ ~(i <= k)
        BY <1>3, <2>3
      <4>2. i - 1 <= k
        BY <1>3, <4>1
      <4> QED BY <1>10, <2>1, <2>3, <4>1, <4>2
    <3> QED BY <1>5, <3>1, <3>2
  <2>4. CASE i = k + 2
    <3>0. n \in Nat /\ k \in 0 .. n
      BY <1>3
    <3>1. i - 1 = k + 1 /\ k + 1 \in 1 .. n /\ ~(i <= k) /\ ~(i - 1 <= k) /\ i # k + 1
      BY ONLY <1>11, <2>4, <3>0
    <3>2. p[i].delta = q[k + 1].delta + (-rest)
      <4>1. p[i] = a[k + 1]
        BY <1>9, <3>1
      <4> QED BY <1>7, <3>1, <4>1
    <3>3. f[i] = TimeLeft(q, k + 1) /\ f[i - 1] = d
      BY <1>10, <2>1, <3>1
    <3> QED BY <1>6, <3>1, <3>2, <3>3
  <2>5. CASE i > k + 2
    <3>1. /\ i - 1 \in 1 .. n /\ ~(i <= k) /\ ~(i - 1 <= k) /\ i # k + 1 /\ i - 1 # k + 1
      BY <1>3, <2>5
    <3>2. p[i].delta = q[i - 1].delta
      <4>1. p[i] = a[i - 1]
        BY <1>9, <3>1
      <4>2. a[i - 1].delta = q[i - 1].delta + 0
        BY <1>7, <3>1
      <4> QED BY <1>3, <3>1, <4>1, <4>2
    <3>3. f[i] = TimeLeft(q, i - 1) /\ f[i - 1] = TimeLeft(q, (i - 1) - 1)
      BY <1>10, <2>1, <3>1
    <3> QED BY <1>3, <3>1, <3>2, <3>3
  <2> QED BY <1>3, <2>1, <2>2, <2>3, <2>4, <2>5
<1>12. \A i \in 0 .. n + 1 : TimeLeft(p, i) = f[i]
  <2>1. PICK g : g = f
    OBVIOUS
  <2>2. p \in Seq(Entry) /\ Len(p) = n + 1 /\ g[0] = 0
    BY <1>9, <1>10, <2>1
  <2>3. \A i \in 1 .. Len(p) : g[i] = g[i - 1] + p[i].delta
    <3>1. \A i \in 1 .. n + 1 : g[i] = g[i - 1] + p[i].delta
      BY <1>11, <2>1
    <3> QED BY ONLY <2>2, <3>1
  <2>4. \A i \in 0 .. Len(p) : TimeLeft(p, i) = g[i]
    BY ONLY <2>2, <2>3, TimeLeftIs, Zenon
  <2> QED BY <2>1, <2>2, <2>4
<1>13. ASSUME NEW i \in 1 .. k PROVE p[i].task = q[i].task /\ TimeLeft(p, i) = TimeLeft(q, i)
  <2>1. i \in 1 .. n /\ i \in 0 .. n + 1 /\ i \in 1 .. n + 1 /\ i <= k
    BY <1>3
  <2> QED BY <1>7, <1>9, <1>10, <1>12, <2>1
<1>14. p[k + 1].task = t /\ TimeLeft(p, k + 1) = d
  <2>1. k + 1 \in 0 .. n + 1 /\ k + 1 \in 1 .. n + 1 /\ ~(k + 1 <= k)
    BY <1>3
  <2> QED BY <1>8, <1>9, <1>10, <1>12, <2>1
<1>15. ASSUME NEW i \in k + 1 .. n
       PROVE  p[i + 1].task = q[i].task /\ TimeLeft(p, i + 1) = TimeLeft(q, i)
  <2>1. /\ i \in 1 .. n /\ i + 1 \in 0 .. n + 1 /\ i + 1 \in 1 .. n + 1
        /\ ~(i + 1 <= k) /\ i + 1 # k + 1 /\ (i + 1) - 1 = i
    BY <1>3
  <2> QED BY <1>7, <1>9, <1>10, <1>12, <2>1
<1>16. InsertedAfter(q, t, d, p, k)
  BY <1>2, <1>9, <1>13, <1>14, <1>15 DEF n, InsertedAfter
<1> QED BY <1>2, <1>16 DEF n

\* removeEntry: the entry goes, all other times left are kept.
LEMMA RemoveIs ==
  ASSUME NEW q \in Seq(Entry), NEW i \in 1 .. Len(q), NEW p, p = RemoveEntry(q, i)
  PROVE  /\ p \in Seq(Entry) /\ Len(p) = Len(q) - 1
         /\ \A j \in 1 .. i - 1 : p[j].task = q[j].task /\ TimeLeft(p, j) = TimeLeft(q, j)
         /\ \A j \in i .. Len(q) - 1 :
              p[j].task = q[j + 1].task /\ TimeLeft(p, j) = TimeLeft(q, j + 1)
<1> DEFINE n == Len(q)
           d == q[i].delta
           a == Adjust(q, i + 1, d)
<1>1. p = RemoveAt(a, i)
  BY DEF RemoveEntry
<1>2. /\ n \in Nat /\ i \in 1 .. n
      /\ TimeLeft(q, 0) = 0 /\ \A j \in 0 .. n : TimeLeft(q, j) \in Nat
      /\ \A j \in 1 .. n : TimeLeft(q, j) = TimeLeft(q, j - 1) + q[j].delta /\ q[j].delta \in Nat
  BY TimeLeftStep, TimeLeftNat, DeltaNat
<1>3. d \in Nat /\ TimeLeft(q, i) = TimeLeft(q, i - 1) + d
  BY <1>2
<1> HIDE DEF d
<1>4. /\ a \in Seq(Entry) /\ Len(a) = n
      /\ \A j \in 1 .. n : /\ a[j].task = q[j].task
                           /\ a[j].delta = q[j].delta + (IF j = i + 1 THEN d ELSE 0)
  <2>1. i + 1 \in Nat /\ d \in Int /\ (i + 1 \in 1 .. Len(q) => q[i + 1].delta + d \in Nat)
    BY <1>2, <1>3
  <2> QED BY <2>1, AdjustIs
<1> HIDE DEF a
<1>5. /\ p \in Seq(Entry) /\ Len(p) = n - 1
      /\ \A j \in 1 .. n - 1 : p[j] = IF j < i THEN a[j] ELSE a[j + 1]
  <2>1. a \in Seq(Entry) /\ i \in 1 .. Len(a)
    BY <1>2, <1>4
  <2>2. /\ p \in Seq(Entry) /\ Len(p) = Len(a) - 1
        /\ \A j \in 1 .. Len(a) - 1 : p[j] = IF j < i THEN a[j] ELSE a[j + 1]
    BY ONLY <1>1, <2>1, RemoveAtIs
  <2> QED BY <1>4, <2>2
<1> DEFINE f == [j \in 0 .. n - 1 |-> IF j < i THEN TimeLeft(q, j) ELSE TimeLeft(q, j + 1)]
<1>6. f[0] = 0 /\ \A j \in 0 .. n - 1 : f[j] = IF j < i THEN TimeLeft(q, j) ELSE TimeLeft(q, j + 1)
  BY <1>2
<1> HIDE DEF f, n
<1>7. ASSUME NEW j \in 1 .. n - 1 PROVE f[j] = f[j - 1] + p[j].delta
  <2>1. j \in 0 .. n - 1 /\ j - 1 \in 0 .. n - 1 /\ j \in 1 .. n /\ j + 1 \in 1 .. n /\ j \in Nat
    BY <1>2
  <2>2. CASE j < i
    <3>1. p[j].delta = q[j].delta
      <4>1. p[j] = a[j] /\ j # i + 1
        BY <1>2, <1>5, <2>1, <2>2
      <4>2. a[j].delta = q[j].delta + 0
        BY <1>4, <2>1, <4>1
      <4> QED BY <1>2, <2>1, <4>1, <4>2
    <3>2. j - 1 < i
      BY <1>2, <2>1, <2>2
    <3>3. f[j] = TimeLeft(q, j) /\ f[j - 1] = TimeLeft(q, j - 1)
      BY <1>6, <2>1, <2>2, <3>2
    <3> QED BY <1>2, <2>1, <3>1, <3>3
  <2>3. CASE j = i
    <3>1. p[j].delta = q[i + 1].delta + d
      <4>1. p[j] = IF j < i THEN a[j] ELSE a[j + 1]
        BY <1>5
      <4>2. p[j] = a[i + 1]
        BY ONLY <2>1, <2>3, <4>1
      <4>3. i + 1 \in 1 .. n
        BY ONLY <2>1, <2>3
      <4> QED BY <1>4, <4>2, <4>3
    <3>2. f[j] = TimeLeft(q, i + 1) /\ f[j - 1] = TimeLeft(q, i - 1)
      <4>1. ~(j < i) /\ i - 1 < i
        BY <1>2, <2>3
      <4> QED BY <1>6, <2>1, <2>3, <4>1
    <3>3. TimeLeft(q, i + 1) = TimeLeft(q, i) + q[i + 1].delta /\ q[i + 1].delta \in Nat
      <4>1. (i + 1) - 1 = i /\ i + 1 \in 1 .. n
        BY <1>2, <2>1, <2>3
      <4> QED BY <1>2, <4>1
    <3>4. TimeLeft(q, i - 1) \in Nat
      BY <1>2, <2>1, <2>3
    <3> QED BY <1>3, <3>1, <3>2, <3>3, <3>4
  <2>4. CASE j > i
    <3>1. p[j].delta = q[j + 1].delta
      <4>1. p[j] = a[j + 1] /\ j + 1 # i + 1
        <5>1. ~(j < i) /\ j + 1 # i + 1
          BY <1>2, <2>1, <2>4
        <5> QED BY <1>5, <5>1
      <4>2. a[j + 1].delta = q[j + 1].delta + 0
        BY <1>4, <2>1, <4>1
      <4>3. q[j + 1].delta \in Nat
        BY <1>2, <2>1
      <4>4. p[j].delta = a[j + 1].delta
        BY <4>1
      <4> QED BY ONLY <4>2, <4>3, <4>4
    <3>2. ~(j < i) /\ ~(j - 1 < i) /\ (j - 1) + 1 = j /\ (j + 1) - 1 = j
      BY <1>2, <2>1, <2>4
    <3>3. f[j] = TimeLeft(q, j + 1) /\ f[j - 1] = TimeLeft(q, j)
      BY <1>6, <2>1, <3>2
    <3>4. TimeLeft(q, j + 1) = TimeLeft(q, j) + q[j + 1].delta
      BY <1>2, <2>1, <3>2
    <3> QED BY <3>1, <3>3, <3>4
  <2> QED BY <1>2, <2>1, <2>2, <2>3, <2>4
<1>8. \A j \in 0 .. n - 1 : TimeLeft(p, j) = f[j]
  <2>1. p \in Seq(Entry) /\ f[0] = 0 /\ \A j \in 1 .. Len(p) : f[j] = f[j - 1] + p[j].delta
    BY <1>5, <1>6, <1>7
  <2>2. \A j \in 0 .. Len(p) : TimeLeft(p, j) = f[j]
    BY ONLY <2>1, TimeLeftIs
  <2> QED BY <1>5, <2>2
<1>9. ASSUME NEW j \in 1 .. i - 1 PROVE p[j].task = q[j].task /\ TimeLeft(p, j) = TimeLeft(q, j)
  <2>1. j \in 0 .. n - 1 /\ j \in 1 .. n - 1 /\ j \in 1 .. n /\ j < i
    BY <1>2
  <2> QED BY <1>4, <1>5, <1>6, <1>8, <2>1
<1>10. ASSUME NEW j \in i .. n - 1
       PROVE  p[j].task = q[j + 1].task /\ TimeLeft(p, j) = TimeLeft(q, j + 1)
  <2>1. j \in 0 .. n - 1 /\ j \in 1 .. n - 1 /\ j + 1 \in 1 .. n /\ ~(j < i)
    BY <1>2
  <2> QED BY <1>4, <1>5, <1>6, <1>8, <2>1
<1> QED BY <1>5, <1>9, <1>10 DEF n

-----------------------------------------------------------------------------
(* What a list says of tasks. *)

List(q) == q \in Seq(Entry) /\ DistinctTasks(q)

LEMMA ViewAt ==
  ASSUME NEW q, List(q)
  PROVE  /\ \A i \in 1 .. Len(q) : /\ q[i].task \in Task /\ q[i].task \in Tasks(q)
                                   /\ LeftOf(q)[q[i].task] = TimeLeft(q, i)
                                   /\ AheadOf(q)[q[i].task] = Firsts(q, i - 1)
         /\ \A t \in Task : t \notin Tasks(q) => LeftOf(q)[t] = 0 /\ AheadOf(q)[t] = {}
         /\ \A t \in Task : t \in Tasks(q) => \E i \in 1 .. Len(q) : t = q[i].task
         /\ \A t \in Task : LeftOf(q)[t] \in Nat
         /\ Tasks(q) \subseteq Task
<1>1. /\ q \in Seq(Entry) /\ DOMAIN q = 1 .. Len(q) /\ Len(q) \in Nat
      /\ \A i \in 1 .. Len(q) : q[i].task \in Task
  BY DeltaNat DEF List
<1>2. ASSUME NEW i \in 1 .. Len(q)
      PROVE  /\ q[i].task \in Tasks(q)
             /\ LeftOf(q)[q[i].task] = TimeLeft(q, i)
             /\ AheadOf(q)[q[i].task] = Firsts(q, i - 1)
  <2> DEFINE t == q[i].task
  <2>1. t \in Task /\ t \in Tasks(q)
    BY <1>1 DEF Tasks
  <2>2. \A j \in DOMAIN q : q[j].task = t => j = i
    BY <1>1 DEF List, DistinctTasks
  <2>3. Position(q, t) = i
    BY <1>1, <2>2 DEF Position
  <2> HIDE DEF t
  <2>4. LeftOf(q)[t] = TimeLeft(q, i) /\ AheadOf(q)[t] = Firsts(q, i - 1)
    BY <2>1, <2>3 DEF LeftOf, AheadOf
  <2> QED BY <2>1, <2>4 DEF t
<1>3. \A t \in Task : t \notin Tasks(q) => LeftOf(q)[t] = 0 /\ AheadOf(q)[t] = {}
  BY DEF LeftOf, AheadOf
<1>4. \A t : t \in Tasks(q) => \E i \in 1 .. Len(q) : t = q[i].task
  BY <1>1 DEF Tasks
<1>5. ASSUME NEW t \in Task PROVE LeftOf(q)[t] \in Nat
  <2>1. CASE t \in Tasks(q)
    <3>1. PICK i \in 1 .. Len(q) : t = q[i].task
      BY <1>4, <2>1
    <3>2. i \in 0 .. Len(q)
      BY <1>1
    <3> QED BY <1>1, <1>2, <3>1, <3>2, TimeLeftNat
  <2> QED BY <1>3, <2>1
<1> QED BY <1>1, <1>2, <1>3, <1>4, <1>5

Later(l, e) == [t \in Task |-> IF l[t] > e THEN l[t] - e ELSE 0]

LEMMA PassedView ==
  ASSUME NEW q, List(q), NEW e \in Nat, NEW p, p = Passed(q, e)
  PROVE  /\ List(p) /\ Tasks(p) = Tasks(q) /\ AheadOf(p) = AheadOf(q)
         /\ LeftOf(p) = Later(LeftOf(q), e)
<1>1. /\ p \in Seq(Entry) /\ Len(p) = Len(q) /\ Len(q) \in Nat
      /\ DOMAIN q = 1 .. Len(q) /\ DOMAIN p = 1 .. Len(q)
      /\ \A i \in 1 .. Len(q) : p[i].task = q[i].task
      /\ \A i \in 0 .. Len(q) : TimeLeft(p, i) = AtLeast0(TimeLeft(q, i) - e)
  BY PassedIs DEF List
<1>2. List(p)
  BY <1>1 DEF List, DistinctTasks
<1>3. Tasks(p) = Tasks(q)
  BY <1>1 DEF Tasks
<1>4. \A i \in 0 .. Len(q) : Firsts(p, i) = Firsts(q, i)
  BY <1>1 DEF Firsts
<1>5. ASSUME NEW t \in Task
      PROVE  AheadOf(p)[t] = AheadOf(q)[t] /\ LeftOf(p)[t] = Later(LeftOf(q), e)[t]
  <2>1. Later(LeftOf(q), e)[t] = IF LeftOf(q)[t] > e THEN LeftOf(q)[t] - e ELSE 0
    BY DEF Later
  <2>2. CASE t \notin Tasks(q)
    <3>1. LeftOf(q)[t] = 0 /\ LeftOf(p)[t] = 0 /\ AheadOf(q)[t] = {} /\ AheadOf(p)[t] = {}
      BY <1>2, <1>3, <2>2, ViewAt
    <3> QED BY <2>1, <3>1
  <2>3. CASE t \in Tasks(q)
    <3>1. PICK i \in 1 .. Len(q) : t = q[i].task
      BY <2>3, ViewAt
    <3>2. t = p[i].task /\ i \in 1 .. Len(p) /\ i \in 0 .. Len(q) /\ i - 1 \in 0 .. Len(q)
      BY <1>1, <3>1
    <3>3. LeftOf(q)[t] = TimeLeft(q, i) /\ AheadOf(q)[t] = Firsts(q, i - 1)
      BY <3>1, ViewAt
    <3>4. LeftOf(p)[t] = TimeLeft(p, i) /\ AheadOf(p)[t] = Firsts(p, i - 1)
      BY <1>2, <3>2, ViewAt
    <3>5. TimeLeft(p, i) = AtLeast0(TimeLeft(q, i) - e) /\ TimeLeft(q, i) \in Nat
      BY <1>1, <3>2, TimeLeftNat DEF List
    <3>6. TimeLeft(p, i) = IF TimeLeft(q, i) > e THEN TimeLeft(q, i) - e ELSE 0
      BY <3>5 DEF AtLeast0
    <3> QED BY <1>4, <2>1, <3>2, <3>3, <3>4, <3>6
  <2> QED BY <2>2, <2>3
<1>6. AheadOf(p) = AheadOf(q)
  <2>1. AheadOf(p) = [t \in Task |-> AheadOf(p)[t]] /\ AheadOf(q) = [t \in Task |-> AheadOf(q)[t]]
    BY DEF AheadOf
  <2> QED BY <1>5, <2>1
<1>7. LeftOf(p) = Later(LeftOf(q), e)
  <2>1. /\ LeftOf(p) = [t \in Task |-> LeftOf(p)[t]]
        /\ Later(LeftOf(q), e) = [t \in Task |-> Later(LeftOf(q), e)[t]]
    BY DEF LeftOf, Later
  <2> QED BY <1>5, <2>1
<1> QED BY <1>2, <1>3, <1>6, <1>7

\* The tasks that a new one with delay d runs after.
DueBy(q, d) == {u \in Tasks(q) : LeftOf(q)[u] <= d}

LEMMA InsertView ==
  ASSUME NEW q, List(q), NEW t \in Task, t \notin Tasks(q), NEW d \in Nat, NEW p, p = Insert(q, t, d)
  PROVE  /\ List(p) /\ Tasks(p) = Tasks(q) \cup {t}
         /\ LeftOf(p) = [LeftOf(q) EXCEPT ![t] = d]
         /\ AheadOf(p) = [u \in Task |-> IF u = t THEN DueBy(q, d)
                                         ELSE IF u \in Tasks(q) \ DueBy(q, d) THEN AheadOf(q)[u] \cup {t}
                                         ELSE AheadOf(q)[u]]
<1> DEFINE n == Len(q)
<1>1. q \in Seq(Entry) /\ n \in Nat /\ DOMAIN q = 1 .. n
  BY DEF List
<1> HIDE DEF n
<1>2. PICK k \in 0 .. n :
        /\ \A i \in 1 .. n : TimeLeft(q, i) <= d <=> i <= k
        /\ p \in Seq(Entry) /\ Len(p) = n + 1
        /\ \A i \in 1 .. k : p[i].task = q[i].task /\ TimeLeft(p, i) = TimeLeft(q, i)
        /\ p[k + 1].task = t /\ TimeLeft(p, k + 1) = d
        /\ \A i \in k + 1 .. n : p[i + 1].task = q[i].task /\ TimeLeft(p, i + 1) = TimeLeft(q, i)
  <2>1. q \in Seq(Entry) /\ t \in Task /\ d \in Nat /\ p = Insert(q, t, d)
    BY <1>1
  <2>2. PICK k \in 0 .. Len(q) : InsertedAfter(q, t, d, p, k)
    BY ONLY <2>1, InsertIs
  <2> QED BY <2>2 DEF InsertedAfter, n
<1>3. DOMAIN p = 1 .. n + 1 /\ k \in Nat /\ k <= n
  BY <1>1, <1>2
<1>4. \A i \in 1 .. n : q[i].task # t
  BY <1>1 DEF Tasks
<1>5. \A i, j \in 1 .. n : q[i].task = q[j].task => i = j
  BY <1>1 DEF List, DistinctTasks
\* Where the entries of q are in p.
<1> DEFINE at(i) == IF i <= k THEN i ELSE i + 1
<1>6. ASSUME NEW i \in 1 .. n
      PROVE  /\ at(i) \in 1 .. n + 1 /\ at(i) # k + 1
             /\ p[at(i)].task = q[i].task /\ TimeLeft(p, at(i)) = TimeLeft(q, i)
  <2>1. CASE i <= k
    <3>1. i \in 1 .. k /\ i \in 1 .. n + 1 /\ i # k + 1
      BY <1>1, <1>3, <2>1
    <3>2. at(i) = i
      BY <2>1
    <3> QED BY <1>2, <3>1, <3>2
  <2>2. CASE ~(i <= k)
    <3>1. i \in k + 1 .. n /\ at(i) = i + 1 /\ i + 1 \in 1 .. n + 1 /\ i + 1 # k + 1
      BY <1>1, <1>3, <2>2
    <3> QED BY <1>2, <3>1
  <2> QED BY <2>1, <2>2
<1>7. ASSUME NEW j \in 1 .. n + 1, j # k + 1
      PROVE  \E i \in 1 .. n : j = at(i)
  <2>1. CASE j <= k
    <3>1. j \in 1 .. n /\ at(j) = j
      BY <1>1, <1>3, <2>1
    <3> QED BY <3>1
  <2>2. CASE ~(j <= k)
    <3>1. j - 1 \in 1 .. n /\ ~(j - 1 <= k) /\ at(j - 1) = j
      BY <1>1, <1>3, <1>7, <2>2
    <3> QED BY <3>1
  <2> QED BY <2>1, <2>2
<1>8. \A i, j \in 1 .. n : at(i) = at(j) => i = j
  BY <1>3
<1>9. k + 1 \in 1 .. n + 1 /\ p[k + 1].task = t
  BY <1>1, <1>2, <1>3
<1>10. List(p)
  <2> SUFFICES ASSUME NEW i \in 1 .. n + 1, NEW j \in 1 .. n + 1, p[i].task = p[j].task PROVE i = j
    BY <1>2, <1>3 DEF List, DistinctTasks
  <2> HIDE DEF at
  <2>1. CASE i = k + 1 \/ j = k + 1
    BY <1>4, <1>6, <1>7, <1>9, <2>1
  <2>2. CASE i # k + 1 /\ j # k + 1
    BY <1>5, <1>6, <1>7, <2>2
  <2> QED BY <2>1, <2>2
<1>11. Tasks(p) = Tasks(q) \cup {t}
  <2> HIDE DEF at
  <2>1. ASSUME NEW x \in Tasks(p) PROVE x \in Tasks(q) \cup {t}
    <3>1. PICK j \in 1 .. n + 1 : p[j].task = x
      BY <1>3 DEF Tasks
    <3>2. CASE j = k + 1
      BY <1>9, <3>1, <3>2
    <3>3. CASE j # k + 1
      <4>1. PICK i \in 1 .. n : j = at(i)
        BY <1>7, <3>3
      <4>2. q[i].task = x
        BY <1>6, <3>1, <4>1
      <4> QED BY <1>1, <4>2 DEF Tasks
    <3> QED BY <3>2, <3>3
  <2>2. ASSUME NEW x \in Tasks(q) PROVE x \in Tasks(p)
    <3>1. PICK i \in 1 .. n : q[i].task = x
      BY <1>1 DEF Tasks
    <3> QED BY <1>3, <1>6, <3>1 DEF Tasks
  <2>3. t \in Tasks(p)
    BY <1>3, <1>9 DEF Tasks
  <2> QED BY <2>1, <2>2, <2>3
<1>12. Tasks(q) \subseteq Task /\ \A i \in 1 .. n : q[i].task \in DueBy(q, d) <=> i <= k
  <2>1. \A i \in 1 .. n : q[i].task \in Tasks(q) /\ LeftOf(q)[q[i].task] = TimeLeft(q, i)
    BY ViewAt DEF n
  <2>2. Tasks(q) \subseteq Task
    BY ViewAt
  <2> QED BY <1>2, <2>1, <2>2 DEF DueBy
<1>13. LeftOf(p)[t] = d /\ AheadOf(p)[t] = Firsts(p, k)
  <2>1. k + 1 \in 1 .. Len(p) /\ (k + 1) - 1 = k
    BY <1>2, <1>3, <1>9
  <2>2. LeftOf(p)[p[k + 1].task] = TimeLeft(p, k + 1) /\ AheadOf(p)[p[k + 1].task] = Firsts(p, (k + 1) - 1)
    BY <1>10, <2>1, ViewAt
  <2> QED BY <1>2, <2>1, <2>2
<1>14. Firsts(p, k) = DueBy(q, d)
  <2>1. ASSUME NEW x \in Firsts(p, k) PROVE x \in DueBy(q, d)
    <3>1. PICK j \in 1 .. k : p[j].task = x
      BY DEF Firsts
    <3>2. q[j].task = x
      BY <1>2, <3>1
    <3>3. j \in 1 .. n /\ j <= k
      BY <1>1, <1>3
    <3> QED BY <1>12, <3>2, <3>3
  <2>2. ASSUME NEW x \in DueBy(q, d) PROVE x \in Firsts(p, k)
    <3>1. PICK i \in 1 .. n : q[i].task = x
      BY <1>1 DEF DueBy, Tasks
    <3>2. i <= k
      BY <1>12, <3>1
    <3>3. i \in 1 .. k /\ p[i].task = x
      BY <1>2, <1>3, <3>1, <3>2
    <3> QED BY <3>3 DEF Firsts
  <2> QED BY <2>1, <2>2
<1>15. ASSUME NEW u \in Task, u # t
       PROVE  /\ LeftOf(p)[u] = LeftOf(q)[u]
              /\ AheadOf(p)[u] = IF u \in Tasks(q) \ DueBy(q, d) THEN AheadOf(q)[u] \cup {t}
                                 ELSE AheadOf(q)[u]
  <2>1. CASE u \notin Tasks(q)
    <3>1. u \notin Tasks(p)
      BY <1>11, <1>15, <2>1
    <3>2. LeftOf(q)[u] = 0 /\ AheadOf(q)[u] = {}
      BY <2>1, ViewAt
    <3>3. LeftOf(p)[u] = 0 /\ AheadOf(p)[u] = {}
      BY <1>10, <3>1, ViewAt
    <3> QED BY <2>1, <3>2, <3>3
  <2>2. CASE u \in Tasks(q)
    <3>1. PICK i \in 1 .. n : u = q[i].task
      BY <1>1, <2>2 DEF Tasks
    <3>2. LeftOf(q)[u] = TimeLeft(q, i) /\ AheadOf(q)[u] = Firsts(q, i - 1)
      BY <3>1, ViewAt DEF n
    <3>3. at(i) \in 1 .. Len(p) /\ p[at(i)].task = u /\ TimeLeft(p, at(i)) = TimeLeft(q, i)
      BY <1>2, <1>6, <3>1
    <3>4. LeftOf(p)[u] = TimeLeft(p, at(i)) /\ AheadOf(p)[u] = Firsts(p, at(i) - 1)
      <4> DEFINE j == at(i)
      <4>1. j \in 1 .. Len(p) /\ p[j].task = u
        BY <3>3
      <4> HIDE DEF j
      <4>2. LeftOf(p)[u] = TimeLeft(p, j) /\ AheadOf(p)[u] = Firsts(p, j - 1)
        BY <1>10, <4>1, ViewAt
      <4> QED BY <4>2 DEF j
    <3>5. CASE i <= k
      <4>1. at(i) = i /\ \A j \in 1 .. i - 1 : p[j].task = q[j].task
        BY <1>2, <1>3, <3>5
      <4>2. Firsts(p, i - 1) = Firsts(q, i - 1)
        BY <4>1 DEF Firsts
      <4>3. u \in DueBy(q, d)
        BY <1>12, <3>1, <3>5
      <4> QED BY <3>2, <3>3, <3>4, <4>1, <4>2, <4>3
    <3>6. CASE ~(i <= k)
      <4>1. at(i) - 1 = i /\ i \in k + 1 .. n
        BY <1>3, <3>6
      <4>2. Firsts(p, i) = Firsts(q, i - 1) \cup {t}
        <5>1. ASSUME NEW x \in Firsts(p, i) PROVE x \in Firsts(q, i - 1) \cup {t}
          <6>1. PICK j \in 1 .. i : p[j].task = x
            BY DEF Firsts
          <6>2. CASE j <= k
            <7>1. j \in 1 .. k /\ j \in 1 .. i - 1
              BY <1>3, <4>1, <6>2
            <7> QED BY <1>2, <6>1, <7>1 DEF Firsts
          <6>3. CASE j = k + 1
            BY <1>2, <6>1, <6>3
          <6>4. CASE j > k + 1
            <7>1. i \in 1 .. n /\ j \in 1 .. i
              OBVIOUS
            <7>2. j - 1 \in k + 1 .. n /\ j - 1 \in 1 .. i - 1 /\ (j - 1) + 1 = j
              BY ONLY <1>1, <1>3, <6>4, <7>1
            <7>3. p[j].task = q[j - 1].task
              BY <1>2, <7>2
            <7> QED BY <6>1, <7>2, <7>3 DEF Firsts
          <6> QED BY <1>3, <6>2, <6>3, <6>4
        <5>2. ASSUME NEW x \in Firsts(q, i - 1) PROVE x \in Firsts(p, i)
          <6>1. PICK j \in 1 .. i - 1 : q[j].task = x
            BY DEF Firsts
          <6>2. CASE j <= k
            <7>1. j \in 1 .. k /\ j \in 1 .. i
              BY <1>3, <4>1, <6>2
            <7> QED BY <1>2, <6>1, <7>1 DEF Firsts
          <6>3. CASE ~(j <= k)
            <7>1. i \in 1 .. n /\ j \in 1 .. i - 1
              OBVIOUS
            <7>2. j \in k + 1 .. n /\ j + 1 \in 1 .. i
              BY ONLY <1>1, <1>3, <6>3, <7>1
            <7> QED BY <1>2, <6>1, <7>2 DEF Firsts
          <6> QED BY <6>2, <6>3
        <5>3. t \in Firsts(p, i)
          <6>1. k + 1 \in 1 .. i
            BY <1>3, <4>1
          <6> QED BY <1>2, <6>1 DEF Firsts
        <5> QED BY <5>1, <5>2, <5>3
      <4>3. u \in Tasks(q) \ DueBy(q, d)
        BY <1>12, <2>2, <3>1, <3>6
      <4> QED BY <3>2, <3>3, <3>4, <4>1, <4>2, <4>3
    <3> QED BY <3>5, <3>6
  <2> QED BY <2>1, <2>2
<1>16. LeftOf(p) = [LeftOf(q) EXCEPT ![t] = d]
  <2>1. LeftOf(p) = [u \in Task |-> LeftOf(p)[u]] /\ LeftOf(q) = [u \in Task |-> LeftOf(q)[u]]
    BY DEF LeftOf
  <2> QED BY <1>13, <1>15, <2>1
<1>17. AheadOf(p) = [u \in Task |-> IF u = t THEN DueBy(q, d)
                                    ELSE IF u \in Tasks(q) \ DueBy(q, d) THEN AheadOf(q)[u] \cup {t}
                                    ELSE AheadOf(q)[u]]
  <2>1. AheadOf(p) = [u \in Task |-> AheadOf(p)[u]]
    BY DEF AheadOf
  <2> QED BY <1>13, <1>14, <1>15, <2>1
<1> QED BY <1>10, <1>11, <1>16, <1>17

LEMMA RemoveView ==
  ASSUME NEW q, List(q), NEW i \in 1 .. Len(q), NEW t, t = q[i].task, NEW p, p = RemoveEntry(q, i)
  PROVE  /\ List(p) /\ Tasks(p) = Tasks(q) \ {t} /\ Len(p) = Len(q) - 1
         /\ LeftOf(p) = [LeftOf(q) EXCEPT ![t] = 0]
         /\ AheadOf(p) = [u \in Task |-> IF u = t THEN {} ELSE AheadOf(q)[u] \ {t}]
<1> DEFINE n == Len(q)
<1>1. /\ q \in Seq(Entry) /\ n \in Nat /\ DOMAIN q = 1 .. n /\ i \in 1 .. n
      /\ i \in Nat /\ 1 <= i /\ i <= n
  BY DEF List
<1>2. /\ p \in Seq(Entry) /\ Len(p) = n - 1
      /\ \A j \in 1 .. i - 1 : p[j].task = q[j].task /\ TimeLeft(p, j) = TimeLeft(q, j)
      /\ \A j \in i .. n - 1 : p[j].task = q[j + 1].task /\ TimeLeft(p, j) = TimeLeft(q, j + 1)
  BY <1>1, RemoveIs
<1> HIDE DEF n
<1>3. DOMAIN p = 1 .. n - 1
  BY <1>1, <1>2
<1>4. \A j, k \in 1 .. n : q[j].task = q[k].task => j = k
  BY <1>1 DEF List, DistinctTasks
<1>5. t \in Task
  BY <1>1, ViewAt DEF n
\* Where the entries of p were in q.
<1> DEFINE at(j) == IF j < i THEN j ELSE j + 1
<1>6. ASSUME NEW j \in 1 .. n - 1
      PROVE  /\ at(j) \in 1 .. n /\ at(j) # i
             /\ p[j].task = q[at(j)].task /\ TimeLeft(p, j) = TimeLeft(q, at(j))
  <2>1. CASE j < i
    <3>1. j \in 1 .. i - 1 /\ j \in 1 .. n /\ j # i
      BY <1>1, <2>1
    <3>2. at(j) = j
      BY <2>1
    <3> QED BY <1>2, <3>1, <3>2
  <2>2. CASE ~(j < i)
    <3>1. j \in i .. n - 1 /\ j + 1 \in 1 .. n /\ j + 1 # i
      BY <1>1, <2>2
    <3>2. at(j) = j + 1
      BY <2>2
    <3> QED BY <1>2, <3>1, <3>2
  <2> QED BY <2>1, <2>2
<1>7. ASSUME NEW k \in 1 .. n, k # i
      PROVE  \E j \in 1 .. n - 1 : k = at(j)
  <2>1. CASE k < i
    <3>1. k \in 1 .. n - 1 /\ at(k) = k
      BY <1>1, <2>1
    <3> QED BY <3>1
  <2>2. CASE ~(k < i)
    <3>1. k - 1 \in 1 .. n - 1 /\ ~(k - 1 < i) /\ at(k - 1) = k
      BY <1>1, <1>7, <2>2
    <3> QED BY <3>1
  <2> QED BY <2>1, <2>2
<1>8. \A j, k \in 1 .. n - 1 : at(j) = at(k) => j = k
  BY <1>1
<1>9. List(p)
  <2> SUFFICES ASSUME NEW j \in 1 .. n - 1, NEW k \in 1 .. n - 1, p[j].task = p[k].task PROVE j = k
    BY <1>2, <1>3 DEF List, DistinctTasks
  <2>1. at(j) = at(k)
    <3> HIDE DEF at
    <3> QED BY <1>4, <1>6
  <2> QED BY <1>8, <2>1
<1>10. Tasks(p) = Tasks(q) \ {t}
  <2> HIDE DEF at
  <2>1. ASSUME NEW x \in Tasks(p) PROVE x \in Tasks(q) \ {t}
    <3>1. PICK j \in 1 .. n - 1 : p[j].task = x
      BY <1>3 DEF Tasks
    <3>2. at(j) \in 1 .. n /\ at(j) # i /\ q[at(j)].task = x
      BY <1>6, <3>1
    <3>3. x # t
      BY <1>1, <1>4, <3>2
    <3> QED BY <1>1, <3>2, <3>3 DEF Tasks
  <2>2. ASSUME NEW x \in Tasks(q), x # t PROVE x \in Tasks(p)
    <3>1. PICK k \in 1 .. n : q[k].task = x
      BY <1>1 DEF Tasks
    <3>2. PICK j \in 1 .. n - 1 : k = at(j)
      BY <1>7, <2>2, <3>1
    <3>3. p[j].task = x
      BY <1>6, <3>1, <3>2
    <3> QED BY <1>3, <3>3 DEF Tasks
  <2> QED BY <2>1, <2>2
<1>11. LeftOf(p)[t] = 0 /\ AheadOf(p)[t] = {}
  <2>1. t \notin Tasks(p)
    BY <1>10
  <2> QED BY <1>5, <1>9, <2>1, ViewAt
<1>12. ASSUME NEW u \in Task, u # t
       PROVE  LeftOf(p)[u] = LeftOf(q)[u] /\ AheadOf(p)[u] = AheadOf(q)[u] \ {t}
  <2>1. CASE u \notin Tasks(q)
    <3>1. u \notin Tasks(p)
      BY <1>10, <2>1
    <3>2. LeftOf(q)[u] = 0 /\ AheadOf(q)[u] = {}
      BY <2>1, ViewAt
    <3>3. LeftOf(p)[u] = 0 /\ AheadOf(p)[u] = {}
      BY <1>9, <3>1, ViewAt
    <3> QED BY <3>2, <3>3
  <2>2. CASE u \in Tasks(q)
    <3>1. u \in Tasks(p)
      BY <1>10, <1>12, <2>2
    <3>2. PICK j \in 1 .. n - 1 : u = p[j].task
      BY <1>3, <3>1 DEF Tasks
    <3>3. j \in 1 .. Len(p)
      BY <1>2
    <3>4. LeftOf(p)[u] = TimeLeft(p, j) /\ AheadOf(p)[u] = Firsts(p, j - 1)
      BY <1>9, <3>2, <3>3, ViewAt
    <3> DEFINE k == at(j)
    <3>5. k \in 1 .. n /\ k # i /\ u = q[k].task /\ TimeLeft(p, j) = TimeLeft(q, k)
      BY <1>6, <3>2
    <3>6. k = IF j < i THEN j ELSE j + 1
      OBVIOUS
    <3> HIDE DEF k, at
    <3>7. LeftOf(q)[u] = TimeLeft(q, k) /\ AheadOf(q)[u] = Firsts(q, k - 1)
      BY <3>5, ViewAt DEF n
    <3>8. CASE j < i
      <4>1. k = j /\ \A l \in 1 .. j - 1 : p[l].task = q[l].task
        BY <1>1, <1>2, <3>6, <3>8
      <4>2. Firsts(p, j - 1) = Firsts(q, j - 1)
        BY <4>1 DEF Firsts
      <4>3. t \notin Firsts(q, j - 1)
        <5> SUFFICES ASSUME NEW l \in 1 .. j - 1, q[l].task = t PROVE FALSE
          BY DEF Firsts
        <5>1. l \in 1 .. n /\ l # i
          BY <1>1, <3>8
        <5> QED BY <1>1, <1>4, <5>1
      <4> QED BY <3>4, <3>5, <3>7, <4>1, <4>2, <4>3
    <3>9. CASE ~(j < i)
      <4>1. k = j + 1 /\ (j + 1) - 1 = j
        BY <3>6, <3>9
      <4>2. Firsts(p, j - 1) = Firsts(q, j) \ {t}
        <5>1. ASSUME NEW x \in Firsts(p, j - 1) PROVE x \in Firsts(q, j) \ {t}
          <6>1. PICK l \in 1 .. j - 1 : p[l].task = x
            BY DEF Firsts
          <6>2. l \in 1 .. n - 1 /\ l \in Nat
            BY <1>1
          <6>3. at(l) \in 1 .. n /\ at(l) # i /\ q[at(l)].task = x
            BY <1>6, <6>1, <6>2
          <6>4. x # t
            BY <1>1, <1>4, <6>3
          <6>5. at(l) \in 1 .. j
            <7>1. l \in 1 .. j /\ l + 1 \in 1 .. j
              BY ONLY <6>1, j \in 1 .. n - 1, l \in 1 .. j - 1, <1>1
            <7> QED BY <7>1 DEF at
          <6> QED BY <6>3, <6>4, <6>5 DEF Firsts
        <5>2. ASSUME NEW x \in Firsts(q, j), x # t PROVE x \in Firsts(p, j - 1)
          <6>1. PICK l \in 1 .. j : q[l].task = x
            BY DEF Firsts
          <6>2. l # i
            BY <1>1, <5>2, <6>1
          <6>3. CASE l < i
            <7>1. l \in 1 .. i - 1 /\ l \in 1 .. j - 1
              BY <1>1, <3>9, <6>3
            <7> QED BY <1>2, <6>1, <7>1 DEF Firsts
          <6>4. CASE l > i
            <7>1. l - 1 \in i .. n - 1 /\ l - 1 \in 1 .. j - 1 /\ (l - 1) + 1 = l
              BY <1>1, <6>4
            <7>2. p[l - 1].task = q[l].task
              BY <1>2, <7>1
            <7> QED BY <6>1, <7>1, <7>2 DEF Firsts
          <6> QED BY <1>1, <6>2, <6>3, <6>4
        <5> QED BY <5>1, <5>2
      <4> QED BY <3>4, <3>5, <3>7, <4>1, <4>2
    <3> QED BY <3>8, <3>9
  <2> QED BY <2>1, <2>2
<1>13. LeftOf(p) = [LeftOf(q) EXCEPT ![t] = 0]
  <2>1. LeftOf(p) = [u \in Task |-> LeftOf(p)[u]] /\ LeftOf(q) = [u \in Task |-> LeftOf(q)[u]]
    BY DEF LeftOf
  <2> QED BY <1>11, <1>12, <2>1
<1>14. AheadOf(p) = [u \in Task |-> IF u = t THEN {} ELSE AheadOf(q)[u] \ {t}]
  <2>1. AheadOf(p) = [u \in Task |-> AheadOf(p)[u]]
    BY DEF AheadOf
  <2> QED BY <1>11, <1>12, <2>1
<1> QED BY <1>2, <1>9, <1>10, <1>13, <1>14 DEF n

-----------------------------------------------------------------------------
(* The scheduler's steps. *)

\* The list is in order and no task waits longer than may be asked for.  What
\* select() sleeps must be related to the clock as well: TimePasses wears down
\* the timeout and adds to drift, and it may only do so because drift reaches
\* its bound when nothing in the list can be that far off.
QueueInv ==
  /\ List(queue)
  /\ \A t \in Task : LeftOf(queue)[t] <= MaxDelay
  /\ drift \in -1 .. MaxDrift
  /\ step \in {"select", "sockets", "alarm"}
  /\ timeout \in 0 .. MaxDrift
  /\ setBacks \in 0 .. MaxSetBacks
  /\ SelectWakesInTime

\* q is the queue when e has passed.
QueueAfter(q, e) ==
  /\ List(q) /\ Tasks(q) = Tasks(queue) /\ AheadOf(q) = AheadOf(queue)
  /\ LeftOf(q) = Later(LeftOf(queue), e)
  /\ \A t \in Task : LeftOf(q)[t] <= MaxDelay

LEMMA MaxDriftIs == MaxDrift \in Nat /\ MaxDelay \in Nat /\ MaxDrift = MaxDelay + 1 /\ MaxSetBacks \in Nat
BY DelayAssumption DEF MaxDrift

LEMMA PassedAfter ==
  ASSUME QueueInv, NEW e \in 0 .. MaxDrift
  PROVE  QueueAfter(Passed(queue, e), e)
<1> DEFINE q == Passed(queue, e)
<1>1. e \in Nat /\ MaxDelay \in Nat
  BY MaxDriftIs
<1>2. List(q) /\ Tasks(q) = Tasks(queue) /\ AheadOf(q) = AheadOf(queue) /\ LeftOf(q) = Later(LeftOf(queue), e)
  BY <1>1, PassedView DEF QueueInv
<1> HIDE DEF q
<1>3. ASSUME NEW t \in Task PROVE LeftOf(q)[t] <= MaxDelay
  <2>1. LeftOf(q)[t] = IF LeftOf(queue)[t] > e THEN LeftOf(queue)[t] - e ELSE 0
    BY <1>2 DEF Later
  <2>2. LeftOf(queue)[t] \in Nat /\ LeftOf(queue)[t] <= MaxDelay
    BY ViewAt DEF QueueInv
  <2> QED BY <1>1, <2>1, <2>2
<1>4. QueueAfter(q, e)
  BY <1>2, <1>3 DEF QueueAfter
<1> QED BY <1>4 DEF q

LEMMA SynchronizedAfter ==
  ASSUME QueueInv
  PROVE  \E e \in 0 .. MaxDrift : QueueAfter(Synchronized, e)
<1>1. AtLeast0(drift) \in 0 .. MaxDrift
  BY MaxDriftIs DEF QueueInv, AtLeast0
<1>2. QueueAfter(Passed(queue, AtLeast0(drift)), AtLeast0(drift))
  BY <1>1, PassedAfter
<1> QED BY <1>1, <1>2 DEF Synchronized

\* A look at the head brings the list up to date, or it was due anyhow.
LEMMA HeadAfter ==
  ASSUME QueueInv
  PROVE  \E e \in 0 .. MaxDrift : QueueAfter(HeadUpToDate, e)
<1>1. CASE queue # <<>> /\ queue[1].delta = 0
  <2>1. HeadUpToDate = queue
    BY <1>1 DEF HeadUpToDate
  <2>2. Later(LeftOf(queue), 0) = LeftOf(queue)
    <3> DEFINE l == LeftOf(queue)
    <3>1. \A t \in Task : l[t] \in Nat
      BY ViewAt DEF QueueInv
    <3>2. l = [t \in Task |-> l[t]]
      BY DEF LeftOf
    <3> HIDE DEF l
    <3>3. \A t \in Task : (IF l[t] > 0 THEN l[t] - 0 ELSE 0) = l[t]
      BY <3>1
    <3>4. Later(l, 0) = l
      BY <3>2, <3>3 DEF Later
    <3> QED BY <3>4 DEF l
  <2>3. QueueAfter(queue, 0) /\ 0 \in 0 .. MaxDrift
    BY <2>2, MaxDriftIs DEF QueueAfter, QueueInv
  <2> QED BY <2>1, <2>3
<1>2. CASE ~(queue # <<>> /\ queue[1].delta = 0)
  <2>1. HeadUpToDate = Synchronized
    BY <1>2 DEF HeadUpToDate
  <2> QED BY <2>1, SynchronizedAfter
<1> QED BY <1>1, <1>2

LEMMA QueuedIs == ASSUME NEW t PROVE Queued(t) <=> t \in Tasks(queue)
BY DEF Queued, Tasks

LEMMA PositionIs ==
  ASSUME QueueInv, NEW t, Queued(t)
  PROVE  Position(queue, t) \in 1 .. Len(queue) /\ queue[Position(queue, t)].task = t
<1>1. DOMAIN queue = 1 .. Len(queue)
  BY DEF QueueInv, List
<1>2. \E i \in DOMAIN queue : queue[i].task = t
  BY DEF Queued
<1>3. Position(queue, t) \in DOMAIN queue /\ queue[Position(queue, t)].task = t
  BY <1>2 DEF Position
<1> QED BY <1>1, <1>3

\* The first entry's delta is the time left to it.
LEMMA HeadIs ==
  ASSUME NEW q, List(q), q # <<>>
  PROVE  /\ 1 \in 1 .. Len(q) /\ q[1].task \in Task /\ q[1].task \in Tasks(q)
         /\ q[1].delta \in Nat /\ q[1].delta = LeftOf(q)[q[1].task]
         /\ AheadOf(q)[q[1].task] = {}
<1>1. q \in Seq(Entry)
  BY DEF List
<1>2. 1 \in 1 .. Len(q)
  BY <1>1
<1>3. q[1].delta \in Nat /\ TimeLeft(q, 1) = TimeLeft(q, 1 - 1) + q[1].delta /\ TimeLeft(q, 0) = 0
  BY <1>1, <1>2, DeltaNat, TimeLeftStep
<1>4. TimeLeft(q, 1) = q[1].delta
  <2>1. 1 - 1 = 0
    OBVIOUS
  <2> QED BY <1>3, <2>1
<1>5. /\ q[1].task \in Task /\ q[1].task \in Tasks(q) /\ LeftOf(q)[q[1].task] = TimeLeft(q, 1)
      /\ AheadOf(q)[q[1].task] = Firsts(q, 1 - 1)
  BY <1>2, ViewAt
<1>6. Firsts(q, 1 - 1) = {}
  BY DEF Firsts
<1> QED BY <1>2, <1>3, <1>4, <1>5, <1>6

\* What removing an entry or inserting one does to a list that is in order.
LEMMA RemoveKeeps ==
  ASSUME NEW q, List(q), \A t \in Task : LeftOf(q)[t] <= MaxDelay, NEW i \in 1 .. Len(q)
  PROVE  List(RemoveEntry(q, i)) /\ \A t \in Task : LeftOf(RemoveEntry(q, i))[t] <= MaxDelay
<1> DEFINE p == RemoveEntry(q, i)
           l == LeftOf(q)
<1>1. List(p) /\ LeftOf(p) = [l EXCEPT ![q[i].task] = 0]
  BY RemoveView
<1>2. l = [t \in Task |-> l[t]]
  BY DEF LeftOf
<1> HIDE DEF p, l
<1>3. \A t \in Task : LeftOf(p)[t] = 0 \/ LeftOf(p)[t] = l[t]
  BY <1>1, <1>2
<1> QED BY <1>1, <1>3, MaxDriftIs DEF p, l

LEMMA InsertKeeps ==
  ASSUME NEW q, List(q), \A t \in Task : LeftOf(q)[t] <= MaxDelay,
         NEW t \in Task, t \notin Tasks(q), NEW d \in 0 .. MaxDelay
  PROVE  List(Insert(q, t, d)) /\ \A u \in Task : LeftOf(Insert(q, t, d))[u] <= MaxDelay
<1> DEFINE p == Insert(q, t, d)
           l == LeftOf(q)
<1>1. d \in Nat /\ d <= MaxDelay
  BY MaxDriftIs
<1>2. List(p) /\ LeftOf(p) = [l EXCEPT ![t] = d]
  BY <1>1, InsertView
<1>3. l = [u \in Task |-> l[u]]
  BY DEF LeftOf
<1> HIDE DEF p, l
<1>4. \A u \in Task : LeftOf(p)[u] = d \/ LeftOf(p)[u] = l[u]
  BY <1>2, <1>3
<1> QED BY <1>1, <1>2, <1>4 DEF p, l

LEMMA QueueInitInv == QueueInit => QueueInv
<1> SUFFICES ASSUME QueueInit PROVE QueueInv
  OBVIOUS
<1>1. List(queue)
  BY DEF QueueInit, List, DistinctTasks
<1>2. \A t \in Task : LeftOf(queue)[t] <= MaxDelay
  <2>1. Tasks(queue) = {}
    BY DEF QueueInit, Tasks
  <2> QED BY <1>1, <2>1, ViewAt, MaxDriftIs
<1> QED BY <1>1, <1>2, MaxDriftIs DEF QueueInit, QueueInv, SelectWakesInTime

LEMMA QueueNextInv ==
  QueueInv /\ [QueueNext]_queueVars => QueueInv'
<1> SUFFICES ASSUME QueueInv, [QueueNext]_queueVars PROVE QueueInv'
  OBVIOUS
<1> DEFINE Ordered(q) == List(q) /\ \A t \in Task : LeftOf(q)[t] <= MaxDelay
<1>0. /\ Ordered(queue) /\ drift \in -1 .. MaxDrift /\ timeout \in 0 .. MaxDrift
      /\ setBacks \in 0 .. MaxSetBacks /\ step \in {"select", "sockets", "alarm"}
  BY DEF QueueInv
<1>1. ASSUME NEW t \in Task, NEW d \in 0 .. MaxDelay, ScheduleDelayedTask(t, d) PROVE QueueInv'
  <2>1. PICK e \in 0 .. MaxDrift : QueueAfter(Synchronized, e)
    BY SynchronizedAfter
  <2>2. t \notin Tasks(Synchronized)
    BY <1>1, <2>1, QueuedIs DEF ScheduleDelayedTask, QueueAfter
  <2>3. Ordered(queue')
    BY <1>1, <2>1, <2>2, InsertKeeps DEF ScheduleDelayedTask, QueueAfter
  <2> QED BY <1>0, <1>1, <2>3, MaxDriftIs DEF ScheduleDelayedTask, InHandler, QueueInv, SelectWakesInTime
<1>2. ASSUME NEW t \in Task, UnscheduleDelayedTask(t) PROVE QueueInv'
  <2>1. Ordered(queue')
    BY <1>0, <1>2, PositionIs, RemoveKeeps DEF UnscheduleDelayedTask
  <2> QED BY <1>0, <1>2, <2>1 DEF UnscheduleDelayedTask, InHandler, QueueInv, SelectWakesInTime
<1>3. ASSUME TimeToNextAlarm PROVE QueueInv'
  <2>1. PICK e \in 0 .. MaxDrift : QueueAfter(HeadUpToDate, e)
    BY HeadAfter
  <2>2. Ordered(queue') /\ queue' = HeadUpToDate /\ Tasks(queue') = Tasks(queue)
    BY <1>3, <2>1 DEF TimeToNextAlarm, QueueAfter
  <2>3. queue' # <<>> => /\ queue'[1].delta \in 0 .. MaxDrift /\ queue # <<>>
                         /\ timeout' = queue'[1].delta
    <3> SUFFICES ASSUME queue' # <<>> PROVE /\ queue'[1].delta \in 0 .. MaxDrift /\ queue # <<>>
                                            /\ timeout' = queue'[1].delta
      OBVIOUS
    <3>1. /\ queue'[1].delta \in Nat /\ queue'[1].task \in Task /\ queue'[1].task \in Tasks(queue)
          /\ queue'[1].delta <= MaxDelay
      BY <2>2, HeadIs
    <3>2. queue # <<>>
      BY <3>1 DEF Tasks
    <3> QED BY <1>3, <2>2, <3>1, <3>2, MaxDriftIs DEF TimeToNextAlarm
  <2>4. queue' = <<>> => timeout' = MaxDrift
    <3> SUFFICES ASSUME queue' = <<>>, queue # <<>> PROVE FALSE
      BY <1>3 DEF TimeToNextAlarm
    <3>1. queue[1].task \in Tasks(queue')
      BY <1>0, <2>2, HeadIs
    <3> QED BY <3>1 DEF Tasks
  <2>5. timeout' \in 0 .. MaxDrift
    BY <2>3, <2>4, MaxDriftIs
  <2>6. drift' = 0 \/ (drift' = drift /\ queue' = queue /\ queue # <<>> /\ queue[1].delta = 0)
    BY <1>3 DEF TimeToNextAlarm, DriftAfterLook, HeadUpToDate
  <2>7. drift' \in -1 .. MaxDrift
    BY <1>0, <2>6, MaxDriftIs
  <2>8. SelectWakesInTime'
    <3> SUFFICES ASSUME queue' # <<>>, timeout' > 0 PROVE timeout' <= queue'[1].delta - drift'
      BY DEF SelectWakesInTime
    <3>1. drift' = 0
      BY <2>3, <2>6, MaxDriftIs
    <3> QED BY <2>3, <3>1, MaxDriftIs
  <2> QED BY <1>0, <1>3, <2>2, <2>5, <2>7, <2>8 DEF TimeToNextAlarm, QueueInv
<1>4. ASSUME SelectReturns PROVE QueueInv'
  BY <1>0, <1>4, MaxDriftIs DEF SelectReturns, QueueInv, SelectWakesInTime
<1>5. ASSUME HandleAlarm PROVE QueueInv'
  <2>1. PICK e \in 0 .. MaxDrift : QueueAfter(HeadUpToDate, e)
    BY HeadAfter
  <2> DEFINE q == HeadUpToDate
  <2>2. Ordered(q)
    BY <2>1 DEF QueueAfter
  <2>3. queue' = IF q # <<>> /\ q[1].delta = 0 THEN RemoveEntry(q, 1) ELSE q
    BY <1>5 DEF HandleAlarm
  <2> HIDE DEF q
  <2>4. Ordered(queue')
    BY <2>2, <2>3, HeadIs, RemoveKeeps
  <2>5. drift' \in -1 .. MaxDrift
    BY <1>0, <1>5, MaxDriftIs DEF HandleAlarm, DriftAfterLook
  <2> QED BY <1>0, <1>5, <2>4, <2>5 DEF HandleAlarm, QueueInv, SelectWakesInTime
<1>6. ASSUME TimePasses PROVE QueueInv'
  <2>1. drift' \in -1 .. MaxDrift /\ timeout' \in 0 .. MaxDrift
    BY <1>0, <1>6, MaxDriftIs DEF TimePasses, AtLeast0
  <2>2. SelectWakesInTime'
    <3> SUFFICES ASSUME step = "select", queue # <<>>, timeout' > 0
                 PROVE  timeout' <= queue[1].delta - drift'
      BY <1>6 DEF SelectWakesInTime, TimePasses
    <3>1. queue[1].delta \in Nat /\ queue[1].delta <= MaxDelay
      BY <1>0, HeadIs
    <3>2. timeout' = timeout - 1 /\ timeout > 0
      BY <1>0, <1>6, MaxDriftIs DEF TimePasses, AtLeast0
    <3>3. timeout <= queue[1].delta - drift
      BY <3>2 DEF QueueInv, SelectWakesInTime
    <3>4. drift' = drift + 1
      BY <1>0, <1>6, <3>1, <3>2, <3>3, MaxDriftIs DEF TimePasses
    <3> QED BY <1>0, <3>1, <3>2, <3>3, <3>4, MaxDriftIs
  <2> QED BY <1>0, <1>6, <2>1, <2>2 DEF TimePasses, QueueInv
<1>7. ASSUME ClockSetBack PROVE QueueInv'
  <2>1. drift' \in -1 .. MaxDrift /\ drift' < drift /\ setBacks' \in 0 .. MaxSetBacks
    BY <1>0, <1>7, MaxDriftIs DEF ClockSetBack
  <2>2. SelectWakesInTime'
    <3> SUFFICES ASSUME step = "select", queue # <<>>, timeout > 0
                 PROVE  timeout <= queue[1].delta - drift'
      BY <1>7 DEF SelectWakesInTime, ClockSetBack
    <3>1. queue[1].delta \in Nat
      BY <1>0, HeadIs
    <3>2. timeout <= queue[1].delta - drift
      BY DEF QueueInv, SelectWakesInTime
    <3> QED BY <1>0, <2>1, <3>1, <3>2, MaxDriftIs
  <2> QED BY <1>0, <1>7, <2>1, <2>2 DEF ClockSetBack, QueueInv
<1>8. ASSUME UNCHANGED queueVars PROVE QueueInv'
  BY <1>0, <1>8 DEF queueVars, QueueInv, SelectWakesInTime
<1> QED BY <1>1, <1>2, <1>3, <1>4, <1>5, <1>6, <1>7, <1>8 DEF QueueNext

LEMMA QueueAlways == QueueSpec => []QueueInv
<1>1. QueueInit => QueueInv
  BY QueueInitInv
<1>2. QueueInv /\ [QueueNext]_queueVars => QueueInv'
  BY QueueNextInv
<1> QED BY <1>1, <1>2, PTL DEF QueueSpec

\* No delay of the list is negative or beyond what was asked for, however
\* entries are split and merged by addEntry, removeEntry and synchronize.
THEOREM DelaysStayInRange == QueueSpec => []QueueTypeOK
<1>1. QueueInv => QueueTypeOK
  <2> SUFFICES ASSUME QueueInv PROVE QueueTypeOK
    OBVIOUS
  <2>1. queue \in Seq(Entry) /\ Len(queue) \in Nat /\ List(queue)
    BY DEF QueueInv, List
  <2>2. ASSUME NEW i \in 1 .. Len(queue) PROVE queue[i] \in [task : Task, delta : 0 .. MaxDelay]
    <3>1. queue[i] \in Entry /\ i \in 0 .. Len(queue) /\ i - 1 \in 0 .. Len(queue)
      BY <2>1
    <3>2. TimeLeft(queue, i) = TimeLeft(queue, i - 1) + queue[i].delta /\ TimeLeft(queue, i - 1) \in Nat
      BY <2>1, <3>1, TimeLeftStep, TimeLeftNat
    <3>3. queue[i].task \in Task /\ LeftOf(queue)[queue[i].task] = TimeLeft(queue, i)
      BY <2>1, ViewAt
    <3>4. TimeLeft(queue, i) <= MaxDelay
      BY <3>3 DEF QueueInv
    <3>5. queue[i].delta \in Nat
      BY <2>1, DeltaNat
    <3>6. queue[i].delta \in 0 .. MaxDelay
      BY <3>2, <3>4, <3>5, MaxDriftIs
    <3> QED BY <3>1, <3>6 DEF Entry
  <2>3. queue \in Seq([task : Task, delta : 0 .. MaxDelay])
    <3> DEFINE S == [task : Task, delta : 0 .. MaxDelay]
    <3>1. queue = [i \in 1 .. Len(queue) |-> queue[i]]
      BY <2>1
    <3>2. \A i \in 1 .. Len(queue) : queue[i] \in S
      BY <2>2
    <3> HIDE DEF S
    <3>3. queue \in [1 .. Len(queue) -> S]
      BY <3>1, <3>2
    <3> DEFINE n == Len(queue)
    <3>4. n \in Nat /\ queue \in [1 .. n -> S]
      BY <2>1, <3>3
    <3> HIDE DEF n
    <3>5. queue \in Seq(S)
      BY ONLY <3>4
    <3> QED BY <3>5 DEF S
  <2> QED BY <2>3 DEF QueueInv, QueueTypeOK
<1> QED BY <1>1, QueueAlways, PTL

\* SingleStep's select() sleeps no longer than until the first delayed task is
\* due (timeToNextAlarm), whenever the clock was last looked at or set back.
THEOREM SelectSleepsNoLonger == QueueSpec => []SelectWakesInTime
<1>1. QueueInv => SelectWakesInTime
  BY DEF QueueInv
<1> QED BY <1>1, QueueAlways, PTL

LEMMA PromiseInit == QueueInit => Promise!Init
<1> SUFFICES ASSUME QueueInit PROVE Promise!Init
  OBVIOUS
<1>1. Tasks(queue) = {}
  BY DEF QueueInit, Tasks
<1> QED BY <1>1 DEF Promise!Init, LeftOf, AheadOf

LEMMA PromiseAfter == ASSUME NEW e PROVE Promise!After(e) = Later(LeftOf(queue), e)
BY DEF Promise!After, Later

LEMMA PromisePasses ==
  ASSUME NEW e \in 0 .. MaxDrift, QueueAfter(queue', e)
  PROVE  Promise!Next
<1>1. Promise!TimePasses(e)
  BY PromiseAfter DEF Promise!TimePasses, QueueAfter
<1> QED BY <1>1 DEF Promise!Next

LEMMA PromiseNext ==
  QueueInv /\ [QueueNext]_queueVars => [Promise!Next]_Promise!vars
<1> SUFFICES ASSUME QueueInv, [QueueNext]_queueVars PROVE [Promise!Next]_Promise!vars
  OBVIOUS
<1>1. ASSUME NEW t \in Task, NEW d \in 0 .. MaxDelay, ScheduleDelayedTask(t, d) PROVE Promise!Next
  <2> DEFINE q == Synchronized
  <2>1. PICK e \in 0 .. MaxDrift : QueueAfter(q, e)
    BY SynchronizedAfter
  <2>2. queue' = Insert(q, t, d) /\ t \notin Tasks(queue) /\ d \in Nat
    BY <1>1, QueuedIs, MaxDriftIs DEF ScheduleDelayedTask
  <2> HIDE DEF q
  <2>3. List(q) /\ t \notin Tasks(q)
    BY <2>1, <2>2 DEF QueueAfter
  <2>4. /\ Tasks(queue') = Tasks(q) \cup {t}
        /\ LeftOf(queue') = [LeftOf(q) EXCEPT ![t] = d]
        /\ AheadOf(queue') = [u \in Task |-> IF u = t THEN DueBy(q, d)
                                             ELSE IF u \in Tasks(q) \ DueBy(q, d)
                                                    THEN AheadOf(q)[u] \cup {t}
                                             ELSE AheadOf(q)[u]]
    BY <2>2, <2>3, InsertView
  <2>5. /\ Tasks(q) = Tasks(queue) /\ AheadOf(q) = AheadOf(queue)
        /\ LeftOf(q) = Promise!After(e)
    BY <2>1, PromiseAfter DEF QueueAfter
  <2>6. DueBy(q, d) = {u \in Tasks(queue) : Promise!After(e)[u] <= d}
    BY <2>5 DEF DueBy
  <2>7. Promise!Schedule(t, d, e)
    BY <2>2, <2>4, <2>5, <2>6 DEF Promise!Schedule
  <2> QED BY <2>7 DEF Promise!Next
<1>2. ASSUME NEW t \in Task, UnscheduleDelayedTask(t) PROVE Promise!Next
  <2> DEFINE i == Position(queue, t)
  <2>1. t \in Tasks(queue) /\ i \in 1 .. Len(queue) /\ queue[i].task = t /\ queue' = RemoveEntry(queue, i)
    BY <1>2, QueuedIs, PositionIs DEF UnscheduleDelayedTask
  <2> HIDE DEF i
  <2>2. /\ Tasks(queue') = Tasks(queue) \ {t}
        /\ LeftOf(queue') = [LeftOf(queue) EXCEPT ![t] = 0]
        /\ AheadOf(queue') = [u \in Task |-> IF u = t THEN {} ELSE AheadOf(queue)[u] \ {t}]
    BY <2>1, RemoveView DEF QueueInv
  <2>3. Promise!Cancel(t)
    BY <2>1, <2>2 DEF Promise!Cancel, Promise!Drop
  <2> QED BY <2>3 DEF Promise!Next
<1>3. ASSUME TimeToNextAlarm PROVE Promise!Next
  <2>1. \E e \in 0 .. MaxDrift : QueueAfter(queue', e)
    BY <1>3, HeadAfter DEF TimeToNextAlarm
  <2> QED BY <2>1, PromisePasses
<1>4. ASSUME HandleAlarm PROVE Promise!Next
  <2> DEFINE q == HeadUpToDate
             t == q[1].task
  <2>1. PICK e \in 0 .. MaxDrift : QueueAfter(q, e)
    BY HeadAfter
  <2>2. queue' = IF q # <<>> /\ q[1].delta = 0 THEN RemoveEntry(q, 1) ELSE q
    BY <1>4 DEF HandleAlarm
  <2> HIDE DEF q
  <2>3. CASE q # <<>> /\ q[1].delta = 0
    <3>1. List(q) /\ queue' = RemoveEntry(q, 1)
      BY <2>1, <2>2, <2>3 DEF QueueAfter
    <3>2. /\ 1 \in 1 .. Len(q) /\ t \in Task /\ t \in Tasks(q)
          /\ LeftOf(q)[t] = 0 /\ AheadOf(q)[t] = {}
      BY <2>3, <3>1, HeadIs
    <3>3. /\ Tasks(queue') = Tasks(q) \ {t}
          /\ LeftOf(queue') = [LeftOf(q) EXCEPT ![t] = 0]
          /\ AheadOf(queue') = [u \in Task |-> IF u = t THEN {} ELSE AheadOf(q)[u] \ {t}]
      BY <3>1, <3>2, RemoveView
    <3> HIDE DEF t
    <3>4. /\ Tasks(q) = Tasks(queue) /\ AheadOf(q) = AheadOf(queue)
          /\ LeftOf(q) = Promise!After(e)
      BY <2>1, PromiseAfter DEF QueueAfter
    <3>5. Promise!Run(t, e)
      BY <3>2, <3>3, <3>4 DEF Promise!Run, Promise!Drop
    <3> QED BY <3>2, <3>5 DEF Promise!Next
  <2>4. CASE ~(q # <<>> /\ q[1].delta = 0)
    <3>1. QueueAfter(queue', e)
      BY <2>1, <2>2, <2>4
    <3> QED BY <3>1, PromisePasses
  <2> QED BY <2>3, <2>4
<1>5. ASSUME UNCHANGED queue PROVE UNCHANGED Promise!vars
  BY <1>5 DEF Promise!vars
<1> QED
  BY <1>1, <1>2, <1>3, <1>4, <1>5
  DEF QueueNext, SelectReturns, TimePasses, ClockSetBack, queueVars

\* The delta list implements Timers: every operation of DelayQueue is one of an
\* abstract set of tasks with the time left to each and those that run before
\* it, and a look at the clock, late or after it was set back, only lets time
\* pass in it.
THEOREM DeltaListImplementsTimers == QueueSpec => ImplementsTimers
<1>1. QueueInit => Promise!Init
  BY PromiseInit
<1>2. QueueInv /\ [QueueNext]_queueVars => [Promise!Next]_Promise!vars
  BY PromiseNext
<1> QED BY <1>1, <1>2, QueueAlways, PTL DEF QueueSpec, ImplementsTimers, Promise!Spec

-----------------------------------------------------------------------------
(* LoopThread: one thread at a time. *)

Places == {"none", "born", "ready", "pass", "enter", "loop", "select", "triggers", "left", "gone"}

\* Every thread but the one created last is gone.
OneThread ==
  /\ created \in 0 .. MaxThreads
  /\ place \in [Thread -> Places]
  /\ \A t \in Thread : (t > created => place[t] = "none") /\ (t < created => place[t] = "gone")

\* Where the thread created last is.
Current == IF created = 0 THEN "gone" ELSE place[created]

InLoop == {"loop", "select", "triggers"}

\* JThread's handshake: whoever holds its mutexes, and what has been seen.
Handshake ==
  /\ continue1 = IF app \in {"create", "wait", "go"} THEN App ELSE Free
  /\ IF Current \in {"ready", "pass", "enter"} THEN continue2 = created ELSE continue2 = Free
  /\ running \in BOOLEAN
  /\ running <=> Current \in {"pass", "enter", "left"} \cup InLoop
  /\ stop \in BOOLEAN
  /\ stop <=> app = "stopping"

\* How far the thread is when the application's thread is here.
Together ==
  /\ app = "create" => Current = "gone" /\ created < MaxThreads
  /\ app = "wait" => Current \in {"born", "ready", "pass"}
  /\ app = "go" => Current = "pass"
  /\ app = "meet" => Current \in {"pass", "enter"} \cup InLoop
  /\ app = "stopping" => Current \in {"left", "gone"} \cup InLoop
  /\ app = "joined" => Current = "gone"
  /\ app = "idle" => Current \in IF runtime = "initialised" THEN InLoop ELSE {"gone"}
  /\ app \in {"idle", "create", "wait", "go", "meet", "stopping", "joined"}
  /\ app \in {"create", "wait", "go", "meet"} => runtime = "failed" /\ object = "live"
  /\ app \in {"stopping", "joined"} => runtime = "initialised"
  /\ Current # "gone" => object = "live"

LifeInv == OneThread /\ Handshake /\ Together

LEMMA LifeInit == LoopInit => LifeInv
<1> SUFFICES ASSUME LoopInit PROVE LifeInv
  OBVIOUS
<1>1. created = 0 /\ Current = "gone"
  BY DEF LoopInit, Current
<1>2. OneThread
  BY <1>1, ThreadAssumption DEF ThreadAssumption, LoopInit, OneThread, Places, Thread
<1>3. Handshake
  BY <1>1 DEF LoopInit, Handshake, InLoop
<1>4. Together
  BY <1>1 DEF LoopInit, Together
<1> QED BY <1>2, <1>3, <1>4 DEF LifeInv

\* A thread that is somewhere is the one created last.
LEMMA AliveIsCurrent ==
  ASSUME OneThread, NEW t \in Thread, place[t] \notin {"none", "gone"}
  PROVE  t = created /\ created # 0 /\ Current = place[t]
  BY DEF OneThread, Thread, Current

\* It goes on alone.
LEMMA GoesOn ==
  ASSUME OneThread, NEW t \in Thread, NEW from \in Places, NEW to \in Places, Goes(t, from, to),
         from \notin {"none", "gone"}, created' = created
  PROVE  OneThread' /\ Current = from /\ Current' = to /\ created = t
<1>1. t = created /\ created # 0 /\ Current = from
  BY AliveIsCurrent DEF Goes
<1>2. place' = [place EXCEPT ![t] = to]
  BY DEF Goes
<1>3. place'[t] = to
  BY <1>2 DEF OneThread
<1>4. Current' = to
  BY <1>1, <1>3 DEF Current
<1>5. OneThread'
  BY <1>1, <1>2 DEF OneThread, Thread
<1> QED BY <1>1, <1>4, <1>5

LEMMA LifeStep == LifeInv /\ [LoopNext]_loopVars => LifeInv'
<1> SUFFICES ASSUME LifeInv, [LoopNext]_loopVars PROVE LifeInv'
  OBVIOUS
<1> USE DEF LifeInv, Handshake, Together, InLoop
<1>1. ASSUME UNCHANGED <<created, place>> PROVE OneThread' /\ Current' = Current
  BY <1>1 DEF OneThread, Current
<1>2. CASE ServerInit
  <2>1. UNCHANGED <<created, place>>
    BY <1>2 DEF ServerInit
  <2>2. Current = "gone"
    BY <1>2 DEF ServerInit
  <2> QED BY <1>1, <1>2, <2>1, <2>2 DEF ServerInit
<1>3. CASE CreateThread \/ CreateFails
  <2>1. app = "create" /\ created' = created + 1 /\ Current = "gone" /\ created < MaxThreads
    BY <1>3 DEF CreateThread, CreateFails
  <2>2. created + 1 \in Thread /\ created \in 0 .. MaxThreads
    BY <2>1, ThreadAssumption DEF ThreadAssumption, Thread, OneThread
  <2>3. PICK p \in {"born", "gone"} : place' = [place EXCEPT ![created + 1] = p]
    BY <1>3 DEF CreateThread, CreateFails
  <2>4. Current' = p
    BY <2>1, <2>2, <2>3 DEF Current, OneThread
  <2>5. OneThread'
    <3>1. \A t \in Thread : t < created + 1 => place[t] = "gone"
      BY <2>1, <2>2 DEF OneThread, Current, Thread
    <3> QED BY <2>1, <2>2, <2>3, <3>1, ThreadAssumption DEF ThreadAssumption, OneThread, Places, Thread
  <2>6. CASE CreateThread
    <3>1. p = "born"
      BY <2>2, <2>3, <2>6 DEF CreateThread, OneThread
    <3> QED BY <2>1, <2>4, <2>5, <2>6, <3>1 DEF CreateThread
  <2>7. CASE CreateFails
    <3>1. p = "gone"
      BY <2>2, <2>3, <2>7 DEF CreateFails, OneThread
    <3> QED BY <2>1, <2>4, <2>5, <2>7, <3>1 DEF CreateFails
  <2> QED BY <1>3, <2>6, <2>7
<1>4. CASE SeesRunning
  BY <1>1, <1>4 DEF SeesRunning
<1>5. CASE ReleaseContinue
  BY <1>1, <1>5 DEF ReleaseContinue
<1>6. CASE MeetThread
  <2>1. continue2 = Free => Current \notin {"pass", "enter"}
    BY DEF Free, Current, OneThread
  <2> QED BY <1>1, <1>6, <2>1 DEF MeetThread
<1>7. CASE RunRtspSrv
  BY <1>1, <1>7 DEF RunRtspSrv
<1>8. CASE ServerCleanup
  BY <1>1, <1>8 DEF ServerCleanup
<1>9. CASE SeesStopped
  BY <1>1, <1>9 DEF SeesStopped
<1>10. CASE DeleteRuntime
  BY <1>1, <1>10 DEF DeleteRuntime
<1>11. CASE UNCHANGED lifeVars
  BY <1>1, <1>11 DEF lifeVars
<1>12. ASSUME NEW t \in Thread, LockContinue2(t) PROVE LifeInv'
  BY <1>12, GoesOn DEF LockContinue2, Places
<1>13. ASSUME NEW t \in Thread, SetRunning(t) PROVE LifeInv'
  BY <1>13, GoesOn DEF SetRunning, Places
<1>14. ASSUME NEW t \in Thread, PassContinue(t) PROVE LifeInv'
  BY <1>14, GoesOn, ThreadAssumption DEF PassContinue, Places, App, Free, ThreadAssumption
<1>15. ASSUME NEW t \in Thread, ThreadStarted(t) PROVE LifeInv'
  BY <1>15, GoesOn DEF ThreadStarted, Places
<1>16. ASSUME NEW t \in Thread, LoopTest(t) PROVE LifeInv'
  BY <1>16, GoesOn DEF LoopTest, Places
<1>17. ASSUME NEW t \in Thread, SelectEnds(t) PROVE LifeInv'
  BY <1>17, GoesOn DEF SelectEnds, Places
<1>18. ASSUME NEW t \in Thread, StepEnds(t) PROVE LifeInv'
  BY <1>18, GoesOn DEF StepEnds, Places
<1>19. ASSUME NEW t \in Thread, ThreadEnds(t) PROVE LifeInv'
  BY <1>19, GoesOn DEF ThreadEnds, Places
<1> QED BY <1>2, <1>3, <1>4, <1>5, <1>6, <1>7, <1>8, <1>9, <1>10, <1>11, <1>12, <1>13, <1>14, <1>15, <1>16,
           <1>17, <1>18, <1>19
        DEF LoopNext, AppStep, AppTriggers, ThreadStep, HandlerTriggers, HandleTriggers, Finished, loopVars

-----------------------------------------------------------------------------
(* The trigger used last.  Events are triggered by handlers of the loop,   *)
(* or by one foreign thread that triggers one event.                       *)

CallFields == {"at", "trigger", "data", "seen"}
SearchFields == {"at", "mask", "num", "seen"}

\* Records with these fields, whatever their values.
Records ==
  /\ call = [c \in Caller |-> [x \in CallFields |-> call[c][x]]]
  /\ search = [x \in SearchFields |-> search[x]]
  /\ calls \in Nat

\* The loop looks for events in one part of its step, and its handlers trigger
\* them in another.
InTurn ==
  /\ search.at # "done" => Current = "triggers"
  /\ call["loop"].at # "idle" => Current = "select"
  /\ search.at \in {"and", "write", "call", "mask", "num"} => search.mask = search.num

\* Only the loop's own handlers trigger events.
HandlersOnly == usage = "handlers" => call["app"].at = "idle"

\* Only another thread does, and only event 0.
ForeignOnly ==
  usage = "foreign" =>
    /\ call["loop"].at = "idle"
    /\ awaiting \subseteq {0} /\ call["app"].seen \subseteq {0} /\ search.seen \subseteq {0}
    /\ call["app"].at # "idle" => call["app"].trigger = 0 /\ calls # 0
    /\ search.at \in {"write", "call", "mask", "num"} => search.mask = 0
    /\ search.at = "test" => awaiting = {0}
    /\ calls = 0 => awaiting = {}

\* Who is between the two assignments has written the mask.
HalfWritten ==
  /\ usage \in {"handlers", "foreign"}
  /\ \A c \in Caller : call[c].at = "num" => lastMask = call[c].trigger
  /\ search.at = "num" => lastMask = search.mask

AgreeInv == Records /\ InTurn /\ HandlersOnly /\ ForeignOnly /\ HalfWritten /\ LastUsedAgrees

LEMMA AgreeInit == "mixed" \notin Usages /\ LoopInit => AgreeInv
  BY TriggerAssumption
  DEF TriggerAssumption, LoopInit, FreshTriggers, AgreeInv, Records, InTurn, HandlersOnly, ForeignOnly, HalfWritten,
      LastUsedAgrees, Caller, NoCall, NoSearch, CallFields, SearchFields

\* One call gets another record, or goes on in its own.
LEMMA CallChanges ==
  ASSUME Records, NEW c \in Caller, NEW r, r = [x \in CallFields |-> r[x]], call' = [call EXCEPT ![c] = r]
  PROVE  /\ call' = [d \in Caller |-> [x \in CallFields |-> call'[d][x]]]
         /\ call'[c] = r
         /\ \A d \in Caller : d # c => call'[d] = call[d]
<1>1. DOMAIN call = Caller
  BY DEF Records
<1>2. call' = [d \in Caller |-> IF d = c THEN r ELSE call[d]]
  BY <1>1
<1>3. \A d \in Caller : call[d] = [x \in CallFields |-> call[d][x]]
  BY DEF Records
<1>4. \A d \in Caller : call'[d] = IF d = c THEN r ELSE call[d]
  BY <1>2
<1>5. \A d \in Caller : call'[d] = [x \in CallFields |-> call'[d][x]]
  BY <1>3, <1>4
<1> QED BY <1>2, <1>4, <1>5

LEMMA CallGoesOn ==
  ASSUME Records, NEW c \in Caller, NEW to, CallGoes(c, to)
  PROVE  /\ call' = [d \in Caller |-> [x \in CallFields |-> call'[d][x]]]
         /\ call'[c].at = to /\ call'[c].trigger = call[c].trigger /\ call'[c].seen = call[c].seen
         /\ \A d \in Caller : d # c => call'[d] = call[d]
<1> DEFINE r == [call[c] EXCEPT !.at = to]
<1>1. call[c] = [x \in CallFields |-> call[c][x]]
  BY DEF Records
<1>2. r = [x \in CallFields |-> r[x]] /\ r.at = to /\ r.trigger = call[c].trigger /\ r.seen = call[c].seen
  BY <1>1 DEF CallFields
<1>3. call' = [call EXCEPT ![c] = r]
  BY DEF CallGoes
<1> HIDE DEF r
<1> QED BY <1>2, <1>3, CallChanges

\* A step of triggerEvent, in either thread.
LEMMA CallKeeps ==
  ASSUME AgreeInv, NEW c \in Caller, TriggerStep(c), Current' = Current
  PROVE  AgreeInv'
<1> USE DEF AgreeInv, InTurn, HandlersOnly, ForeignOnly, HalfWritten, LastUsedAgrees, Caller
<1>1. UNCHANGED <<search, calls, usage>>
  BY DEF TriggerStep, WriteAwaiting
<1>2. ASSUME NEW to, CallGoes(c, to), call[c].at # "idle",
             UNCHANGED <<awaiting, lastMask, lastNum>>, call[c].at # "num",
             to \notin {"idle", "num"}
      PROVE  AgreeInv'
  <2>1. Records'
    BY <1>1, <1>2, CallGoesOn DEF Records
  <2>2. /\ call'[c].at = to /\ call'[c].trigger = call[c].trigger /\ call'[c].seen = call[c].seen
        /\ \A d \in Caller : d # c => call'[d] = call[d]
    BY <1>2, CallGoesOn
  <2> QED BY <1>1, <1>2, <2>1, <2>2
<1>3. CASE CompareMask(c)
  <2>1. PICK to \in {"common", "store"} : CallGoes(c, to)
    BY <1>3 DEF CompareMask
  <2> QED BY <1>2, <1>3, <2>1 DEF CompareMask, shared
<1>4. CASE StoreCommon(c)
  BY <1>2, <1>4 DEF StoreCommon
<1>5. CASE StoreData(c)
  BY <1>2, <1>5 DEF StoreData
<1>6. CASE StoreMask(c)
  <2>1. Records'
    BY <1>1, <1>6, CallGoesOn DEF Records, StoreMask
  <2>2. /\ call'[c].at = "num" /\ call'[c].trigger = call[c].trigger /\ call'[c].seen = call[c].seen
        /\ \A d \in Caller : d # c => call'[d] = call[d]
    BY <1>6, CallGoesOn DEF StoreMask
  <2> QED BY <1>1, <1>6, <2>1, <2>2 DEF StoreMask
<1>7. CASE StoreNum(c)
  <2>1. Records'
    BY <1>1, <1>7, CallGoesOn DEF Records, StoreNum
  <2>2. /\ call'[c].at = "or" /\ call'[c].trigger = call[c].trigger /\ call'[c].seen = call[c].seen
        /\ \A d \in Caller : d # c => call'[d] = call[d]
    BY <1>7, CallGoesOn DEF StoreNum
  <2> QED BY <1>1, <1>7, <2>1, <2>2 DEF StoreNum
<1>8. CASE ReadAwaiting(c)
  <2> DEFINE r == [call[c] EXCEPT !.seen = awaiting, !.at = "write"]
  <2>1. call[c] = [x \in CallFields |-> call[c][x]]
    BY DEF Records
  <2>2. /\ r = [x \in CallFields |-> r[x]]
        /\ r.at = "write" /\ r.trigger = call[c].trigger /\ r.seen = awaiting
    BY <2>1 DEF CallFields
  <2>3. call' = [call EXCEPT ![c] = r]
    BY <1>8 DEF ReadAwaiting
  <2> HIDE DEF r
  <2>4. Records' /\ call'[c] = r /\ \A d \in Caller : d # c => call'[d] = call[d]
    BY <1>1, <2>2, <2>3, CallChanges DEF Records
  <2>5. call[c].at = "or" /\ UNCHANGED <<awaiting, lastMask, lastNum>>
    BY <1>8 DEF ReadAwaiting, shared
  <2> QED BY <1>1, <2>2, <2>4, <2>5
<1>9. CASE WriteAwaiting(c)
  <2>1. NoCall = [x \in CallFields |-> NoCall[x]] /\ NoCall.at = "idle" /\ NoCall.seen = {}
    BY DEF NoCall, CallFields
  <2>2. Records' /\ call'[c] = NoCall /\ \A d \in Caller : d # c => call'[d] = call[d]
    BY <1>1, <1>9, <2>1, CallChanges DEF Records, WriteAwaiting
  <2>3. /\ call[c].at = "write" /\ UNCHANGED <<lastMask, lastNum>>
        /\ awaiting' = call[c].seen \cup {call[c].trigger}
    BY <1>9 DEF WriteAwaiting
  <2> QED BY <1>1, <2>1, <2>2, <2>3
<1> QED BY <1>3, <1>4, <1>5, <1>6, <1>7, <1>8, <1>9 DEF TriggerStep

\* It begins, in the application's thread or in a handler.
LEMMA BeginKeeps ==
  ASSUME AgreeInv, NEW c \in Caller, NEW t \in Trigger, BeginTrigger(c, t), Current' = Current,
         c = "loop" => Current = "select"
  PROVE  AgreeInv'
<1> USE DEF AgreeInv, InTurn, HandlersOnly, ForeignOnly, HalfWritten, LastUsedAgrees, Caller
<1> DEFINE r == [NoCall EXCEPT !.at = "compare", !.trigger = t, !.data = calls + 1]
<1>1. r = [x \in CallFields |-> r[x]] /\ r.at = "compare" /\ r.trigger = t /\ r.seen = {}
  BY DEF NoCall, CallFields
<1>2. call' = [call EXCEPT ![c] = r]
  BY DEF BeginTrigger
<1> HIDE DEF r
<1>3. call'[c] = r /\ \A d \in Caller : d # c => call'[d] = call[d]
  BY <1>1, <1>2, CallChanges
<1>4. /\ UNCHANGED <<awaiting, lastMask, lastNum, search, usage>>
      /\ calls' = calls + 1 /\ calls \in Nat
      /\ c = "app" => usage # "handlers"
      /\ c = "loop" => usage # "foreign"
      /\ usage = "foreign" => t = 0
      /\ call[c].at = "idle"
  BY DEF BeginTrigger, shared, Records
<1>5. Records'
  <2>1. call' = [d \in Caller |-> [x \in CallFields |-> call'[d][x]]]
    BY <1>1, <1>2, CallChanges
  <2>2. calls' \in Nat
    BY <1>4
  <2>3. search' = [x \in SearchFields |-> search'[x]]
    BY <1>4 DEF Records
  <2> QED BY <2>1, <2>2, <2>3 DEF Records
<1> QED BY <1>1, <1>3, <1>4, <1>5

\* A handler makes or deletes a trigger.
LEMMA MakeKeeps ==
  ASSUME AgreeInv, Current = "select", Current' = Current,
         CreateEventTrigger \/ \E t \in Trigger : DeleteEventTrigger(t)
  PROVE  AgreeInv'
<1> USE DEF AgreeInv, Records, InTurn, HandlersOnly, ForeignOnly, HalfWritten, LastUsedAgrees, Caller
<1>1. CASE CreateEventTrigger
  <2>1. lastMask = lastNum
    BY <1>1 DEF CreateEventTrigger
  <2> QED BY <1>1, <2>1 DEF CreateEventTrigger
<1>2. CASE \E t \in Trigger : DeleteEventTrigger(t)
  BY <1>2 DEF DeleteEventTrigger
<1> QED BY <1>1, <1>2

\* A step of the search, which finds the trigger by its mask and by its index.
LEMMA SearchKeeps ==
  ASSUME AgreeInv, SearchStep, Current = "triggers", Current' = Current
  PROVE  AgreeInv'
<1> USE DEF AgreeInv, Records, InTurn, HandlersOnly, ForeignOnly, HalfWritten, LastUsedAgrees,
            Caller, SearchFields
<1>1. UNCHANGED <<call, calls, usage>>
  BY DEF SearchStep
<1>2. CASE AnyAwaiting
  BY <1>1, <1>2 DEF AnyAwaiting, shared
<1>3. CASE OnlyLastUsed
  <2>1. lastMask # lastNum => awaiting = {lastMask}
    BY <1>3 DEF OnlyLastUsed
  <2> QED BY <1>1, <1>3, <2>1 DEF OnlyLastUsed, shared
<1>4. CASE ClearAll
  BY <1>1, <1>4 DEF ClearAll
<1>5. CASE CallCommon
  BY <1>1, <1>5 DEF CallCommon, NoSearch, shared
<1>6. CASE FindNext
  <2> DEFINE found == {i \in 1 .. N : After(search.mask, i) \in awaiting}
             i == CHOOSE i \in found : \A j \in found : i <= j
  <2>1. CASE found = {}
    BY <1>1, <1>6, <2>1 DEF FindNext, NoSearch, shared
  <2>2. CASE found # {}
    <3>1. search' = [at |-> "write", mask |-> After(search.mask, i), num |-> After(search.num, i),
                     seen |-> awaiting]
      BY <1>6, <2>2 DEF FindNext
    <3>2. After(search.num, i) = After(search.mask, i)
      BY <1>6 DEF FindNext
    <3>3. usage = "foreign" => After(search.mask, i) = 0
      <4>1. \E k \in found : \A j \in found : k <= j
        <5>1. found \subseteq Nat
          BY TriggerAssumption DEF TriggerAssumption
        <5> HIDE DEF found
        <5> QED BY <2>2, <5>1, LeastOf
      <4>2. i \in found
        BY <4>1
      <4> QED BY <4>2
    <3> DEFINE m == After(search.mask, i)
    <3>4. search' = [at |-> "write", mask |-> m, num |-> m, seen |-> awaiting]
      BY <3>1, <3>2
    <3>5. usage = "foreign" => m = 0
      BY <3>3
    <3>6. UNCHANGED shared /\ search.at = "and"
      BY <1>6 DEF FindNext
    <3> HIDE DEF m
    <3> QED BY <1>1, <3>4, <3>5, <3>6 DEF shared
  <2> QED BY <2>1, <2>2
<1>7. CASE ClearOne
  BY <1>1, <1>7 DEF ClearOne
<1>8. CASE CallFound
  BY <1>1, <1>8 DEF CallFound, shared
<1>9. CASE RememberMask
  BY <1>1, <1>9 DEF RememberMask
<1>10. CASE RememberNum
  BY <1>1, <1>10 DEF RememberNum, NoSearch
<1> QED BY <1>2, <1>3, <1>4, <1>5, <1>6, <1>7, <1>8, <1>9, <1>10 DEF SearchStep

\* The thread is where it uses no trigger, and stays out of there.
LEMMA ElsewhereKeeps ==
  ASSUME AgreeInv, UNCHANGED trigVars,
         Current \notin {"select", "triggers"} \/ Current' = Current
  PROVE  AgreeInv'
<1>1. UNCHANGED <<call, search, calls, usage, awaiting, lastMask, lastNum>>
  BY DEF trigVars, shared
<1> QED BY <1>1 DEF AgreeInv, Records, InTurn, HandlersOnly, ForeignOnly, HalfWritten, LastUsedAgrees

LEMMA AgreeStep == LifeInv /\ AgreeInv /\ [LoopNext]_loopVars => AgreeInv'
<1> SUFFICES ASSUME LifeInv, AgreeInv, [LoopNext]_loopVars PROVE AgreeInv'
  OBVIOUS
<1> USE DEF LifeInv
<1>1. UNCHANGED <<created, place>> => Current' = Current
  BY DEF Current
<1>2. CASE ServerInit
  <2>1. Current' = Current /\ calls' = calls /\ usage' = usage
    BY <1>1, <1>2 DEF ServerInit, ResetTriggers
  <2>2. call' = [c \in Caller |-> NoCall] /\ search' = NoSearch /\ awaiting' = {} /\ lastMask' = lastNum'
    BY <1>2 DEF ServerInit, ResetTriggers
  <2> QED BY <2>1, <2>2
          DEF AgreeInv, Records, InTurn, HandlersOnly, ForeignOnly, HalfWritten, LastUsedAgrees,
              Caller, NoCall, NoSearch, CallFields, SearchFields
<1>3. CASE CreateThread \/ CreateFails
  <2>1. Current = "gone" /\ UNCHANGED trigVars
    BY <1>3 DEF CreateThread, CreateFails, Together
  <2> QED BY <2>1, ElsewhereKeeps
<1>4. CASE SeesRunning \/ ReleaseContinue \/ MeetThread \/ RunRtspSrv \/ ServerCleanup \/ SeesStopped \/ DeleteRuntime
  <2>1. UNCHANGED <<created, place>> /\ UNCHANGED trigVars
    BY <1>4 DEF SeesRunning, ReleaseContinue, MeetThread, RunRtspSrv, ServerCleanup, SeesStopped, DeleteRuntime
  <2> QED BY <1>1, <2>1, ElsewhereKeeps
<1>5. CASE AppTriggers
  <2>1. Current' = Current
    BY <1>1, <1>5 DEF AppTriggers, lifeVars
  <2> QED BY <1>5, <2>1, BeginKeeps, CallKeeps DEF AppTriggers, Caller
<1>6. ASSUME NEW t \in Thread,
             \/ LockContinue2(t) \/ SetRunning(t) \/ PassContinue(t) \/ ThreadStarted(t)
             \/ LoopTest(t) \/ ThreadEnds(t)
      PROVE  AgreeInv'
  <2>1. place[t] \in {"born", "ready", "pass", "enter", "loop", "left"} /\ UNCHANGED trigVars
    BY <1>6 DEF LockContinue2, SetRunning, PassContinue, ThreadStarted, LoopTest, ThreadEnds, Goes
  <2>2. Current = place[t]
    BY <2>1, AliveIsCurrent
  <2> QED BY <2>1, <2>2, ElsewhereKeeps
<1>7. ASSUME NEW t \in Thread, HandlerTriggers(t) PROVE AgreeInv'
  <2>1. Current = "select"
    BY <1>7, AliveIsCurrent DEF HandlerTriggers
  <2>2. Current' = Current
    BY <1>1, <1>7 DEF HandlerTriggers, lifeVars
  <2> QED BY <1>7, <2>1, <2>2, MakeKeeps, BeginKeeps, CallKeeps DEF HandlerTriggers, Caller
<1>8. ASSUME NEW t \in Thread, SelectEnds(t) PROVE AgreeInv'
  <2>1. Current' = "triggers" /\ Current = "select"
    BY <1>8, GoesOn DEF SelectEnds, Places
  <2>2. call["loop"].at = "idle" /\ UNCHANGED <<shared, call, calls, usage>>
    BY <1>8 DEF SelectEnds
  <2>3. search' = [NoSearch EXCEPT !.at = "check"]
    BY <1>8 DEF SelectEnds
  <2>4. search' = [x \in SearchFields |-> search'[x]] /\ search'.at = "check" /\ search'.seen = {}
    BY <2>3 DEF NoSearch, SearchFields
  <2>5. search.at = "done"
    BY <2>1 DEF AgreeInv, InTurn
  <2> QED BY <2>1, <2>2, <2>4, <2>5
          DEF AgreeInv, Records, InTurn, HandlersOnly, ForeignOnly, HalfWritten, LastUsedAgrees, Caller, shared
<1>9. ASSUME NEW t \in Thread, HandleTriggers(t) PROVE AgreeInv'
  <2>1. Current = "triggers"
    BY <1>9, AliveIsCurrent DEF HandleTriggers
  <2>2. Current' = Current
    BY <1>1, <1>9 DEF HandleTriggers, lifeVars
  <2> QED BY <1>9, <2>1, <2>2, SearchKeeps DEF HandleTriggers
<1>10. ASSUME NEW t \in Thread, StepEnds(t) PROVE AgreeInv'
  <2>1. Current' = "loop" /\ Current = "triggers"
    BY <1>10, GoesOn DEF StepEnds, Places
  <2>2. search.at = "done" /\ UNCHANGED trigVars
    BY <1>10 DEF StepEnds
  <2> QED BY <2>1, <2>2
          DEF AgreeInv, Records, InTurn, HandlersOnly, ForeignOnly, HalfWritten, LastUsedAgrees, trigVars, shared
<1>11. CASE UNCHANGED loopVars
  BY <1>1, <1>11, ElsewhereKeeps DEF loopVars, lifeVars
<1> QED BY <1>2, <1>3, <1>4, <1>5, <1>6, <1>7, <1>8, <1>9, <1>10, <1>11
        DEF LoopNext, AppStep, ThreadStep, Finished

-----------------------------------------------------------------------------
(* The properties. *)

\* A thread that may still use its AFDPollThread finds it undeleted, and no
\* other thread is in a loop: server_cleanup (AFDRTSPServer.cpp 82-98) waits in
\* AFDPollThread::Stop until the loop has been left for good.
THEOREM LoopObjectKept == LoopSpec => []LoopKeepsItsObject
<1>1. LifeInv => LoopKeepsItsObject
  <2> SUFFICES ASSUME LifeInv, NEW t \in Thread, Alive(t)
               PROVE  object = "live" /\ \A u \in Thread : Alive(u) => u = t
    BY DEF LoopKeepsItsObject
  <2>1. t = created /\ Current = place[t]
    BY AliveIsCurrent DEF LifeInv, Alive
  <2>2. object = "live"
    BY <2>1 DEF LifeInv, Together, Alive
  <2>3. ASSUME NEW u \in Thread, Alive(u) PROVE u = t
    BY <2>1, <2>3, AliveIsCurrent DEF LifeInv, Alive
  <2> QED BY <2>2, <2>3
<1> QED BY LifeInit, LifeStep, <1>1, PTL DEF LoopSpec

\* Once server_init has returned true, the mutexes of JThread's handshake are
\* free, and while the application calls nothing its thread is in the loop
\* (jthread.cpp 48-115, AFDPollThread.cpp 72-79).
THEOREM StartedThreadLoops == LoopSpec => []StartedIsInLoop
<1>1. LifeInv => StartedIsInLoop
  <2> SUFFICES ASSUME LifeInv, runtime = "initialised" PROVE StartedIsInLoop
    BY DEF StartedIsInLoop
  <2>1. app \in {"idle", "stopping", "joined"}
    BY DEF LifeInv, Together
  <2>2. Current \in {"left", "gone"} \cup InLoop
    BY <2>1 DEF LifeInv, Together
  <2>3. continue1 = Free /\ continue2 = Free
    BY <2>1, <2>2 DEF LifeInv, Handshake, InLoop
  <2>4. ASSUME app = "idle" PROVE running /\ \E t \in Thread : place[t] \in InLoop
    <3>1. Current \in InLoop
      BY <2>4 DEF LifeInv, Together
    <3>2. running
      BY <3>1 DEF LifeInv, Handshake, InLoop
    <3>3. created \in Thread /\ place[created] \in InLoop
      BY <3>1, ThreadAssumption DEF ThreadAssumption, LifeInv, OneThread, Current, InLoop, Thread
    <3> QED BY <3>2, <3>3
  <2> QED BY <2>3, <2>4 DEF StartedIsInLoop, InLoop
<1> QED BY LifeInit, LifeStep, <1>1, PTL DEF LoopSpec

\* With the two, and when no two threads trigger different events, the mask and
\* the index of the trigger used last agree whenever neither thread is between
\* their assignments (BasicTaskScheduler0.cpp 131-161, BasicTaskScheduler.cpp
\* 153-184).
THEOREM LoopSound ==
  ASSUME "mixed" \notin Usages
  PROVE  LoopSpec => []LoopIsSound
<1>1. LoopSpec => [](LifeInv /\ AgreeInv)
  BY LifeInit, LifeStep, AgreeInit, AgreeStep, PTL DEF LoopSpec
<1>2. AgreeInv => LastUsedAgrees
  BY DEF AgreeInv
<1>3. LoopSpec => []LastUsedAgrees
  BY <1>1, <1>2, PTL
<1>4. LoopKeepsItsObject /\ StartedIsInLoop /\ LastUsedAgrees => LoopIsSound
  BY DEF LoopIsSound
<1> QED BY LoopObjectKept, StartedThreadLoops, <1>3, <1>4, PTL

=============================================================================

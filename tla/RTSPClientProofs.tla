-------------------------- MODULE RTSPClientProofs --------------------------
(***************************************************************************)
(* The request engine and its blocking functions, for every set of         *)
(* requests and every bound, as long as the client is only called from its *)
(* event loop: no request waits for a connection that nobody makes, every  *)
(* open request is in one place, and a blocking function returns what is   *)
(* its own.                                                                *)
(*                                                                         *)
(* Three inductive invariants, each on top of the one before:              *)
(*   ConnectionInv adds what sendRequest relies on between openConnection  *)
(*     and enqueue and what connectionHandler1 relies on while it tells    *)
(*     requests about a failure: handlers called there may send, but find  *)
(*     neither an empty socket number nor a pending connection;            *)
(*   RecordInv says that the queues together hold the open requests, each  *)
(*     once, and that CSeqs grow;                                          *)
(*   CallInv says that a blocking call's request is the only open one that *)
(*     has a handler, and has the latest CSeq, by which the timeout finds  *)
(*     it.                                                                 *)
(***************************************************************************)
EXTENDS BlockingClient, FiniteSetTheorems, SequenceTheorems, TLAPS

ConnectingCaller == caller # None => socket = "connecting"
FailingIsBroken  == mode = "failing" => socket = "broken"

ConnectionInv == PendingConnectionIsWatched /\ ConnectingCaller /\ FailingIsBroken

\* sendRequest keeps the invariant, wherever it is called from, as long as no
\* other call of it is between openConnection and enqueue.
LEMMA SendRequestSafe ==
  ASSUME ConnectionInv, NEW r, NEW n, NEW times, SendRequest(r, n, times),
         caller = None
  PROVE  /\ PendingConnectionIsWatched'
         /\ ConnectingCaller'
         /\ socket = "broken" => socket' = "broken"
<1>1. CASE EnqueuedBehind(r)
  BY <1>1 DEF EnqueuedBehind, ConnectionInv, PendingConnectionIsWatched, ConnectingCaller
<1>2. CASE Sent(r, n)
  BY <1>2 DEF Sent, PendingConnectionIsWatched, ConnectingCaller
<1>3. CASE SendFails(r, times)
  BY <1>3 DEF SendFails, PendingConnectionIsWatched, ConnectingCaller
<1>4. CASE Unprepared(r, times)
  BY <1>4 DEF Unprepared, PendingConnectionIsWatched, ConnectingCaller
<1>5. CASE OpensPending(r)
  BY <1>5 DEF OpensPending, PendingConnectionIsWatched, ConnectingCaller
<1>6. CASE OpensAtOnce(r, n)
  BY <1>6 DEF OpensAtOnce, PendingConnectionIsWatched, ConnectingCaller
<1>7. CASE OpenRefused(r, times)
  BY <1>7 DEF OpenRefused, PendingConnectionIsWatched, ConnectingCaller
<1>8. QED
  BY <1>1, <1>2, <1>3, <1>4, <1>5, <1>6, <1>7 DEF SendRequest

\* Between events, a client with a connection has no request waiting for one.
LEMMA IdleConnected ==
  ASSUME ConnectionInv, LoopIdle, AppThread = FALSE, socket \in {"open", "broken"}
  PROVE  awaitConn = <<>> /\ caller = None /\ mode = "idle"
BY DEF ConnectionInv, PendingConnectionIsWatched, LoopIdle

\* Handling a response leaves the waiting queue alone, and the socket too unless
\* it is a redirection.
LEMMA ReadSafe ==
  ASSUME ConnectionInv, AppThread = FALSE, NEW n, Read(n)
  PROVE  ConnectionInv'
<1>1. awaitConn = <<>> /\ caller = None /\ mode = "idle"
  BY IdleConnected DEF Read
<1>2. awaitConn' = <<>> /\ caller' = None
  BY <1>1 DEF Read
<1>3. mode' # "failing"
  <2> DEFINE b == buffer \o SubSeq(wireIn, 1, n)
  <2>1. CASE BufferFull(n)
    BY <2>1, <1>1 DEF BufferFull, AnswerOnly
  <2>2. CASE HandleResponse(b)
    BY <2>2, <1>1 DEF HandleResponse, AwaitsHeaders, NotAResponse, AwaitsBody, BodyTooLong,
                      Answers, AnswerOnly
  <2>3. CASE Resend(b, n)
    BY <2>3 DEF Resend
  <2>4. QED
    BY <2>1, <2>2, <2>3 DEF Read
<1>4. QED
  BY <1>2, <1>3 DEF ConnectionInv, PendingConnectionIsWatched, ConnectingCaller, FailingIsBroken

LEMMA ConnectionInit == Init => ConnectionInv
BY DEF Init, ConnectionInv, PendingConnectionIsWatched, ConnectingCaller, FailingIsBroken

LEMMA ConnectionNext ==
  ASSUME AppThread = FALSE, ConnectionInv, [Next]_vars
  PROVE  ConnectionInv'
<1> USE DEF ConnectionInv, ConnectingCaller, FailingIsBroken
<1>1. CASE UNCHANGED vars
  BY <1>1 DEF vars, queues, PendingConnectionIsWatched
<1>2. ASSUME NEW r \in Request, SendCommand(r) PROVE ConnectionInv'
  BY <1>2, SendRequestSafe DEF SendCommand
<1>3. CASE EnqueueAwaitingConnection
  BY <1>3 DEF EnqueueAwaitingConnection, PendingConnectionIsWatched
<1>4. ASSUME NEW ok \in BOOLEAN, ConnectionHandler(ok) PROVE ConnectionInv'
  BY <1>4 DEF ConnectionHandler, LeftBehind, LoopIdle, PendingConnectionIsWatched
<1>5. CASE ResumeNext
  BY <1>5, SendRequestSafe DEF ResumeNext
<1>6. CASE TellFailure
  BY <1>6 DEF TellFailure, PendingConnectionIsWatched
<1>7. CASE HandlerReturns
  BY <1>7 DEF HandlerReturns, Disconnected, queues, PendingConnectionIsWatched
<1>8. ASSUME NEW n \in 1 .. BufferSize, Read(n) PROVE ConnectionInv'
  BY <1>8, ReadSafe
<1>9. CASE ReadEnd
  BY <1>9, IdleConnected DEF ReadEnd, Disconnected, queues, PendingConnectionIsWatched
<1>10. CASE ServerAnswers
  BY <1>10 DEF ServerAnswers, queues, PendingConnectionIsWatched
<1>11. CASE ServerCloses
  BY <1>11 DEF ServerCloses, queues, PendingConnectionIsWatched
<1>12. QED
  BY <1>1, <1>2, <1>3, <1>4, <1>5, <1>6, <1>7, <1>8, <1>9, <1>10, <1>11 DEF Next

\* Called from its event loop alone, a client whose requests await a connection
\* has a connection attempt under way, so connectionHandler will take them up.
THEOREM WaitersHaveAConnection ==
  ASSUME AppThread = FALSE
  PROVE  Spec => []PendingConnectionIsWatched
<1>1. ConnectionInv => PendingConnectionIsWatched
  BY DEF ConnectionInv
<1>2. ConnectionInv /\ [Next]_vars => ConnectionInv'
  BY ConnectionNext
<1>3. QED
  BY ConnectionInit, <1>1, <1>2, PTL DEF Spec

-----------------------------------------------------------------------------
(* Every record is somewhere, and in one place.                              *)

Distinct(q) == \A i, j \in DOMAIN q : q[i] = q[j] => i = j

Queue(q) == q \in Seq(Request) /\ Distinct(q)

Caller == {caller} \ {None}

Held == RangeOf(awaitConn) \cup RangeOf(tmp) \cup RangeOf(awaitResp) \cup Caller

NeverTwice ==
  /\ RangeOf(awaitConn) \cap RangeOf(tmp) = {}
  /\ RangeOf(awaitConn) \cap RangeOf(awaitResp) = {}
  /\ RangeOf(tmp) \cap RangeOf(awaitResp) = {}
  /\ caller \notin RangeOf(awaitConn) \cup RangeOf(tmp) \cup RangeOf(awaitResp)

\* A request that was not made has no outcome, and CSeqs are given in order.
Numbered ==
  /\ cseq \in Nat
  /\ cseqOf \in [Request -> 0 .. cseq]
  /\ outcome = [r \in Request |-> outcome[r]]
  /\ calls = [r \in Request |-> calls[r]]
  /\ \A r \in Request : ~Made(r) => outcome[r] = "pending"

RecordInv ==
  /\ Queue(awaitConn) /\ Queue(tmp) /\ Queue(awaitResp)
  /\ caller \in Request \cup {None}
  /\ NeverTwice
  /\ Held = {r \in Request : Pending(r)}
  /\ mode = "idle" => tmp = <<>>
  /\ Numbered

\* Queues, as sets of records.
LEMMA EmptyQueue == Queue(<<>>) /\ RangeOf(<<>>) = {}
  BY DEF Queue, Distinct, RangeOf

LEMMA OneQueue ==
  ASSUME NEW r \in Request, NEW q, q = <<r>> PROVE Queue(q) /\ RangeOf(q) = {r}
  BY DEF Queue, Distinct, RangeOf

LEMMA AppendQueue ==
  ASSUME NEW q, Queue(q), NEW r \in Request, r \notin RangeOf(q), NEW p, p = Append(q, r)
  PROVE  Queue(p) /\ RangeOf(p) = RangeOf(q) \cup {r}
<1>1. q \in Seq(Request) /\ p \in Seq(Request) /\ Len(p) = Len(q) + 1 /\ Len(q) \in Nat
  BY DEF Queue
<1>2. DOMAIN q = 1 .. Len(q) /\ DOMAIN p = 1 .. Len(q) + 1
  BY <1>1
<1>3. /\ p[Len(q) + 1] = r
      /\ \A i \in 1 .. Len(q) : p[i] = q[i] /\ q[i] # r
  BY <1>1, <1>2 DEF RangeOf
<1>4. Distinct(p)
  <2> SUFFICES ASSUME NEW i \in DOMAIN p, NEW j \in DOMAIN p, p[i] = p[j] PROVE i = j
    BY DEF Distinct
  <2>1. CASE i \in 1 .. Len(q) /\ j \in 1 .. Len(q)
    BY <1>2, <1>3, <2>1 DEF Queue, Distinct
  <2>2. CASE i = Len(q) + 1 \/ j = Len(q) + 1
    BY <1>1, <1>2, <1>3, <2>2
  <2> QED BY <1>1, <1>2, <2>1, <2>2
<1>5. RangeOf(p) = RangeOf(q) \cup {r}
  <2>1. ASSUME NEW x \in RangeOf(p) PROVE x \in RangeOf(q) \cup {r}
    <3>1. PICK i \in DOMAIN p : p[i] = x
      BY DEF RangeOf
    <3> QED BY <1>1, <1>2, <1>3, <3>1 DEF RangeOf
  <2>2. r \in RangeOf(p)
    <3>1. Len(q) + 1 \in DOMAIN p
      BY <1>1, <1>2
    <3> QED BY <1>3, <3>1 DEF RangeOf
  <2>3. ASSUME NEW x \in RangeOf(q) PROVE x \in RangeOf(p)
    <3>1. PICK i \in DOMAIN q : q[i] = x
      BY DEF RangeOf
    <3>2. i \in DOMAIN p /\ p[i] = x
      BY <1>1, <1>2, <1>3, <3>1
    <3> QED BY <3>2 DEF RangeOf
  <2> QED BY <2>1, <2>2, <2>3
<1> QED BY <1>1, <1>4, <1>5 DEF Queue

FirstOf(q, k) == {q[i] : i \in 1 .. k}

\* A queue without its first k records.
LEMMA FromQueue ==
  ASSUME NEW q, Queue(q), NEW k \in 0 .. Len(q), NEW p, p = From(q, k + 1)
  PROVE  Queue(p) /\ RangeOf(p) \cup FirstOf(q, k) = RangeOf(q) /\ RangeOf(p) \cap FirstOf(q, k) = {}
<1>1. q \in Seq(Request) /\ Len(q) \in Nat /\ DOMAIN q = 1 .. Len(q) /\ k \in Nat /\ k <= Len(q)
  BY DEF Queue
<1>2. p = SubSeq(q, k + 1, Len(q))
  BY DEF From
<1>3. p \in Seq(Request) /\ Len(p) = Len(q) - k /\ \A i \in 1 .. Len(q) - k : p[i] = q[i + k]
  <2> DEFINE n == Len(q)
  <2>1. \A i \in k + 1 .. n : q[i] \in Request
    BY <1>1
  <2>2. p \in Seq(Request)
    BY <1>1, <1>2, <2>1
  <2>3. Len(p) = n - k
    <3>1. k + 1 \in Int /\ n \in Int /\ \A i \in k + 1 .. n : q[i] \in Request
      BY <1>1, <2>1
    <3>2. Len(SubSeq(q, k + 1, n)) = IF k + 1 <= n THEN n - (k + 1) + 1 ELSE 0
      BY <3>1, SubSeqProperties
    <3> HIDE DEF n
    <3>3. n \in Nat /\ k \in Nat /\ k <= n
      BY <1>1 DEF n
    <3>4. (IF k + 1 <= n THEN n - (k + 1) + 1 ELSE 0) = n - k
      BY ONLY <3>3
    <3>5. p = SubSeq(q, k + 1, n)
      BY <1>2 DEF n
    <3> QED BY ONLY <3>2, <3>4, <3>5
  <2>4. ASSUME NEW i \in 1 .. n - k PROVE p[i] = q[i + k]
    <3>1. i \in 1 .. n - (k + 1) + 1 /\ i + (k + 1) - 1 = i + k /\ (k + 1) + i - 1 = i + k
      BY <1>1
    <3> QED BY <1>1, <1>2, <3>1
  <2> QED BY <2>2, <2>3, <2>4
<1>4. DOMAIN p = 1 .. Len(q) - k
  BY <1>1, <1>3
<1>5. Distinct(p)
  <2> SUFFICES ASSUME NEW i \in DOMAIN p, NEW j \in DOMAIN p, p[i] = p[j] PROVE i = j
    BY DEF Distinct
  <2>1. i + k \in DOMAIN q /\ j + k \in DOMAIN q /\ q[i + k] = q[j + k]
    BY <1>1, <1>3, <1>4
  <2>2. i + k = j + k
    BY <2>1 DEF Queue, Distinct
  <2> QED BY <1>1, <1>4, <2>2
<1>6. ASSUME NEW x \in RangeOf(p) PROVE \E j \in DOMAIN q : j > k /\ q[j] = x
  <2>1. PICK i \in DOMAIN p : p[i] = x
    BY DEF RangeOf
  <2>2. i + k \in DOMAIN q /\ i + k > k /\ q[i + k] = x
    BY <1>1, <1>3, <1>4, <2>1
  <2> QED BY <2>2
<1>7. ASSUME NEW j \in DOMAIN q, j > k PROVE q[j] \in RangeOf(p)
  <2>1. j - k \in DOMAIN p /\ p[j - k] = q[j]
    <3>1. j - k \in 1 .. Len(q) - k /\ j - k + k = j
      BY <1>1, <1>7
    <3> QED BY <1>3, <1>4, <3>1
  <2> QED BY <2>1 DEF RangeOf
<1>8. RangeOf(p) \cup {q[i] : i \in 1 .. k} = RangeOf(q)
  <2>1. 1 .. k \subseteq DOMAIN q
    BY <1>1
  <2>2. \A j \in DOMAIN q : j > k \/ j \in 1 .. k
    BY <1>1
  <2> QED BY <1>6, <1>7, <2>1, <2>2 DEF RangeOf
<1>9. RangeOf(p) \cap {q[i] : i \in 1 .. k} = {}
  <2> SUFFICES ASSUME NEW i \in 1 .. k, q[i] \in RangeOf(p) PROVE FALSE
    OBVIOUS
  <2>1. PICK j \in DOMAIN q : j > k /\ q[j] = q[i]
    BY <1>6
  <2>2. i \in DOMAIN q
    BY <1>1
  <2>3. j = i
    BY <2>1, <2>2 DEF Queue, Distinct
  <2> QED BY <1>1, <2>1, <2>3
<1> QED BY <1>3, <1>5, <1>8, <1>9 DEF Queue, FirstOf

LEMMA TailQueue ==
  ASSUME NEW q, Queue(q), q # <<>>, NEW p, p = Tail(q)
  PROVE  /\ Queue(p) /\ Head(q) \in Request
         /\ RangeOf(p) \cup {Head(q)} = RangeOf(q) /\ Head(q) \notin RangeOf(p)
<1>1. q \in Seq(Request) /\ Len(q) \in Nat /\ Len(q) # 0 /\ Head(q) = q[1] /\ Head(q) \in Request
  BY DEF Queue
<1>2. PICK k \in 0 .. Len(q) : k = 1 /\ p = From(q, k + 1)
  BY <1>1 DEF From
<1>3. FirstOf(q, k) = {Head(q)}
  BY <1>1, <1>2 DEF FirstOf
<1>4. Queue(p) /\ RangeOf(p) \cup FirstOf(q, k) = RangeOf(q) /\ RangeOf(p) \cap FirstOf(q, k) = {}
  <2>1. k \in 0 .. Len(q) /\ p = From(q, k + 1)
    BY <1>2
  <2> QED BY <2>1, FromQueue
<1> QED BY <1>1, <1>3, <1>4

\* The search for a CSeq drops some records and leaves the others in order.
LEMMA SearchIs ==
  ASSUME Queue(awaitResp), NEW c
  PROVE  /\ Queue(Rest(c))
         /\ RangeOf(Rest(c)) \cup DroppedBy(c) = RangeOf(awaitResp)
         /\ RangeOf(Rest(c)) \cap DroppedBy(c) = {}
<1> DEFINE q == awaitResp
           k == Older(c)
           s == Searched(c)
           Before == {i \in DOMAIN q : \A j \in 1 .. i : cseqOf[q[j]] < c}
           first == FirstOf(q, k)
<1>1. q \in Seq(Request) /\ Len(q) \in Nat /\ DOMAIN q = 1 .. Len(q)
  BY DEF Queue
<1>2. k \in 0 .. Len(q)
  <2>1. IsFiniteSet(1 .. Len(q)) /\ Cardinality(1 .. Len(q)) = Len(q)
    <3>1. IsFiniteSet(1 .. Len(q))
          /\ Cardinality(1 .. Len(q)) = (IF 1 > Len(q) THEN 0 ELSE Len(q) - 1 + 1)
      BY <1>1, FS_Interval
    <3> QED BY <1>1, <3>1
  <2>2. Before \subseteq 1 .. Len(q)
    BY <1>1
  <2>3. Cardinality(Before) \in Nat /\ Cardinality(Before) <= Len(q)
    <3> HIDE DEF Before
    <3>1. IsFiniteSet(Before) /\ Cardinality(Before) <= Cardinality(1 .. Len(q))
      BY <2>1, <2>2, FS_Subset
    <3> QED BY <2>1, <3>1, FS_CardinalityType
  <2>4. k = Cardinality(Before)
    BY DEF Older
  <2> HIDE DEF Before, k
  <2> QED BY <1>1, <2>3, <2>4
<1>3. s = From(q, k + 1)
  BY DEF Searched
<1> HIDE DEF k, s
<1>4. Queue(s) /\ RangeOf(s) \cup first = RangeOf(q) /\ RangeOf(s) \cap first = {}
  BY <1>2, <1>3, FromQueue
<1>5. /\ Rest(c) = IF Hit(c) \/ s = <<>> THEN s ELSE Tail(s)
      /\ DroppedBy(c) = first \cup (IF Hit(c) \/ s = <<>> THEN {} ELSE {Head(s)})
  BY DEF Rest, DroppedBy, s, k, FirstOf
<1> HIDE DEF first
<1>6. CASE Hit(c) \/ s = <<>>
  BY <1>4, <1>5, <1>6
<1>7. CASE ~(Hit(c) \/ s = <<>>)
  <2>1. Rest(c) = Tail(s) /\ DroppedBy(c) = first \cup {Head(s)} /\ s # <<>>
    BY <1>5, <1>7
  <2>2. /\ Queue(Tail(s)) /\ RangeOf(Tail(s)) \cup {Head(s)} = RangeOf(s)
        /\ Head(s) \notin RangeOf(Tail(s))
    BY <1>4, <2>1, TailQueue
  <2> QED BY <1>4, <2>1, <2>2
<1> QED BY <1>6, <1>7

\* foundRequest is one of them, or there is none.
LEMMA FoundIs ==
  ASSUME Queue(awaitResp), NEW c
  PROVE  /\ Queue(Taken(c))
         /\ RangeOf(Taken(c)) \cup DroppedBy(c) \cup ({Found(c)} \ {None}) = RangeOf(awaitResp)
         /\ RangeOf(Taken(c)) \cap DroppedBy(c) = {}
         /\ Found(c) \notin RangeOf(Taken(c)) \cup DroppedBy(c)
         /\ Found(c) \in Request \cup {None}
<1>1. /\ Queue(Rest(c)) /\ RangeOf(Rest(c)) \cup DroppedBy(c) = RangeOf(awaitResp)
      /\ RangeOf(Rest(c)) \cap DroppedBy(c) = {}
  BY SearchIs
<1>2. None \notin Request /\ RangeOf(awaitResp) \subseteq Request
  BY ClientAssumption DEF Queue, RangeOf
<1>3. CASE Rest(c) = <<>>
  <2>1. Found(c) = None /\ Taken(c) = <<>>
    BY <1>3 DEF Found, Taken
  <2> QED BY <1>1, <1>2, <1>3, <2>1, EmptyQueue
<1>4. CASE Rest(c) # <<>>
  <2>1. Found(c) = Head(Rest(c)) /\ Taken(c) = Tail(Rest(c))
    BY <1>4 DEF Found, Taken
  <2>2. /\ Queue(Taken(c)) /\ Found(c) \in Request
        /\ RangeOf(Taken(c)) \cup {Found(c)} = RangeOf(Rest(c)) /\ Found(c) \notin RangeOf(Taken(c))
    <3> DEFINE q == Rest(c)
    <3>1. Queue(q) /\ q # <<>>
      BY <1>1, <1>4
    <3> HIDE DEF q
    <3>2. /\ Queue(Tail(q)) /\ Head(q) \in Request
          /\ RangeOf(Tail(q)) \cup {Head(q)} = RangeOf(q) /\ Head(q) \notin RangeOf(Tail(q))
      BY <3>1, TailQueue
    <3> QED BY <2>1, <3>2 DEF q
  <2> QED BY <1>1, <1>2, <2>2
<1> QED BY <1>3, <1>4

\* What becomes of the open requests.
Open == {r \in Request : Pending(r)}

\* No step opens a request that was made before, and a handler that is told is
\* told of a request that is open no longer.
Settles ==
  /\ Open' \subseteq Open
  /\ \A r \in Request : calls'[r] # calls[r] => r \in Open /\ r \notin Open'

\* A step gives an open request the next CSeq, or none.
NumbersKept ==
  \/ UNCHANGED <<cseq, cseqOf>>
  \/ \E r \in Open : cseqOf' = [cseqOf EXCEPT ![r] = cseq + 1] /\ cseq' = cseq + 1

LEMMA OpenFailed ==
  ASSUME Numbered, NEW r \in Request, Made(r), cseqOf' = cseqOf, cseq' = cseq, NEW times \in Nat,
         outcome' = [outcome EXCEPT ![r] = "failed"], calls' = [calls EXCEPT ![r] = @ + times]
  PROVE  Open' = Open \ {r} /\ Numbered' /\ (r \in Open => Settles)
<1>1. Open' = Open \ {r} /\ Numbered'
  BY DEF Numbered, Open, Pending, Made
<1>2. \A q \in Request : calls'[q] # calls[q] => q = r
  BY DEF Numbered
<1> QED BY <1>1, <1>2 DEF Settles

\* sendRequest puts a record in one place, or tells its handler.
LEMMA SendRequestKeeps ==
  ASSUME Queue(awaitConn), Queue(awaitResp), RangeOf(awaitConn) \cap RangeOf(awaitResp) = {},
         caller = None, NEW r \in Request,
         r \notin RangeOf(awaitConn), r \notin RangeOf(awaitResp),
         NEW n, NEW times, SendRequest(r, n, times)
  PROVE  /\ Queue(awaitConn') /\ Queue(awaitResp') /\ caller' \in Request \cup {None}
         /\ RangeOf(awaitConn') \cap RangeOf(awaitResp') = {}
         /\ caller' \notin RangeOf(awaitConn') \cup RangeOf(awaitResp')
         /\ \/ /\ UNCHANGED handled
               /\ RangeOf(awaitConn') \cup RangeOf(awaitResp') \cup ({caller'} \ {None})
                    = RangeOf(awaitConn) \cup RangeOf(awaitResp) \cup {r}
            \/ /\ outcome' = [outcome EXCEPT ![r] = "failed"]
               /\ calls' = [calls EXCEPT ![r] = @ + times]
               /\ UNCHANGED <<awaitConn, awaitResp, caller>>
<1>1. None \notin Request /\ RangeOf(awaitConn) \subseteq Request /\ RangeOf(awaitResp) \subseteq Request
  BY ClientAssumption DEF Queue, RangeOf
<1>2. CASE EnqueuedBehind(r)
  <2>1. Queue(awaitConn') /\ RangeOf(awaitConn') = RangeOf(awaitConn) \cup {r}
    BY <1>2, AppendQueue DEF EnqueuedBehind
  <2>2. UNCHANGED <<awaitResp, caller, handled>>
    BY <1>2 DEF EnqueuedBehind
  <2> QED BY <1>1, <2>1, <2>2
<1>3. CASE Sent(r, n) \/ OpensAtOnce(r, n)
  <2>1. awaitResp' = Append(awaitResp, r) /\ UNCHANGED <<awaitConn, caller, handled>>
    BY <1>3 DEF Sent, OpensAtOnce
  <2>2. Queue(awaitResp') /\ RangeOf(awaitResp') = RangeOf(awaitResp) \cup {r}
    BY <2>1, AppendQueue
  <2> QED BY <1>1, <2>1, <2>2
<1>4. CASE OpensPending(r)
  <2>1. caller' = r /\ UNCHANGED <<awaitConn, awaitResp, handled>>
    BY <1>4 DEF OpensPending
  <2> QED BY <1>1, <2>1
<1>5. CASE SendFails(r, times) \/ Unprepared(r, times) \/ OpenRefused(r, times)
  <2>1. /\ outcome' = [outcome EXCEPT ![r] = "failed"]
        /\ calls' = [calls EXCEPT ![r] = @ + times]
        /\ UNCHANGED <<awaitConn, awaitResp, caller>>
    BY <1>5 DEF SendFails, Unprepared, OpenRefused, Fails
  <2> QED BY <1>1, <2>1
<1> QED BY <1>2, <1>3, <1>4, <1>5 DEF SendRequest

LEMMA SendCommandKeeps ==
  ASSUME RecordInv, NEW r \in Request, SendCommand(r)
  PROVE  RecordInv'
<1>1. /\ cseq' = cseq + 1 /\ cseqOf' = [cseqOf EXCEPT ![r] = cseq + 1]
      /\ SendRequest(r, cseq + 1, 1) /\ ~Made(r) /\ caller = None /\ UNCHANGED <<tmp, mode>>
  BY DEF SendCommand
<1>2. /\ Queue(awaitConn) /\ Queue(awaitResp) /\ Queue(tmp)
      /\ NeverTwice /\ Held = Open /\ (mode = "idle" => tmp = <<>>) /\ Numbered
  BY DEF RecordInv, Open
<1>3. r \notin Open /\ Held = RangeOf(awaitConn) \cup RangeOf(tmp) \cup RangeOf(awaitResp)
  BY <1>1 DEF Open, Pending, Held, Caller
<1>4. /\ r \notin RangeOf(awaitConn) \cup RangeOf(tmp) \cup RangeOf(awaitResp)
      /\ RangeOf(tmp) \subseteq Request /\ None \notin Request
  BY <1>2, <1>3, ClientAssumption DEF Queue, RangeOf
<1>5. /\ Queue(awaitConn') /\ Queue(awaitResp') /\ caller' \in Request \cup {None}
      /\ RangeOf(awaitConn') \cap RangeOf(awaitResp') = {}
      /\ caller' \notin RangeOf(awaitConn') \cup RangeOf(awaitResp')
      /\ \/ /\ UNCHANGED handled
            /\ RangeOf(awaitConn') \cup RangeOf(awaitResp') \cup ({caller'} \ {None})
                 = RangeOf(awaitConn) \cup RangeOf(awaitResp) \cup {r}
         \/ /\ outcome' = [outcome EXCEPT ![r] = "failed"]
            /\ calls' = [calls EXCEPT ![r] = @ + 1]
            /\ UNCHANGED <<awaitConn, awaitResp, caller>>
  BY <1>1, <1>2, <1>4, SendRequestKeeps DEF NeverTwice
<1>6. /\ cseq' \in Nat /\ cseqOf' \in [Request -> 0 .. cseq']
      /\ \A q \in Request : Made(q)' <=> (Made(q) \/ q = r)
  BY <1>1, <1>2 DEF Numbered, Made
<1>7. Queue(tmp') /\ (mode' = "idle" => tmp' = <<>>)
  BY <1>1, <1>2
<1>8. CASE /\ UNCHANGED handled
           /\ RangeOf(awaitConn') \cup RangeOf(awaitResp') \cup ({caller'} \ {None})
                = RangeOf(awaitConn) \cup RangeOf(awaitResp) \cup {r}
  <2>1. Numbered' /\ Open' = Open \cup {r}
    BY <1>1, <1>2, <1>6, <1>8 DEF Numbered, Open, Pending, handled
  <2>2. Held' = Held \cup {r}
    BY <1>1, <1>3, <1>8 DEF Held, Caller
  <2>3. NeverTwice'
    BY <1>1, <1>2, <1>4, <1>5, <1>8 DEF NeverTwice
  <2>4. Held' = Open'
    BY <1>2, <2>1, <2>2
  <2> QED BY <1>5, <1>7, <2>1, <2>3, <2>4 DEF RecordInv, Open
<1>9. CASE /\ outcome' = [outcome EXCEPT ![r] = "failed"]
           /\ calls' = [calls EXCEPT ![r] = @ + 1]
           /\ UNCHANGED <<awaitConn, awaitResp, caller>>
  <2>1. Numbered' /\ Open' = Open
    BY <1>1, <1>2, <1>3, <1>6, <1>9 DEF Numbered, Open, Pending
  <2>2. Held' = Held /\ NeverTwice'
    BY <1>1, <1>2, <1>9 DEF Held, Caller, NeverTwice
  <2> QED BY <1>2, <1>5, <1>7, <2>1, <2>2 DEF RecordInv, Open
<1> QED BY <1>5, <1>8, <1>9

LEMMA ResumeNextKeeps ==
  ASSUME AppThread = FALSE, RecordInv, ResumeNext
  PROVE  RecordInv' /\ Settles
<1> DEFINE r == Head(tmp)
           times == IF mode = "resending" THEN 2 ELSE 1
<1>1. /\ tmp # <<>> /\ caller = None /\ SendRequest(r, cseqOf[r], times)
      /\ tmp' = Tail(tmp) /\ mode \in {"resuming", "resending"} /\ UNCHANGED <<cseq, cseqOf, mode>>
  BY DEF ResumeNext
<1>2. /\ Queue(awaitConn) /\ Queue(awaitResp) /\ Queue(tmp) /\ NeverTwice /\ Held = Open /\ Numbered
  BY DEF RecordInv, Open
<1>3. /\ Queue(tmp') /\ r \in Request /\ RangeOf(tmp') \cup {r} = RangeOf(tmp) /\ r \notin RangeOf(tmp')
  BY <1>1, <1>2, TailQueue
<1>4. times \in Nat
  OBVIOUS
<1> HIDE DEF r, times
<1>5. /\ r \notin RangeOf(awaitConn) /\ r \notin RangeOf(awaitResp)
      /\ RangeOf(tmp) \subseteq Request /\ None \notin Request
  <2>1. r \notin RangeOf(awaitConn) /\ r \notin RangeOf(awaitResp)
    BY <1>2, <1>3 DEF NeverTwice
  <2>2. RangeOf(tmp) \subseteq Request
    BY <1>2 DEF Queue, RangeOf
  <2> QED BY <2>1, <2>2, ClientAssumption
<1>6. /\ Queue(awaitConn') /\ Queue(awaitResp') /\ caller' \in Request \cup {None}
      /\ RangeOf(awaitConn') \cap RangeOf(awaitResp') = {}
      /\ caller' \notin RangeOf(awaitConn') \cup RangeOf(awaitResp')
      /\ \/ /\ UNCHANGED handled
            /\ RangeOf(awaitConn') \cup RangeOf(awaitResp') \cup ({caller'} \ {None})
                 = RangeOf(awaitConn) \cup RangeOf(awaitResp) \cup {r}
         \/ /\ outcome' = [outcome EXCEPT ![r] = "failed"]
            /\ calls' = [calls EXCEPT ![r] = @ + times]
            /\ UNCHANGED <<awaitConn, awaitResp, caller>>
  BY <1>1, <1>2, <1>3, <1>5, SendRequestKeeps DEF NeverTwice
<1>7. Held = RangeOf(awaitConn) \cup RangeOf(tmp) \cup RangeOf(awaitResp)
  BY <1>1 DEF Held, Caller
<1>8. mode' # "idle"
  BY <1>1
<1>9. CASE /\ UNCHANGED handled
           /\ RangeOf(awaitConn') \cup RangeOf(awaitResp') \cup ({caller'} \ {None})
                = RangeOf(awaitConn) \cup RangeOf(awaitResp) \cup {r}
  <2>1. Numbered' /\ Open' = Open
    BY <1>1, <1>2, <1>9 DEF Numbered, Open, Pending, Made, handled
  <2>4. Settles
    BY <1>9, <2>1 DEF Settles, handled
  <2>2. Held' = Held
    BY <1>3, <1>7, <1>9 DEF Held, Caller
  <2>3. NeverTwice'
    BY <1>2, <1>3, <1>5, <1>6, <1>9 DEF NeverTwice
  <2> QED BY <1>2, <1>3, <1>6, <1>8, <2>1, <2>2, <2>3, <2>4 DEF RecordInv, Open
<1>10. CASE /\ outcome' = [outcome EXCEPT ![r] = "failed"]
            /\ calls' = [calls EXCEPT ![r] = @ + times]
            /\ UNCHANGED <<awaitConn, awaitResp, caller>>
  <2>1. r \in Open /\ Made(r)
    BY <1>2, <1>3, <1>7 DEF Open, Pending
  <2>2. Numbered' /\ Open' = Open \ {r} /\ Settles
    BY <1>1, <1>2, <1>3, <1>4, <1>10, <2>1, OpenFailed
  <2>3. Held' = Held \ {r} /\ NeverTwice'
    BY <1>1, <1>2, <1>3, <1>5, <1>7, <1>10 DEF Held, Caller, NeverTwice
  <2> QED BY <1>2, <1>3, <1>6, <1>8, <2>2, <2>3 DEF RecordInv, Open
<1> QED BY <1>6, <1>9, <1>10

\* ... and when something was read, when nothing waits for a connection.
Quiet == awaitConn = <<>> /\ tmp = <<>> /\ caller = None /\ mode = "idle"

LEMMA QuietRecords ==
  ASSUME RecordInv, Quiet
  PROVE  Queue(awaitResp) /\ RangeOf(awaitResp) = Open /\ Numbered
<1>1. RangeOf(awaitConn) = {} /\ RangeOf(tmp) = {} /\ Caller = {}
  BY EmptyQueue DEF Quiet, Caller
<1> QED BY <1>1 DEF RecordInv, Held, Open

LEMMA QuietInv ==
  ASSUME Quiet', Queue(awaitResp'), RangeOf(awaitResp') = Open', Numbered'
  PROVE  RecordInv'
<1>1. /\ Queue(awaitConn') /\ Queue(tmp') /\ caller' = None /\ mode' = "idle" /\ tmp' = <<>>
      /\ RangeOf(awaitConn') = {} /\ RangeOf(tmp') = {} /\ Caller' = {}
  BY EmptyQueue DEF Quiet, Caller
<1>2. None \notin RangeOf(awaitResp')
  BY ClientAssumption DEF Open
<1> QED BY <1>1, <1>2 DEF RecordInv, Held, Open, NeverTwice

\* Records that are dropped are open no more.
LEMMA OpenDropped ==
  ASSUME Numbered, NEW c, DroppedBy(c) \subseteq Open,
         cseqOf' = cseqOf, cseq' = cseq, calls' = calls, outcome' = WithDropped(outcome, c)
  PROVE  Open' = Open \ DroppedBy(c) /\ Numbered' /\ Settles
<1> DEFINE D == DroppedBy(c)
<1>1. outcome' = [r \in Request |-> IF r \in D THEN "dropped" ELSE outcome[r]]
  BY DEF WithDropped
<1> HIDE DEF D
<1>2. D \subseteq Open
  BY DEF D
<1>3. Open' = Open \ D /\ Numbered'
  BY <1>1, <1>2 DEF Numbered, Open, Pending, Made
<1>4. Settles
  BY <1>3 DEF Settles
<1> QED BY <1>3, <1>4 DEF D

LEMMA OpenCalled ==
  ASSUME Numbered, NEW c, DroppedBy(c) \subseteq Open, NEW r \in Open \cup {None},
         r \notin DroppedBy(c), NEW how, how # "pending",
         cseqOf' = cseqOf, cseq' = cseq, Called(r, c, how)
  PROVE  Open' = (Open \ DroppedBy(c)) \ {r} /\ Numbered' /\ Settles
<1> DEFINE D == DroppedBy(c)
           o == WithDropped(outcome, c)
<1>1. None \notin Request /\ Open \subseteq Request
  BY ClientAssumption DEF Open
<1>2. CASE r = None
  <2>1. outcome' = WithDropped(outcome, c) /\ calls' = calls
    BY <1>2 DEF Called
  <2>2. Open' = Open \ DroppedBy(c) /\ Numbered' /\ Settles
    BY <2>1, OpenDropped
  <2> QED BY <1>1, <1>2, <2>2
<1>3. CASE r # None
  <2>1. outcome' = [o EXCEPT ![r] = how] /\ calls' = [calls EXCEPT ![r] = @ + 1]
    BY <1>3 DEF Called
  <2>2. o = [q \in Request |-> IF q \in D THEN "dropped" ELSE outcome[q]]
    BY DEF WithDropped
  <2> HIDE DEF D, o
  <2>3. r \in Request /\ D \subseteq Open
    BY <1>1, <1>3 DEF D
  <2>4. outcome' = [q \in Request |-> IF q = r THEN how
                                      ELSE IF q \in D THEN "dropped" ELSE outcome[q]]
    BY <2>1, <2>2, <2>3
  <2>5. Open' = (Open \ D) \ {r}
    BY <2>3, <2>4 DEF Open, Pending, Made, Numbered
  <2>6. calls' = [q \in Request |-> calls'[q]]
    BY <2>1 DEF Numbered
  <2>7. \A q \in Request : ~Made(q)' => outcome'[q] = "pending"
    BY <1>3, <2>3, <2>4 DEF Open, Pending, Made, Numbered
  <2>8. Numbered'
    BY <2>4, <2>6, <2>7 DEF Numbered
  <2>9. Settles
    <3>1. \A q \in Request : calls'[q] # calls[q] => q = r
      BY <2>1 DEF Numbered
    <3>2. r \in Open /\ r \notin Open' /\ Open' \subseteq Open
      BY <1>3, <2>5
    <3> QED BY <3>1, <3>2 DEF Settles
  <2> QED BY <2>5, <2>8, <2>9 DEF D
<1> QED BY <1>2, <1>3

\* Handling a response that does not have the request sent again.
LEMMA HandleResponseKeeps ==
  ASSUME RecordInv, Quiet, NEW b, HandleResponse(b), UNCHANGED <<awaitConn, caller>>
  PROVE  RecordInv' /\ Settles
<1> DEFINE c == b[1].of
<1>1. Queue(awaitResp) /\ RangeOf(awaitResp) = Open /\ Numbered
  BY QuietRecords
<1>2. /\ Queue(Rest(c)) /\ RangeOf(Rest(c)) \cup DroppedBy(c) = Open
      /\ RangeOf(Rest(c)) \cap DroppedBy(c) = {}
  BY <1>1, SearchIs
<1>3. /\ Queue(Taken(c))
      /\ RangeOf(Taken(c)) \cup DroppedBy(c) \cup ({Found(c)} \ {None}) = Open
      /\ RangeOf(Taken(c)) \cap DroppedBy(c) = {}
      /\ Found(c) \notin RangeOf(Taken(c)) \cup DroppedBy(c)
  BY <1>1, FoundIs
<1>4. DroppedBy(c) \subseteq Open /\ Found(c) \in Open \cup {None}
  BY <1>3
<1>5. Quiet' /\ cseqOf' = cseqOf /\ cseq' = cseq
  BY DEF HandleResponse, AwaitsHeaders, NotAResponse, AwaitsBody, BodyTooLong, Answers,
         AnswerOnly, Quiet
<1> HIDE DEF c
<1>6. CASE AwaitsHeaders(b) \/ NotAResponse(b)
  <2>1. UNCHANGED <<awaitResp, outcome, calls>>
    BY <1>6 DEF AwaitsHeaders, NotAResponse, handled
  <2>2. Open' = Open /\ Numbered'
    BY <1>1, <1>5, <2>1 DEF Open, Pending, Made, Numbered
  <2>3. Settles
    BY <2>1, <2>2 DEF Settles
  <2> QED BY <1>1, <1>5, <2>1, <2>2, <2>3, QuietInv
<1>7. CASE AwaitsBody(b)
  <2>1. awaitResp' = Rest(c) /\ outcome' = WithDropped(outcome, c) /\ calls' = calls
    BY <1>7 DEF AwaitsBody, PutBack, c
  <2>2. Open' = Open \ DroppedBy(c) /\ Numbered' /\ Settles
    BY <1>1, <1>4, <1>5, <2>1, OpenDropped
  <2>3. Queue(awaitResp') /\ RangeOf(awaitResp') = Open'
    BY <1>2, <2>1, <2>2
  <2> QED BY <1>5, <2>2, <2>3, QuietInv
<1>8. CASE BodyTooLong(b) \/ Answers(b)
  <2>1. PICK how : /\ awaitResp' = Taken(c) /\ how # "pending"
                   /\ Called(Found(c), c, how)
    <3>1. CASE BodyTooLong(b)
      BY <3>1 DEF BodyTooLong, c
    <3>2. CASE Answers(b)
      <4> DEFINE s == IF b[1].code = "bad" THEN "failed" ELSE ResultOf(Found(c), b)
      <4>1. s # "pending"
        BY DEF ResultOf
      <4>2. awaitResp' = Taken(c) /\ Called(Found(c), c, s)
        BY <3>2 DEF Answers, c
      <4> HIDE DEF s
      <4> QED BY <4>1, <4>2
    <3> QED BY <1>8, <3>1, <3>2
  <2>2. Open' = (Open \ DroppedBy(c)) \ {Found(c)} /\ Numbered' /\ Settles
    BY <1>1, <1>3, <1>4, <1>5, <2>1, OpenCalled
  <2>3. Queue(awaitResp') /\ RangeOf(awaitResp') = Open'
    <3>1. None \notin Open
      BY ClientAssumption DEF Open
    <3> QED BY <1>3, <2>1, <2>2, <3>1
  <2> QED BY <1>5, <2>2, <2>3, QuietInv
<1> QED BY <1>6, <1>7, <1>8 DEF HandleResponse

LEMMA ResendKeeps ==
  ASSUME RecordInv, Quiet, NEW b, NEW n, Resend(b, n), UNCHANGED <<awaitConn, caller>>
  PROVE  /\ RecordInv' /\ Settles
         /\ \E r \in Open : cseqOf' = [cseqOf EXCEPT ![r] = cseq + 1] /\ cseq' = cseq + 1
<1> DEFINE c == b[1].of
           r == Found(c)
<1>1. Queue(awaitResp) /\ RangeOf(awaitResp) = Open /\ Numbered
  BY QuietRecords
<1>2. /\ Queue(Taken(c))
      /\ RangeOf(Taken(c)) \cup DroppedBy(c) \cup ({r} \ {None}) = Open
      /\ RangeOf(Taken(c)) \cap DroppedBy(c) = {}
      /\ r \notin RangeOf(Taken(c)) \cup DroppedBy(c)
  BY <1>1, FoundIs
<1>3. /\ cseq' = cseq + 1 /\ cseqOf' = [cseqOf EXCEPT ![r] = cseq + 1]
      /\ awaitResp' = Taken(c) /\ tmp' = <<r>> /\ mode' = "resending"
      /\ outcome' = WithDropped(outcome, c) /\ r # None /\ calls' = calls
  BY DEF Resend, Resends, ReturnsUncalled
<1>4. awaitConn' = <<>> /\ caller' = None
  BY DEF Quiet
<1> HIDE DEF r, c
<1>5. r \in Open /\ r \in Request /\ None \notin Open
  BY <1>2, <1>3, ClientAssumption DEF Open
<1>6. Queue(tmp') /\ RangeOf(tmp') = {r} /\ Queue(awaitConn') /\ RangeOf(awaitConn') = {}
  BY <1>3, <1>4, <1>5, OneQueue, EmptyQueue
<1>7. Open' = Open \ DroppedBy(c) /\ Numbered'
  <2> DEFINE D == DroppedBy(c)
  <2>1. outcome' = [q \in Request |-> IF q \in D THEN "dropped" ELSE outcome[q]]
    BY <1>3 DEF WithDropped
  <2>2. D \subseteq Open /\ r \notin D
    BY <1>2
  <2> HIDE DEF D
  <2>3. Numbered' /\ \A q \in Request : Made(q)' <=> Made(q)
    <3>1. cseq' \in Nat /\ cseqOf' \in [Request -> 0 .. cseq']
      BY <1>1, <1>3, <1>5 DEF Numbered
    <3>2. \A q \in Request : Made(q)' <=> Made(q)
      BY <1>1, <1>3, <1>5 DEF Numbered, Made, Open, Pending
    <3>3. calls' = [q \in Request |-> calls'[q]]
      BY <1>1, <1>3 DEF Numbered
    <3>4. outcome' = [q \in Request |-> outcome'[q]]
      BY <2>1
    <3>5. \A q \in Request : ~Made(q)' => outcome'[q] = "pending"
      BY <1>1, <2>1, <2>2, <3>2 DEF Numbered, Open, Pending
    <3> QED BY <3>1, <3>2, <3>3, <3>4, <3>5 DEF Numbered
  <2>4. Open' = Open \ D
    BY <1>1, <2>1, <2>3 DEF Open, Pending
  <2> QED BY <2>3, <2>4 DEF D
<1>8. Held' = Open'
  BY <1>2, <1>3, <1>4, <1>5, <1>6, <1>7 DEF Held, Caller
<1>9. NeverTwice'
  BY <1>2, <1>3, <1>4, <1>5, <1>6 DEF NeverTwice
<1>10. Settles
  BY <1>3, <1>7 DEF Settles
<1>11. RecordInv'
  BY <1>2, <1>3, <1>4, <1>6, <1>7, <1>8, <1>9 DEF RecordInv, Open
<1> QED BY <1>3, <1>5, <1>10, <1>11

\* Between events no request is in anybody's hands.
LEMMA LoopIsQuiet ==
  ASSUME AppThread = FALSE, ConnectionInv, RecordInv, LoopIdle, socket \in {"open", "broken"}
  PROVE  Quiet
BY DEF ConnectionInv, PendingConnectionIsWatched, RecordInv, LoopIdle, Quiet

LEMMA ReadKeeps ==
  ASSUME AppThread = FALSE, ConnectionInv, RecordInv, NEW n, Read(n)
  PROVE  RecordInv' /\ Settles /\ NumbersKept
<1> DEFINE b == buffer \o SubSeq(wireIn, 1, n)
<1>1. Quiet /\ UNCHANGED <<awaitConn, caller>>
  BY LoopIsQuiet DEF Read
<1>2. BufferFull(n) \/ HandleResponse(b) \/ Resend(b, n)
  BY DEF Read
<1>3. CASE BufferFull(n)
  <2>1. Queue(awaitResp) /\ RangeOf(awaitResp) = Open /\ Numbered
    BY <1>1, QuietRecords
  <2>2. Quiet' /\ cseqOf' = cseqOf /\ cseq' = cseq
    BY <1>1, <1>3 DEF BufferFull, AnswerOnly, Quiet
  <2>3. CASE awaitResp = <<>>
    <3>1. UNCHANGED <<awaitResp, outcome, calls>>
      BY <1>3, <2>3 DEF BufferFull, handled
    <3>2. Open' = Open /\ Numbered'
      BY <2>1, <2>2, <3>1 DEF Open, Pending, Made, Numbered
    <3>3. Settles
      BY <3>1, <3>2 DEF Settles
    <3> QED BY <2>1, <2>2, <3>1, <3>2, <3>3, QuietInv DEF NumbersKept
  <2>4. CASE awaitResp # <<>>
    <3> DEFINE r == Head(awaitResp)
               p == Tail(awaitResp)
               one == 1
    <3>1. /\ awaitResp' = p /\ outcome' = [outcome EXCEPT ![r] = "failed"]
          /\ calls' = [calls EXCEPT ![r] = @ + one] /\ one \in Nat
      BY <1>3, <2>4 DEF BufferFull, Fails
    <3>2. Queue(p) /\ r \in Request /\ RangeOf(p) \cup {r} = RangeOf(awaitResp) /\ r \notin RangeOf(p)
      BY <2>1, <2>4, TailQueue
    <3> HIDE DEF r, p, one
    <3>3. r \in Open /\ Made(r)
      BY <2>1, <3>2 DEF Open, Pending
    <3>4. Open' = Open \ {r} /\ Numbered' /\ Settles
      BY <2>1, <2>2, <3>1, <3>2, <3>3, OpenFailed
    <3>5. Queue(awaitResp') /\ RangeOf(awaitResp') = Open'
      BY <2>1, <3>1, <3>2, <3>4
    <3> QED BY <2>2, <3>4, <3>5, QuietInv DEF NumbersKept
  <2> QED BY <2>3, <2>4
<1>4. CASE HandleResponse(b)
  <2>1. UNCHANGED <<cseq, cseqOf>>
    BY <1>4 DEF HandleResponse, AwaitsHeaders, NotAResponse, AwaitsBody, BodyTooLong, Answers,
                AnswerOnly
  <2> HIDE DEF b
  <2> QED BY <1>1, <1>4, <2>1, HandleResponseKeeps DEF NumbersKept
<1>5. CASE Resend(b, n)
  <2> HIDE DEF b
  <2> QED BY <1>1, <1>5, ResendKeeps DEF NumbersKept
<1> HIDE DEF b
<1> QED BY <1>2, <1>3, <1>4, <1>5

LEMMA RecordsInit == Init => RecordInv
<1> SUFFICES ASSUME Init PROVE RecordInv
  OBVIOUS
<1>1. /\ awaitConn = <<>> /\ tmp = <<>> /\ awaitResp = <<>> /\ caller = None /\ mode = "idle"
      /\ cseq = 1 /\ cseqOf = [r \in Request |-> 0]
      /\ outcome = [r \in Request |-> "pending"] /\ calls = [r \in Request |-> 0]
  BY DEF Init
<1>2. Numbered /\ Open = {}
  BY <1>1 DEF Numbered, Open, Pending, Made
<1>3. Held = {} /\ NeverTwice /\ Queue(<<>>)
  BY <1>1, EmptyQueue DEF Held, Caller, NeverTwice
<1> QED BY <1>1, <1>2, <1>3 DEF RecordInv, Open

\* Steps that touch no record.
LEMMA RecordsUntouched ==
  ASSUME RecordInv, UNCHANGED <<cseq, cseqOf, queues, caller, handled>>, mode' = "idle" => tmp = <<>>
  PROVE  RecordInv'
<1>1. UNCHANGED <<cseq, cseqOf, awaitConn, awaitResp, tmp, caller, outcome, calls>>
  BY DEF queues, handled
<1>2. Held' = Held /\ Open' = Open /\ (Numbered => Numbered') /\ (NeverTwice => NeverTwice')
  BY <1>1 DEF Held, Caller, Open, Pending, Made, Numbered, NeverTwice
<1> QED BY <1>1, <1>2 DEF RecordInv, Open

LEMMA RecordsNext ==
  ASSUME AppThread = FALSE, ConnectionInv, RecordInv, [Next]_vars
  PROVE  RecordInv'
<1>1. CASE UNCHANGED vars
  BY <1>1, RecordsUntouched DEF vars, RecordInv
<1>2. ASSUME NEW r \in Request, SendCommand(r) PROVE RecordInv'
  BY <1>2, SendCommandKeeps
<1>3. CASE EnqueueAwaitingConnection
  <2>1. /\ caller # None /\ awaitConn' = Append(awaitConn, caller) /\ caller' = None
        /\ UNCHANGED <<cseq, cseqOf, awaitResp, tmp, mode, outcome, calls>>
    BY <1>3 DEF EnqueueAwaitingConnection, handled
  <2>2. /\ Queue(awaitConn) /\ Queue(tmp) /\ Queue(awaitResp) /\ caller \in Request
        /\ NeverTwice /\ Held = Open /\ Numbered /\ (mode = "idle" => tmp = <<>>)
    BY <2>1 DEF RecordInv, Open
  <2>3. Queue(awaitConn') /\ RangeOf(awaitConn') = RangeOf(awaitConn) \cup {caller}
    <3>1. caller \notin RangeOf(awaitConn)
      BY <2>2 DEF NeverTwice
    <3> QED BY <2>1, <2>2, <3>1, AppendQueue
  <2>4. Held' = Held /\ Open' = Open /\ Numbered'
    BY <2>1, <2>2, <2>3 DEF Held, Caller, Open, Pending, Made, Numbered
  <2>5. NeverTwice'
    <3>1. None \notin RangeOf(awaitConn') \cup RangeOf(tmp) \cup RangeOf(awaitResp)
      BY <2>2, <2>3, ClientAssumption DEF Queue, RangeOf
    <3> QED BY <2>1, <2>2, <2>3, <3>1 DEF NeverTwice
  <2> QED BY <2>1, <2>2, <2>3, <2>4, <2>5 DEF RecordInv, Open
<1>4. ASSUME NEW ok \in BOOLEAN, ConnectionHandler(ok) PROVE RecordInv'
  <2>1. /\ mode = "idle" /\ mode' # "idle" /\ tmp' = awaitConn /\ awaitConn' = <<>>
        /\ UNCHANGED <<cseq, cseqOf, awaitResp, caller, outcome, calls>>
    BY <1>4 DEF ConnectionHandler, LoopIdle, LeftBehind, handled
  <2>2. /\ Queue(awaitConn) /\ tmp = <<>> /\ Queue(awaitResp) /\ caller \in Request \cup {None}
        /\ NeverTwice /\ Held = Open /\ Numbered
    BY <2>1 DEF RecordInv, Open
  <2>3. RangeOf(tmp) = {} /\ RangeOf(awaitConn') = {} /\ Queue(awaitConn')
    BY <2>1, <2>2, EmptyQueue
  <2>4. Held' = Held /\ Open' = Open /\ Numbered' /\ NeverTwice'
    BY <2>1, <2>2, <2>3 DEF Held, Caller, Open, Pending, Made, Numbered, NeverTwice
  <2> QED BY <2>1, <2>2, <2>3, <2>4 DEF RecordInv, Open
<1>5. CASE ResumeNext
  BY <1>5, ResumeNextKeeps
<1>6. CASE TellFailure
  <2> DEFINE r == Head(tmp)
             one == 1
  <2>1. /\ tmp # <<>> /\ tmp' = Tail(tmp) /\ mode' # "idle"
        /\ outcome' = [outcome EXCEPT ![r] = "failed"]
        /\ calls' = [calls EXCEPT ![r] = @ + one] /\ one \in Nat
        /\ UNCHANGED <<cseq, cseqOf, awaitConn, awaitResp, caller>>
    BY <1>6 DEF TellFailure, Fails
  <2>2. /\ Queue(awaitConn) /\ Queue(tmp) /\ Queue(awaitResp) /\ caller \in Request \cup {None}
        /\ NeverTwice /\ Held = Open /\ Numbered
    BY DEF RecordInv, Open
  <2>3. /\ Queue(tmp') /\ r \in Request
        /\ RangeOf(tmp') \cup {r} = RangeOf(tmp) /\ r \notin RangeOf(tmp')
    BY <2>1, <2>2, TailQueue
  <2> HIDE DEF r, one
  <2>4. Made(r)
    BY <2>2, <2>3 DEF Held, Open, Pending
  <2>5. Open' = Open \ {r} /\ Numbered'
    BY <2>1, <2>2, <2>3, <2>4, OpenFailed
  <2>6. Held' = Held \ {r} /\ NeverTwice'
    BY <2>1, <2>2, <2>3 DEF Held, Caller, NeverTwice
  <2> QED BY <2>1, <2>2, <2>3, <2>5, <2>6 DEF RecordInv, Open
<1>7. CASE HandlerReturns
  BY <1>7, RecordsUntouched DEF HandlerReturns
<1>8. ASSUME NEW n \in 1 .. BufferSize, Read(n) PROVE RecordInv'
  BY <1>8, ReadKeeps
<1>9. CASE ReadEnd
  BY <1>9, RecordsUntouched DEF ReadEnd, RecordInv
<1>10. CASE ServerAnswers
  BY <1>10, RecordsUntouched DEF ServerAnswers, RecordInv
<1>11. CASE ServerCloses
  BY <1>11, RecordsUntouched DEF ServerCloses, RecordInv
<1>12. QED
  BY <1>1, <1>2, <1>3, <1>4, <1>5, <1>6, <1>7, <1>8, <1>9, <1>10, <1>11 DEF Next

\* Two queues that share no record, one after the other.
LEMMA ConcatQueue ==
  ASSUME NEW a, NEW b, Queue(a), Queue(b), RangeOf(a) \cap RangeOf(b) = {}, NEW p, p = a \o b
  PROVE  Queue(p) /\ RangeOf(p) = RangeOf(a) \cup RangeOf(b)
<1>1. /\ a \in Seq(Request) /\ b \in Seq(Request) /\ Len(a) \in Nat /\ Len(b) \in Nat
      /\ DOMAIN a = 1 .. Len(a) /\ DOMAIN b = 1 .. Len(b)
  BY DEF Queue
<1>2. p \in Seq(Request) /\ DOMAIN p = 1 .. Len(a) + Len(b)
  BY <1>1
<1>3. /\ \A i \in 1 .. Len(a) : i \in DOMAIN p /\ p[i] = a[i]
      /\ \A i \in 1 .. Len(b) : i + Len(a) \in DOMAIN p /\ p[i + Len(a)] = b[i]
  BY <1>1, <1>2
<1>4. \A i \in DOMAIN p : i \in 1 .. Len(a) \/ \E j \in 1 .. Len(b) : i = j + Len(a)
  <2> SUFFICES ASSUME NEW i \in DOMAIN p, i \notin 1 .. Len(a)
               PROVE  \E j \in 1 .. Len(b) : i = j + Len(a)
    OBVIOUS
  <2>1. i - Len(a) \in 1 .. Len(b) /\ i = i - Len(a) + Len(a)
    BY <1>1, <1>2
  <2> QED BY <2>1
<1>5. RangeOf(p) = RangeOf(a) \cup RangeOf(b)
  <2>1. ASSUME NEW x \in RangeOf(p) PROVE x \in RangeOf(a) \cup RangeOf(b)
    <3>1. PICK i \in DOMAIN p : p[i] = x
      BY DEF RangeOf
    <3> QED BY <1>1, <1>3, <1>4, <3>1 DEF RangeOf
  <2>2. ASSUME NEW x \in RangeOf(a) \cup RangeOf(b) PROVE x \in RangeOf(p)
    BY <1>1, <1>3 DEF RangeOf
  <2> QED BY <2>1, <2>2
<1>6. Distinct(p)
  <2> SUFFICES ASSUME NEW i \in DOMAIN p, NEW j \in DOMAIN p, p[i] = p[j] PROVE i = j
    BY DEF Distinct
  <2>1. \A k \in 1 .. Len(a), m \in 1 .. Len(b) : a[k] # b[m]
    BY <1>1 DEF RangeOf
  <2>2. CASE i \in 1 .. Len(a) /\ j \in 1 .. Len(a)
    BY <1>1, <1>3, <2>2 DEF Queue, Distinct
  <2>3. CASE i \in 1 .. Len(a) /\ j \notin 1 .. Len(a)
    BY <1>3, <1>4, <2>1, <2>3
  <2>4. CASE i \notin 1 .. Len(a) /\ j \in 1 .. Len(a)
    BY <1>3, <1>4, <2>1, <2>4
  <2>5. CASE i \notin 1 .. Len(a) /\ j \notin 1 .. Len(a)
    <3>1. PICK k \in 1 .. Len(b) : i = k + Len(a)
      BY <1>4, <2>5
    <3>2. PICK m \in 1 .. Len(b) : j = m + Len(a)
      BY <1>4, <2>5
    <3>3. b[k] = b[m]
      BY <1>3, <3>1, <3>2
    <3> QED BY <1>1, <3>1, <3>2, <3>3 DEF Queue, Distinct
  <2> QED BY <2>2, <2>3, <2>4, <2>5
<1> QED BY <1>2, <1>5, <1>6 DEF Queue

\* The property is about the queues one after the other.
LEMMA RecordsAreKept == RecordInv => RecordsKept
<1> SUFFICES ASSUME RecordInv PROVE RecordsKept
  OBVIOUS
<1> DEFINE two == awaitConn \o tmp
           three == awaitConn \o tmp \o awaitResp
           last == IF caller = None THEN <<>> ELSE <<caller>>
           all == three \o last
<1>1. /\ Queue(awaitConn) /\ Queue(tmp) /\ Queue(awaitResp) /\ caller \in Request \cup {None}
      /\ NeverTwice /\ Held = Open
  BY DEF RecordInv, Open
<1>2. Queue(two) /\ RangeOf(two) = RangeOf(awaitConn) \cup RangeOf(tmp)
  BY <1>1, ConcatQueue DEF NeverTwice
<1>3. three = two \o awaitResp
  OBVIOUS
<1>4. Queue(last) /\ RangeOf(last) = Caller
  BY <1>1, EmptyQueue, OneQueue DEF Caller
<1> HIDE DEF two, last
<1>5. Queue(three) /\ RangeOf(three) = RangeOf(awaitConn) \cup RangeOf(tmp) \cup RangeOf(awaitResp)
  <2>1. RangeOf(two) \cap RangeOf(awaitResp) = {}
    BY <1>1, <1>2 DEF NeverTwice
  <2> HIDE DEF three
  <2>2. Queue(three) /\ RangeOf(three) = RangeOf(two) \cup RangeOf(awaitResp)
    BY <1>1, <1>2, <1>3, <2>1, ConcatQueue
  <2> QED BY <1>2, <2>2
<1> HIDE DEF three
<1>6. Queue(all) /\ RangeOf(all) = Held
  <2>1. RangeOf(three) \cap RangeOf(last) = {}
    BY <1>1, <1>4, <1>5 DEF NeverTwice, Caller
  <2>2. Queue(all) /\ RangeOf(all) = RangeOf(three) \cup RangeOf(last)
    BY <1>4, <1>5, <2>1, ConcatQueue
  <2> QED BY <1>4, <1>5, <2>2 DEF Held
<1>7. PendingIsQueued
  <2>1. \A r \in Request : Pending(r) => r \in RangeOf(three) \cup {caller}
    BY <1>1, <1>5 DEF Open, Held, Caller
  <2> QED BY <2>1 DEF PendingIsQueued, three
<1>8. RecordsOwnedOnce
  <2>1. \A i, j \in DOMAIN all : all[i] = all[j] => i = j
    BY <1>6 DEF Queue, Distinct
  <2>2. \A r \in RangeOf(all) : Pending(r)
    BY <1>1, <1>6 DEF Open
  <2> QED BY <2>1, <2>2 DEF RecordsOwnedOnce, three, last
<1> QED BY <1>7, <1>8 DEF RecordsKept

\* Called from its event loop alone, a client keeps every record in one place
\* until its handler is told, however requests, responses and failures follow.
THEOREM RecordsStayOwned ==
  ASSUME AppThread = FALSE
  PROVE  Spec => []RecordsKept
<1>1. Init => ConnectionInv /\ RecordInv
  BY ConnectionInit, RecordsInit
<1>2. ConnectionInv /\ RecordInv /\ [Next]_vars => (ConnectionInv /\ RecordInv)'
  BY ConnectionNext, RecordsNext
<1>3. QED
  BY RecordsAreKept, <1>1, <1>2, PTL DEF Spec

-----------------------------------------------------------------------------
(* The synchronous interface. *)

\* Whatever the blocking functions do, the client takes steps of its own.
LEMMA BlockingStep == [BlockingNext]_allVars => [Next]_vars
<1> SUFFICES ASSUME [BlockingNext]_allVars PROVE [Next]_vars
  OBVIOUS
<1>1. CASE UNCHANGED allVars
  BY <1>1 DEF allVars
<1>2. CASE use = "callbacks" /\ Next /\ UNCHANGED sync
  BY <1>2
<1>3. ASSUME NEW r \in Request, BeginTimedCall(r) \/ BeginCall(r) \/ Teardown(r) PROVE Next
  BY <1>3 DEF BeginTimedCall, BeginCall, Begin, Teardown, Next
<1>4. CASE LoopStep
  BY <1>4 DEF LoopStep, Next
<1>5. CASE CodeGoesOn
  BY <1>5 DEF CodeGoesOn, Next
<1>6. CASE TimeoutHandler
  BY <1>6 DEF TimeoutHandler
<1>7. CASE EndCall
  BY <1>7 DEF EndCall
<1>8. CASE use = "blocking" /\ Server
  BY <1>8 DEF Server, Next
<1> QED BY <1>1, <1>2, <1>3, <1>4, <1>5, <1>6, <1>7, <1>8 DEF BlockingNext

\* The blocking functions, too, leave every request with its connection and
\* every record in one place.
THEOREM BlockingKeepsRecords ==
  ASSUME AppThread = FALSE
  PROVE  BlockingSpec => [](PendingConnectionIsWatched /\ RecordsKept)
<1>1. BlockingInit => ConnectionInv /\ RecordInv
  BY ConnectionInit, RecordsInit DEF BlockingInit
<1>2. ConnectionInv /\ RecordInv /\ [BlockingNext]_allVars => (ConnectionInv /\ RecordInv)'
  BY BlockingStep, ConnectionNext, RecordsNext
<1>3. ConnectionInv /\ RecordInv => PendingConnectionIsWatched /\ RecordsKept
  BY RecordsAreKept DEF ConnectionInv
<1>4. QED
  BY <1>1, <1>2, <1>3, PTL DEF BlockingSpec

\* What a blocking call relies on: unless a record without a handler was sent
\* again, no other record with a handler is open, and the timeout finds this
\* one by the latest CSeq.
OnlyBlocked == \A r \in Request \ off : Pending(r) => r = blocked /\ cseqOf[r] = cseq

ToldOwn == blocked # None /\ watch => /\ result \in {blocked, TimedOut}
                                      /\ Pending(blocked) => blocked \in off

CallInv ==
  /\ use \in {"callbacks", "blocking"}
  /\ use = "callbacks" => blocked = None /\ returned = None
  /\ blocked \in Request \cup {None}
  /\ use = "blocking" /\ ~lateResend => OnlyBlocked /\ ToldOwn
  /\ ResultIsOwn

\* The steps that the event loop takes, or the code it called.
Loop ==
  \/ \E ok \in BOOLEAN : ConnectionHandler(ok)
  \/ \E n \in 1 .. BufferSize : Read(n)
  \/ ReadEnd
  \/ EnqueueAwaitingConnection \/ ResumeNext \/ TellFailure \/ HandlerReturns

LEMMA LoopSettles ==
  ASSUME AppThread = FALSE, ConnectionInv, RecordInv, Loop
  PROVE  Settles /\ NumbersKept
<1>1. CASE ResumeNext
  BY <1>1, ResumeNextKeeps DEF ResumeNext, NumbersKept
<1>2. ASSUME NEW n \in 1 .. BufferSize, Read(n) PROVE Settles /\ NumbersKept
  BY <1>2, ReadKeeps
<1>3. CASE TellFailure
  <2> DEFINE r == Head(tmp)
             one == 1
  <2>1. /\ tmp # <<>> /\ outcome' = [outcome EXCEPT ![r] = "failed"]
        /\ calls' = [calls EXCEPT ![r] = @ + one] /\ one \in Nat /\ UNCHANGED <<cseq, cseqOf>>
    BY <1>3 DEF TellFailure, Fails
  <2>2. r \in Open /\ Numbered
    <3>1. Queue(tmp) /\ Numbered /\ Held = Open
      BY DEF RecordInv, Open
    <3>2. r \in RangeOf(tmp)
      BY <2>1, <3>1, TailQueue
    <3> QED BY <3>1, <3>2 DEF Held
  <2> HIDE DEF r, one
  <2>3. r \in Request /\ Made(r)
    BY <2>2 DEF Open, Pending
  <2> QED BY <2>1, <2>2, <2>3, OpenFailed DEF NumbersKept
<1>4. CASE UNCHANGED <<cseq, cseqOf, outcome, calls>>
  BY <1>4 DEF Settles, NumbersKept, Open, Pending, Made
<1>5. (\E ok \in BOOLEAN : ConnectionHandler(ok)) \/ ReadEnd \/ EnqueueAwaitingConnection
        \/ HandlerReturns => UNCHANGED <<cseq, cseqOf, outcome, calls>>
  BY DEF ConnectionHandler, ReadEnd, EnqueueAwaitingConnection, HandlerReturns, handled
<1> QED BY <1>1, <1>2, <1>3, <1>4, <1>5 DEF Loop

\* The loop of a blocking call, or the code that the call or the loop called.
LEMMA LoopKeepsCall ==
  ASSUME RecordInv, CallInv, Settles, NumbersKept, use = "blocking", HandlerForSync,
         UNCHANGED <<use, blocked, off, returned>>, lateResend => lateResend',
         ~lateResend' => Resent \cap off = {}
  PROVE  CallInv'
<1>1. CASE lateResend'
  BY <1>1 DEF CallInv, ResultIsOwn
<1>2. CASE ~lateResend'
  <2>1. ~lateResend /\ OnlyBlocked /\ ToldOwn /\ blocked \in Request \cup {None}
    BY <1>2 DEF CallInv
  <2>2. \A r \in Request \ off : r \in Open => r = blocked
    BY <2>1 DEF OnlyBlocked, Open
  <2>3. OnlyBlocked'
    <3> SUFFICES ASSUME NEW r \in Request \ off, r \in Open' PROVE r = blocked /\ cseqOf'[r] = cseq'
      BY DEF OnlyBlocked, Open
    <3>1. r \in Open /\ r = blocked /\ cseqOf[r] = cseq
      BY <2>1 DEF Settles, OnlyBlocked, Open
    <3>2. CASE UNCHANGED <<cseq, cseqOf>>
      BY <3>1, <3>2
    <3>3. ASSUME NEW q \in Open, cseqOf' = [cseqOf EXCEPT ![q] = cseq + 1], cseq' = cseq + 1
          PROVE  cseqOf'[r] = cseq'
      <4>1. q \in Request /\ Made(q) /\ cseqOf \in [Request -> 0 .. cseq] /\ cseq \in Nat
        BY DEF Open, Pending, RecordInv, Numbered
      <4>2. cseqOf'[q] = cseq + 1 /\ cseqOf[q] # cseq + 1
        BY <3>3, <4>1
      <4>3. q \notin off
        BY <1>2, <4>1, <4>2 DEF Resent
      <4>4. q = r
        BY <2>2, <3>1, <4>1, <4>3
      <4> QED BY <3>3, <4>2, <4>4
    <3> QED BY <3>1, <3>2, <3>3 DEF NumbersKept
  <2>4. ToldOwn'
    <3>1. CASE HandlersRun = {}
      <4>1. UNCHANGED <<watch, result, blocked, off>>
        BY <3>1 DEF HandlerForSync, call
      <4>2. blocked # None => (Pending(blocked)' => Pending(blocked))
        BY <2>1 DEF Settles, Open
      <4> QED BY <2>1, <4>1, <4>2 DEF ToldOwn
    <3>2. CASE HandlersRun # {}
      <4>1. result' \in HandlersRun
        BY <3>2 DEF HandlerForSync
      <4>2. result' \in Request \ off /\ result' \in Open /\ result' \notin Open'
        BY <4>1 DEF HandlersRun, Settles
      <4>3. result' = blocked
        BY <2>2, <4>2
      <4> QED BY <4>2, <4>3 DEF ToldOwn, Open
    <3> QED BY <3>1, <3>2
  <2> QED BY <2>1, <2>3, <2>4 DEF CallInv, ResultIsOwn
<1> QED BY <1>1, <1>2

LEMMA BeginKeepsCall ==
  ASSUME RecordInv, CallInv, NEW r \in Request, NEW timeout, Begin(r, timeout)
  PROVE  CallInv'
<1>1. /\ use = "blocking" /\ blocked = None /\ blocked' = r /\ SendCommand(r)
      /\ IF HandlersRun # {} THEN watch' = TRUE /\ timer' = FALSE /\ result' = r
         ELSE watch' = FALSE /\ timer' = timeout /\ result' = result
      /\ UNCHANGED <<use, off, returned, lateResend>>
  BY DEF Begin, NotBusy
<1>2. CASE lateResend
  BY <1>1, <1>2 DEF CallInv, ResultIsOwn
<1>3. CASE ~lateResend
  <2>1. OnlyBlocked /\ Numbered
    BY <1>1, <1>3 DEF CallInv, RecordInv
  <2>2. None \notin Request
    BY ClientAssumption
  <2>3. cseq' = cseq + 1 /\ cseqOf' = [cseqOf EXCEPT ![r] = cseq + 1]
    BY <1>1 DEF SendCommand
  <2>4. /\ UNCHANGED handled \/ (\E times : /\ outcome' = [outcome EXCEPT ![r] = "failed"]
                                           /\ calls' = [calls EXCEPT ![r] = @ + times])
    BY <1>1 DEF SendCommand, SendRequest, EnqueuedBehind, Sent, SendFails, Unprepared,
                OpensPending, OpensAtOnce, OpenRefused, Fails
  <2>5. OnlyBlocked'
    <3> SUFFICES ASSUME NEW q \in Request \ off, Pending(q)' PROVE q = r /\ cseqOf'[q] = cseq'
      BY <1>1 DEF OnlyBlocked
    <3>1. CASE q = r
      BY <2>1, <2>3, <3>1 DEF Numbered
    <3>2. CASE q # r
      <4>1. outcome'[q] = outcome[q] /\ cseqOf'[q] = cseqOf[q]
        BY <2>1, <2>3, <2>4, <3>2 DEF Numbered, handled
      <4>2. Pending(q)
        BY <4>1 DEF Pending, Made
      <4> QED BY <1>1, <2>1, <2>2, <4>2 DEF OnlyBlocked
    <3> QED BY <3>1, <3>2
  <2>6. ToldOwn'
    <3>1. CASE HandlersRun = {}
      BY <1>1, <3>1 DEF ToldOwn
    <3>2. CASE HandlersRun # {}
      <4>1. calls' # calls
        BY <3>2 DEF HandlersRun
      <4>2. outcome'[r] = "failed"
        BY <2>1, <2>4, <4>1 DEF Numbered, handled
      <4> QED BY <1>1, <3>2, <4>2 DEF ToldOwn, Pending
    <3> QED BY <3>1, <3>2
  <2> QED BY <1>1, <2>5, <2>6 DEF CallInv, ResultIsOwn
<1> QED BY <1>2, <1>3

LEMMA TeardownKeepsCall ==
  ASSUME RecordInv, CallInv, NEW r \in Request, Teardown(r)
  PROVE  CallInv'
<1>1. /\ use = "blocking" /\ blocked = None /\ SendCommand(r) /\ off' = off \cup {r}
      /\ UNCHANGED <<use, blocked, returned, lateResend>>
  BY DEF Teardown, NotBusy
<1>2. CASE lateResend
  BY <1>1, <1>2 DEF CallInv, ResultIsOwn
<1>3. CASE ~lateResend
  <2>1. OnlyBlocked /\ Numbered
    BY <1>1, <1>3 DEF CallInv, RecordInv
  <2>2. None \notin Request
    BY ClientAssumption
  <2>3. cseq' = cseq + 1 /\ cseqOf' = [cseqOf EXCEPT ![r] = cseq + 1]
    BY <1>1 DEF SendCommand
  <2>4. UNCHANGED handled \/ outcome' = [outcome EXCEPT ![r] = "failed"]
    BY <1>1 DEF SendCommand, SendRequest, EnqueuedBehind, Sent, SendFails, Unprepared,
                OpensPending, OpensAtOnce, OpenRefused, Fails
  <2>5. OnlyBlocked'
    <3> SUFFICES ASSUME NEW q \in Request \ off', Pending(q)' PROVE FALSE
      BY DEF OnlyBlocked
    <3>1. q # r /\ q \in Request \ off
      BY <1>1
    <3>2. outcome'[q] = outcome[q] /\ cseqOf'[q] = cseqOf[q]
      BY <2>1, <2>3, <2>4, <3>1 DEF Numbered, handled
    <3>3. Pending(q)
      BY <3>2 DEF Pending, Made
    <3> QED BY <1>1, <2>1, <2>2, <3>1, <3>3 DEF OnlyBlocked
  <2> QED BY <1>1, <2>5 DEF CallInv, ResultIsOwn, ToldOwn
<1> QED BY <1>2, <1>3

\* changeResponseHandler finds the open request: it is in one of the two queues.
LEMMA TimeoutKeepsCall ==
  ASSUME AppThread = FALSE, RecordInv, CallInv, TimeoutHandler
  PROVE  CallInv'
<1>1. /\ use = "blocking" /\ blocked # None /\ LoopIdle /\ off' = LatestOff /\ result' = TimedOut
      /\ UNCHANGED <<cseq, cseqOf, outcome, use, blocked, returned, lateResend>>
  BY DEF TimeoutHandler, InLoop, vars, handled
<1>2. CASE lateResend
  BY <1>1, <1>2 DEF CallInv, ResultIsOwn
<1>3. CASE ~lateResend
  <2>1. OnlyBlocked /\ blocked \in Request
    BY <1>1, <1>3 DEF CallInv
  <2>2. /\ Queue(awaitConn) /\ Queue(awaitResp) /\ RangeOf(awaitConn) \cap RangeOf(awaitResp) = {}
        /\ Held = Open /\ tmp = <<>> /\ caller = None
    BY <1>1 DEF RecordInv, NeverTwice, LoopIdle, Open
  <2>3. RangeOf(awaitConn \o awaitResp) = RangeOf(awaitConn) \cup RangeOf(awaitResp)
    <3> DEFINE p == awaitConn \o awaitResp
    <3> HIDE DEF p
    <3>1. p = awaitConn \o awaitResp
      BY DEF p
    <3>2. RangeOf(p) = RangeOf(awaitConn) \cup RangeOf(awaitResp)
      BY <2>2, <3>1, ConcatQueue
    <3> QED BY <3>1, <3>2
  <2>4. Open = RangeOf(awaitConn) \cup RangeOf(awaitResp)
    BY <2>2, EmptyQueue DEF Held, Caller
  <2>5. off \subseteq off' /\ \A r \in Open : cseqOf[r] = cseq => r \in off'
    BY <1>1, <2>3, <2>4 DEF LatestOff
  <2>6. \A r \in Request : Pending(r)' <=> Pending(r)
    BY <1>1 DEF Pending, Made
  <2>7. OnlyBlocked'
    BY <1>1, <2>1, <2>5, <2>6 DEF OnlyBlocked
  <2>8. ToldOwn'
    <3>1. Pending(blocked) => blocked \in off'
      BY <2>1, <2>5 DEF OnlyBlocked, Open
    <3> QED BY <1>1, <2>1, <2>6, <3>1 DEF ToldOwn
  <2> QED BY <1>1, <2>1, <2>7, <2>8 DEF CallInv, ResultIsOwn
<1> QED BY <1>2, <1>3

LEMMA EndKeepsCall ==
  ASSUME CallInv, EndCall
  PROVE  CallInv'
<1>1. /\ blocked # None /\ watch /\ returned' = [call |-> blocked, result |-> result]
      /\ blocked' = None
      /\ UNCHANGED <<cseq, cseqOf, outcome, use, watch, result, off, lateResend>>
  BY DEF EndCall, vars, handled, call
<1>2. use = "blocking"
  BY <1>1 DEF CallInv
<1>3. CASE lateResend
  BY <1>1, <1>2, <1>3 DEF CallInv, ResultIsOwn
<1>4. CASE ~lateResend
  <2>1. OnlyBlocked /\ ToldOwn /\ blocked \in Request
    BY <1>1, <1>2, <1>4 DEF CallInv
  <2>2. OnlyBlocked'
    <3> SUFFICES ASSUME NEW q \in Request \ off, Pending(q)' PROVE FALSE
      BY <1>1 DEF OnlyBlocked
    <3>1. Pending(q)
      BY <1>1 DEF Pending, Made
    <3> QED BY <1>1, <2>1, <3>1 DEF OnlyBlocked, ToldOwn
  <2>3. ResultIsOwn'
    BY <1>1, <2>1 DEF ResultIsOwn, ToldOwn
  <2> QED BY <1>1, <1>2, <1>4, <2>2, <2>3 DEF CallInv, ToldOwn
<1> QED BY <1>3, <1>4

LEMMA CallNext ==
  ASSUME AppThread = FALSE, ConnectionInv, RecordInv, CallInv, [BlockingNext]_allVars
  PROVE  CallInv'
<1>1. ASSUME UNCHANGED <<cseq, cseqOf, outcome, sync>> PROVE CallInv'
  <2>1. UNCHANGED <<use, blocked, watch, result, off, returned, lateResend>>
    BY <1>1 DEF sync, call
  <2> QED BY <1>1, <2>1 DEF CallInv, OnlyBlocked, ToldOwn, ResultIsOwn, Pending, Made
<1>2. CASE UNCHANGED allVars
  BY <1>1, <1>2 DEF allVars, vars, handled
<1>3. CASE use = "callbacks" /\ UNCHANGED sync
  BY <1>3 DEF sync, CallInv, ResultIsOwn
<1>4. ASSUME NEW r \in Request, BeginTimedCall(r) \/ BeginCall(r) \/ Teardown(r) PROVE CallInv'
  BY <1>4, BeginKeepsCall, TeardownKeepsCall DEF BeginTimedCall, BeginCall
<1>5. CASE LoopStep
  <2>1. Loop /\ use = "blocking" /\ HandlerForSync /\ UNCHANGED <<use, blocked, off, returned>>
    BY <1>5 DEF LoopStep, InLoop, Loop
  <2>2. (lateResend => lateResend') /\ (~lateResend' => Resent \cap off = {})
    BY <1>5 DEF LoopStep
  <2> QED BY <2>1, <2>2, LoopSettles, LoopKeepsCall
<1>6. CASE CodeGoesOn
  <2>1. Loop /\ use = "blocking" /\ HandlerForSync
        /\ UNCHANGED <<use, blocked, off, returned, lateResend>>
    BY <1>6 DEF CodeGoesOn, Loop
  <2>2. Resent = {}
    BY <1>6 DEF CodeGoesOn, Resent, EnqueueAwaitingConnection, ResumeNext, TellFailure, HandlerReturns
  <2> QED BY <2>1, <2>2, LoopSettles, LoopKeepsCall
<1>7. CASE TimeoutHandler
  BY <1>7, TimeoutKeepsCall
<1>8. CASE EndCall
  BY <1>8, EndKeepsCall
<1>9. CASE Server
  <2>1. UNCHANGED <<cseq, cseqOf, outcome, sync>>
    BY <1>9 DEF Server, ServerAnswers, ServerCloses, handled
  <2> QED BY <1>1, <2>1
<1> QED BY <1>2, <1>3, <1>4, <1>5, <1>6, <1>7, <1>8, <1>9 DEF BlockingNext

LEMMA CallInit == BlockingInit => CallInv
BY DEF BlockingInit, Init, CallInv, OnlyBlocked, ToldOwn, ResultIsOwn, Pending, Made

\* A blocking function returns its own result or that of its timeout, whatever
\* answers arrive late, unless a record without a handler is sent again.
THEOREM CallsReturnTheirOwn ==
  ASSUME AppThread = FALSE
  PROVE  BlockingSpec => []ResultIsOwn
<1>1. BlockingInit => ConnectionInv /\ RecordInv /\ CallInv
  BY ConnectionInit, RecordsInit, CallInit DEF BlockingInit
<1>2. ConnectionInv /\ RecordInv /\ CallInv /\ [BlockingNext]_allVars
        => (ConnectionInv /\ RecordInv /\ CallInv)'
  BY BlockingStep, ConnectionNext, RecordsNext, CallNext
<1>3. CallInv => ResultIsOwn
  BY DEF CallInv
<1>4. QED
  BY <1>1, <1>2, <1>3, PTL DEF BlockingSpec

=============================================================================

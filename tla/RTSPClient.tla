----------------------------- MODULE RTSPClient -----------------------------
(***************************************************************************)
(* The request engine of RTSPClient (liveMedia/RTSPClient.cpp): requests   *)
(* queued while a connection is being made, sent, matched with responses   *)
(* by CSeq, resent after 401 and 30x, failed with their connection; and    *)
(* the response buffer that turns a byte stream into responses.            *)
(*                                                                         *)
(* The stream is a sequence of chunks: a response is one chunk with its    *)
(* headers followed by as many body chunks as its Content-Length says.  A  *)
(* read takes any number of chunks that fits, so that responses arrive     *)
(* split or run together.  (A read that ends inside the headers only       *)
(* fills the buffer.)                                                      *)
(*                                                                         *)
(* Handlers run in the event loop and may send further requests; the       *)
(* functions that wait for their answer are in BlockingClient; AppThread   *)
(* says whether the application also sends from a thread of its own, as    *)
(* AFDRTSPClient.cpp 393-462 does.  A send that failed once keeps failing  *)
(* until the socket is closed (a full socket buffer is not modelled).      *)
(***************************************************************************)
EXTENDS Naturals, Sequences, FiniteSets

CONSTANTS
  Request,      \* RequestRecords, numbered in the order they are made
  None,         \* NULL
  MaxCSeq,      \* bound on fCSeq, hence on resends
  Codes,        \* "ok" (200), "bad" (200, bad headers), "auth" (401), "moved" (30x)
  BodyLengths,  \* the Content-Lengths of responses, in chunks
  BufferSize,   \* responseBufferSize, in chunks
  AppThread     \* does a second thread call sendXCommand?

ASSUME ClientAssumption ==
  /\ Request \subseteq Nat /\ None \notin Request
  /\ MaxCSeq \in Nat
  /\ Codes \subseteq {"ok", "bad", "auth", "moved"}
  /\ BodyLengths \subseteq Nat /\ BufferSize \in Nat
  /\ AppThread \in BOOLEAN

VARIABLES
  cseq,       \* fCSeq
  cseqOf,     \* the CSeq of each request, 0 before it is made
  awaitConn,  \* fRequestsAwaitingConnection
  awaitResp,  \* fRequestsAwaitingResponse
  tmp,        \* connectionHandler1's tmpRequestQueue, or the request to resend
  mode,       \* what is done with tmp: "idle" nothing, "resuming" or "failing"
              \* requests in connectionHandler1, "resending" one after its response
  inHandler,  \* has a request of tmp just had its response handler called?
  caller,     \* the request sendRequest is about to put in awaitConn
  socket,     \* fInputSocketNum and who handles it
  buffer,     \* fResponseBuffer
  hadRealm,   \* does fCurrentAuthenticator have a realm?
  outcome,    \* what became of each request
  calls,      \* how often the response handler of each request was called
  wireOut,    \* CSeqs of requests the server has not answered
  wireIn,     \* chunks not yet read
  peerGone    \* has the server closed the connection?

queues  == <<awaitConn, awaitResp, tmp>>
wire    == <<wireOut, wireIn, peerGone>>
handled == <<outcome, calls>>
vars == <<cseq, cseqOf, queues, mode, inHandler, caller, socket, buffer, hadRealm, handled, wire>>

Chunk == [of : 0 .. MaxCSeq, code : Codes \cup {"body"}, length : BodyLengths \cup {0}]

TypeOK ==
  /\ cseq \in 1 .. MaxCSeq
  /\ cseqOf \in [Request -> 0 .. MaxCSeq]
  /\ awaitConn \in Seq(Request) /\ awaitResp \in Seq(Request) /\ tmp \in Seq(Request)
  /\ mode \in {"idle", "resuming", "failing", "resending"}
  /\ inHandler \in BOOLEAN
  /\ caller \in Request \cup {None}
  /\ socket \in {"none", "connecting", "open", "broken"}
  /\ buffer \in Seq(Chunk) /\ Len(buffer) < BufferSize
  /\ hadRealm \in BOOLEAN
  /\ outcome \in [Request -> {"pending", "answered", "garbled", "mismatched",
                              "failed", "dropped"}]
  /\ calls \in [Request -> 0 .. 2]
  /\ wireOut \in Seq(1 .. MaxCSeq) /\ wireIn \in Seq(Chunk)
  /\ peerGone \in BOOLEAN

Init ==
  /\ cseq = 1
  /\ cseqOf = [r \in Request |-> 0]
  /\ awaitConn = <<>> /\ awaitResp = <<>> /\ tmp = <<>>
  /\ mode = "idle"
  /\ inHandler = FALSE
  /\ caller = None
  /\ socket = "none"
  /\ buffer = <<>>
  /\ hadRealm = FALSE
  /\ outcome = [r \in Request |-> "pending"]
  /\ calls = [r \in Request |-> 0]
  /\ wireOut = <<>> /\ wireIn = <<>>
  /\ peerGone = FALSE

Made(r) == cseqOf[r] # 0
Pending(r) == Made(r) /\ outcome[r] = "pending"

\* The event loop is at its top: no call of sendRequest, no loop over tmp holds
\* it up.
LoopIdle == mode = "idle" /\ (caller = None \/ AppThread)

-----------------------------------------------------------------------------
(* sendRequest, when r has CSeq n. *)

\* handleRequestError and delete: times is how often the handler is called.
Fails(r, times) ==
  /\ outcome' = [outcome EXCEPT ![r] = "failed"]
  /\ calls' = [calls EXCEPT ![r] = @ + times]

\* resetTCPSockets, and the connection with it.
Disconnected ==
  /\ socket' = "none"
  /\ wireOut' = <<>> /\ wireIn' = <<>>
  /\ peerGone' = FALSE

\* A connection is pending, with at least one request enqueued.
EnqueuedBehind(r) ==
  /\ awaitConn # <<>>
  /\ awaitConn' = Append(awaitConn, r)
  /\ UNCHANGED <<awaitResp, caller, socket, handled, wire>>

\* send() succeeds on a connected socket.
Sent(r, n) ==
  /\ awaitConn = <<>>
  /\ socket = "open"
  /\ awaitResp' = Append(awaitResp, r)
  /\ wireOut' = IF peerGone THEN wireOut ELSE Append(wireOut, n)
  /\ UNCHANGED <<awaitConn, caller, socket, handled, wireIn, peerGone>>

\* send() fails: not connected, or the server is gone.
SendFails(r, times) ==
  /\ awaitConn = <<>>
  /\ socket \in {"connecting", "broken"} \/ (socket = "open" /\ peerGone)
  /\ socket' = IF socket = "open" THEN "broken" ELSE socket
  /\ Fails(r, times)
  /\ UNCHANGED <<awaitConn, awaitResp, caller, wire>>

\* Connected, but the command cannot be built: a SETUP without a client port, a
\* PLAY without a session.  (One that is resent has had them before.)
Unprepared(r, times) ==
  /\ times = 1
  /\ awaitConn = <<>>
  /\ socket \in {"none", "open"}
  /\ socket' = "open"
  /\ Fails(r, times)
  /\ UNCHANGED <<awaitConn, awaitResp, caller, wire>>

\* openConnection: connect() is in progress and connectionHandler registered;
\* r is enqueued in a step of its own.
OpensPending(r) ==
  /\ awaitConn = <<>>
  /\ socket = "none"
  /\ socket' = "connecting"
  /\ caller' = r
  /\ UNCHANGED <<awaitConn, awaitResp, handled, wire>>

\* openConnection: connect() succeeds at once.
OpensAtOnce(r, n) ==
  /\ awaitConn = <<>>
  /\ socket = "none"
  /\ socket' = "open"
  /\ awaitResp' = Append(awaitResp, r)
  /\ wireOut' = <<n>>
  /\ UNCHANGED <<awaitConn, caller, handled, wireIn, peerGone>>

\* openConnection fails.
OpenRefused(r, times) ==
  /\ awaitConn = <<>>
  /\ socket = "none"
  /\ Fails(r, times)
  /\ UNCHANGED <<awaitConn, awaitResp, caller, socket, wire>>

\* times: the calls of r's handler if it cannot be sent.
SendRequest(r, n, times) ==
  \/ EnqueuedBehind(r)
  \/ Sent(r, n)
  \/ SendFails(r, times)
  \/ Unprepared(r, times)
  \/ OpensPending(r)
  \/ OpensAtOnce(r, n)
  \/ OpenRefused(r, times)

\* sendXCommand, called by the application between events, from a handler, or
\* from a thread of its own.
SendCommand(r) ==
  /\ ~Made(r) /\ \A q \in Request : q < r => Made(q)
  /\ cseq < MaxCSeq
  /\ caller = None
  /\ mode = "idle" \/ inHandler \/ AppThread
  /\ cseq' = cseq + 1
  /\ cseqOf' = [cseqOf EXCEPT ![r] = cseq + 1]
  /\ SendRequest(r, cseq + 1, 1)
  /\ UNCHANGED <<tmp, mode, inHandler, buffer, hadRealm>>

\* sendRequest goes on: fRequestsAwaitingConnection.enqueue(request).
EnqueueAwaitingConnection ==
  /\ caller # None
  /\ awaitConn' = Append(awaitConn, caller)
  /\ caller' = None
  /\ UNCHANGED <<cseq, cseqOf, awaitResp, tmp, mode, inHandler, socket, buffer, hadRealm,
                 handled, wire>>

-----------------------------------------------------------------------------
(* connectionHandler1. *)

\* Mutant: the queue is copied, not emptied.
StaysWhole == awaitConn

\* What the handler leaves in fRequestsAwaitingConnection.
LeftBehind == <<>>

\* The socket became writable: the waiting requests move to the local queue.
ConnectionHandler(ok) ==
  /\ LoopIdle
  /\ socket = "connecting"
  /\ tmp' = awaitConn
  /\ awaitConn' = LeftBehind
  /\ socket' = IF ok THEN "open" ELSE "broken"
  /\ mode' = IF ok THEN "resuming" ELSE "failing"
  /\ UNCHANGED <<cseq, cseqOf, awaitResp, inHandler, caller, buffer, hadRealm, handled, wire>>

\* sendRequest for the next waiting request, or for the one to resend.  If that
\* one cannot be sent, sendRequest calls its handler and deletes it, and
\* handleResponseBytes does both again.
ResumeNext ==
  /\ mode \in {"resuming", "resending"} /\ tmp # <<>>
  /\ caller = None \/ AppThread
  /\ SendRequest(Head(tmp), cseqOf[Head(tmp)], IF mode = "resending" THEN 2 ELSE 1)
  /\ tmp' = Tail(tmp)
  /\ inHandler' = (outcome' # outcome)
  /\ UNCHANGED <<cseq, cseqOf, mode, buffer, hadRealm>>

\* Tell the requests about the error.
TellFailure ==
  /\ mode = "failing" /\ tmp # <<>>
  /\ Fails(Head(tmp), 1)
  /\ tmp' = Tail(tmp)
  /\ inHandler' = TRUE
  /\ UNCHANGED <<cseq, cseqOf, awaitConn, awaitResp, mode, caller, socket, buffer, hadRealm, wire>>

\* tmp is done with: back to the event loop.
HandlerReturns ==
  /\ mode # "idle" /\ tmp = <<>>
  /\ mode' = "idle"
  /\ inHandler' = FALSE
  /\ IF mode = "failing" THEN Disconnected ELSE UNCHANGED <<socket, wire>>
  /\ UNCHANGED <<cseq, cseqOf, queues, caller, buffer, hadRealm, handled>>

-----------------------------------------------------------------------------
(* incomingDataHandler1 and handleResponseBytes. *)

\* The requests before the first whose CSeq is not below c: no response to
\* them will come, they are deleted.
Older(c) == Cardinality({i \in DOMAIN awaitResp : \A j \in 1 .. i : cseqOf[awaitResp[j]] < c})

From(q, i) == SubSeq(q, i, Len(q))

\* What the search for CSeq c leaves of awaitResp.  A record with a greater CSeq
\* is dequeued and forgotten.
Searched(c) == From(awaitResp, Older(c) + 1)
Hit(c) == Searched(c) # <<>> /\ cseqOf[Head(Searched(c))] = c

\* foundRequest; without a hit, whatever is dequeued next.
Rest(c) == IF Hit(c) \/ Searched(c) = <<>> THEN Searched(c) ELSE Tail(Searched(c))
Found(c) == IF Rest(c) = <<>> THEN None ELSE Head(Rest(c))

\* The queue once foundRequest is taken out, and once it is put back to wait for
\* the rest of its body (putAtHead).
Taken(c) == IF Rest(c) = <<>> THEN <<>> ELSE Tail(Rest(c))

\* Mutant: the record is not put back.
NotPutBack(c) == Taken(c)

PutBack(c) == Rest(c)

\* The records deleted or forgotten on the way.
DroppedBy(c) ==
  {awaitResp[i] : i \in 1 .. Older(c)}
    \cup (IF Hit(c) \/ Searched(c) = <<>> THEN {} ELSE {Head(Searched(c))})

WithDropped(o, c) == [r \in Request |-> IF r \in DroppedBy(c) THEN "dropped" ELSE o[r]]

\* The handler of r is called once, and the record deleted.
Called(r, c, result) ==
  /\ outcome' = IF r = None THEN WithDropped(outcome, c)
                            ELSE [WithDropped(outcome, c) EXCEPT ![r] = result]
  /\ calls' = IF r = None THEN calls ELSE [calls EXCEPT ![r] = @ + 1]

\* A successful result: its own body, and all of it is its own?
ResultOf(r, b) ==
  IF r # None /\ cseqOf[r] # b[1].of THEN "mismatched"
  ELSE IF \A i \in 2 .. Len(b) : b[i].code = "body" /\ b[i].of = b[1].of
       THEN "answered" ELSE "garbled"

\* The response handlers' part of the state when nothing is sent.
AnswerOnly == UNCHANGED <<cseq, cseqOf, tmp, mode, socket, wireOut, peerGone>>

\* "We filled up our response buffer."
Fills(n) == n >= BufferSize - Len(buffer)

\* The buffer cannot hold more: the first handler gets the error.
BufferFull(n) ==
  /\ Fills(n)
  /\ buffer' = <<>>
  /\ IF awaitResp = <<>> THEN UNCHANGED <<awaitResp, handled>>
     ELSE Fails(Head(awaitResp), 1) /\ awaitResp' = Tail(awaitResp)
  /\ AnswerOnly /\ UNCHANGED hadRealm

\* No complete headers yet.
AwaitsHeaders(b) ==
  /\ \A i \in DOMAIN b : b[i].code = "body"
  /\ buffer' = b
  /\ AnswerOnly /\ UNCHANGED <<awaitResp, hadRealm, handled>>

\* Headers follow other bytes: no RTSP response, handleIncomingRequest.
NotAResponse(b) ==
  /\ b[1].code = "body" /\ \E i \in DOMAIN b : b[i].code # "body"
  /\ buffer' = <<>>
  /\ AnswerOnly /\ UNCHANGED <<awaitResp, hadRealm, handled>>

Complete(b) == b[1].code # "body" /\ b[1].length <= Len(b) - 1

\* Its body is not complete: the record is put back at the head.
AwaitsBody(b) ==
  LET c == b[1].of
  IN /\ b[1].code # "body" /\ ~Complete(b)
     /\ b[1].length - (Len(b) - 1) <= BufferSize - Len(b)
     /\ buffer' = b
     /\ awaitResp' = PutBack(c)
     /\ outcome' = WithDropped(outcome, c)
     /\ AnswerOnly /\ UNCHANGED <<hadRealm, calls>>

\* ... and never will be: an error for the handler.
BodyTooLong(b) ==
  LET c == b[1].of
  IN /\ b[1].code # "body" /\ ~Complete(b)
     /\ b[1].length - (Len(b) - 1) > BufferSize - Len(b)
     /\ buffer' = <<>>
     /\ awaitResp' = Taken(c)
     /\ Called(Found(c), c, "failed")
     /\ AnswerOnly /\ UNCHANGED hadRealm

\* Does the response have the request sent again?
Resends(b) ==
  /\ Found(b[1].of) # None
  /\ b[1].code = "moved" \/ (b[1].code = "auth" /\ ~hadRealm)

\* The handler is called with the result, or with an error for bad headers.
Answers(b) ==
  LET c == b[1].of
  IN /\ Complete(b) /\ ~Resends(b)
     /\ buffer' = <<>>
     /\ hadRealm' = (hadRealm \/ (b[1].code = "auth" /\ Found(c) # None))
     /\ awaitResp' = Taken(c)
     /\ Called(Found(c), c, IF b[1].code = "bad" THEN "failed" ELSE ResultOf(Found(c), b))
     /\ AnswerOnly

\* Mutant: no return after resendCommand.
FallsThrough(r) == calls' = [calls EXCEPT ![r] = @ + 1]

\* "without calling our response handler; the response to the resent command will"
ReturnsUncalled(r) == UNCHANGED calls

\* resendCommand with the next CSeq, after a redirection on a new connection.
Resend(b, n) ==
  LET c == b[1].of  r == Found(c)
  IN /\ Complete(b) /\ Resends(b)
     /\ cseq < MaxCSeq
     /\ buffer' = <<>>
     /\ cseq' = cseq + 1
     /\ cseqOf' = [cseqOf EXCEPT ![r] = cseq + 1]
     /\ awaitResp' = Taken(c)
     /\ tmp' = <<r>>
     /\ mode' = "resending"
     /\ outcome' = WithDropped(outcome, c)
     /\ hadRealm' = (hadRealm \/ b[1].code = "auth")
     /\ ReturnsUncalled(r)
     /\ IF b[1].code = "moved" THEN Disconnected
        ELSE /\ wireIn' = From(wireIn, n + 1)
             /\ UNCHANGED <<socket, wireOut, peerGone>>

HandleResponse(b) ==
  \/ AwaitsHeaders(b)
  \/ NotAResponse(b)
  \/ AwaitsBody(b)
  \/ BodyTooLong(b)
  \/ Answers(b)

\* The loop finds the socket readable and reads n chunks, as many as fit or fewer.
Read(n) ==
  LET b == buffer \o SubSeq(wireIn, 1, n)
  IN /\ LoopIdle
     /\ socket \in {"open", "broken"}
     /\ n <= Len(wireIn) /\ n <= BufferSize - Len(buffer)
     /\ \/ BufferFull(n) /\ wireIn' = From(wireIn, n + 1)
        \/ ~Fills(n) /\ HandleResponse(b) /\ wireIn' = From(wireIn, n + 1)
        \/ ~Fills(n) /\ Resend(b, n)
     /\ UNCHANGED <<awaitConn, inHandler, caller>>

\* The server has closed the connection, or it broke: resetTCPSockets and return.
ReadEnd ==
  /\ LoopIdle
  /\ socket \in {"open", "broken"}
  /\ peerGone /\ wireIn = <<>>
  /\ Disconnected
  /\ UNCHANGED <<cseq, cseqOf, queues, mode, inHandler, caller, buffer, hadRealm, handled>>

-----------------------------------------------------------------------------
(* The server: answers in order, and may close the connection. *)

ServerAnswers ==
  /\ wireOut # <<>> /\ ~peerGone
  /\ \E code \in Codes, length \in BodyLengths :
       LET chunk(k, len) == [of |-> Head(wireOut), code |-> k, length |-> len]
       IN wireIn' = Append(wireIn, chunk(code, length)) \o [i \in 1 .. length |-> chunk("body", 0)]
  /\ wireOut' = Tail(wireOut)
  /\ UNCHANGED <<cseq, cseqOf, queues, mode, inHandler, caller, socket, buffer, hadRealm, handled,
                 peerGone>>

ServerCloses ==
  /\ socket = "open" /\ ~peerGone
  /\ peerGone' = TRUE
  /\ wireOut' = <<>>
  /\ UNCHANGED <<cseq, cseqOf, queues, mode, inHandler, caller, socket, buffer, hadRealm, handled,
                 wireIn>>

-----------------------------------------------------------------------------
Next ==
  \/ \E r \in Request : SendCommand(r)
  \/ EnqueueAwaitingConnection
  \/ \E ok \in BOOLEAN : ConnectionHandler(ok)
  \/ ResumeNext
  \/ TellFailure
  \/ HandlerReturns
  \/ \E n \in 1 .. BufferSize : Read(n)
  \/ ReadEnd
  \/ ServerAnswers
  \/ ServerCloses

\* Code that was called returns; select reports a connection that was made or
\* refused, and a socket with data; the server answers.  What the application
\* sends, and whether the server closes, is left open.
Fairness ==
  /\ WF_vars(EnqueueAwaitingConnection)
  /\ WF_vars(\E ok \in BOOLEAN : ConnectionHandler(ok))
  /\ WF_vars(ResumeNext) /\ WF_vars(TellFailure) /\ WF_vars(HandlerReturns)
  /\ WF_vars(\E n \in 1 .. BufferSize : Read(n)) /\ WF_vars(ReadEnd)
  /\ WF_vars(ServerAnswers)

Spec == Init /\ [][Next]_vars /\ Fairness

-----------------------------------------------------------------------------
(* Properties. *)

RangeOf(q) == {q[i] : i \in DOMAIN q}

\* Requests queued "awaiting connection" have one: a connection attempt whose
\* end will call connectionHandler, the only code that empties that queue.
\* Otherwise sendRequest would queue every later request behind them for good.
PendingConnectionIsWatched == awaitConn # <<>> => socket = "connecting"

\* A RequestRecord is owned once: no record is in two queues, or twice in one
\* (each queue's consumer deletes it), and none whose handler was told stays
\* behind in a queue.
RecordsOwnedOnce ==
  LET all == awaitConn \o tmp \o awaitResp \o (IF caller = None THEN <<>> ELSE <<caller>>)
  IN /\ \A i, j \in DOMAIN all : all[i] = all[j] => i = j
     /\ \A r \in RangeOf(all) : Pending(r)

\* No request is lost on the way: one that still expects an answer is in one of
\* the queues (or in the hands of the sendRequest that will enqueue it).
PendingIsQueued ==
  \A r \in Request : Pending(r) => r \in RangeOf(awaitConn \o tmp \o awaitResp) \cup {caller}

\* A record is in one place and in one only, as long as its handler was not told:
\* the queues, the queue that connectionHandler empties, or the caller's hands.
RecordsKept == RecordsOwnedOnce /\ PendingIsQueued

=============================================================================

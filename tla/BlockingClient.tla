---------------------------- MODULE BlockingClient ----------------------------
(***************************************************************************)
(* The synchronous interface of RTSPClient: describeURL, setupMediaSession *)
(* and the others send a request with a response handler of their own and  *)
(* run the event loop until that handler, or a timeout, has set their      *)
(* watch variable.  They share the watch variable, the timeout task and    *)
(* the result; only the record's handler tells one call from another.      *)
(*                                                                         *)
(* An application uses these functions or those with a handler; only the   *)
(* former run the loop themselves.                                         *)
(***************************************************************************)
EXTENDS RTSPClient

CONSTANT TimedOut  \* the result code "(timed out)"

ASSUME BlockingAssumption == TimedOut \notin Request /\ TimedOut # None

VARIABLES
  use,       \* "callbacks" or "blocking": which functions the application calls
  blocked,   \* the request that a blocking function waits for, or None
  watch,     \* fWatchVariableForSyncInterface is not 0
  timer,     \* is fTimeoutTask scheduled?
  result,    \* fResultCode: the request whose result it is, or TimedOut
  off,       \* records whose response handler is NULL
  returned,  \* the last call that returned, and what it returned
  lateResend \* was a record without a handler sent again?

call == <<watch, timer, result>>
sync == <<use, blocked, call, off, returned, lateResend>>
allVars == <<vars, sync>>

BlockingTypeOK ==
  /\ TypeOK
  /\ use \in {"callbacks", "blocking"}
  /\ blocked \in Request \cup {None}
  /\ watch \in BOOLEAN /\ timer \in BOOLEAN /\ lateResend \in BOOLEAN
  /\ result \in Request \cup {None, TimedOut}
  /\ off \subseteq Request
  /\ timer => blocked # None

BlockingInit ==
  /\ Init
  /\ use \in {"callbacks", "blocking"}
  /\ blocked = None
  /\ watch = FALSE /\ timer = FALSE /\ result = None
  /\ off = {} /\ returned = None /\ lateResend = FALSE

\* The records whose handler a step calls, and that have one.
HandlersRun == {r \in Request \ off : calls'[r] # calls[r]}

\* Mutant: an error ends the timeout, but not the wait.
SignalsSuccess ==
  IF HandlersRun = {} THEN UNCHANGED call
  ELSE /\ watch' = (watch \/ \E r \in HandlersRun : outcome'[r] = "answered")
       /\ timer' = FALSE
       /\ result' \in HandlersRun

\* responseHandlerForSyncInterface1.
HandlerForSync ==
  IF HandlersRun = {} THEN UNCHANGED call
  ELSE /\ watch' = TRUE
       /\ timer' = FALSE
       /\ result' \in HandlersRun

NotBusy == use = "blocking" /\ blocked = None /\ mode = "idle"

\* The handler may be called at once, when the command cannot be sent.
Begin(r, timeout) ==
  /\ NotBusy
  /\ SendCommand(r)
  /\ blocked' = r
  /\ IF HandlersRun # {} THEN watch' = TRUE /\ timer' = FALSE /\ result' = r
     ELSE watch' = FALSE /\ timer' = timeout /\ result' = result
  /\ UNCHANGED <<use, off, returned, lateResend>>

\* describeURL, sendOptionsCmd and announceSDPDescription may have a timeout.
BeginTimedCall(r) == \E timeout \in BOOLEAN : Begin(r, timeout)

\* The functions for SETUP, PLAY, PAUSE, RECORD and the parameters have none.
BeginCall(r) == Begin(r, FALSE)

\* teardownMediaSession does not wait: its request has no handler.
Teardown(r) ==
  /\ NotBusy
  /\ SendCommand(r)
  /\ off' = off \cup {r}
  /\ watch' = FALSE /\ timer' = FALSE
  /\ UNCHANGED <<use, blocked, result, returned, lateResend>>

\* doEventLoop looks at the watch variable before each step.
InLoop == use = "blocking" /\ blocked # None /\ ~watch

Resent == {r \in Request : Made(r) /\ cseqOf'[r] # cseqOf[r]}

LoopStep ==
  /\ InLoop
  /\ \/ \E ok \in BOOLEAN : ConnectionHandler(ok)
     \/ \E n \in 1 .. BufferSize : Read(n)
     \/ ReadEnd
  /\ HandlerForSync
  /\ lateResend' = (lateResend \/ Resent \cap off # {})
  /\ UNCHANGED <<use, blocked, off, returned>>

\* What a step of the loop, or the call itself, still has to do.
CodeGoesOn ==
  /\ use = "blocking"
  /\ EnqueueAwaitingConnection \/ ResumeNext \/ TellFailure \/ HandlerReturns
  /\ HandlerForSync
  /\ UNCHANGED <<use, blocked, off, returned, lateResend>>

\* Mutant: the record keeps its handler.
NothingOff == off

\* changeResponseHandler(fCSeq, NULL).
LatestOff == off \cup {r \in RangeOf(awaitConn \o awaitResp) : cseqOf[r] = cseq}

\* timeoutHandlerForSyncInterface1.
TimeoutHandler ==
  /\ InLoop /\ timer /\ LoopIdle
  /\ off' = LatestOff
  /\ timer' = FALSE
  /\ watch' = TRUE
  /\ result' = TimedOut
  /\ UNCHANGED <<vars, use, blocked, returned, lateResend>>

\* The event loop ends and the blocking function returns.
EndCall ==
  /\ blocked # None /\ watch /\ LoopIdle
  /\ returned' = [call |-> blocked, result |-> result]
  /\ blocked' = None
  /\ UNCHANGED <<vars, use, call, off, lateResend>>

Server == (ServerAnswers \/ ServerCloses) /\ UNCHANGED sync

BlockingNext ==
  \/ use = "callbacks" /\ Next /\ UNCHANGED sync
  \/ \E r \in Request : BeginTimedCall(r) \/ BeginCall(r) \/ Teardown(r)
  \/ LoopStep
  \/ CodeGoesOn
  \/ TimeoutHandler
  \/ EndCall
  \/ use = "blocking" /\ Server

\* As in RTSPClient; besides, a call whose watch variable is set returns, and a
\* scheduled timeout ends in time.
BlockingFairness ==
  /\ WF_allVars(EnqueueAwaitingConnection /\ use = "callbacks" /\ UNCHANGED sync)
  /\ WF_allVars((\E ok \in BOOLEAN : ConnectionHandler(ok)) /\ use = "callbacks" /\ UNCHANGED sync)
  /\ WF_allVars(ResumeNext /\ use = "callbacks" /\ UNCHANGED sync)
  /\ WF_allVars(TellFailure /\ use = "callbacks" /\ UNCHANGED sync)
  /\ WF_allVars(HandlerReturns /\ use = "callbacks" /\ UNCHANGED sync)
  /\ WF_allVars((\E n \in 1 .. BufferSize : Read(n)) /\ use = "callbacks" /\ UNCHANGED sync)
  /\ WF_allVars(ReadEnd /\ use = "callbacks" /\ UNCHANGED sync)
  /\ WF_allVars(ServerAnswers /\ UNCHANGED sync)
  /\ WF_allVars(LoopStep)
  /\ WF_allVars(CodeGoesOn)
  /\ WF_allVars(TimeoutHandler)
  /\ WF_allVars(EndCall)

BlockingSpec == BlockingInit /\ [][BlockingNext]_allVars /\ BlockingFairness

-----------------------------------------------------------------------------
(* Properties. *)

\* A blocking function returns the result of its own request or of the timeout,
\* not that of an earlier request that timed out and was answered late: unless
\* that one was sent again meanwhile, which takes fCSeq away from the request
\* that the timeout means (RTSPClient.cpp:1934-1937).
ResultIsOwn ==
  returned # None /\ ~lateResend => returned.result \in {returned.call, TimedOut}

\* A blocking function with a timeout returns, whatever becomes of the
\* connection and of the request.
TimedCallReturns == timer ~> blocked = None

\* A request that waits for the connection is sent, or its handler is told, as
\* long as somebody runs the event loop: the blocking functions run it only for
\* their own time.
ConnectionWaitersGoOn ==
  use = "callbacks" =>
    \A r \in Request : (r \in RangeOf(awaitConn)) ~> (r \notin RangeOf(awaitConn))

\* With a server that keeps its connections, does not redirect, and whose
\* responses fit the buffer, a client that waits for each answer gets it, its own
\* and whole, or an error, and is told once, however the responses are cut into
\* reads and although the first answer may be 401.
Plain(chunk) == chunk.code # "moved" /\ chunk.length + 1 < BufferSize

EveryRequestAnswered ==
  use = "blocking" /\ [](~peerGone /\ off = {} /\ \A i \in DOMAIN wireIn : Plain(wireIn[i]))
    => \A r \in Request : /\ [](calls[r] <= 1)
                          /\ Pending(r) ~> outcome[r] \in {"answered", "failed"}

\* Requests do not stay behind: neither in the queue for a connection nor, with a
\* plain server, in the one for responses.
RequestsGoOn == ConnectionWaitersGoOn /\ EveryRequestAnswered

=============================================================================

---------------------------- MODULE StreamClient ----------------------------
(***************************************************************************)
(* The AFDRTSP client library (AFDRTSP/AFDRTSPClient.cpp): its life cycle, *)
(* the chain OPTIONS, DESCRIBE, SETUP per track, PLAY that rtsp_play sets  *)
(* off and its response handlers carry on, the other calls of the          *)
(* application, the timer at the end of a stream, and the closing of a     *)
(* client from its own handlers.                                           *)
(*                                                                         *)
(* Of RTSPClient it keeps what decides which handler is called when: the   *)
(* outstanding requests, the connection, and the loop of                   *)
(* connectionHandler1 over the requests that waited for it.  A handler     *)
(* call is a step, so that a send that fails at once calls the next one.   *)
(*                                                                         *)
(* The application calls between events of the loop (the module RTSPClient *)
(* has the races of its calls with the loop), and only on a handle that is *)
(* not deleted.                                                            *)
(***************************************************************************)
EXTENDS Naturals, Sequences

CONSTANTS
  Client,        \* handles that create_new can return
  None,          \* NULL
  MaxTracks,     \* bound on the subsessions of a session
  MaxOpens,      \* bound on the calls of rtsp_play, per client
  MaxControls,   \* bound on the other calls, per client
  Controls,      \* the requests the application sends by itself
  ServerCloses   \* may an established connection end?

ASSUME StreamAssumption ==
  /\ None \notin Client
  /\ MaxTracks \in Nat /\ MaxOpens \in Nat /\ MaxControls \in Nat
  /\ Controls \subseteq {"PAUSE", "RESUME", "TEARDOWN"}
  /\ ServerCloses \in BOOLEAN

\* The commands of the chain, in order.
Chain == {"OPTIONS", "DESCRIBE", "SETUP", "PLAY"}

\* RESUME is the PLAY that rtsp_resume, rtsp_seek, rtsp_fast and rtsp_slow send.
Control == {"PAUSE", "RESUME", "TEARDOWN"}

\* The same before there is a session: *scs.session is a reference made from NULL,
\* and the request has neither a session nor a subsession.
Early == {"earlyPAUSE", "earlyRESUME", "earlyTEARDOWN"}
Unsessioned ==
  [PAUSE |-> "earlyPAUSE", RESUME |-> "earlyRESUME", TEARDOWN |-> "earlyTEARDOWN"]

Command == Chain \cup Control \cup Early

\* Commands that are given a session or one of its subsessions.
InSession == Control \cup {"SETUP", "PLAY"}

VARIABLES
  library,   \* is the poll thread running?
  life,      \* of each client: "unused", "live", "closed" (deleted), or
             \* "orphaned" by client_cleanup
  session,   \* scs.session: "none", "unending", or "finite" with a known end
  left,      \* subsessions scs.iter has still to give
  timed,     \* scs.duration > 0
  tasks,     \* streamTimerHandlers scheduled for the client
  token,     \* does streamTimerTask name the latest of them?
  started,   \* has the client ever reported that it plays?
  setUp,     \* did a SETUP ever bring a session id (fLastSessionId)?
  link,      \* the connection: "none", "connecting", "open", "ended" by the
             \* server, or "refused" and not yet reset
  awaiting,  \* both request queues
  running,   \* the response handler being called, with its client and result
  mode,      \* connectionHandler1: "idle", or "resuming" or "failing" requests
  owner,     \* the client it runs for
  tmp,       \* its tmpRequestQueue
  opened,    \* calls of rtsp_play so far
  controls   \* other calls so far

stream == <<session, left, timed, started, setUp>>
timer  == <<tasks, token>>
looped == <<mode, owner, tmp>>
asked  == <<opened, controls>>
vars == <<library, life, stream, timer, link, awaiting, running, looped, asked>>

Call == [client : Client, command : Command, ok : BOOLEAN]

TypeOK ==
  /\ library \in {"down", "up"}
  /\ life \in [Client -> {"unused", "live", "closed", "orphaned"}]
  /\ session \in [Client -> {"none", "unending", "finite"}]
  /\ left \in [Client -> 0 .. MaxTracks]
  /\ timed \in [Client -> BOOLEAN]
  /\ tasks \in [Client -> Nat]
  /\ token \in [Client -> BOOLEAN]
  /\ started \in [Client -> BOOLEAN]
  /\ setUp \in [Client -> BOOLEAN]
  /\ link \in [Client -> {"none", "connecting", "open", "ended", "refused"}]
  /\ awaiting \in [Client -> Seq(Command)]
  /\ running \in Call \cup {None}
  /\ mode \in {"idle", "resuming", "failing"}
  /\ owner \in Client \cup {None}
  /\ tmp \in Seq(Command)
  /\ opened \in [Client -> 0 .. MaxOpens]
  /\ controls \in [Client -> 0 .. MaxControls]

Init ==
  /\ library = "down"
  /\ life = [c \in Client |-> "unused"]
  /\ session = [c \in Client |-> "none"]
  /\ left = [c \in Client |-> 0]
  /\ timed = [c \in Client |-> FALSE]
  /\ tasks = [c \in Client |-> 0]
  /\ token = [c \in Client |-> FALSE]
  /\ started = [c \in Client |-> FALSE]
  /\ setUp = [c \in Client |-> FALSE]
  /\ link = [c \in Client |-> "none"]
  /\ awaiting = [c \in Client |-> <<>>]
  /\ running = None
  /\ mode = "idle" /\ owner = None /\ tmp = <<>>
  /\ opened = [c \in Client |-> 0]
  /\ controls = [c \in Client |-> 0]

\* The event loop is at its top.
LoopIdle == library = "up" /\ mode = "idle" /\ running = None

-----------------------------------------------------------------------------
(* Sending, and closing. *)

\* Mutant: no test for a session id.
AlwaysPrepared(c, cmd) == TRUE

\* "First, make sure that we have a RTSP session in progress": what follows a SETUP
\* needs the session id that one brought.  A request without a session that passes
\* has its subsession, NULL, dereferenced.
Prepared(c, cmd) == cmd \in {"OPTIONS", "DESCRIBE", "SETUP"} \/ setUp[c]

\* sendRequest: the request waits for a connection or a response ...
Queued(c, cmd) ==
  /\ awaiting' = [awaiting EXCEPT ![c] = Append(@, cmd)]
  /\ \E l \in {"connecting", "open"} :
       /\ link[c] \in {"none", l}
       /\ l = "open" => Prepared(c, cmd)
       /\ link' = [link EXCEPT ![c] = l]
  /\ running' = None

\* ... or is accepted by a socket whose peer is gone, and never answered ...
SentInVain(c, cmd) ==
  /\ link[c] = "ended" /\ Prepared(c, cmd)
  /\ running' = None
  /\ UNCHANGED <<awaiting, link>>

\* ... or fails at once, for want of a connection or of a session id: its response
\* handler is called before sendRequest returns.
FailsAtOnce(c, cmd) ==
  /\ \/ link[c] \in {"none", "ended", "refused"} /\ UNCHANGED link
     \/ /\ link[c] \in {"none", "open"} /\ ~Prepared(c, cmd)
        /\ link' = [link EXCEPT ![c] = "open"]
  /\ running' = [client |-> c, command |-> cmd, ok |-> FALSE]
  /\ UNCHANGED awaiting

Send(c, cmd) == Queued(c, cmd) \/ SentInVain(c, cmd) \/ FailsAtOnce(c, cmd)

\* shutdownStream and the destructors of client and StreamClientState, which
\* unschedules the task that tok names if there is a session s; n is the number
\* of tasks before.  The TEARDOWN sent first has no handler.
Close(c, s, tok, n) ==
  /\ life' = [life EXCEPT ![c] = "closed"]
  /\ session' = [session EXCEPT ![c] = "none"]
  /\ tasks' = [tasks EXCEPT ![c] = IF s # "none" /\ tok THEN n - 1 ELSE n]
  /\ token' = [token EXCEPT ![c] = FALSE]
  /\ link' = [link EXCEPT ![c] = "none"]
  /\ awaiting' = [awaiting EXCEPT ![c] = <<>>]
  /\ running' = None
  /\ UNCHANGED <<left, timed, started, setUp>>

Shutdown(c) == Close(c, session[c], token[c], tasks[c])

-----------------------------------------------------------------------------
(* Calls of the application. *)

\* A failed start of the thread is not followed further.
ClientInit ==
  /\ library = "down"
  /\ library' = "up"
  /\ UNCHANGED <<life, stream, timer, link, awaiting, running, looped, asked>>

\* pollthread->Stop() waits for the loop to leave its step.
ClientCleanup ==
  /\ LoopIdle
  /\ library' = "down"
  /\ life' = [c \in Client |-> IF life[c] = "live" THEN "orphaned" ELSE life[c]]
  /\ UNCHANGED <<stream, timer, link, awaiting, running, looped, asked>>

CreateNew(c) ==
  /\ library = "up"
  /\ life[c] = "unused"
  /\ life' = [life EXCEPT ![c] = "live"]
  /\ UNCHANGED <<library, stream, timer, link, awaiting, running, looped, asked>>

RtspPlay(c) ==
  /\ LoopIdle /\ life[c] = "live"
  /\ opened[c] < MaxOpens
  /\ opened' = [opened EXCEPT ![c] = @ + 1]
  /\ Send(c, "OPTIONS")
  /\ UNCHANGED <<library, life, stream, timer, looped, controls>>

\* What a call sends, by the session there is.
Request(c, cmd) == IF session[c] = "none" THEN Unsessioned[cmd] ELSE cmd

\* rtsp_pause, rtsp_resume, rtsp_seek, rtsp_fast, rtsp_slow, rtsp_stop, whether or
\* not the stream was described.
RtspControl(c, cmd) ==
  /\ LoopIdle /\ life[c] = "live"
  /\ controls[c] < MaxControls
  /\ controls' = [controls EXCEPT ![c] = @ + 1]
  /\ Send(c, Request(c, cmd))
  /\ UNCHANGED <<library, life, stream, timer, looped, opened>>

-----------------------------------------------------------------------------
(* The response handlers. *)

\* The handler of cmd is being called for a client that still exists.
Calling(c, cmd) ==
  /\ running # None
  /\ running.client = c /\ running.command = cmd
  /\ life[c] = "live"

HandlerReturns == running' = None /\ UNCHANGED <<life, stream, timer, link, awaiting>>

ContinueAfterOPTIONS(c) ==
  /\ Calling(c, "OPTIONS")
  /\ Send(c, "DESCRIBE")
  /\ UNCHANGED <<library, life, stream, timer, looped, asked>>

\* Mutant: the last subsession is taken for the end of the list.
SkipsLast(c, n) == n < 2

NoneLeft(c, n) == n = 0

\* setupNextSubsession, when scs.session is s and its iterator has n to give.
SetupNext(c, s, n) ==
  /\ session' = [session EXCEPT ![c] = s]
  /\ IF NoneLeft(c, n)
     THEN /\ timed' = [timed EXCEPT ![c] = (s = "finite")]
          /\ left' = [left EXCEPT ![c] = n]
          /\ Send(c, "PLAY")
     ELSE /\ left' = [left EXCEPT ![c] = n - 1]
          /\ UNCHANGED timed
          /\ Send(c, "SETUP")
  /\ UNCHANGED <<life, timer, started, setUp>>

\* No MediaSession can be made of the description, or one without subsessions.
BadDescription(c) == \E s \in {"none", "unending"} : Close(c, s, token[c], tasks[c])

ContinueAfterDESCRIBE(c) ==
  /\ Calling(c, "DESCRIBE")
  /\ \/ running.ok /\ \E s \in {"unending", "finite"}, n \in 1 .. MaxTracks : SetupNext(c, s, n)
     \/ running.ok /\ BadDescription(c)
     \/ ~running.ok /\ Shutdown(c)
  /\ UNCHANGED <<library, looped, asked>>

\* Mutant: a refused SETUP ends the chain.
OnlyIfSetUp(c) ==
  IF running.ok THEN SetupNext(c, session[c], left[c]) ELSE HandlerReturns

\* "Set up the next subsession, if any", whatever the result.
AfterSetup(c) == SetupNext(c, session[c], left[c])

ContinueAfterSETUP(c) ==
  /\ Calling(c, "SETUP")
  /\ AfterSetup(c)
  /\ UNCHANGED <<library, looped, asked>>

\* Of the chain or of the application: schedules a timer in either case.
ContinueAfterPLAY(c) ==
  /\ \E cmd \in {"PLAY", "RESUME", "earlyRESUME"} : Calling(c, cmd)
  /\ IF running.ok
     THEN /\ tasks' = [tasks EXCEPT ![c] = IF timed[c] THEN @ + 1 ELSE @]
          /\ token' = [token EXCEPT ![c] = @ \/ timed[c]]
          /\ started' = [started EXCEPT ![c] = TRUE]
          /\ running' = None
          /\ UNCHANGED <<life, session, left, timed, setUp, link, awaiting>>
     ELSE Shutdown(c)
  /\ UNCHANGED <<library, looped, asked>>

\* The handlers of PAUSE and TEARDOWN do nothing; the client stays.
ContinueAfterPAUSEorTEARDOWN(c) ==
  /\ \E cmd \in {"PAUSE", "TEARDOWN", "earlyPAUSE", "earlyTEARDOWN"} : Calling(c, cmd)
  /\ HandlerReturns
  /\ UNCHANGED <<library, looped, asked>>

\* The client was deleted under its handler; what the handler does to the freed
\* memory is not followed.
HandlerOfClosed ==
  /\ running # None /\ life[running.client] # "live"
  /\ HandlerReturns
  /\ UNCHANGED <<library, looped, asked>>

-----------------------------------------------------------------------------
(* Events of the loop. *)

\* streamTimerTask as streamTimerHandler leaves it.
TokenReset(c) == FALSE

\* streamTimerHandler.  For a client that is gone, see HandlerOfClosed.
StreamTimer(c) ==
  /\ LoopIdle
  /\ tasks[c] > 0
  /\ \/ life[c] = "live" /\ Close(c, session[c], TokenReset(c), tasks[c] - 1)
     \/ /\ life[c] = "closed"
        /\ tasks' = [tasks EXCEPT ![c] = @ - 1]
        /\ UNCHANGED <<life, stream, token, link, awaiting, running>>
  /\ UNCHANGED <<library, looped, asked>>

\* A response, good or bad, to the first outstanding request.  A SETUP's may bring
\* the session id and still be bad, by its Transport header.
Answered(c, ok) ==
  /\ LoopIdle /\ life[c] = "live"
  /\ link[c] = "open" /\ awaiting[c] # <<>>
  /\ awaiting' = [awaiting EXCEPT ![c] = Tail(@)]
  /\ running' = [client |-> c, command |-> Head(awaiting[c]), ok |-> ok]
  /\ \E id \in BOOLEAN :
       /\ id => Head(awaiting[c]) = "SETUP"
       /\ ok /\ Head(awaiting[c]) = "SETUP" => id
       /\ setUp' = [setUp EXCEPT ![c] = @ \/ id]
  /\ UNCHANGED <<library, life, session, left, timed, started, timer, link, looped, asked>>

\* The server, or the network, ends the connection: what is outstanding is never
\* answered and no handler told.
ConnectionEnds(c) ==
  /\ ServerCloses
  /\ life[c] = "live" /\ link[c] = "open"
  /\ link' = [link EXCEPT ![c] = "ended"]
  /\ awaiting' = [awaiting EXCEPT ![c] = <<>>]
  /\ UNCHANGED <<library, life, stream, timer, running, looped, asked>>

\* handleResponseBytes reads nothing and resets the sockets.
ReadEnd(c) ==
  /\ LoopIdle /\ life[c] = "live"
  /\ link[c] = "ended"
  /\ link' = [link EXCEPT ![c] = "none"]
  /\ UNCHANGED <<library, life, stream, timer, awaiting, running, looped, asked>>

\* connectionHandler1 learns whether the connection was made.
ConnectionHandler(c, made) ==
  /\ LoopIdle /\ life[c] = "live"
  /\ link[c] = "connecting"
  /\ link' = [link EXCEPT ![c] = IF made THEN "open" ELSE "refused"]
  /\ mode' = IF made THEN "resuming" ELSE "failing"
  /\ owner' = c
  /\ tmp' = awaiting[c]
  /\ awaiting' = [awaiting EXCEPT ![c] = <<>>]
  /\ UNCHANGED <<library, life, stream, timer, running, asked>>

\* sendRequest on a deleted owner is not followed.
ResumeNext ==
  /\ mode = "resuming" /\ tmp # <<>> /\ running = None
  /\ tmp' = Tail(tmp)
  /\ \/ life[owner] = "live" /\ Send(owner, Head(tmp))
     \/ life[owner] # "live" /\ UNCHANGED <<link, awaiting, running>>
  /\ UNCHANGED <<library, life, stream, timer, mode, owner, asked>>

\* The client is not looked at again between two requests.
FailNext ==
  /\ mode = "failing" /\ tmp # <<>> /\ running = None
  /\ tmp' = Tail(tmp)
  /\ running' = [client |-> owner, command |-> Head(tmp), ok |-> FALSE]
  /\ UNCHANGED <<library, life, stream, timer, link, awaiting, mode, owner, asked>>

\* The loop is done; after a failure, resetTCPSockets.
ConnectionHandlerReturns ==
  /\ mode # "idle" /\ tmp = <<>> /\ running = None
  /\ mode' = "idle" /\ owner' = None
  /\ link' = [link EXCEPT ![owner] = IF mode = "failing" THEN "none" ELSE @]
  /\ UNCHANGED <<library, life, stream, timer, awaiting, running, tmp, asked>>

-----------------------------------------------------------------------------
Handlers(c) ==
  \/ ContinueAfterOPTIONS(c)
  \/ ContinueAfterDESCRIBE(c)
  \/ ContinueAfterSETUP(c)
  \/ ContinueAfterPLAY(c)
  \/ ContinueAfterPAUSEorTEARDOWN(c)

Next ==
  \/ ClientInit \/ ClientCleanup
  \/ HandlerOfClosed
  \/ ResumeNext \/ FailNext \/ ConnectionHandlerReturns
  \/ \E c \in Client :
       \/ CreateNew(c) \/ RtspPlay(c)
       \/ \E cmd \in Controls : RtspControl(c, cmd)
       \/ Handlers(c)
       \/ StreamTimer(c)
       \/ \E ok \in BOOLEAN : Answered(c, ok) \/ ConnectionHandler(c, ok)
       \/ ConnectionEnds(c) \/ ReadEnd(c)

\* Code that was called goes on; scheduled tasks run; select() reports the end of
\* a connection attempt; the server answers on a connection that stands.  The
\* calls of the application and the end of a connection are left open.
Fairness ==
  /\ WF_vars(HandlerOfClosed) /\ WF_vars(ResumeNext) /\ WF_vars(FailNext)
  /\ WF_vars(ConnectionHandlerReturns)
  /\ \A c \in Client :
       /\ WF_vars(Handlers(c)) /\ WF_vars(StreamTimer(c)) /\ WF_vars(ReadEnd(c))
       /\ WF_vars(\E ok \in BOOLEAN : Answered(c, ok))
       /\ WF_vars(\E made \in BOOLEAN : ConnectionHandler(c, made))

Spec == Init /\ [][Next]_vars /\ Fairness

-----------------------------------------------------------------------------
(* Properties. *)

\* Every command of c whose handler is still to be called.
Outstanding(c) ==
  awaiting[c] \o (IF owner = c THEN tmp ELSE <<>>)
    \o (IF running # None /\ running.client = c THEN <<running.command>> ELSE <<>>)

\* A command that was given scs.session or one of its subsessions is outstanding
\* only while that session exists.  One that was given NULL, by a call before the
\* DESCRIBE response, is never built, which would dereference it: it can at most
\* wait for the connection, and is refused and gone before a SETUP brings the
\* session id that sendRequest tests for.
CommandsHaveSession ==
  \A c \in Client : life[c] = "live" =>
    /\ session[c] = "none" => ~setUp[c]
    /\ \A i \in DOMAIN Outstanding(c) :
         /\ Outstanding(c)[i] \in InSession => session[c] # "none"
         /\ Outstanding(c)[i] \in Early => ~setUp[c]
    /\ \A i \in DOMAIN awaiting[c] : awaiting[c][i] \in Early => link[c] = "connecting"

\* "We've finished setting up all of the subsessions.  Now, send a RTSP PLAY":
\* the chain has one command outstanding at a time, and its PLAY comes when every
\* subsession was offered to the server.
PlayFollowsSetups ==
  \A c \in Client : life[c] = "live" =>
    \A i \in DOMAIN Outstanding(c) :
      /\ Outstanding(c)[i] = "PLAY" => left[c] = 0
      /\ \A j \in DOMAIN Outstanding(c) :
           Outstanding(c)[i] \in Chain /\ Outstanding(c)[j] \in Chain => i = j

\* A client reports that it plays only if the
\* server set up a track for it, also when SETUPs were refused, connections lost and
\* requests queued before there was a session id.
PlayingIsSetUp == \A c \in Client : started[c] => setUp[c]

\* "We also need to delete session, and unschedule streamTimerTask (if set)": no
\* timer is left behind for a client that was deleted.  It holds, and is proved,
\* for an application that sends no PLAY of its own.
ScheduledIsLive == \A c \in Client : life[c] = "closed" => tasks[c] = 0

\* As long as the server keeps the connection, a stream that was opened plays
\* without end, or ends and its client is closed: by its timer or by an error.
StreamRunsItsCourse ==
  \A c \in Client :
    [](link[c] # "ended") =>
      (opened[c] > 0 ~> (life[c] # "live" \/ (started[c] /\ session[c] = "unending")))

=============================================================================

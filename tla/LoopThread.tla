------------------------------- MODULE LoopThread -------------------------------
(***************************************************************************)
(* The life of the server library's event loop: server_init, run_rtsp_srv  *)
(* and server_cleanup (AFDRTSPServer.cpp) in the application's thread,     *)
(* AFDPollThread and JThread (pthread) under them, and the loop's threads. *)
(* The client library starts and stops its loop in the same way.           *)
(*                                                                         *)
(* JThread's runningmutex is only held around one access of "running", so  *)
(* that access is a step; continuemutex and continuemutex2, which order    *)
(* the two threads, are variables.  Every thread that is created gets the  *)
(* next number.  The application calls the library from one thread, and    *)
(* calls run_rtsp_srv and server_cleanup after a server_init.              *)
(***************************************************************************)
EXTENDS EventTriggers

CONSTANT MaxThreads  \* bound on the threads ever created

ASSUME ThreadAssumption == MaxThreads \in Nat \ {0}

VARIABLES
  runtime,    \* g_server_rt: whether it exists, and its init_flag
  object,     \* the AFDPollThread object: "none", "live" or "deleted"
  server,     \* g_server_rt->server
  running,    \* JThread::running
  stop,       \* AFDPollThread::stop
  continue1,  \* holder of continuemutex: 0, "app" or a thread
  continue2,  \* holder of continuemutex2
  app,        \* where the application's thread is
  place,      \* where each thread is
  created     \* threads created so far

lifeVars == <<runtime, object, server, running, stop, continue1, continue2, app, place, created>>
loopVars == <<lifeVars, trigVars>>

Thread == 1 .. MaxThreads
Free == 0
App == MaxThreads + 1   \* the application's thread, as a holder of a mutex

LoopTypeOK ==
  /\ TriggerTypeOK
  /\ runtime \in {"none", "failed", "initialised"}
  /\ object \in {"none", "live", "deleted"}
  /\ server \in {"none", "listening"}
  /\ running \in BOOLEAN
  /\ stop \in BOOLEAN
  /\ continue1 \in {Free, App} \cup Thread
  /\ continue2 \in {Free, App} \cup Thread
  /\ app \in {"idle", "create", "wait", "go", "meet", "met", "started", "stopping", "joined"}
  /\ place \in [Thread -> {"none", "born", "ready", "pass", "enter", "loop", "select", "triggers", "left", "gone"}]
  /\ created \in 0 .. MaxThreads

LoopInit ==
  /\ usage \in Usages
  /\ calls = 0
  /\ FreshTriggers
  /\ runtime = "none"
  /\ object = "none"
  /\ server = "none"
  /\ running = FALSE
  /\ stop = FALSE
  /\ continue1 = Free
  /\ continue2 = Free
  /\ app = "idle"
  /\ place = [t \in Thread |-> "none"]
  /\ created = 0

-----------------------------------------------------------------------------
(* The application's thread. *)

\* server_init up to the new AFDPollThread; its Start finds running FALSE and
\* resets stop, JThread::Start takes continuemutex.
ServerInit ==
  /\ app = "idle"
  /\ call["app"].at = "idle"
  /\ runtime # "initialised"
  /\ created < MaxThreads
  /\ runtime' = "failed"
  /\ object' = "live"
  /\ running' = FALSE
  /\ stop' = FALSE
  /\ continue1' = App
  /\ app' = "create"
  /\ ResetTriggers
  /\ UNCHANGED <<server, continue2, place, created>>

\* pthread_create
CreateThread ==
  /\ app = "create"
  /\ created' = created + 1
  /\ place' = [place EXCEPT ![created + 1] = "born"]
  /\ app' = "wait"
  /\ UNCHANGED <<runtime, object, server, running, stop, continue1, continue2, trigVars>>

\* Start returns ERR_JTHREAD_CANTSTARTTHREAD; init_flag stays false.
CreateFails ==
  /\ app = "create"
  /\ created' = created + 1
  /\ place' = [place EXCEPT ![created + 1] = "gone"]
  /\ continue1' = Free
  /\ app' = "idle"
  /\ UNCHANGED <<runtime, object, server, running, stop, continue2, trigVars>>

SeesRunning ==
  /\ app = "wait"
  /\ running
  /\ app' = "go"
  /\ UNCHANGED <<runtime, object, server, running, stop, continue1, continue2, place, created, trigVars>>

ReleaseContinue ==
  /\ app = "go"
  /\ continue1' = Free
  /\ app' = "meet"
  /\ UNCHANGED <<runtime, object, server, running, stop, continue2, place, created, trigVars>>

\* continuemutex2.Lock and Unlock: ThreadStarted has been called.
MeetThread ==
  /\ app = "meet"
  /\ continue2 = Free
  /\ runtime' = "initialised"
  /\ app' = "idle"
  /\ UNCHANGED <<object, server, running, stop, continue1, continue2, place, created, trigVars>>

\* run_rtsp_srv; the listening socket is watched from now on.  The server of
\* an earlier call would be forgotten, so it is called once.
RunRtspSrv ==
  /\ app = "idle"
  /\ call["app"].at = "idle"
  /\ runtime = "initialised"
  /\ server = "none"
  /\ server' = "listening"
  /\ UNCHANGED <<runtime, object, running, stop, continue1, continue2, app, place, created, trigVars>>

\* server_cleanup, Stop: nothing to do unless init_flag is set.
ServerCleanup ==
  /\ app = "idle"
  /\ call["app"].at = "idle"
  /\ runtime = "initialised"
  /\ IF running THEN stop' = TRUE /\ app' = "stopping"
                ELSE stop' = stop /\ app' = "joined"
  /\ UNCHANGED <<runtime, object, server, running, continue1, continue2, place, created, trigVars>>

\* Mutant: Stop sets the flag and does not wait for the loop.
StopAtOnce ==
  /\ app = "stopping"
  /\ stop' = FALSE
  /\ app' = "joined"
  /\ UNCHANGED <<runtime, object, server, running, continue1, continue2, place, created, trigVars>>

\* Stop polls IsRunning and then resets the flag.
SeesStopped ==
  /\ app = "stopping"
  /\ ~running
  /\ stop' = FALSE
  /\ app' = "joined"
  /\ UNCHANGED <<runtime, object, server, running, continue1, continue2, place, created, trigVars>>

\* Then the poll thread's object, the server and the runtime are deleted.
DeleteRuntime ==
  /\ app = "joined"
  /\ object' = "deleted"
  /\ server' = "none"
  /\ runtime' = "none"
  /\ app' = "idle"
  /\ UNCHANGED <<running, stop, continue1, continue2, place, created, trigVars>>

\* The application's own thread signals an event to a loop it knows.
AppTriggers ==
  \/ /\ app = "idle"
     /\ runtime = "initialised"
     /\ \E t \in Trigger : BeginTrigger("app", t)
     /\ UNCHANGED lifeVars
  \/ TriggerStep("app") /\ UNCHANGED lifeVars

AppStep ==
  \/ ServerInit \/ CreateThread \/ CreateFails \/ SeesRunning \/ ReleaseContinue \/ MeetThread
  \/ RunRtspSrv \/ ServerCleanup \/ SeesStopped \/ DeleteRuntime \/ AppTriggers

-----------------------------------------------------------------------------
(* JThread::TheThread and the loop. *)

Goes(t, from, to) == place[t] = from /\ place' = [place EXCEPT ![t] = to]

LockContinue2(t) ==
  /\ Goes(t, "born", "ready")
  /\ continue2 = Free
  /\ continue2' = t
  /\ UNCHANGED <<runtime, object, server, running, stop, continue1, app, created, trigVars>>

SetRunning(t) ==
  /\ Goes(t, "ready", "pass")
  /\ running' = TRUE
  /\ UNCHANGED <<runtime, object, server, stop, continue1, continue2, app, created, trigVars>>

\* continuemutex.Lock and Unlock: Start has seen that the thread runs.
PassContinue(t) ==
  /\ Goes(t, "pass", "enter")
  /\ continue1 = Free
  /\ UNCHANGED <<runtime, object, server, running, stop, continue1, continue2, app, created, trigVars>>

\* Mutant: Thread() does not say that it has started.
NeverStarted(t) ==
  /\ Goes(t, "enter", "loop")
  /\ UNCHANGED <<runtime, object, server, running, stop, continue1, continue2, app, created, trigVars>>

\* AFDPollThread::Thread calls ThreadStarted, which unlocks continuemutex2.
ThreadStarted(t) ==
  /\ Goes(t, "enter", "loop")
  /\ continue2' = Free
  /\ UNCHANGED <<runtime, object, server, running, stop, continue1, app, created, trigVars>>

\* doEventLoop tests the watch variable before each SingleStep.
LoopTest(t) ==
  /\ Goes(t, "loop", IF stop THEN "left" ELSE "select")
  /\ UNCHANGED <<runtime, object, server, running, stop, continue1, continue2, app, created, trigVars>>

\* A socket handler or a delayed task uses the triggers.
HandlerTriggers(t) ==
  /\ place[t] = "select"
  /\ \/ CreateEventTrigger
     \/ \E u \in Trigger : DeleteEventTrigger(u)
     \/ \E u \in Trigger : BeginTrigger("loop", u)
     \/ TriggerStep("loop")
  /\ UNCHANGED lifeVars

\* select returns, within the 10 ms of schedulerTickTask, and its handler too.
SelectEnds(t) ==
  /\ Goes(t, "select", "triggers")
  /\ call["loop"].at = "idle"
  /\ search' = [NoSearch EXCEPT !.at = "check"]
  /\ UNCHANGED <<runtime, object, server, running, stop, continue1, continue2, app, created>>
  /\ UNCHANGED <<shared, call, owed, calls, usage>>

HandleTriggers(t) ==
  /\ place[t] = "triggers"
  /\ SearchStep
  /\ UNCHANGED lifeVars

StepEnds(t) ==
  /\ Goes(t, "triggers", "loop")
  /\ search.at = "done"
  /\ UNCHANGED <<runtime, object, server, running, stop, continue1, continue2, app, created, trigVars>>

\* running = false is the last access of a thread to its object.
ThreadEnds(t) ==
  /\ Goes(t, "left", "gone")
  /\ running' = FALSE
  /\ UNCHANGED <<runtime, object, server, stop, continue1, continue2, app, created, trigVars>>

ThreadStep(t) ==
  \/ LockContinue2(t) \/ SetRunning(t) \/ PassContinue(t) \/ ThreadStarted(t) \/ LoopTest(t)
  \/ HandlerTriggers(t) \/ SelectEnds(t) \/ HandleTriggers(t) \/ StepEnds(t) \/ ThreadEnds(t)

\* Every thread has been used; nothing is left to watch.
Finished ==
  /\ app = "idle"
  /\ created = MaxThreads
  /\ runtime # "initialised"
  /\ UNCHANGED loopVars

LoopNext == AppStep \/ (\E t \in Thread : ThreadStep(t)) \/ Finished

\* A thread that can go on does, and select returns; a handler that started a
\* triggerEvent finishes it.  What the application calls is left open.
LoopFairness ==
  /\ WF_loopVars(CreateThread \/ SeesRunning \/ ReleaseContinue \/ MeetThread \/ SeesStopped \/ DeleteRuntime)
  /\ WF_loopVars(TriggerStep("app") /\ UNCHANGED lifeVars)
  /\ \A t \in Thread :
       /\ WF_loopVars(LockContinue2(t)) /\ WF_loopVars(SetRunning(t)) /\ WF_loopVars(PassContinue(t))
       /\ WF_loopVars(ThreadStarted(t)) /\ WF_loopVars(LoopTest(t)) /\ WF_loopVars(SelectEnds(t))
       /\ WF_loopVars(place[t] = "select" /\ TriggerStep("loop") /\ UNCHANGED lifeVars)
       /\ WF_loopVars(HandleTriggers(t)) /\ WF_loopVars(StepEnds(t)) /\ WF_loopVars(ThreadEnds(t))

LoopSpec == LoopInit /\ [][LoopNext]_loopVars /\ LoopFairness

-----------------------------------------------------------------------------
(* Properties. *)

Alive(t) == place[t] \notin {"none", "gone"}

\* A thread that may still use its AFDPollThread finds it there, and it is the
\* only one in the loop: server_cleanup deletes the object only after the loop
\* was left, and an init after it starts with no old loop.  (AFDRTSPServer.cpp
\* 82-98, AFDPollThread.cpp 44-70.)
LoopKeepsItsObject ==
  \A t \in Thread : Alive(t) => /\ object = "live"
                                /\ \A u \in Thread : Alive(u) => u = t

\* When server_init has returned true, the thread runs its loop, or was told
\* to stop: nothing of JThread::Start's handshake is left.  (jthread.cpp 48-115.)
StartedIsInLoop ==
  runtime = "initialised" =>
    /\ continue1 = Free /\ continue2 = Free
    /\ app = "idle" => running /\ \E t \in Thread : place[t] \in {"loop", "select", "triggers"}

\* The loop's object and thread are whole: the thread finds its object, one that
\* was started is in its loop, and the trigger it used last is what it says.
LoopIsSound == LoopKeepsItsObject /\ StartedIsInLoop /\ LastUsedAgrees

\* Every server_init and every server_cleanup that begins comes back.
CallsReturn == app # "idle" ~> app = "idle"

\* An event whose triggerEvent has returned is handled, with its data or newer,
\* unless its loop is stopped; this for handlers that trigger any events and
\* for one foreign thread that triggers one.  (UsageEnvironment.hh 144-149.)
TriggeredIsHandled ==
  \A t \in Trigger : owed[t] # 0 ~> owed[t] = 0 \/ stop \/ ~running

=============================================================================

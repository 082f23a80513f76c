--------------------------- MODULE ServerSessions ---------------------------
(***************************************************************************)
(* The session management of RTSPServer (liveMedia/RTSPServer.cpp): the    *)
(* table of ServerMediaSession objects, their reference counts, and one    *)
(* RTSPClientSession per TCP control connection.                           *)
(*                                                                         *)
(* Every action is one handler run by the event loop: a complete request,  *)
(* a failed read, an expired liveness task.  The loop is single-threaded,  *)
(* so a handler is atomic; what interleaves are the clients, their silent  *)
(* disappearance and the liveness timers.  A request that is not yet       *)
(* complete changes nothing modelled here (it only re-arms the timer).     *)
(*                                                                         *)
(* A media session made by DESCRIBE has exactly one track (RTSPServer.cpp  *)
(* 621), so a client's track array is identified by the object whose       *)
(* tracks it points to.                                                    *)
(***************************************************************************)
EXTENDS Naturals, FiniteSets

CONSTANTS
  Client,       \* control connections
  Object,       \* heap slots for ServerMediaSession objects (bounds the heap)
  Name,         \* stream names and request paths, the keys of the session table
  DescribeURL,  \* what DESCRIBE may name: <<urlTotalSuffix, urlSuffix>>
  None,         \* NULL
  HasDescribe,  \* is g_pstCallback->describe non-NULL?
  HasSetup,     \* is g_pstCallback->setup non-NULL?
  MaxRefs       \* bound on a reference count: SETUP is not sent beyond it

ASSUME ServerAssumption ==
  /\ IsFiniteSet(Client)
  /\ Name # {}
  /\ DescribeURL \subseteq Name \X Name
  /\ None \notin Object
  /\ HasDescribe \in BOOLEAN /\ HasSetup \in BOOLEAN
  /\ MaxRefs \in Nat \ {0}

VARIABLES
  table,       \* fServerMediaSessions: stream name -> object
  life,        \* is the heap slot free or a live object?
  streamName,  \* fStreamName of each object
  refs,        \* fReferenceCount of each object
  open,        \* client sessions that exist
  ours,        \* fOurServerMediaSession of each client session
  streams,     \* the object whose tracks fStreamStates points to
  reader,      \* client sessions with a registered read handler
  timer,       \* client sessions with a scheduled fLivenessCheckTask
  app,         \* the last thing the callbacks told the application of the session
  vanished     \* connections whose peer went away without closing (no more bytes)

heap    == <<table, life, streamName, refs>>
clients == <<open, ours, streams, reader, timer>>
vars    == <<heap, clients, app, vanished>>

\* The track part of a URL: the session's one track, no such track, or absent.
Track    == {"track1", "unknown", "absent"}
AppView  == {"nothing", "setup", "playing", "paused", "torndown"}
Accepted == {"setup", "playing", "paused"}
ObjectOrNone == Object \cup {None}

TypeOK ==
  /\ table \in [Name -> ObjectOrNone]
  /\ life \in [Object -> {"free", "live"}]
  /\ streamName \in [Object -> Name]
  /\ refs \in [Object -> Nat]
  /\ open \subseteq Client
  /\ ours \in [Client -> ObjectOrNone]
  /\ streams \in [Client -> ObjectOrNone]
  /\ reader \subseteq Client
  /\ timer \subseteq Client
  /\ app \in [Client -> AppView]
  /\ vanished \subseteq Client

Init ==
  /\ table = [n \in Name |-> None]
  /\ life = [o \in Object |-> "free"]
  /\ streamName = [o \in Object |-> CHOOSE n \in Name : TRUE]
  /\ refs = [o \in Object |-> 0]
  /\ open = {}
  /\ ours = [c \in Client |-> None]
  /\ streams = [c \in Client |-> None]
  /\ reader = {}
  /\ timer = {}
  /\ app = [c \in Client |-> "nothing"]
  /\ vanished = {}

-----------------------------------------------------------------------------
(* Helpers, each the effect of one function of the source. *)

\* Mutant: a forgotten increment.
NoIncrement(r, o) == r

\* decrementReferenceCount.
Decrement(r, o) ==
  IF o = None THEN r ELSE [r EXCEPT ![o] = IF @ > 0 THEN @ - 1 ELSE @]

Increment(r, o) == [r EXCEPT ![o] = @ + 1]

\* fServerMediaSessions->Remove(streamName): by name, whatever it maps to.
Unlist(t, o) == [t EXCEPT ![streamName[o]] = None]

\* A request handler of c runs: the socket is watched and the peer sends.
Receives(c) == c \in open /\ c \in reader /\ c \notin vanished

\* Mutant: the liveness task is not scheduled.
DoNotNoteLiveness(c) == UNCHANGED timer

\* noteLiveness; fReclamationTestSeconds is positive (65 unless overridden).
NoteLiveness(c) == timer' = timer \cup {c}

\* The handler of c ends with a response and the session stays.
Stays(c) == NoteLiveness(c) /\ UNCHANGED <<open, reader>>

\* closeSockets.
CloseSockets(c) ==
  /\ timer' = timer \ {c}
  /\ reader' = reader \ {c}

\* ~RTSPClientSession of c, whose fOurServerMediaSession is o when the
\* reference counts are r; the last client to leave o unlists and closes it.
DeleteClientSession(c, o, r) ==
  LET left == Decrement(r, o)
      last == o # None /\ left[o] = 0
  IN /\ CloseSockets(c)
     /\ open' = open \ {c}
     /\ ours' = [ours EXCEPT ![c] = None]
     /\ streams' = [streams EXCEPT ![c] = None]
     /\ refs' = left
     /\ table' = IF last THEN Unlist(table, o) ELSE table
     /\ life' = IF last THEN [life EXCEPT ![o] = "free"] ELSE life
     /\ UNCHANGED streamName

-----------------------------------------------------------------------------
(* Connections. *)

\* incomingConnectionHandler and the RTSPClientSession constructor.
AcceptConnection(c) ==
  /\ c \notin open
  /\ open' = open \cup {c}
  /\ reader' = reader \cup {c}
  /\ NoteLiveness(c)
  /\ ours' = [ours EXCEPT ![c] = None]
  /\ streams' = [streams EXCEPT ![c] = None]
  /\ app' = [app EXCEPT ![c] = "nothing"]
  /\ vanished' = vanished \ {c}
  /\ UNCHANGED heap

\* The peer loses power or network: no FIN, no RST, no further byte.
PeerVanishes(c) ==
  /\ Receives(c)
  /\ vanished' = vanished \cup {c}
  /\ UNCHANGED <<heap, clients, app>>

\* handleRequestBytes with newBytesRead <= 0 (the peer closed, or the socket
\* failed) or with a request that fills the buffer.
ReadFails(c) ==
  /\ Receives(c)
  /\ DeleteClientSession(c, ours[c], refs)
  /\ UNCHANGED <<app, vanished>>

\* livenessTimeoutTask.
LivenessTimeout(c) ==
  /\ c \in timer
  /\ DeleteClientSession(c, ours[c], refs)
  /\ UNCHANGED <<app, vanished>>

-----------------------------------------------------------------------------
(* DESCRIBE.  The session is looked up under the whole path, and created and *)
(* added under its last component.                                           *)

\* handleCmd_notFound: the callback refuses, or there is no callback to ask
\* and no such session.
DescribeNotFound(c, u) ==
  /\ Receives(c)
  /\ HasDescribe \/ table[u[1]] = None
  /\ DeleteClientSession(c, ours[c], refs)
  /\ UNCHANGED <<app, vanished>>

\* The session exists: only a response is sent.
DescribeExisting(c, u) ==
  /\ Receives(c)
  /\ table[u[1]] # None
  /\ Stays(c)
  /\ UNCHANGED <<heap, ours, streams, app, vanished>>

\* The callback accepts a path that has no session: createNew, then
\* addServerMediaSession, whose removeServerMediaSession(existing) unlists by name.
DescribeNew(c, u, o) ==
  LET existing == table[u[2]]
      added == [table EXCEPT ![u[2]] = o]
      born == [life EXCEPT ![o] = "live"]
  IN /\ Receives(c)
     /\ HasDescribe
     /\ table[u[1]] = None
     /\ life[o] = "free"
     /\ streamName' = [streamName EXCEPT ![o] = u[2]]
     /\ refs' = [refs EXCEPT ![o] = 0]
     /\ table' = IF existing = None THEN added ELSE Unlist(added, existing)
     /\ life' = IF existing # None /\ refs[existing] = 0
                  THEN [born EXCEPT ![existing] = "free"] ELSE born
     /\ Stays(c)
     /\ UNCHANGED <<ours, streams, app, vanished>>

\* removeServerMediaSession(char const*), public: new clients no longer find it.
RemoveServerMediaSession(n) ==
  LET o == table[n]
  IN /\ o # None
     /\ table' = Unlist(table, o)
     /\ life' = IF refs[o] = 0 THEN [life EXCEPT ![o] = "free"] ELSE life
     /\ UNCHANGED <<streamName, refs, clients, app, vanished>>

-----------------------------------------------------------------------------
(* SETUP for stream n and track t. *)

\* The client goes on with the session it has.  Without a track in the URL the
\* stream name is parsed as empty, which differs from every session's name.
KeepsSession(c, n, t) ==
  t # "absent" /\ ours[c] # None /\ streamName[ours[c]] = n

\* The session the request is about after the lookup.
SetupTarget(c, n, t) == IF KeepsSession(c, n, t) THEN ours[c] ELSE table[n]

\* The reference counts once SETUP took its reference.  A client that changes
\* stream forgets its old session without giving its reference back.
SetupRefs(c, n, t) ==
  IF KeepsSession(c, n, t) THEN refs ELSE Increment(refs, SetupTarget(c, n, t))

\* handleCmd_notFound before any reference is taken: the session that is
\* deleted holds nothing any more, so an old reference is lost.
SetupNoSession(c, n, t) ==
  /\ Receives(c)
  /\ SetupTarget(c, n, t) = None
  /\ DeleteClientSession(c, None, refs)
  /\ UNCHANGED <<app, vanished>>

\* handleCmd_notFound after the reference was taken: no such track, or the
\* callback (or its absence) leaves the result 0.  A request that asked for
\* immediate play still runs the simulated PLAY before the session is deleted.
SetupRefused(c, n, t, playNow) ==
  LET o == SetupTarget(c, n, t)
      asked == t # "unknown"
  IN /\ Receives(c)
     /\ o # None /\ SetupRefs(c, n, t)[o] <= MaxRefs
     /\ DeleteClientSession(c, o, SetupRefs(c, n, t))
     /\ app' = IF asked /\ playNow THEN [app EXCEPT ![c] = "playing"] ELSE app
     /\ UNCHANGED vanished

\* Mutant: fStreamStates is allocated once and not rebuilt for a new session.
SetupAcceptedStaleTracks(c, n, t, playNow) ==
  LET o == SetupTarget(c, n, t)
  IN /\ Receives(c)
     /\ o # None /\ SetupRefs(c, n, t)[o] <= MaxRefs
     /\ t # "unknown" /\ HasSetup
     /\ refs' = SetupRefs(c, n, t)
     /\ ours' = [ours EXCEPT ![c] = o]
     /\ streams' = IF streams[c] = None THEN [streams EXCEPT ![c] = o] ELSE streams
     /\ app' = [app EXCEPT ![c] = IF playNow THEN "playing" ELSE "setup"]
     /\ Stays(c)
     /\ UNCHANGED <<table, life, streamName, vanished>>

\* The callback accepts the track.
SetupAccepted(c, n, t, playNow) ==
  LET o == SetupTarget(c, n, t)
  IN /\ Receives(c)
     /\ o # None /\ SetupRefs(c, n, t)[o] <= MaxRefs
     /\ t # "unknown" /\ HasSetup
     /\ refs' = SetupRefs(c, n, t)
     /\ ours' = [ours EXCEPT ![c] = o]
     /\ streams' = IF KeepsSession(c, n, t) THEN streams
                                             ELSE [streams EXCEPT ![c] = o]
     /\ app' = [app EXCEPT ![c] = IF playNow THEN "playing" ELSE "setup"]
     /\ Stays(c)
     /\ UNCHANGED <<table, life, streamName, vanished>>

-----------------------------------------------------------------------------
(* Commands within a session, for stream n and track t; the special URL "*"  *)
(* and commands before any SETUP change nothing (OnlyReplies).               *)

\* handleCmd_withinSession finds the session and the track.
WithinSession(c, n, t) ==
  /\ Receives(c)
  /\ ours[c] # None
  /\ streamName[ours[c]] = n
  /\ t # "unknown"

\* ... or names another stream or track, and the client is dropped.
WithinSessionNotFound(c, n, t) ==
  /\ Receives(c)
  /\ ours[c] # None
  /\ streamName[ours[c]] # n \/ t = "unknown"
  /\ DeleteClientSession(c, ours[c], refs)
  /\ UNCHANGED <<app, vanished>>

Play(c, n, t) ==
  /\ WithinSession(c, n, t)
  /\ app' = [app EXCEPT ![c] = "playing"]
  /\ Stays(c)
  /\ UNCHANGED <<heap, ours, streams, vanished>>

Pause(c, n, t) ==
  /\ WithinSession(c, n, t)
  /\ app' = [app EXCEPT ![c] = "paused"]
  /\ Stays(c)
  /\ UNCHANGED <<heap, ours, streams, vanished>>

Teardown(c, n, t) ==
  /\ WithinSession(c, n, t)
  /\ DeleteClientSession(c, ours[c], refs)
  /\ app' = [app EXCEPT ![c] = "torndown"]
  /\ UNCHANGED vanished

\* OPTIONS, GET_PARAMETER, SET_PARAMETER, handleCmd_bad, handleCmd_notSupported.
OnlyReplies(c) ==
  /\ Receives(c)
  /\ Stays(c)
  /\ UNCHANGED <<heap, ours, streams, app, vanished>>

-----------------------------------------------------------------------------
Connection(c) ==
  AcceptConnection(c) \/ PeerVanishes(c) \/ ReadFails(c) \/ LivenessTimeout(c)

Describe(c, u) ==
  \/ DescribeNotFound(c, u)
  \/ DescribeExisting(c, u)
  \/ \E o \in Object : DescribeNew(c, u, o)

Setup(c, n, t) ==
  \/ SetupNoSession(c, n, t)
  \/ \E playNow \in BOOLEAN :
       SetupRefused(c, n, t, playNow) \/ SetupAccepted(c, n, t, playNow)

Within(c, n, t) ==
  WithinSessionNotFound(c, n, t) \/ Play(c, n, t) \/ Pause(c, n, t) \/ Teardown(c, n, t)

Next ==
  \/ \E c \in Client : Connection(c) \/ OnlyReplies(c)
  \/ \E c \in Client, u \in DescribeURL : Describe(c, u)
  \/ \E c \in Client, n \in Name, t \in Track : Setup(c, n, t) \/ Within(c, n, t)
  \/ \E n \in Name : RemoveServerMediaSession(n)

\* The event loop runs a due delayed task in every step (BasicTaskScheduler.cpp
\* 187), so a liveness task that stays scheduled is run.
Fairness == \A c \in Client : WF_vars(LivenessTimeout(c))

Spec == Init /\ [][Next]_vars /\ Fairness

-----------------------------------------------------------------------------
(* Safety. *)

\* No client session points to a media session that was closed: request
\* handlers dereference fOurServerMediaSession without a check
\* (RTSPServer.cpp 777, 1035).
NoDanglingSession ==
  \A c \in Client : ours[c] # None => c \in open /\ life[ours[c]] = "live"

\* The session table lists live objects only, each under its own name: a
\* lookup never returns an object that Medium::close deleted, whatever the
\* order of replacement, removal by name and the last client leaving.
TableListsLiveSessions ==
  \A n \in Name : table[n] # None => life[table[n]] = "live" /\ streamName[table[n]] = n

\* The clients whose session is o, when the clients' sessions are f.
Users(f, o) == {c \in Client : f[c] = o}

\* The reference count never falls below the number of clients that use the
\* object, so it cannot reach zero (and close it) while one is left.
RefCountCoversHolders ==
  \A o \in Object : Cardinality(Users(ours, o)) <= refs[o]

\* fStreamStates belongs to fOurServerMediaSession: SETUP indexes the one and
\* reads the tracks of the other (RTSPServer.cpp 822-850).
StreamStatesMatchSession == \A c \in open : ours[c] # None => streams[c] = ours[c]

\* The scheduler calls back only into client sessions that exist, and every
\* session that exists can still be reached by its socket and by its timer.
CallbacksMatchSessions == reader = open /\ timer = open

\* A client session keeps a media session only if the application accepted the
\* SETUP: every refusal ends with the client session deleted.
HeldOnlyIfAccepted == \A c \in open : ours[c] # None => app[c] \in Accepted

\* What keeps a media session alive for those who use it: by pointer, by name,
\* and by the count that decides when it is closed.  The conjunction is
\* inductive: that a held object is live needs that the count covers its holders
\* and that the table, which gives new holders their object, lists live ones.
SessionInv ==
  /\ TypeOK
  /\ NoDanglingSession
  /\ TableListsLiveSessions
  /\ RefCountCoversHolders

\* What a client session keeps to itself, over other clients' requests, failures
\* in the middle of a SETUP, and its own end by a request, a read or the timer.
ClientInv ==
  /\ StreamStatesMatchSession
  /\ CallbacksMatchSessions
  /\ HeldOnlyIfAccepted

-----------------------------------------------------------------------------
(* Liveness, and what the documentation promises. *)

\* A peer that vanishes without closing does not keep its session for ever.
VanishedPeerReclaimed ==
  \A c \in Client : (c \in vanished /\ c \in open) ~> (c \notin open)

=============================================================================

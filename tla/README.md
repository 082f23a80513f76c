# AFDRTSP in TLA+

AFDRTSP is an RTSP server and client library for C callers (`live/AFDRTSP`), built on a
reduced copy of LIVE555 (`live/liveMedia`, `live/BasicUsageEnvironment`,
`live/UsageEnvironment`, `live/groupsock`) and JThread (`live/jthread-1.3.1`). Each
library runs one event loop in a thread of its own (`AFDPollThread`) and is driven by
callbacks (server) or by calls of the application (client). Beside them the repository
has JRTPLIB (`jrtplib-3.8.2`), an RTP library for the media itself, which an application
links on its own: nothing under `live/` calls it. This directory holds TLA+ models of
these parts, the TLC configurations that check them, and TLAPS proofs.

All source paths below are relative to `src/`.

## Inventory

| Component | State it keeps | Operations | Interacts with |
|---|---|---|---|
| RTSP server sessions (`live/liveMedia/RTSPServer.cpp`, `ServerMediaSession`) | session table, reference counts, one `RTSPClientSession` per TCP connection with its track array, socket handler and liveness task | accept, the RTSP commands, liveness timeout, removal of a stream | event loop (handlers, tasks), the application's callbacks |
| Event loop, sockets (`BasicTaskScheduler.cpp`, `HandlerSet`) | three `fd_set`s and their bound, the handler list, the last handled socket | `setBackgroundHandling`, `moveSocketHandling`, `SingleStep` | everything that owns a socket; handlers change its state while it runs |
| Event loop, delayed tasks (`DelayQueue.cpp`) | list of entries with delta times, time of the last look at the clock | schedule, unschedule, alarm | server liveness tasks, client duration timers, select's timeout |
| Event loop, event triggers (`BasicTaskScheduler0.cpp`) | 32 handlers and data, mask of triggered events | create, delete, `triggerEvent` (from any thread) | loop and foreign threads |
| Poll thread (`AFDPollThread.cpp`), JThread 1.3.1 | `running`, three mutexes, `stop` | `Start`, `Stop` | loop, both libraries |
| AFDRTSP server library (`AFDRTSPServer.cpp`) | global runtime | `server_init`, `run_rtsp_srv`, `server_cleanup` | poll thread, server |
| RTSP client engine (`RTSPClient.cpp`) | two request queues, socket, response buffer, authenticator, the watch variable of the blocking calls | the `sendXCommand` calls, the blocking calls, `connectionHandler`, `incomingDataHandler` | event loop, server, response handlers |
| AFDRTSP client library (`AFDRTSPClient.cpp`) | global runtime; per stream: session, iterator, duration timer | `client_init`, `create_new`, `rtsp_play` ... `rtsp_stop`, the chain of response handlers | RTSP client from two threads: the application's and the loop's |
| Media session (`MediaSession.cpp`) | what a description says of a session and its subsessions | `initializeWithSDP`, the URL and parameters of a subsession | RTSP client, AFDRTSP client |
| JRTPLIB, source table (`rtpsources.cpp`, `rtpinternalsourcedata.cpp`) | one entry per SSRC: addresses, probation, sender or not, ages; three counts | process RTP and each part of RTCP, four timeouts | session |
| JRTPLIB, UDP transmitter and poll thread (`rtpudpv4transmitter.cpp`, `rtppollthread.cpp`) | two sockets, destinations, groups, accept and ignore lists, packets read, a pipe that wakes the waiter | create, destroy, wait, abort, poll, list operations | application's thread and poll thread |
| JRTPLIB, session and timer (`rtpsession.cpp`, `rtcpscheduler.cpp`) | own SSRC in three places, BYE packets that wait, collisions, next RTCP time; four mutexes | sends, polled data, BYE, APP, destroy | all other parts of JRTPLIB |
| JRTPLIB, RTCP packets and statistics (`rtcpcompoundpacketbuilder.cpp`, `rtcppacketbuilder.cpp`, `rtpsourcedata.cpp`) | lists of parts with their sizes, marks of what was reported, sequence numbers and queue of a source | build SR, RR, SDES, BYE, APP; take packets apart | session, source table |
| JRTPLIB, SDES (`rtcpsdespacket.cpp`, `rtcpsdesinfo.cpp`) | the items known of a source | validate, walk, keep or replace items | source table |
| JRTPLIB, polled session (`extratransmitters/rtpfaketransmitter.cpp`, `rtphashtable.h`, `rtppacket.cpp`, `rtppacketbuilder.cpp`) | a session without a thread, over a transmitter that the application feeds | `Create`, `Destroy`, `Poll`, sends, walks | the application's send callback |
| Hash tables of LIVE555, `Medium` | name tables | add, remove, lookup, iterate | server, all media objects |
| Text formats, sockets | none that lasts | parse, format, system calls | all |

What is hard in this code: one single-threaded loop serves many peers whose requests,
disconnections and silences interleave; objects refer to each other by raw pointers that
survive between events; data structures are changed by handlers while the loop uses
them; delays are kept relative to each other and to a clock that may jump; a byte stream
delivers responses in arbitrary pieces and may end at any moment; a failed send calls back
at once; the AFDRTSP client calls into the loop's structures from another thread, and any
thread may trigger events without a lock; two programs cut the same URL in different ways.
In JRTPLIB an identifier can collide at any time and is kept in three places under
different mutexes; a thread that waits is woken by a byte in a pipe while another destroys
what it waits on; packets are filled up to a size that two pieces of code count
separately; sequence numbers wrap; tables are walked with one cursor that every lookup
moves; and creation fails half way. The places where these bite are the `hazards` of
`PROJECT.json`, each with the properties that cover it or with a note.

What makes each part correct: the server never uses a closed session and reclaims silent
clients; the scheduler watches exactly what it was asked to and serves every ready
socket; the delay queue runs every task once, in time and in order; an event that was
triggered is handled, and a loop never outlives the object it runs on; the client gives
each response to its request and tells requests that fail; client and server speak of
the same stream. A source is counted once and accepted from one host; a session that
loses its SSRC says BYE for it last, and goes on under the new one; nothing is destroyed
under a thread that waits; every RTCP packet can be read back, and every source and
item gets into one.

## Modules

| Module | Models | Proofs |
|---|---|---|
| `ServerSessions` (`MCServerSessions`) | server sessions | `ServerSessionsProofs` |
| `TaskScheduler` (`MCEventLoop`) | socket part of the event loop | `EventLoopProofs` |
| `Timers` | what is promised of delayed tasks (abstract) | |
| `DelayQueue` (`MCEventLoop`) | the delta list, implementing `Timers` | `EventLoopProofs` |
| `EventTriggers`, `LoopThread` | event triggers access by access; over them the server library, its poll thread and JThread | `EventLoopProofs` |
| `RTSPClient` | the client's request engine and response buffer | `RTSPClientProofs` |
| `BlockingClient` | its synchronous interface, extending it | `RTSPClientProofs` |
| `StreamClient` | the AFDRTSP client library over a smaller model of that engine | `StreamClientProofs` |
| `MediaSession`, `DescribedStream` (`MCDescribedStream`) | the description's parser as a function; over it one client and one server from DESCRIBE to TEARDOWN | |
| `RTPSources` (`MCRTPSources`) | JRTPLIB's source table | `RTPSourcesProofs` |
| `Transmitter`, `RTPPollThread` | the UDP transmitter; over it the poll thread and the application | `RTPSessionProofs` |
| `RTCPScheduler`, `RTPSession` | when RTCP is due; over it the session's two threads | `RTPSessionProofs` |
| `RTCPCompoundPacketBuilder`, `RTPSourceStats`, `RTCPPacketBuilder` (`MCRTCPPacketBuilder`) | sizes and layout of compound packets, sequence numbers; over them who gets into which packet | `RTPSessionProofs` |
| `RTPHashTable`, `RTPFakeTransmitter`, `RTPPacket`, `RTPPacketBuilder`, `RTCPSDESPacket`, `RTCPSDESInfo`, `RTPFakeSession` (`MCRTPFakeSession`) | tables pointer by pointer, RTP packets, SDES bytes; over them a session without a thread | `RTPHashTableProofs`, `RTPFakeSessionProofs` |

The loop's three parts (`TaskScheduler`, `DelayQueue`, `EventTriggers`) share nothing but the
order in which `SingleStep` runs them; `MCEventLoop` runs the first two side by side. The
server and client models take from the loop what its runs show: a ready socket is served, a
scheduled task runs.
### ServerSessions

One action per handler of the loop: `AcceptConnection`, `DescribeNew`, `SetupAccepted`,
`Play`, `Teardown`, `LivenessTimeout` and so on. The loop is single-threaded, so a handler
is atomic; the interleaving is between clients, their vanishing and the timers. `ours`,
`streams`, `refs`, `table` are `fOurServerMediaSession`, `fStreamStates`,
`fReferenceCount` and `fServerMediaSessions`; `life` tells a live heap object from a
deleted one, so that a dangling pointer is a state and not an accident. `app` is what the
callbacks last told the application. `DeleteClientSession` is the destructor with all it
calls. The heap has as many slots as `Object`; `MaxRefs` bounds a count (SETUP is not sent
beyond it).

### TaskScheduler

`order` and `conditionSet` are the handler list, `fds` and `maxNumSockets` the `fd_set`s
and their bound. `SingleStep` is three actions, `Select`, `Dispatch` and `HandlerReturns`,
because handlers and the application's thread change what is watched between them.
`MaxChanges` bounds these changes in a run.

### DelayQueue and Timers

`Timers` says: each task has a time left and a set of tasks that run before it. `DelayQueue`
has the list with deltas, and `drift`, the clock less the time of the last
`synchronize()`; the refinement maps a task's time left to the sum of deltas up to it and
"ahead" to the entries before it. `MaxDrift` caps how far the clock is followed (a longer
stall makes no more entries due) and `MaxSetBacks` how often it is set back.
### EventTriggers and LoopThread

`triggerEvent` and the loop's clearing of a bit each read the mask in one step and write it
in another; memory is sequentially consistent. A trigger's index and its mask are two
members and two variables. `owed` is the data of the newest call that returned and was not
handled. `usage` says who triggers events in a behaviour: the loop's own handlers, or one
other thread. Both at once (`"mixed"`) loses events; see the divergences.

`LoopThread` has the application's thread (`app`) and the threads ever created (`place`),
with JThread's `running` and its two handshake mutexes; `runningmutex` is held around one
access, so the access is the step. `MaxThreads` and `MaxCalls` bound threads and calls.
`Stop` waits without a limit, so `Kill` is not reached.

### RTSPClient and BlockingClient

Queues, socket, buffer and what becomes of each request. The connection is a pair of
sequences; `Read(n)` takes any prefix that fits, so responses arrive split or run
together. `openConnection` and the enqueue that follows are two steps, which matters only
if the application calls from another thread (`AppThread`). The loops of
`connectionHandler1` run one request per step, since each may call a handler that sends
again; the same steps perform a resend after its response. `outcome` tells answers that are
whole and one's own from garbled and mismatched ones. `MaxCSeq` bounds commands and
resends. Left out: a send that fails because the socket buffer is full, the headers of
commands, and the destruction of the client from a handler.

`BlockingClient` adds the functions that send a request and run the loop until `watch` is
set, by the answer or by the timeout task; a record whose call timed out stays and its
handler is disabled (`off`). A behaviour uses either these or the callbacks (`use`).

### StreamClient

`session`, `left`, `timed`, `token` are `scs.session`, what `scs.iter` has still to give,
`scs.duration > 0` and `scs.streamTimerTask`; `setUp` is whether `fLastSessionId` is known;
`tasks` counts the duration timers in the delay queue, which only the queue itself knows.
The actions are the functions of `AFDRTSPClient.cpp`: `RtspPlay`, `RtspControl` (the six
other requests, which differ in their handler only), `ContinueAfterOPTIONS` to
`ContinueAfterPLAY`, `StreamTimer`, `Shutdown`. Of `RTSPClient` it keeps the outstanding
requests, the connection and the two loops of `connectionHandler1`. A handler is not nested
in the send that fails but is the next step (`running`), so a whole chain of failing
sends is a sequence of steps in which nothing else of the loop runs. A client that is
closed inside the loop stays visible as "closed", so the loop's further use of it is a
state.

The application calls between two events of the loop, on handles that are not deleted, and
whether or not the stream was described: calls from the middle of an event are the subject of
`RTSPClient`. A request made before there is a session (`Early`) is given `*scs.session` of a
NULL pointer; it goes the way of any other request and would be followed where `sendRequest`
builds it, behind its test for a session id (`Prepared`). `MaxTracks`, `MaxOpens` and
`MaxControls` bound the subsessions and the calls.

### MediaSession and DescribedStream

A description is a sequence of lines, a line a record of the fields of its kind; the parser
is an operator over it (`CreateNew`), with the places where a scan format runs into the next
line. `DescribedStream` runs cases (`Cases`): a URL, the names the server knows, what its
describe callback gives, and how the client asks for its transport. A URL is a sequence of
segments. Requests carry what the server looks at; the connection keeps order. `SessionURL`
and `SubsessionURL` are how the client puts a URL together (`sessionURL`,
`constructSubsessionURL`), `PreSuffix`, `Target` and `Operation` how the server takes it apart
(`parseRTSPRequestString` and the handlers). `told` is what the callbacks hear, in order.

### RTPSources

The table is one record, so that the parts of a compound packet apply one after the other
(`ProcessInfo`, `ProcessBYE` ... are operators from table to table, and `ReceiveRTCP` applies
several). Addresses are hosts with ports; times are ages that stop at the longest delay
they are compared with. Probation delivers or discards packets until `ProbationCount`.

### Transmitter and RTPPollThread

Everything that the code does under `mainmutex` is one action; `WaitForIncomingData` is split
where it drops `mainmutex` and holds `waitmutex`: before `select`, in it, and after. `arrived`
is what a socket holds and nobody read; `member` is what the kernel has joined, `groups` what
the transmitter thinks it has. `asked` keeps what the application asked to accept or ignore,
beside the entries the code makes of it. `RTPPollThread` adds the thread's loop (`delay`,
`wait`, `waiting`, `poll`, `process`, `check`) and the application's `Create` ... `Destroy`,
where `Stop` sets `stop` (here `stopping`), aborts the wait, waits five seconds and kills.

### RTCPScheduler and RTPSession

The scheduler's times are ticks from now, its random factor a set of outcomes. `RTPSession` has
the application's thread and the poll thread with the mutexes SOURCES and SCHED; BUILDER and
PACKSENT are held around what is one action anyway. SSRCs are numbered as they are taken. A
collision, `BYEDestroy`, an APP packet that is being built while the SSRC changes, and the
packet that marks a new sender are steps between the locks. Each error path is an outcome: of a
send, of building a BYE, of the collision list and of the source table; one of
`ProcessPolledData` ends the poll thread, here at once. Between `BeginDataAccess` and
`EndDataAccess` the application holds SOURCES and may call the session like at any other time
(`MayCall`, `Returned`), `SetSessionBandwidth` included, of which only the lock is modelled:
`Share`, the session's part of the bandwidth, is a constant. `owed` and `gone` are for the
properties: which SSRCs are owed a BYE, and which have said it. `MaxMembers` bounds the
members, and the BYEs heard while ours waits, which the code counts without a limit.

### RTCPPacketBuilder and below

`RTCPCompoundPacketBuilder` counts sizes as the code does and lays the packet out as `EndBuild`
does, separately: that the two agree is a property. `RTPSourceStats` has the extended sequence
numbers modulo `ExtMod`. `RTCPPacketBuilder` fills packets from the sources and the SDES items
in rounds; `user` says who drives the compound builder in a behaviour, the session or the
application in any order. `SizeAssumption` is what `RTP_MINPACKETSIZE` gives: after a sender
report and the CNAME there is room for any one block, item or BYE. One source (`Observed`) has
sequence numbers, losses and a queue; the others have what decides on their blocks: whether
they sent, since the last packet and (`renewed`) since their last block. The sources of a
behaviour are fixed (`Memberships`): that sources come and go while their flags are set is not
covered. `MaxBeside` bounds what the one receives when there are others. `AddUnknownPacket` is
left out. Numbers and counts are cut off below half of `ExtMod` (2^32 in the code), and a gap
or a delay of half a cycle, which no receiver can tell from a late or a lost packet, does not
occur.

### RTPFakeSession and below

`RTPHashTable` keeps each pointer of the tables (bucket chain, list of all, cursor) and `WILD`
for those that dangle. `RTPFakeTransmitter` has its own tables and calls the application's
callback for each destination of a send (`Call`, `Return`). In the callback the application may
add, delete and clear destinations and send RTP and RTCP packets: all use the cursor of the
loop. A nested send runs to its end in one step and its own callbacks do nothing; what the loop
reads from an element that was freed is any element, none, or another wild pointer. `stayed`
and `disturbed` record, for the properties, which destinations were there throughout and what
callbacks did to the cursor. `Poll`, `SetMaximumPacketSize` and `Destroy` from a callback are
left out. `RTPFakeSession` creates, polls, sends, walks; `part` says which of "destinations",
"filter", "sources", "packets" and "sdes" a behaviour exercises, so that their states add up
instead of multiplying; creation and destruction belong to all. Lengths of RTP packets are in
words, SDES packets are bytes.

## Runs

| Run | Module, instance | Shows |
|---|---|---|
| `server_sessions` | `ServerSessions`: 2 clients, 2 objects, 3 names, counts up to 2 | `SessionInv`: nothing closed is used, the table lists live sessions, counts cover users. `ClientInv`: tracks, callbacks and accepted sessions agree. `VanishedPeerReclaimed` |
| `event_loop` | `TaskScheduler`: 3 sockets, 2 conditions, 3 changes; or `DelayQueue`: 3 tasks, delays 0 to 3, 1 set-back | list, `fd_set`s and bound agree; `ReadySocketServed`; refinement of `Timers` (`ImplementsTimers`), select wakes in time, every task runs |
| `loop_thread` | `LoopThread`: 3 triggers, 3 calls, 2 threads | `LoopIsSound`: one loop, on a live object, the two forms of the last trigger agree. `CallsReturn`: start and stop end. `TriggeredIsHandled` |
| `rtsp_client` | `BlockingClient`: 2 requests, commands up to 4, buffer of 3 chunks, bodies of 0, 1, 3, codes 200, 401, 30x, server closing | `PendingConnectionIsWatched`; `RecordsKept`: a record is in one place and lost by no step of the client; `ResultIsOwn`: a blocking call returns its own result or the timeout's; `TimedCallReturns`; `RequestsGoOn`: no request stays behind in a queue |
| `stream_client` | `StreamClient`: 1 client, 2 tracks, 3 requests of the application, connections refused and ended | `CommandsHaveSession`: a request that was given a session is outstanding only while it exists, and one that was given NULL is refused before it is built; PLAY follows every SETUP, `StreamRunsItsCourse` |
| `described_stream` | `DescribedStream`: 2,600 cases, 2 requests after PLAY | `ParserIsSectionwise`: a section means what its own lines say; `RefusedForCause`: a SETUP fails only for the callback, the description or the name that DESCRIBE removed; `ExchangeAgrees`: an answer is to the request it is taken for, both ends agree on the transport |
| `rtp_sources` | `RTPSources`: 3 SSRCs, one of them ours, 2 hosts, 2 packets, delays of 0 or 1 | `SourcesCounted`: the three counts are what the entries say, at every step; `SourcesKeepHost`: a source keeps the host it was first heard from and ours stays; `SilentSourceRemoved` |
| `poll_thread` | `RTPPollThread`: 1 host, 2 ports, 1 group, 2 abort bytes, 2 sessions, queue of 2 | `SelectedWasAsked`: an entry of the accept and ignore list holds only what was asked for and not taken back; `DestroyedAlone`: nothing is destroyed under a thread; `ThreadServes`: what arrived is read, `Destroy` returns unless the abort was lost |
| `rtp_session` | `RTPSession`: 2 members, 2 SSRCs, 1 address, 1 packet per poll | `CollisionAnswered`: table and builder agree on the SSRC, a BYE that waits is scheduled, and the SSRC of a collision has its BYE in the queue when a send had returned with it or a report had gone out; `BYEIsSentLast`: a BYE is sent, and its SSRC says nothing after it; `CallsReturn`, but for calls that deadlock under `BeginDataAccess` (`Deadlocked`) |
| `rtcp_packets` | `RTCPPacketBuilder`: packets of 112 bytes, counts up to 2; no source, one with numbers that wrap at 8, that one and two others (it receives 2), or four others | `PacketsAreWhole`: packets read back and fit; `StatisticsAreTrue`: highest number, losses and queue against what was sent; `NothingStarves`: a source is reported before the others came more than twice and the due items once, an item before the round ends |
| `rtcp_once` | the constants of `rtcp_packets` | violated: `ReportedOnce`. A second block in the same packet |
| `fake_session` | `RTPFakeSession`: 2 buckets, 3 destinations, 3 SSRCs, 2 of them in one bucket, packets of 5 to 9 words | `TablesServe`: tables are whole, and the loop's cursor sound, whatever callbacks do short of clearing the table, and a send reaches each destination once if they only add; `CreateCanBeRetried`: after a `Create` that failed at any stage, or a `Destroy`; `PacketsGoOut`: what is sent parses, and is numbered without a gap; `WalksSeeAll`: each source and private item once; `KnownIsSaid`: what is known of a source is what it said |

Most invariants of the runs are conjunctions of two to four named parts, each with its own
comment in the module.

Why the bounds suffice. Two clients and two objects give a session that is unlisted and still
used, beside its replacement; the third name is a path whose last component is another name.
Three sockets have one below, at and above the bound when it moves. Three tasks allow insertion
before, between and after. Three triggers have one used last, one below and one above it in the
search; two threads are one loop after another. With two requests one is handled while one
waits or is sent from its handler, and a buffer of three chunks holds a response, fills exactly
and overflows (a body of 3). `StreamClient` has one client: clients share only the loop, which
serves one event at a time, and the proofs hold for any number; two tracks make one in the
middle of the chain and one at its end. `DescribedStream` takes descriptions of one section
with up to two lines, with session-level lines, of two sections, and each kind of parameter;
URLs are flat, nested and with a trailing slash; the server knows no stream or one.

Three SSRCs are ours, one that collides with it or is in conflict with the third; two hosts,
one with two ports, are what an owner's address is compared by; delays of 0 and 1 tick separate
what has aged from what has not. Two ports tell one port from all; two aborts are one that
wakes the thread and one that is left for its next wait; two sessions are a second use of what
the first left behind. Two SSRCs are the first and its successor after one collision, whose BYE
waits while `BYEDestroy` adds another; that two collisions queue two BYEs in their order is in
the proof only. A packet of 112 bytes holds two report blocks in an SR and three in an RR, so
that four sources need a second packet, and `MaxPerPacket` 2 is passed; three sources let the
one with numbers share a packet, miss one, and be reported again; 8 numbers to a cycle wrap
within the run, with losses before and after. Hosts and SSRCs 1 and 3 share a bucket of two, so
chains have a head, a middle removal and an end; sizes lie below, at and above the least and
the largest the transmitter takes.

A run that cannot distinguish a defect shows nothing: each property has a mutant in
`PROJECT.json`, a definition changed as a plausible slip in that code would change it, under
which the same run reports it.

Deadlock is checked, except where the system may really stop: `rtsp_client` (every request
done), `described_stream` (the case has been played), `poll_thread` and `rtp_session`
(the last session was destroyed, or the application's call deadlocked under `BeginDataAccess`).

`rtcp_once` is the finding of `PROJECT.json`: it checks what a comment says, and TLC's
counterexample is a behaviour of the code.

Only bounded behaviours are claimed. Responses of pipelined requests may be mismatched when
bodies exceed the buffer: `handleResponseBytes` (`live/liveMedia/RTSPClient.cpp:1369`) goes
on searching after a response whose record is gone, and can take a later request for it;
`RequestsGoOn` speaks of responses that fit.

## Fairness

* `LivenessTimeout(c)`: `SingleStep` ends with `handleAlarm`, so a task that stays scheduled
  is run. Nothing is assumed of peers.
* `Select`, `Dispatch`, `HandlerReturns` and their counterparts in `DelayQueue`:
  `doEventLoop` repeats `SingleStep` and handlers return. `TimePasses`: the clock advances.
* `LoopThread`: each thread goes on with its own steps and its `select` returns. The application
  goes on with a call it made; whether it calls is open.
* `RTSPClient`, `BlockingClient`: code that was called goes on; `select()` eventually reports
  a socket that is connected, refused or readable (TCP gives up on a connection attempt by
  itself); the timeout task fires; the server answers. Whether the application sends and
  whether the server closes is left open.
* `StreamClient`: the same, and a scheduled timer fires (`EveryTaskRuns` of `DelayQueue`). The
  calls of the application and the end of a connection are open; `StreamRunsItsCourse` speaks
  of the behaviours in which no connection ends, because a request outstanding at its end is
  never answered (divergences).
* `RTPSources`: time passes and the session polls (`Tick`, `Sweep`). Nothing is assumed of packets.
* `RTPPollThread`: the thread runs, its waits end by themselves, and `StopAndDestroy` goes on
  once called.
* `RTPSession`: both threads go on, weakly; for the steps that take a mutex strong fairness
  is assumed, because the other thread takes and frees it again and again, and a pthread mutex
  is obtained in the end. The application ends its access to the sources (`EndDataAccess`), also
  when it makes calls in between.

## Proofs

All theorems hold for every value of the constants that satisfies the modules'
assumptions, which TLC evaluates in the runs.

* `ServerSessionsProofs`. Inductive invariant `SessionInv`: types, `NoDanglingSession`,
  `TableListsLiveSessions` and `RefCountCoversHolders`. The three need each other: a session is
  closed by its last user because its count covers the users, closing one unlists its
  name, and the name leads to no other live object only if the table lists each object under
  its own name. `LEMMA Reassign` counts users when one client changes session.
  `ClientInv` (track arrays, callbacks, acceptance) is inductive given types.
* `EventLoopProofs`, sockets. `SchedulerInv` is types, `SelectSeesEveryHandler` and
  `OneDescriptorPerSocket`: lowering the bound is right because the number given up is in no
  `fd_set`; the list has no duplicates because `conditionSet` tells which sockets have a
  descriptor. Lemmas on lookup and unlinking in a list support it.
* `EventLoopProofs`, delayed tasks. A list of deltas is understood by what it says of tasks:
  which there are (`Tasks`), what each has left (`LeftOf`), which run before it (`AheadOf`).
  These are recursive functions over the list; their equations, and from those the lemmas
  `PassedView`, `InsertView` and `RemoveView` on what `synchronize`, `addEntry` and
  `removeEntry` change, are proved by least counterexample among the positions (`LeastOf`).
  `QueueInv` says that the list is one, that no task has more than `MaxDelay` left, and that
  `select` wakes in time. From it follow `SelectWakesInTime` and `ImplementsTimers`, for any
  tasks and delays: each operation on the list is the abstract one of `Timers`, the early
  returns and the clock set back included.
* `RTSPClientProofs`, for a client called only from its loop (`AppThread = FALSE`; otherwise a
  request can wait for a connection that was made meanwhile, see the divergences), with and
  without the blocking calls. `ConnectionInv`: a caller between `openConnection` and
  `enqueue` has a connection pending, and while requests are told of a failure the
  socket is still the broken one, so handlers that send from there neither queue nor connect.
  `PendingConnectionIsWatched` follows. `RecordInv`: the open requests are those in the
  queues, the local queue of `connectionHandler1` and the hands of the code, each in one
  place, with a CSeq that was given. `RecordsKept`, an action property, follows. `CallInv`: a
  blocking call's request is the only open one whose handler is not disabled and has the
  latest CSeq, by which the timeout finds it; what it is told is its own or the timeout's.
  `ResultIsOwn` follows, for the behaviours that it speaks of (no resend after a timeout).
* `StreamClientProofs`. `StreamInv` says of each client where its commands are: in the queues,
  in the local queue of `connectionHandler1`, or being called. `Has` and `Single` state what is
  in a queue, and the steps use them only through lemmas on appending and taking.
  `CommandsHaveSession` follows for any number of calls, with `EarlyInv`: the session id comes
  after the session, and a request without a session waits for a connection at most, of which
  none is left when the id is there; so `sendRequest` never builds one. `PlayFollowsSetups`
  needs that `rtsp_play` is called once per client (a second chain would share the iterator),
  and `ScheduledIsLive` also that the application sends no PLAY of its own: without that, two
  duration timers can be scheduled (divergences), and no run checks it. `PlayingIsSetUp` has an
  invariant of its own, `IdInv`: what awaits a response on an open connection was sent with a
  session id.

* `EventLoopProofs`, threads of the loop. `LifeInv` says where the thread created last is for
  each place of the application in `server_init` and `server_cleanup`, and who holds JThread's
  mutexes then; every earlier thread is gone. `LoopKeepsItsObject` and `StartedIsInLoop`
  follow. `AgreeInv` adds that handlers and the search take turns, what each remembers of the
  mask and the index, and, for a foreign thread, that only event 0 is ever awaited: the search
  starts from mask and index that agree, and moves both alike. `LoopIsSound` follows for every
  usage but "mixed", where two threads trigger different events: there TLC finds the index of
  one trigger beside the mask of another, so the theorem assumes that usage away and the run
  leaves it out.
* `RTPSourcesProofs`. `TableInv` of the whole table: of a source that is not listed nothing is
  left, the list and what was announced are the same and finite, the counts are those of the
  entries, exactly one source is marked as ours and it is active, and no source has
  addresses of two hosts. It is kept by every operator for a part of a packet, so by any
  sequence of them (`SourcesAreCounted`), and the parts hang together: a count is
  right after a deletion because the entry still has the flags by which it was counted,
  and packets under our SSRC change nothing of ours because its addresses are our own.
  `Reached` says what a packet from an address may change in a table and composes over the
  parts of a compound packet; `SourcesKeepHost`, an action property, follows. That
  `MultipleTimeouts` is the four timeouts in a row holds for every table.
* `RTPSessionProofs`, the poll thread. `DestroyInv` says who may be in `WaitForIncomingData`:
  the poll thread, or one that `Kill` ended there; and that the application is past `Stop` only
  when the thread has ended. `DestroyedAlone` follows. For `SelectedWasAsked` the lists need
  only their types: lemmas on replacing one host's entry, on adding and on deleting, each in
  the two readings of an entry (these ports, or all ports but these).
* `RTPSessionProofs`, the session. `AnswerInv` says which thread holds SOURCES, that the table
  and the builder have one SSRC but between the poll thread's two steps, that a BYE that waits
  is scheduled, and (`OwedInv`) that an SSRC with which a send returned has the flag or a BYE
  in the list: a send with the new SSRC waits for SOURCES until the flag of the old one is
  cleared, and one with the old SSRC that returns later is not owed any. The scheduler's
  computation is used only through lemmas on what it does to `byescheduled`, for any intervals.
  `CollisionAnswered` follows. `OlderInv` orders SSRCs: what has said BYE, or waits to, is
  older than the builder's. `BYEIsLast`, a part of `BYEIsSentLast`, follows.
* `RTPSessionProofs`, the RTCP packets. The functions by which the module recurs (totals, loops
  over sources, items, parts and headers) are all of the form `Runs`, whose values follow from
  one lemma. For `PacketsAreWhole`: lemmas on quotients and alignment, on splitting a list into
  parts of at most `MaxPerPacket`, and that the total of what is laid out is the sum that was
  counted; `WireReads` walks over the packet as `ParseData` does. `WholeInv` says of the
  builder that its fields are what its calls make of them (no block without a report before
  it), that a built one is what `EndBuild` lays out, that the maximum is kept and that no build
  has failed. What a pass over the sources and the items can do is one of five outcomes
  (`MoreReports`, `ItemsBegin`, `RoundOver`, `MoreItems`, `ItemsOver`), whatever fits; `Packs`
  says that the next packet is such a pass, and `RoundInv` which marks are left: none while the
  items of a round go on, and then some item is left to send. For `NothingStarves`, `WaitInv`
  bounds each wait in each phase of a round by a number that grows with every packet of the
  phase, because each reports one more source or sends one more item. For `StatisticsAreTrue`,
  `CountingInv` says that the extended number is the true one, counted from the first packet,
  until a packet of an earlier cycle came; `FreshInv`, that every source that is due for a
  block when a packet is begun has sent since its last one, whoever shares the packets (the
  second block of `rtcp_once` is begun later, and no property says its fraction is defined);
  `QueueInv`, that the queue is in order, which `Insert` keeps whatever the numbers.

* `RTPHashTableProofs`. `Sound` says that the list of all elements and the chain of each bucket
  are lists linked both ways (`IsList`, `IsChain`), with the same elements, each once, for any
  keys and any hash function. An empty table is sound, and adding and deleting keep it so:
  lemmas on linking a new last element (`PushBack`), a new first one (`PushFront`) and
  unlinking (`Unlink`). `PathIs` says that the walk along the pointers finds the list.
  `SoundIsWhole` follows, and what a search, a step and a walk from the cursor return. The
  module is used through `INSTANCE`, for the table of destinations and for those by host and by
  source.
* `RTPFakeSessionProofs`. `SessionInv` has eight parts. `ControlInv`: where the session is and
  what is open then. `TablesInv`: the tables are sound, each map has data for its keys, and
  cursors point to elements. `LoopInv`: a send has been to the destinations before the cursor,
  once, and to none from it on, which holds when the callback appends one (`Undisturbed`);
  after a deletion or a nested send the cursor points to an element or nowhere, and after a
  clearing nothing is said. `CreateInv`: what is not created has no builder, no source and no
  RTCP size, whichever stage failed. `PacketInv`: the builder and the transmitter have the same
  size, so that what fits the one is not refused by the other after its number is taken.
  `WalkInv`: a walk has seen the listed sources up to the cursor; of one through those with
  data, what was expected and is not seen yet still has data behind the cursor. `PrivInv`: no
  prefix is there twice, and a walk that began with the list less its first `o` items has seen
  those up to `curitem`, which counts from the end, so that new items at the front change `o`
  only. `KnownInv`: what is known of each source against all it said; `Poll` hears the items of
  a packet and the ghost `told` is told them in step (`InStep`), up to a type that is not
  known, where both stop. `TablesServe`, `CreateCanBeRetried`, `PacketsGoOut`, `WalksSeeAll`
  and `KnownIsSaid` follow. For `KnownIsSaid`, `LaidIsSaid` is the round trip of an SDES
  packet: what `EndBuild` lays out of any chunks passes the constructor, and the loops over
  chunks and items, which only see bytes, read each item with its source, its type and its
  text, and stop where it ends. The loops are functions of the number of steps; `ResultsExist`
  says that such a function exists and what it is at each step, by induction on a set of
  numbers (`UpTo`), and what it computes follows in the same way. The assumption on the
  constants says of SDES packets that they are laid out by such a sender from some chunks, or
  have no known format.

Only model-checked:

* Liveness (`VanishedPeerReclaimed`, `ReadySocketServed`, `EveryTaskRuns`,
  `TriggeredIsHandled`, both `CallsReturn`, `TimedCallReturns`, `RequestsGoOn`,
  `StreamRunsItsCourse`, `SilentSourceRemoved`, `ThreadServes`, the sending part of
  `BYEIsSentLast`), which is beyond the prover.
* `ParserIsSectionwise`, `RefusedForCause` and `ExchangeAgrees` of `DescribedStream`: what a
  recursive parser computes for each of its cases, by evaluation.

## Known divergences

Places met while modelling where code and documentation, or two parts of the code, disagree.
The models do what the code does; the properties above are stated so that they hold.

Server.

* A playing client that falls silent is reclaimed without a teardown callback
  (`live/liveMedia/RTSPServer.cpp:1302`; `RTSPServer.hh:66-68` promises one).
* `addServerMediaSession` (`RTSPServer.cpp:67-76`) adds a session and then removes the
  existing one by name, which unlists the new one. A DESCRIBE of "d/b" is looked up by the
  whole path and added under "b": a second one removes the name, and SETUP gets 404.
* The PLAY response ends after its Session header without the empty line
  (`RTSPServer.cpp:1223`): the play handler of this client is never called by this server,
  and the record goes with the next response, whose status is read from PLAY's first line.
* `rtsp_fast` and `rtsp_slow` do not reach the server's application: `testScaleFactor` sets
  the scale to 1 (`ServerMediaSession.cpp:379`); they also seek to the start. `rtsp_resume`
  sends no Range, and the play callback is told to start at 0.
* Raw UDP over TCP is taken for RTP over UDP to port 0 (`RTSPServer.cpp:702-710`).
* The setup callback gets the track id where `AFDRTSPServerCallBack.h:54` says "the media file
  url", and the client's port in network byte order. The describe callback fails with "less
  equal zero" by its comment, but only 0 is tested.
* `server_cleanup` dereferences `g_server_rt`, which may be NULL (`AFDRTSPServer.cpp:84`).

Client.

* Requests outstanding when the connection ends are not told (`RTSPClient.cpp:1242`, against
  the error path at 1258).
* A request that the application's thread enqueues just after its connection was made waits
  for ever (`AFDRTSPClient.cpp:405`, `RTSPClient.cpp:514`).
* A resend that fails calls the handler twice and uses a deleted record (`RTSPClient.cpp:1514`;
  `RTSPClient.hh:64-65`: exactly once).
* A handler is called with a client that the handler before it deleted
  (`RTSPClient.cpp:1199`, `AFDRTSPClient.cpp:216`).
* `rtsp_pause`, `rtsp_resume` and `rtsp_stop` make a reference of the NULL `scs.session` before
  there is a description (`AFDRTSPClient.cpp:413`), which `AFDRTSPClient.h:61-102` does not
  forbid; the request is refused before it is followed, for want of a session id
  (`CommandsHaveSession`).
* A second duration timer outlives its client (`AFDRTSPClient.cpp:202` against 50).
* A request that timed out and is answered with 401 or 30x later is sent again with a new
  CSeq, so that the timeout of the next blocking call disables the wrong record
  (`RTSPClient.cpp:1934-1937`); `ResultIsOwn` excludes such behaviours by name.
* `rtsp_stop` never closes the client although `AFDRTSPClient.h:44-45` says so;
  `client_cleanup` closes none although line 32 says all; a handle may be deleted by the loop
  while the application keeps it.
* In descriptions: an `a=rtpmap` without a frequency takes a "/number" of the next line;
  an empty `a=control` takes the next line's first token; `a=type` takes what follows up to a
  space; "constantsize;" in `a=fmtp` never matches for a spelling mistake, and the payload
  format number of `a=fmtp` is ignored; a range that starts after 0 shortens the duration. A
  section under `control:track2` gets 404, and the connection is closed.

Loop.

* `triggerEvent` may be called from another thread (`UsageEnvironment.hh:149`), but its
  read-modify-write of the mask races with a handler's own: with `Usages` containing
  `"mixed"`, `TriggeredIsHandled` fails.

JRTPLIB.

* `AbortWait` before the thread waits is lost; it then waits out its RTCP delay and may be
  killed, and what it held is never released. Two of them leave a byte for the next wait.
* `Destroy` of the IPv4 transmitter unlocks `mainmutex` twice when a thread waits. An empty
  datagram makes FIONREAD 0 and is never read. Adding one port back to an entry for all ports
  that excludes it has no effect.
* Whether a collision is answered by a BYE depends on a flag that is not that of the SSRC. A
  collision between the send of a packet and `sentpackets = true` (`rtpsession.cpp:586-598`)
  queues none though the packet went out; the flag is then set for the new SSRC, and so it is
  by the BYE of the old one (`rtpsession.cpp:1488`), so that the next collision queues a BYE
  for an SSRC that nobody heard of, against the comment at 1372-1373. An APP packet sent after
  `CreateNewSSRC` and before the flag is cleared (1402-1404) is forgotten. `SentRTPPacket`
  marks the new SSRC as a sender though it sent nothing yet. `CollisionAnswered` speaks of
  sends that returned before the collision.
* While the application holds SOURCES (`BeginDataAccess`), `SendPacket` waits for itself, and
  `SetSessionBandwidth` (`rtpsession.cpp:1174-1190`) waits for SCHED with SOURCES held where
  the poll thread waits for SOURCES with SCHED held (`rtppollthread.cpp:131-132`). Both are
  deadlocks, and nothing in the headers forbids the calls. `CallsReturn` and `BYEIsSentLast`
  except these states by name (`Deadlocked`).
* A source may be reported twice in one packet (`rtcppacketbuilder.cpp:245`), against the
  comment at 239-241. The interval of the second block is empty, and 0.0/0.0 is cast to a byte
  (373-379; run `rtcp_once`). A source that did not fit and then falls silent is not reported.
* A callback of the fake transmitter that sends again, or deletes a destination, moves the
  cursor of the loop that calls it (`rtpfaketransmitter.cpp:555-561`): destinations are left
  out, and some may get the packet twice. One that clears the list leaves the loop with an
  element that was freed (`rtphashtable.h:229`).
* The first source of `AddSDESSource` is not checked against the maximum size, and the
  unsigned difference wraps (`rtcpcompoundpacketbuilder.h:63`).
* A late packet from before a wrap adds a cycle (`rtpsourcedata.cpp:158-174`).
* An SDES item of unknown type ends `Poll` with an error before the timeouts, with the rest of
  the packet unheard. A private item too short for its prefix counts as the empty prefix
  with an empty value.
* `Destroy` of the fake transmitter frees parameters that are the caller's; its `Poll` leaks
  what is not accepted; the length of a header extension is cut to 16 bits; `GetSourceInfo`
  moves the cursor of a walk.

## Not modelled

* Characters of URLs, headers, dates, Base64 and MD5. The properties do not tell strings
  apart beyond equality. Digest authentication on the server is never enabled by
  `AFDRTSPServer.cpp`.
* Socket system calls, beyond their effects; RTP over TCP and HTTP tunnelling; multicast
  answers of the server.
* The chained hash table of LIVE555 and `Medium`'s name table: a function in `ServerSessions`.
* The IPv6 transmitter, whose control is that of the IPv4 one with other addresses; the list
  of local addresses; jitter, round-trip times and the clock; getters.
* `jthread-1.2.1`, an older copy of 1.3.1; `mediaServer`, `testProgs` and examples:
  demonstration programs.
* Of `StreamClient`: a `client_init` that fails half way, durations as numbers, and what code
  does with memory that was freed (the models stop at the use).
* Of `RTPSession`: `Destroy` called while the sources are held, and the value of the bandwidth.
* Of the timers: how far the clock moves between two looks is free in `Timers`, so that its
  refinement says in which order and how far apart tasks run, not that the program never reads
  a clock that is ahead.
* What two properties do not say: `RecordsKept` has the record of a failed resend, whose handler is
  called twice, as an outcome of its own; and it lets a response whose record is gone cost a later
  request of the callbacks (`ResultIsOwn` is about blocking calls).
* Of `RTPFakeSession`: several threads, names resolved by DNS outside the filter, hashing
  tables being copied; the padding of SDES packets; callbacks that poll, resize or destroy the
  session, and what the callbacks of a nested send do.

## Plan

1. LIVE555's hash table and its iterator, pointer by pointer as `RTPHashTable` is; `Medium`.
2. Jitter and the addresses of the transmitters, if a property turns up that needs them.

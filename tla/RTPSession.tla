------------------------------- MODULE RTPSession -------------------------------
(***************************************************************************)
(* RTPSession: the application's thread and the poll thread of a session.  *)
(* The poll thread holds SOURCES while it processes what was received; it  *)
(* answers a collision of our SSRC with a BYE and a new SSRC, and sends    *)
(* the RTCP packets.  The application sends, looks at the sources, leaves. *)
(*                                                                         *)
(* BUILDER, SCHED and PACKSENT protect short sections, which are atomic    *)
(* here.  The poll thread waits for SOURCES while it holds SCHED, and so   *)
(* does the application, the other way round, that calls the session while *)
(* it looks at the sources.  SSRCs are numbered as they are taken; 0 is    *)
(* none.                                                                   *)
(***************************************************************************)
EXTENDS RTCPScheduler, Sequences, FiniteSets

CONSTANTS
  Address,     \* addresses that packets with our SSRC come from
  MaxSSRC,     \* bound on the SSRCs that are taken
  MaxPackets,  \* bound on the packets of one poll
  NoAddress

ASSUME SessionAssumption ==
  /\ {MaxSSRC, MaxPackets} \subseteq Nat \ {0}
  /\ NoAddress \notin Address

VARIABLES
  sources,      \* who holds SOURCES: "free", "app" or "poll"
  schedmutex,   \* who holds SCHED
  sched,        \* the scheduler
  members,      \* active members of the source table
  ownssrc,      \* our source in the table, or 0
  ssrc,         \* ssrc of the packet builder
  sentpackets,
  byepackets,   \* SSRCs of the BYE packets that wait
  collisions,   \* collisionlist
  app, poll,    \* what the two threads do
  stop,         \* stop of the poll thread
  pending,      \* packets that the transmitter has for the poll thread
  from,         \* the address of a packet that collides
  appssrc,      \* the SSRC of the packet that the application is sending, or 0
  (* What is owed to the others, and what they have heard, which no variable of the program says. *)
  owed,         \* SSRCs with which a send returned, or a report went out, and no BYE yet
  gone          \* SSRCs that have said BYE, and sent nothing since

table == <<members, ownssrc>>
threads == <<app, poll, stop, pending, from, appssrc>>
history == <<owed, gone>>
vars == <<sources, schedmutex, sched, table, ssrc, sentpackets, byepackets, collisions,
          threads, history>>

SSRC == 1 .. MaxSSRC
Calls == {"mark", "flag", "app", "appflag", "bandwidth", "stop", "byestop", "leave"}

TypeOK ==
  /\ sources \in {"free", "app", "poll"} /\ schedmutex \in {"free", "poll"}
  /\ sched \in Scheduler /\ members \in 0 .. MaxMembers
  /\ ownssrc \in SSRC \cup {0} /\ ssrc \in SSRC /\ appssrc \in SSRC \cup {0}
  /\ sentpackets \in BOOLEAN
  /\ byepackets \in Seq(SSRC) /\ Len(byepackets) <= MaxSSRC
  /\ collisions \subseteq Address
  /\ app \in {"idle", "access", "left"} \cup Calls
  /\ poll \in {"delay", "locksources", "wait", "lock", "packets", "collision", "newssrc",
               "newsource", "istime", "end", "none"}
  /\ stop \in BOOLEAN /\ pending \in 0 .. MaxPackets /\ from \in Address \cup {NoAddress}
  /\ owed \subseteq SSRC /\ gone \subseteq SSRC

\* InternalCreate; the poll thread starts.
Init ==
  /\ sources = "free" /\ schedmutex = "free" /\ sched = NewScheduler
  /\ members = 1 /\ ownssrc = 1 /\ ssrc = 1
  /\ sentpackets = FALSE /\ byepackets = <<>> /\ collisions = {}
  /\ app = "idle" /\ poll = "delay" /\ stop = FALSE
  /\ pending = 0 /\ from = NoAddress /\ appssrc = 0
  /\ owed = {} /\ gone = {}

Tick ==
  /\ sched' = Ticked(sched) /\ sched' # sched
  /\ UNCHANGED <<sources, schedmutex, table, ssrc, sentpackets, byepackets, collisions,
                 threads, history>>

-----------------------------------------------------------------------------
(* The application. *)

AppOnly == <<poll, stop, pending, from>>

\* The application calls the session, also while it looks at the sources ...
MayCall == app \in {"idle", "access"}

\* ... to which it returns.
Returned == IF sources = "app" THEN "access" ELSE "idle"

\* SendPacket and SendPacketEx: build and send under BUILDER; a send that
\* fails leaves the packet built and counted, and nothing else ...
SendPacket ==
  /\ MayCall
  /\ \/ app' = "mark" /\ appssrc' = ssrc /\ gone' = gone \ {ssrc}
     \/ app' = Returned /\ UNCHANGED <<appssrc, gone>>
  /\ UNCHANGED <<ssrc, sources, schedmutex, sched, table, sentpackets, byepackets, collisions,
                 AppOnly, owed>>

\* ... then SentRTPPacket under SOURCES, which makes our source a sender ...
MarkSender ==
  /\ app = "mark" /\ sources = "free"
  /\ app' = "flag"
  /\ UNCHANGED <<appssrc, table, ssrc, sources, schedmutex, sched, sentpackets,
                 byepackets, collisions, AppOnly, history>>

\* ... then the flag under PACKSENT, which may come after the collision of the
\* SSRC that was sent with.
FlagSent ==
  /\ app \in {"flag", "appflag"}
  /\ sentpackets' = TRUE
  /\ owed' = IF app = "flag" /\ appssrc = ssrc /\ poll # "newssrc" THEN owed \cup {ssrc} ELSE owed
  /\ app' = Returned /\ appssrc' = 0
  /\ UNCHANGED <<table, ssrc, sources, schedmutex, sched, byepackets, collisions,
                 AppOnly, gone>>

\* SendRTCPAPPPacket and SendUnknownPacket take the SSRC under BUILDER ...
BuildAPP ==
  /\ MayCall
  /\ appssrc' = ssrc
  /\ app' = "app"
  /\ UNCHANGED <<table, ssrc, sources, schedmutex, sched, sentpackets, byepackets, collisions,
                 AppOnly, history>>

\* ... and send without it, the only packet that can follow its SSRC's BYE, or
\* fail.
SendAPP ==
  /\ app = "app"
  /\ app' \in {"appflag", Returned}
  /\ appssrc' = 0
  /\ UNCHANGED <<table, ssrc, sources, schedmutex, sched, sentpackets, byepackets,
                 collisions, AppOnly, history>>

\* SetSessionBandwidth waits for SCHED; of the intervals, which get longer or
\* shorter by the bandwidth, Share is kept.
SetSessionBandwidth ==
  /\ MayCall
  /\ app' = "bandwidth"
  /\ UNCHANGED <<appssrc, table, ssrc, sources, schedmutex, sched, sentpackets, byepackets,
                 collisions, AppOnly, history>>

SetParameters ==
  /\ app = "bandwidth" /\ schedmutex = "free"
  /\ app' = Returned
  /\ UNCHANGED <<appssrc, table, ssrc, sources, schedmutex, sched, sentpackets, byepackets,
                 collisions, AppOnly, history>>

BeginDataAccess ==
  /\ app = "idle" /\ sources = "free"
  /\ sources' = "app" /\ app' = "access"
  /\ UNCHANGED <<appssrc, table, ssrc, schedmutex, sched, sentpackets, byepackets, collisions,
                 AppOnly, history>>

EndDataAccess ==
  /\ app = "access"
  /\ sources' = "free" /\ app' = "idle"
  /\ UNCHANGED <<appssrc, table, ssrc, schedmutex, sched, sentpackets, byepackets, collisions,
                 AppOnly, history>>

\* Destroy and BYEDestroy first stop the poll thread.
StopThread ==
  /\ app = "idle"
  /\ app' \in {"stop", "byestop"} /\ stop' = TRUE
  /\ UNCHANGED <<appssrc, table, ssrc, sources, schedmutex, sched, sentpackets, byepackets,
                 collisions, poll, pending, from, history>>

Destroy ==
  /\ app = "stop" /\ poll = "none"
  /\ app' = "left" /\ byepackets' = <<>>
  /\ UNCHANGED <<appssrc, table, ssrc, sources, schedmutex, sched, sentpackets, collisions,
                 AppOnly, history>>

\* The BYE of what was sent, behind those that wait, if it can be built.
BYEDestroy ==
  /\ app = "byestop" /\ poll = "none"
  /\ \/ /\ sentpackets
        /\ byepackets' = Append(byepackets, ssrc)
        /\ sched' \in IF byepackets = <<>> THEN ScheduleBYEPacket(sched, members) ELSE {sched}
     \/ UNCHANGED <<byepackets, sched>>
  /\ app' = "leave"
  /\ UNCHANGED <<appssrc, table, ssrc, sources, schedmutex, sentpackets, collisions, AppOnly, history>>

\* What the others have heard after the BYE of s.
SaysBYE(s) == gone' = gone \cup {s} /\ owed' = owed \ {s}

\* The loop of BYEDestroy sends one BYE after the other.
SendLastBYE ==
  /\ app = "leave" /\ byepackets # <<>>
  /\ \E r \in IsTime(sched, members) :
       IF r.istime
       THEN /\ SaysBYE(Head(byepackets))
            /\ byepackets' = Tail(byepackets)
            /\ sched' \in IF Tail(byepackets) # <<>> THEN ScheduleBYEPacket(r.sched, members) ELSE {r.sched}
       ELSE sched' = r.sched /\ UNCHANGED <<owed, gone, byepackets>>
  /\ UNCHANGED <<appssrc, app, table, ssrc, sources, schedmutex, sentpackets, collisions, AppOnly>>

\* Everything is sent, or maxwaittime is over.
Leave ==
  /\ app = "leave"
  /\ app' = "left" /\ byepackets' = <<>>
  /\ UNCHANGED <<appssrc, table, ssrc, sources, schedmutex, sched, sentpackets, collisions,
                 AppOnly, history>>

-----------------------------------------------------------------------------
(* The poll thread. *)

PollOnly == <<app, appssrc, stop>>

\* GetTransmissionDelay, under SCHED and then SOURCES.
LockSched ==
  /\ poll = "delay" /\ schedmutex = "free"
  /\ schedmutex' = "poll" /\ poll' = "locksources"
  /\ UNCHANGED <<sources, sched, table, ssrc, sentpackets, byepackets, collisions, PollOnly,
                 pending, from, history>>

GetDelay ==
  /\ poll = "locksources" /\ sources = "free"
  /\ sched' \in GetTransmissionDelay(sched, members)
  /\ schedmutex' = "free" /\ poll' = "wait"
  /\ UNCHANGED <<sources, table, ssrc, sentpackets, byepackets, collisions, PollOnly, pending,
                 from, history>>

\* WaitForIncomingData and Poll; their errors end the thread.
WaitAndPoll ==
  /\ poll = "wait"
  /\ \/ poll' = "lock" /\ pending' \in 0 .. MaxPackets
     \/ poll' = "none" /\ UNCHANGED pending
  /\ UNCHANGED <<sources, schedmutex, sched, table, ssrc, sentpackets, byepackets, collisions,
                 PollOnly, from, history>>

LockSources ==
  /\ poll = "lock" /\ sources = "free"
  /\ sources' = "poll" /\ poll' = "packets"
  /\ UNCHANGED <<schedmutex, sched, table, ssrc, sentpackets, byepackets, collisions, PollOnly,
                 pending, from, history>>

Taken == poll = "packets" /\ pending > 0 /\ pending' = pending - 1

\* Mutant: SOURCES is not released.
FailsLocked ==
  /\ Taken
  /\ poll' = "none"
  /\ UNCHANGED <<sources, schedmutex, sched, table, ssrc, sentpackets, byepackets, collisions,
                 PollOnly, from, history>>

\* An error of ProcessRawPacket ends the thread, and releases SOURCES.
PacketFails ==
  /\ Taken
  /\ sources' = "free" /\ poll' = "none"
  /\ UNCHANGED <<schedmutex, sched, table, ssrc, sentpackets, byepackets, collisions, PollOnly,
                 from, history>>

MemberJoins ==
  /\ Taken /\ members < MaxMembers
  /\ members' = members + 1
  /\ UNCHANGED <<ownssrc, sources, poll, schedmutex, sched, ssrc, sentpackets, byepackets,
                 collisions, PollOnly, from, history>>

\* A BYE, also one that changes nothing in the source table.
MemberLeaves ==
  /\ Taken /\ (sched.byescheduled => sched.byemembers < MaxMembers)
  /\ members' \in {members, members - 1} \cap 1 .. MaxMembers
  /\ sched' = ActiveMemberDecrease(AnalyseIncomingBYE(sched), members')
  /\ UNCHANGED <<ownssrc, sources, poll, schedmutex, ssrc, sentpackets, byepackets,
                 collisions, PollOnly, from, history>>

\* A packet from somebody else with our SSRC; the bound on SSRCs limits the
\* addresses that are new.
PacketCollides ==
  /\ Taken
  /\ from' \in IF ssrc < MaxSSRC THEN Address ELSE collisions
  /\ poll' = "collision"
  /\ UNCHANGED <<sources, schedmutex, sched, table, ssrc, sentpackets, byepackets, collisions,
                 PollOnly, history>>

\* UpdateAddress: an address that is in the list was answered already.
KnownCollision ==
  /\ poll = "collision" /\ from \in collisions
  /\ poll' = "packets" /\ from' = NoAddress
  /\ UNCHANGED <<sources, schedmutex, sched, table, ssrc, sentpackets, byepackets, collisions,
                 PollOnly, pending, history>>

\* Mutant: the BYE is built after the SSRC was changed.
BuildsLate ==
  /\ poll = "collision" /\ from \notin collisions
  /\ collisions' = collisions \cup {from} /\ from' = NoAddress
  /\ byepackets' = IF sentpackets THEN Append(byepackets, ssrc + 1) ELSE byepackets
  /\ sched' \in IF sentpackets /\ byepackets = <<>> THEN ScheduleBYEPacket(sched, members) ELSE {sched}
  /\ poll' = "newssrc"
  /\ UNCHANGED <<sources, schedmutex, table, ssrc, sentpackets, PollOnly, pending, history>>

\* A new address is answered with a BYE, if the flag is set, and a new SSRC;
\* the first BYE of the list is scheduled.
NewCollision ==
  /\ poll = "collision" /\ from \notin collisions
  /\ collisions' = collisions \cup {from} /\ from' = NoAddress
  /\ byepackets' = IF sentpackets THEN Append(byepackets, ssrc) ELSE byepackets
  /\ sched' \in IF sentpackets /\ byepackets = <<>> THEN ScheduleBYEPacket(sched, members) ELSE {sched}
  /\ poll' = "newssrc"
  /\ UNCHANGED <<sources, schedmutex, table, ssrc, sentpackets, PollOnly, pending, history>>

\* UpdateAddress or BuildBYEPacket fails: the thread ends.
CollisionFails ==
  /\ poll = "collision" /\ from \notin collisions
  /\ collisions' \in {collisions} \cup (IF sentpackets THEN {collisions \cup {from}} ELSE {})
  /\ from' = NoAddress
  /\ sources' = "free" /\ poll' = "none"
  /\ UNCHANGED <<schedmutex, sched, table, ssrc, sentpackets, byepackets, PollOnly, pending,
                 history>>

\* CreateNewSSRC of the builder.
CreateNewSSRC ==
  /\ poll = "newssrc"
  /\ ssrc' = ssrc + 1
  /\ poll' = "newsource"
  /\ UNCHANGED <<sources, schedmutex, sched, table, sentpackets, byepackets, collisions, PollOnly,
                 pending, from, history>>

\* DeleteOwnSSRC and CreateOwnSSRC.
ReplaceOwnSSRC ==
  /\ poll = "newsource"
  /\ sentpackets' = FALSE
  /\ ownssrc' = ssrc
  /\ poll' = "packets"
  /\ UNCHANGED <<members, sources, schedmutex, sched, ssrc, byepackets, collisions, PollOnly,
                 pending, from, history>>

\* CreateOwnSSRC fails after DeleteOwnSSRC, which fails only without an own
\* source: the thread ends.
ReplaceFails ==
  /\ poll = "newsource"
  /\ sentpackets' = FALSE
  /\ ownssrc' = 0 /\ members' = members - 1
  /\ sources' = "free" /\ poll' = "none"
  /\ UNCHANGED <<schedmutex, sched, ssrc, byepackets, collisions, PollOnly, pending, from, history>>

\* MultipleTimeouts, of a member at most, and the time-out of collisions.
Timeouts ==
  /\ poll = "packets" /\ pending = 0
  /\ members' \in {members, members - 1} \cap 1 .. MaxMembers
  /\ sched' = IF members' = members THEN sched ELSE ActiveMemberDecrease(sched, members')
  /\ collisions' \in SUBSET collisions
  /\ poll' = "istime"
  /\ UNCHANGED <<ownssrc, sources, schedmutex, ssrc, sentpackets, byepackets, PollOnly, pending,
                 from, history>>

NotTime ==
  /\ poll = "istime"
  /\ \E r \in IsTime(sched, members) : ~r.istime /\ sched' = r.sched
  /\ poll' = "end"
  /\ UNCHANGED <<sources, schedmutex, table, ssrc, sentpackets, byepackets, collisions, PollOnly,
                 pending, from, history>>

\* BuildNextPacket and SendRTCPData, of which an error ends the thread.
SendReport ==
  /\ poll = "istime" /\ byepackets = <<>>
  /\ \E r \in IsTime(sched, members) :
       /\ r.istime
       /\ \/ /\ sched' = AnalyseOutgoing(r.sched)
             /\ gone' = gone \ {ssrc} /\ owed' = owed \cup {ssrc}
             /\ sentpackets' = TRUE /\ poll' = "end" /\ UNCHANGED sources
          \/ /\ sched' = r.sched
             /\ poll' = "none" /\ sources' = "free" /\ UNCHANGED <<history, sentpackets>>
  /\ UNCHANGED <<schedmutex, table, ssrc, byepackets, collisions, PollOnly, pending, from>>

\* The flag is set although the BYE is of an earlier SSRC.
SendBYE ==
  /\ poll = "istime" /\ byepackets # <<>>
  /\ byepackets' = Tail(byepackets)
  /\ \E r \in IsTime(sched, members) :
       /\ r.istime
       /\ \/ /\ SaysBYE(Head(byepackets)) /\ sentpackets' = TRUE
             /\ \E s \in IF Tail(byepackets) # <<>> THEN ScheduleBYEPacket(r.sched, members)
                         ELSE {r.sched} : sched' = AnalyseOutgoing(s)
             /\ poll' = "end" /\ UNCHANGED sources
          \/ /\ sched' = r.sched
             /\ poll' = "none" /\ sources' = "free" /\ UNCHANGED <<owed, gone, sentpackets>>
  /\ UNCHANGED <<schedmutex, table, ssrc, collisions, PollOnly, pending, from>>

\* SOURCES is released, and stop is tested.
EndProcess ==
  /\ poll = "end"
  /\ sources' = "free"
  /\ poll' = IF stop THEN "none" ELSE "delay"
  /\ UNCHANGED <<schedmutex, sched, table, ssrc, sentpackets, byepackets, collisions, PollOnly,
                 pending, from, history>>

-----------------------------------------------------------------------------

Begin == SendPacket \/ BuildAPP \/ SetSessionBandwidth \/ BeginDataAccess \/ StopThread
Continue == FlagSent \/ SendAPP \/ Destroy \/ BYEDestroy \/ SendLastBYE \/ Leave
AppLocks == MarkSender \/ SetParameters
Locks == LockSched \/ GetDelay \/ LockSources
Process == WaitAndPoll \/ PacketFails \/ MemberJoins \/ MemberLeaves \/ PacketCollides
             \/ KnownCollision \/ NewCollision \/ CollisionFails \/ CreateNewSSRC \/ ReplaceOwnSSRC
             \/ ReplaceFails \/ Timeouts \/ NotTime \/ SendReport \/ SendBYE \/ EndProcess

Next == Tick \/ Begin \/ Continue \/ AppLocks \/ EndDataAccess \/ Locks \/ Process

\* A call goes on once it has begun, time passes, a mutex that becomes free
\* again and again is obtained, and the application ends its look at the sources.
Fairness ==
  /\ WF_vars(Tick) /\ WF_vars(Process) /\ WF_vars(Continue)
  /\ SF_vars(Locks) /\ SF_vars(AppLocks) /\ SF_vars(EndDataAccess)

Spec == Init /\ [][Next]_vars /\ Fairness

-----------------------------------------------------------------------------
(* Properties. *)

\* Whoever holds SOURCES, but the poll thread on its way from one SSRC to the
\* next, finds the builder's SSRC in the table, while there is a poll thread.
OwnIsBuilders == poll \notin {"newsource", "none"} => ownssrc = ssrc

\* A BYE that waits is scheduled, while there is a poll thread to send it.
BYEIsScheduled == poll # "none" /\ byepackets # <<>> => sched.byescheduled

\* The SSRC of a send that returned, or of a report, before it collided has
\* its BYE in the list if it is an old one, and the flag for it if it is not.
BYEIsOwed ==
  poll # "none" =>
    /\ owed \subseteq {byepackets[i] : i \in DOMAIN byepackets} \cup {ssrc}
    /\ ssrc \in owed => sentpackets

\* A collision, which may come between any two steps of the application's calls,
\* leaves one own SSRC in both places, and a BYE queued and scheduled for the
\* old one if a send had returned with it or a report had gone out.  It may
\* queue none for a packet whose send had not returned yet.
CollisionAnswered == OwnIsBuilders /\ BYEIsScheduled /\ BYEIsOwed

\* An SSRC that has said BYE sends no RTP packet and no report.
BYEIsLast == [][gone \subseteq gone']_vars

\* The application that looks at the sources has called the session for a mutex:
\* SendPacket waits for the application itself, or SetSessionBandwidth for the
\* poll thread, which waits for SOURCES.
Deadlocked == sources = "app" /\ (app = "mark" \/ (app = "bandwidth" /\ poll = "locksources"))

\* The others hear the BYEs that wait, or the thread has ended; members that
\* join and leave again and again could put them off, by the reverse
\* reconsideration.
BYEIsSent ==
  \/ []<><<MemberJoins>>_vars
  \/ byepackets # <<>> ~> (byepackets = <<>> \/ poll = "none" \/ Deadlocked)

\* A BYE goes out, and is the last that is heard of its SSRC.
BYEIsSentLast == BYEIsSent /\ BYEIsLast

\* Every call of the application returns; only calls that it makes while it looks
\* at the sources can end in a deadlock, which the code leaves to the caller.
CallsReturn == app \in Calls ~> (app \in {"idle", "access", "left"} \/ Deadlocked)

=============================================================================

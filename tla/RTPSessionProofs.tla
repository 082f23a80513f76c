---------------------------- MODULE RTPSessionProofs ----------------------------
(***************************************************************************)
(* What RTPSession promises of collisions and BYE packets, for any number  *)
(* of members, SSRCs, addresses and packets, and any bandwidth; and what   *)
(* RTPPollThread promises, for any number of hosts, ports, groups,         *)
(* sessions and datagrams: the transmitter is destroyed alone, and the     *)
(* accept and ignore lists select only what was asked for.  The second     *)
(* half is about the RTCP packets of RTCPPacketBuilder, for any number of  *)
(* sources, SDES items and intervals, and any sizes: they are whole, their *)
(* statistics are true, and none is left out for long.                     *)
(***************************************************************************)
EXTENDS RTPSession, RTPPollThread, RTCPPacketBuilder, FiniteSetTheorems, SequenceTheorems,
        NaturalsInduction, WellFoundedInduction, TLAPS

-----------------------------------------------------------------------------
(* The scheduler keeps being a scheduler; what becomes of byescheduled. *)

Fields == {"firstcall", "hassentrtcp", "byescheduled", "sendbyenow",
           "next", "since", "pmembers", "byemembers"}

\* A record with the members of RTCPScheduler, whatever they are.
IsScheduler(s) == s = [x \in Fields |-> s[x]]

LEMMA TickedKeeps ==
  ASSUME NEW s, IsScheduler(s)
  PROVE  IsScheduler(Ticked(s)) /\ Ticked(s).byescheduled = s.byescheduled
  BY DEF IsScheduler, Fields, Ticked

LEMMA ScheduledKeeps ==
  ASSUME NEW s, IsScheduler(s), NEW m, NEW t \in Scheduled(s, m)
  PROVE  IsScheduler(t) /\ t.byescheduled = s.byescheduled
  BY DEF Scheduled, IsScheduler, Fields

LEMMA FirstCallKeeps ==
  ASSUME NEW s, IsScheduler(s), NEW m, NEW t \in FirstCall(s, m)
  PROVE  IsScheduler(t) /\ t.byescheduled = s.byescheduled
<1> DEFINE f == [s EXCEPT !.firstcall = FALSE, !.since = 0, !.pmembers = m]
<1>1. IsScheduler(f) /\ f.byescheduled = s.byescheduled
  BY DEF IsScheduler, Fields
<1>2. t \in Scheduled(f, m)
  BY DEF FirstCall
<1> HIDE DEF f
<1> QED BY <1>1, <1>2, ScheduledKeeps

LEMMA DelayKeeps ==
  ASSUME NEW s, IsScheduler(s), NEW m, NEW t \in GetTransmissionDelay(s, m)
  PROVE  IsScheduler(t) /\ t.byescheduled = s.byescheduled
  BY FirstCallKeeps DEF GetTransmissionDelay

LEMMA IsTimeKeeps ==
  ASSUME NEW s, IsScheduler(s), NEW m, NEW r \in IsTime(s, m)
  PROVE  /\ IsScheduler(r.sched)
         /\ ~r.istime => r.sched.byescheduled = s.byescheduled
<1>1. CASE s.firstcall
  <2>1. PICK t \in FirstCall(s, m) : r = No(t)
    BY <1>1 DEF IsTime
  <2> QED BY <2>1, FirstCallKeeps DEF No
<1>2. CASE ~s.firstcall /\ s.next > 0
  <2>1. r = No(s)
    BY <1>2 DEF IsTime
  <2> QED BY <2>1 DEF No
<1>3. CASE ~s.firstcall /\ ~(s.next > 0)
  <2>1. PICK t \in IF s.byescheduled THEN BYEIntervals(s) ELSE Intervals(s, m) :
          r \in IF t <= s.since
                THEN {Yes(u) : u \in Scheduled([s EXCEPT !.byescheduled = FALSE, !.since = 0,
                                                         !.pmembers = m], m)}
                ELSE {No([s EXCEPT !.next = t - s.since, !.pmembers = m])}
    BY <1>3 DEF IsTime
  <2>2. CASE t <= s.since
    <3> DEFINE f == [s EXCEPT !.byescheduled = FALSE, !.since = 0, !.pmembers = m]
    <3>1. IsScheduler(f)
      BY DEF IsScheduler, Fields
    <3>2. PICK u \in Scheduled(f, m) : r = Yes(u)
      BY <2>1, <2>2
    <3> HIDE DEF f
    <3> QED BY <3>1, <3>2, ScheduledKeeps DEF Yes
  <2>3. CASE ~(t <= s.since)
    <3> DEFINE n == t - s.since
    <3>1. r = No([s EXCEPT !.next = n, !.pmembers = m])
      BY <2>1, <2>3
    <3> HIDE DEF n
    <3> QED BY <3>1 DEF No, IsScheduler, Fields
  <2> QED BY <2>2, <2>3
<1> QED BY <1>1, <1>2, <1>3

LEMMA DecreaseKeeps ==
  ASSUME NEW s, IsScheduler(s), NEW m
  PROVE  /\ IsScheduler(ActiveMemberDecrease(s, m))
         /\ ActiveMemberDecrease(s, m).byescheduled = s.byescheduled
  BY DEF ActiveMemberDecrease, IsScheduler, Fields

LEMMA AnalyseKeeps ==
  ASSUME NEW s, IsScheduler(s)
  PROVE  /\ IsScheduler(AnalyseIncomingBYE(s)) /\ IsScheduler(AnalyseOutgoing(s))
         /\ AnalyseIncomingBYE(s).byescheduled = s.byescheduled
         /\ AnalyseOutgoing(s).byescheduled = s.byescheduled
  BY DEF AnalyseIncomingBYE, AnalyseOutgoing, IsScheduler, Fields

\* After ScheduleBYEPacket one is scheduled.
LEMMA ScheduleBYEDoes ==
  ASSUME NEW s, IsScheduler(s), NEW m, NEW t \in ScheduleBYEPacket(s, m)
  PROVE  IsScheduler(t) /\ t.byescheduled
<1>1. CASE s.byescheduled
  BY <1>1 DEF ScheduleBYEPacket
<1>2. CASE ~s.byescheduled
  <2> DEFINE u == [s EXCEPT !.firstcall = FALSE, !.byescheduled = TRUE, !.byemembers = 1, !.since = 0,
                            !.pmembers = IF s.firstcall THEN m ELSE @,
                            !.sendbyenow = ImmediateBYE /\ m < FewMembers]
  <2>1. IsScheduler(u) /\ u.byescheduled
    BY DEF IsScheduler, Fields
  <2>2. PICK n \in BYEIntervals(u) : t = [u EXCEPT !.next = n]
    BY <1>2 DEF ScheduleBYEPacket
  <2> HIDE DEF u
  <2> QED BY <2>1, <2>2 DEF IsScheduler, Fields
<1> QED BY <1>1, <1>2

-----------------------------------------------------------------------------
(* The invariant. *)

\* The places at which the poll thread holds SOURCES.
Processing == {"packets", "collision", "newssrc", "newsource", "istime", "end"}

LockInv ==
  /\ sources = "poll" <=> poll \in Processing
  /\ app = "access" => sources = "app"
  /\ app \in {"leave", "left"} => poll = "none"

InList(x) == \E i \in DOMAIN byepackets : byepackets[i] = x

\* A send with the new SSRC waits for SOURCES before it returns, so that the
\* poll thread has cleared the flag before; one with the old SSRC does not count.
OwedInv ==
  /\ ssrc \in Nat /\ appssrc \in Nat /\ appssrc <= ssrc
  /\ byepackets \in Seq(Nat)
  /\ \A x \in owed : x \in Nat /\ x <= ssrc
  /\ poll # "none" =>
       /\ \A x \in owed : x = ssrc \/ InList(x)
       /\ ssrc \in owed => sentpackets = TRUE
       /\ poll = "newssrc" /\ ssrc \in owed => InList(ssrc)
       /\ poll = "newsource" => ssrc \notin owed /\ ~(app = "flag" /\ appssrc = ssrc)

ScheduleInv ==
  /\ IsScheduler(sched)
  /\ byepackets \in Seq(Nat)
  /\ BYEIsScheduled

AnswerInv == LockInv /\ OwedInv /\ OwnIsBuilders /\ ScheduleInv

LEMMA AnswerInit == Init => AnswerInv
<1> SUFFICES ASSUME Init PROVE AnswerInv
  OBVIOUS
<1>1. LockInv /\ OwedInv /\ OwnIsBuilders
  BY DEF Init, LockInv, OwedInv, OwnIsBuilders, Processing
<1>2. ScheduleInv
  <2>1. IsScheduler(NewScheduler)
    BY DEF IsScheduler, Fields, NewScheduler
  <2> QED BY <2>1 DEF Init, ScheduleInv, BYEIsScheduled
<1> QED BY <1>1, <1>2 DEF AnswerInv

\* Every step of the module, for the proofs that go through all of them.
LEMMA Steps ==
  ASSUME [Next]_vars
  PROVE  \/ Tick \/ SendPacket \/ BuildAPP \/ SetSessionBandwidth \/ BeginDataAccess \/ StopThread
         \/ MarkSender \/ SetParameters \/ FlagSent \/ SendAPP \/ EndDataAccess \/ Destroy \/ BYEDestroy
         \/ SendLastBYE \/ Leave \/ LockSched \/ GetDelay \/ LockSources \/ WaitAndPoll \/ PacketFails
         \/ MemberJoins \/ MemberLeaves \/ PacketCollides \/ KnownCollision \/ NewCollision
         \/ CollisionFails \/ CreateNewSSRC \/ ReplaceOwnSSRC \/ ReplaceFails \/ Timeouts \/ NotTime
         \/ SendReport \/ SendBYE \/ EndProcess \/ UNCHANGED vars
  BY DEF Next, Begin, Continue, AppLocks, Locks, Process

LEMMA LockStep == LockInv /\ [Next]_vars => LockInv'
<1> SUFFICES ASSUME LockInv, [Next]_vars PROVE LockInv'
  OBVIOUS
<1> USE DEF LockInv, Processing
<1>1. CASE Tick \/ BeginDataAccess \/ StopThread
  BY <1>1 DEF Tick, BeginDataAccess, StopThread, AppOnly, threads
<1>2. CASE SendPacket \/ BuildAPP \/ SetSessionBandwidth
  BY <1>2 DEF SendPacket, BuildAPP, SetSessionBandwidth, MayCall, Returned, AppOnly
<1>3. CASE MarkSender \/ SetParameters \/ FlagSent \/ SendAPP \/ EndDataAccess
  BY <1>3 DEF MarkSender, SetParameters, FlagSent, SendAPP, EndDataAccess, Returned, AppOnly
<1>4. CASE Destroy \/ BYEDestroy \/ SendLastBYE \/ Leave
  BY <1>4 DEF Destroy, BYEDestroy, SendLastBYE, Leave, AppOnly
<1>5. CASE LockSched \/ GetDelay \/ LockSources \/ WaitAndPoll
  BY <1>5 DEF LockSched, GetDelay, LockSources, WaitAndPoll, PollOnly
<1>6. CASE PacketFails \/ MemberJoins \/ MemberLeaves \/ PacketCollides
  BY <1>6 DEF PacketFails, MemberJoins, MemberLeaves, PacketCollides, Taken, PollOnly
<1>7. CASE KnownCollision \/ NewCollision \/ CollisionFails \/ CreateNewSSRC
  BY <1>7 DEF KnownCollision, NewCollision, CollisionFails, CreateNewSSRC, PollOnly
<1>8. CASE ReplaceOwnSSRC \/ ReplaceFails
  BY <1>8 DEF ReplaceOwnSSRC, ReplaceFails, PollOnly
<1>9. CASE Timeouts \/ NotTime \/ SendReport \/ SendBYE \/ EndProcess
  BY <1>9 DEF Timeouts, NotTime, SendReport, SendBYE, EndProcess, PollOnly
<1>10. CASE UNCHANGED vars
  BY <1>10 DEF vars, threads
<1> QED BY <1>1, <1>2, <1>3, <1>4, <1>5, <1>6, <1>7, <1>8, <1>9, <1>10, Steps

LEMMA InTail ==
  ASSUME NEW s \in Seq(Nat), s # <<>>, NEW i \in DOMAIN s, s[i] # Head(s)
  PROVE  \E j \in DOMAIN Tail(s) : Tail(s)[j] = s[i]
<1>1. i \in 2 .. Len(s)
  OBVIOUS
<1>2. i - 1 \in DOMAIN Tail(s) /\ Tail(s)[i - 1] = s[i]
  BY <1>1
<1> QED BY <1>2

\* A step that leaves alone what is owed, the list and the flag.
LEMMA OwedKept ==
  ASSUME OwedInv, UNCHANGED <<ssrc, owed, byepackets, sentpackets>>,
         appssrc' \in {appssrc, 0, ssrc},
         poll = "none" => poll' = "none", poll' \in {"newssrc", "newsource"} => poll' = poll,
         poll = "newsource" /\ app' = "flag" => app = "flag" /\ appssrc' = appssrc
  PROVE  OwedInv'
<1>1. appssrc' \in Nat /\ appssrc' <= ssrc'
  BY DEF OwedInv
<1>2. \A x : InList(x)' <=> InList(x)
  BY DEF InList
<1> QED BY <1>1, <1>2 DEF OwedInv

\* A step of the poll thread that ends it.
LEMMA OwedEnds ==
  ASSUME OwedInv, UNCHANGED <<ssrc, owed, appssrc>>, byepackets' \in Seq(Nat), poll' = "none"
  PROVE  OwedInv'
  BY DEF OwedInv

LEMMA OwedStep == LockInv /\ OwedInv /\ [Next]_vars => OwedInv'
<1> SUFFICES ASSUME LockInv, OwedInv, [Next]_vars PROVE OwedInv'
  OBVIOUS
<1>1. CASE Tick \/ SetSessionBandwidth \/ BeginDataAccess \/ StopThread
  <2>1. /\ UNCHANGED <<ssrc, owed, byepackets, sentpackets, appssrc, poll>>
        /\ app' = "flag" => app = "flag"
    BY <1>1 DEF Tick, SetSessionBandwidth, BeginDataAccess, StopThread, AppOnly, threads, history
  <2> QED BY <2>1, OwedKept
<1>2. CASE SendPacket \/ BuildAPP
  <2>1. /\ UNCHANGED <<ssrc, owed, byepackets, sentpackets, poll>>
        /\ app' # "flag" /\ appssrc' \in {appssrc, ssrc}
    BY <1>2 DEF SendPacket, BuildAPP, Returned, AppOnly, history
  <2> QED BY <2>1, OwedKept
<1>3. CASE MarkSender
  <2>1. /\ UNCHANGED <<ssrc, owed, byepackets, sentpackets, appssrc, poll>>
        /\ sources = "free"
    BY <1>3 DEF MarkSender, AppOnly, history
  <2>2. poll # "newsource"
    BY <2>1 DEF LockInv, Processing
  <2> QED BY <2>1, <2>2, OwedKept
<1>4. CASE SetParameters \/ SendAPP \/ EndDataAccess
  <2>1. /\ UNCHANGED <<ssrc, owed, byepackets, sentpackets, poll>>
        /\ app' # "flag" /\ appssrc' \in {appssrc, 0}
    BY <1>4 DEF SetParameters, SendAPP, EndDataAccess, Returned, AppOnly, history
  <2> QED BY <2>1, OwedKept
<1>5. CASE FlagSent
  <2>1. /\ UNCHANGED <<ssrc, byepackets, poll>> /\ sentpackets' = TRUE /\ appssrc' = 0 /\ app' # "flag"
        /\ owed' = IF app = "flag" /\ appssrc = ssrc /\ poll # "newssrc" THEN owed \cup {ssrc} ELSE owed
    BY <1>5 DEF FlagSent, Returned, AppOnly
  <2>2. \A x : InList(x)' <=> InList(x)
    BY <2>1 DEF InList
  <2>3. poll = "newsource" => owed' = owed
    BY <2>1 DEF OwedInv
  <2>4. poll = "newssrc" => owed' = owed
    BY <2>1
  <2>5. owed' \subseteq owed \cup {ssrc}
    BY <2>1
  <2> QED BY <2>1, <2>2, <2>3, <2>4, <2>5 DEF OwedInv
<1>6. CASE Destroy \/ BYEDestroy \/ Leave
  <2>1. /\ UNCHANGED <<ssrc, owed, appssrc, poll>>
        /\ byepackets' \in {byepackets, <<>>, Append(byepackets, ssrc)}
    BY <1>6 DEF Destroy, BYEDestroy, Leave, AppOnly, history
  <2>2. poll = "none"
    BY <1>6 DEF Destroy, BYEDestroy, Leave, LockInv
  <2>3. byepackets' \in Seq(Nat)
    <3>1. byepackets \in Seq(Nat) /\ ssrc \in Nat
      BY DEF OwedInv
    <3>2. <<>> \in Seq(Nat) /\ Append(byepackets, ssrc) \in Seq(Nat)
      BY <3>1
    <3> QED BY ONLY <2>1, <3>1, <3>2
  <2> QED BY <2>1, <2>2, <2>3, OwedEnds
<1>7. CASE SendLastBYE
  <2>1. UNCHANGED <<ssrc, appssrc, poll>> /\ byepackets # <<>> /\ app = "leave"
    BY <1>7 DEF SendLastBYE, AppOnly
  <2>2. byepackets' \in {byepackets, Tail(byepackets)} /\ owed' \subseteq owed
    BY <1>7 DEF SendLastBYE, SaysBYE
  <2>3. poll' = "none"
    BY <2>1 DEF LockInv
  <2>4. byepackets' \in Seq(Nat)
    <3>1. byepackets \in Seq(Nat)
      BY DEF OwedInv
    <3>2. Tail(byepackets) \in Seq(Nat)
      BY <2>1, <3>1
    <3> QED BY <2>2, <3>1, <3>2
  <2> QED
    <3>1. ssrc' \in Nat /\ appssrc' \in Nat /\ appssrc' <= ssrc'
      BY <2>1 DEF OwedInv
    <3>2. \A x \in owed' : x \in Nat /\ x <= ssrc'
      BY <2>1, <2>2 DEF OwedInv
    <3> QED BY <2>3, <2>4, <3>1, <3>2 DEF OwedInv
<1>8. CASE LockSched \/ GetDelay \/ LockSources \/ WaitAndPoll
  <2>1. /\ UNCHANGED <<ssrc, owed, byepackets, sentpackets, appssrc, app>>
        /\ poll # "none" /\ poll' \notin {"newssrc", "newsource"} /\ poll # "newsource"
    BY <1>8 DEF LockSched, GetDelay, LockSources, WaitAndPoll, PollOnly, history
  <2> QED BY <2>1, OwedKept
<1>9. CASE PacketFails \/ MemberJoins \/ MemberLeaves \/ PacketCollides
  <2>1. /\ UNCHANGED <<ssrc, owed, byepackets, sentpackets, appssrc, app>>
        /\ poll # "none" /\ poll' \notin {"newssrc", "newsource"} /\ poll # "newsource"
    BY <1>9 DEF PacketFails, MemberJoins, MemberLeaves, PacketCollides, Taken, PollOnly, history
  <2> QED BY <2>1, OwedKept
<1>10. CASE KnownCollision \/ Timeouts \/ NotTime \/ EndProcess
  <2>1. /\ UNCHANGED <<ssrc, owed, byepackets, sentpackets, appssrc, app>>
        /\ poll # "none" /\ poll' \notin {"newssrc", "newsource"} /\ poll # "newsource"
    BY <1>10 DEF KnownCollision, Timeouts, NotTime, EndProcess, PollOnly, history
  <2> QED BY <2>1, OwedKept
<1>11. CASE NewCollision
  <2>1. /\ UNCHANGED <<ssrc, owed, sentpackets, appssrc>>
        /\ byepackets' = IF sentpackets THEN Append(byepackets, ssrc) ELSE byepackets
        /\ poll # "none" /\ poll' = "newssrc"
    BY <1>11 DEF NewCollision, PollOnly, history
  <2>2. byepackets \in Seq(Nat) /\ ssrc \in Nat
    BY DEF OwedInv
  <2>3. byepackets' \in Seq(Nat) /\ \A x : InList(x) => InList(x)'
    BY <2>1, <2>2 DEF InList
  <2>4. ssrc \in owed => InList(ssrc)'
    <3> SUFFICES ASSUME ssrc \in owed PROVE InList(ssrc)'
      OBVIOUS
    <3>1. byepackets' = Append(byepackets, ssrc)
      BY <2>1 DEF OwedInv
    <3>2. Len(byepackets) + 1 \in DOMAIN byepackets' /\ byepackets'[Len(byepackets) + 1] = ssrc
      BY <2>2, <3>1
    <3> QED BY <2>1, <3>2 DEF InList
  <2> QED BY <2>1, <2>3, <2>4 DEF OwedInv
<1>12. CASE CollisionFails \/ ReplaceFails
  <2>1. UNCHANGED <<ssrc, owed, byepackets, appssrc>> /\ poll' = "none"
    BY <1>12 DEF CollisionFails, ReplaceFails, PollOnly, history
  <2>2. byepackets' \in Seq(Nat)
    BY <2>1 DEF OwedInv
  <2> QED BY <2>1, <2>2, OwedEnds
<1>13. CASE CreateNewSSRC
  <2>1. /\ UNCHANGED <<owed, byepackets, sentpackets, appssrc, app>> /\ ssrc' = ssrc + 1
        /\ poll = "newssrc" /\ poll' = "newsource"
    BY <1>13 DEF CreateNewSSRC, PollOnly, history
  <2>2. \A x : InList(x)' <=> InList(x)
    BY <2>1 DEF InList
  <2>3. ssrc' \notin owed' /\ ssrc' # appssrc'
    BY <2>1 DEF OwedInv
  <2> QED BY <2>1, <2>2, <2>3 DEF OwedInv
<1>14. CASE ReplaceOwnSSRC
  <2>1. /\ UNCHANGED <<ssrc, owed, byepackets, appssrc, app>>
        /\ poll = "newsource" /\ poll' = "packets"
    BY <1>14 DEF ReplaceOwnSSRC, PollOnly, history
  <2>2. \A x : InList(x)' <=> InList(x)
    BY <2>1 DEF InList
  <2> QED BY <2>1, <2>2 DEF OwedInv
<1>15. CASE SendReport
  <2>1. /\ UNCHANGED <<ssrc, byepackets, appssrc>> /\ poll = "istime"
        /\ \/ owed' = owed \cup {ssrc} /\ sentpackets' = TRUE /\ poll' = "end"
           \/ UNCHANGED owed /\ poll' = "none"
    BY <1>15 DEF SendReport, PollOnly, history
  <2>2. \A x : InList(x)' <=> InList(x)
    BY <2>1 DEF InList
  <2> QED BY <2>1, <2>2 DEF OwedInv
<1>16. CASE SendBYE
  <2>1. /\ UNCHANGED <<ssrc, appssrc>> /\ poll = "istime"
        /\ byepackets # <<>> /\ byepackets' = Tail(byepackets)
    BY <1>16 DEF SendBYE, PollOnly
  <2>2. \/ owed' = owed \ {Head(byepackets)} /\ sentpackets' = TRUE /\ poll' = "end"
        \/ UNCHANGED owed /\ poll' = "none"
    BY <1>16 DEF SendBYE, SaysBYE
  <2>3. byepackets \in Seq(Nat) /\ byepackets' \in Seq(Nat)
    BY <2>1 DEF OwedInv
  <2>4. \A x \in owed : x # Head(byepackets) /\ InList(x) => InList(x)'
    BY <2>1, <2>3, InTail DEF InList
  <2> QED BY <2>1, <2>2, <2>3, <2>4 DEF OwedInv
<1>17. CASE UNCHANGED vars
  <2>1. UNCHANGED <<ssrc, owed, byepackets, sentpackets, appssrc, poll, app>>
    BY <1>17 DEF vars, threads, history
  <2> QED BY <2>1, OwedKept
<1> QED BY <1>1, <1>2, <1>3, <1>4, <1>5, <1>6, <1>7, <1>8, <1>9, <1>10, <1>11, <1>12, <1>13, <1>14,
           <1>15, <1>16, <1>17, Steps

LEMMA OwnStep == OwnIsBuilders /\ [Next]_vars => OwnIsBuilders'
<1> SUFFICES ASSUME OwnIsBuilders, [Next]_vars PROVE OwnIsBuilders'
  OBVIOUS
<1> USE DEF OwnIsBuilders
<1>1. CASE Tick \/ SendPacket \/ BuildAPP \/ SetSessionBandwidth \/ BeginDataAccess \/ StopThread
  BY <1>1 DEF Tick, SendPacket, BuildAPP, SetSessionBandwidth, BeginDataAccess, StopThread, AppOnly,
              threads, table
<1>2. CASE MarkSender \/ SetParameters \/ FlagSent \/ SendAPP \/ EndDataAccess
  BY <1>2 DEF MarkSender, SetParameters, FlagSent, SendAPP, EndDataAccess, AppOnly, table
<1>3. CASE Destroy \/ BYEDestroy \/ SendLastBYE \/ Leave
  BY <1>3 DEF Destroy, BYEDestroy, SendLastBYE, Leave, AppOnly, table
<1>4. CASE LockSched \/ GetDelay \/ LockSources \/ WaitAndPoll
  BY <1>4 DEF LockSched, GetDelay, LockSources, WaitAndPoll, PollOnly, table
<1>5. CASE PacketFails \/ MemberJoins \/ MemberLeaves \/ PacketCollides
  BY <1>5 DEF PacketFails, MemberJoins, MemberLeaves, PacketCollides, Taken, PollOnly, table
<1>6. CASE KnownCollision \/ NewCollision \/ CollisionFails \/ CreateNewSSRC
  BY <1>6 DEF KnownCollision, NewCollision, CollisionFails, CreateNewSSRC, PollOnly, table
<1>7. CASE ReplaceOwnSSRC \/ ReplaceFails
  BY <1>7 DEF ReplaceOwnSSRC, ReplaceFails, PollOnly, table
<1>8. CASE Timeouts \/ NotTime \/ SendReport \/ SendBYE \/ EndProcess
  BY <1>8 DEF Timeouts, NotTime, SendReport, SendBYE, EndProcess, PollOnly, table
<1>9. CASE UNCHANGED vars
  BY <1>9 DEF vars, threads, table
<1> QED BY <1>1, <1>2, <1>3, <1>4, <1>5, <1>6, <1>7, <1>8, <1>9, Steps

LEMMA ScheduleStep == LockInv /\ ScheduleInv /\ ssrc \in Nat /\ [Next]_vars => ScheduleInv'
<1> SUFFICES ASSUME LockInv, ScheduleInv, ssrc \in Nat, [Next]_vars PROVE ScheduleInv'
  OBVIOUS
<1> USE DEF LockInv, Processing, ScheduleInv, BYEIsScheduled
<1>1. CASE Tick
  <2>1. IsScheduler(sched') /\ sched'.byescheduled = sched.byescheduled
    BY <1>1, TickedKeeps DEF Tick
  <2> QED BY <1>1, <2>1 DEF Tick, threads
<1>2. CASE SendPacket \/ BuildAPP \/ SetSessionBandwidth \/ BeginDataAccess \/ StopThread
  <2>1. UNCHANGED <<sched, byepackets, poll>>
    BY <1>2 DEF SendPacket, BuildAPP, SetSessionBandwidth, BeginDataAccess, StopThread, AppOnly
  <2> QED BY <2>1
<1>3. CASE MarkSender \/ SetParameters \/ FlagSent \/ SendAPP \/ EndDataAccess
  <2>1. UNCHANGED <<sched, byepackets, poll>>
    BY <1>3 DEF MarkSender, SetParameters, FlagSent, SendAPP, EndDataAccess, AppOnly
  <2> QED BY <2>1
<1>4. CASE Destroy \/ Leave
  <2>1. byepackets' = <<>> /\ sched' = sched
    BY <1>4 DEF Destroy, Leave
  <2> QED BY <2>1
<1>5. CASE BYEDestroy
  <2>1. byepackets' \in Seq(Nat) /\ poll' = "none"
    BY <1>5 DEF BYEDestroy, AppOnly
  <2>2. IsScheduler(sched')
    BY <1>5, ScheduleBYEDoes DEF BYEDestroy
  <2> QED BY <2>1, <2>2
<1>6. CASE SendLastBYE
  <2>1. poll' = "none"
    BY <1>6 DEF SendLastBYE, AppOnly
  <2>2. PICK r \in IsTime(sched, members) :
          IF r.istime
          THEN /\ byepackets' = Tail(byepackets)
               /\ sched' \in IF Tail(byepackets) # <<>> THEN ScheduleBYEPacket(r.sched, members) ELSE {r.sched}
          ELSE sched' = r.sched /\ byepackets' = byepackets
    BY <1>6 DEF SendLastBYE
  <2>3. byepackets # <<>>
    BY <1>6 DEF SendLastBYE
  <2>4. IsScheduler(r.sched)
    BY IsTimeKeeps
  <2>5. IsScheduler(sched')
    BY <2>2, <2>4, ScheduleBYEDoes
  <2>6. byepackets' \in Seq(Nat)
    BY <2>2, <2>3
  <2> QED BY <2>1, <2>5, <2>6
<1>7. CASE LockSched \/ LockSources \/ WaitAndPoll
  BY <1>7 DEF LockSched, LockSources, WaitAndPoll, PollOnly
<1>8. CASE GetDelay
  <2>1. IsScheduler(sched') /\ sched'.byescheduled = sched.byescheduled
    BY <1>8, DelayKeeps DEF GetDelay
  <2> QED BY <1>8, <2>1 DEF GetDelay, PollOnly
<1>9. CASE PacketFails \/ MemberJoins \/ PacketCollides
  BY <1>9 DEF PacketFails, MemberJoins, PacketCollides, Taken, PollOnly
<1>10. CASE MemberLeaves
  <2>1. IsScheduler(sched') /\ sched'.byescheduled = sched.byescheduled
    BY <1>10, AnalyseKeeps, DecreaseKeeps DEF MemberLeaves
  <2> QED BY <1>10, <2>1 DEF MemberLeaves, Taken, PollOnly
<1>11. CASE NewCollision
  <2>1. byepackets' \in Seq(Nat) /\ poll # "none"
    BY <1>11 DEF NewCollision
  <2>2. CASE sentpackets /\ byepackets = <<>>
    BY <1>11, <2>1, <2>2, ScheduleBYEDoes DEF NewCollision
  <2>3. CASE ~(sentpackets /\ byepackets = <<>>)
    <3>1. sched' = sched
      BY <1>11, <2>3 DEF NewCollision
    <3>2. byepackets' # <<>> => byepackets # <<>>
      BY <1>11, <2>3 DEF NewCollision
    <3> QED BY <2>1, <3>1, <3>2
  <2> QED BY <2>2, <2>3
<1>12. CASE KnownCollision \/ CollisionFails \/ CreateNewSSRC \/ ReplaceOwnSSRC \/ ReplaceFails
  <2>1. UNCHANGED <<sched, byepackets>> /\ poll # "none"
    BY <1>12 DEF KnownCollision, CollisionFails, CreateNewSSRC, ReplaceOwnSSRC, ReplaceFails
  <2> QED BY <2>1
<1>13. CASE Timeouts
  <2>1. IsScheduler(sched') /\ sched'.byescheduled = sched.byescheduled
    BY <1>13, DecreaseKeeps DEF Timeouts
  <2> QED BY <1>13, <2>1 DEF Timeouts, PollOnly
<1>14. CASE NotTime
  <2>1. IsScheduler(sched') /\ sched'.byescheduled = sched.byescheduled
    BY <1>14, IsTimeKeeps DEF NotTime
  <2> QED BY <1>14, <2>1 DEF NotTime, PollOnly
<1>15. CASE SendReport
  <2>1. byepackets' = <<>>
    BY <1>15 DEF SendReport
  <2>2. PICK r \in IsTime(sched, members) : sched' \in {AnalyseOutgoing(r.sched), r.sched}
    BY <1>15 DEF SendReport
  <2>3. IsScheduler(sched')
    BY <2>2, IsTimeKeeps, AnalyseKeeps
  <2> QED BY <2>1, <2>3
<1>16. CASE SendBYE
  <2>1. byepackets # <<>> /\ byepackets' = Tail(byepackets) /\ byepackets' \in Seq(Nat)
    BY <1>16 DEF SendBYE
  <2>2. PICK r \in IsTime(sched, members) :
          \/ \E s \in IF Tail(byepackets) # <<>> THEN ScheduleBYEPacket(r.sched, members)
                      ELSE {r.sched} : sched' = AnalyseOutgoing(s)
          \/ sched' = r.sched /\ poll' = "none"
    BY <1>16 DEF SendBYE
  <2>3. IsScheduler(r.sched)
    BY IsTimeKeeps
  <2>4. CASE sched' = r.sched /\ poll' = "none"
    BY <2>1, <2>3, <2>4
  <2>5. ASSUME NEW s \in IF Tail(byepackets) # <<>> THEN ScheduleBYEPacket(r.sched, members)
                         ELSE {r.sched},
               sched' = AnalyseOutgoing(s)
        PROVE  ScheduleInv'
    <3>1. IsScheduler(s) /\ (Tail(byepackets) # <<>> => s.byescheduled)
      BY <2>3, <2>5, ScheduleBYEDoes
    <3>2. IsScheduler(sched') /\ sched'.byescheduled = s.byescheduled
      BY <2>5, <3>1, AnalyseKeeps
    <3> QED BY <2>1, <3>1, <3>2
  <2> QED BY <2>2, <2>4, <2>5
<1>17. CASE EndProcess
  BY <1>17 DEF EndProcess, PollOnly
<1>18. CASE UNCHANGED vars
  BY <1>18 DEF vars, threads
<1> QED BY <1>1, <1>2, <1>3, <1>4, <1>5, <1>6, <1>7, <1>8, <1>9, <1>10, <1>11, <1>12, <1>13, <1>14,
           <1>15, <1>16, <1>17, <1>18, Steps

SSRCIsNumber == ssrc \in Nat

LEMMA NumberStep == SSRCIsNumber /\ [Next]_vars => SSRCIsNumber'
<1> SUFFICES ASSUME SSRCIsNumber, [Next]_vars PROVE SSRCIsNumber'
  OBVIOUS
<1>1. ssrc' = ssrc \/ ssrc' = ssrc + 1
  <2>1. CASE Tick \/ Begin
    BY <2>1 DEF Tick, Begin, SendPacket, BuildAPP, SetSessionBandwidth, BeginDataAccess, StopThread
  <2>2. CASE Continue \/ AppLocks \/ EndDataAccess
    BY <2>2 DEF Continue, AppLocks, MarkSender, SetParameters, FlagSent, SendAPP, EndDataAccess,
                Destroy, BYEDestroy, SendLastBYE, Leave
  <2>3. CASE Locks
    BY <2>3 DEF Locks, LockSched, GetDelay, LockSources
  <2>4. CASE Process
    BY <2>4 DEF Process, WaitAndPoll, PacketFails, MemberJoins, MemberLeaves, PacketCollides,
                KnownCollision, NewCollision, CollisionFails, CreateNewSSRC, ReplaceOwnSSRC,
                ReplaceFails, Timeouts, NotTime, SendReport, SendBYE, EndProcess
  <2> QED BY <2>1, <2>2, <2>3, <2>4 DEF Next, vars
<1> QED BY <1>1 DEF SSRCIsNumber

\* A collision, between whichever steps of the application's calls, leaves the
\* table and the builder with one SSRC, and a BYE queued and scheduled for the
\* old one if a send had returned with it or a report had gone out.
\* (rtpsession.cpp 1343-1422, 573-631.)
THEOREM CollisionsAnswered == Spec => []CollisionAnswered
<1> DEFINE I == AnswerInv /\ SSRCIsNumber
<1>1. Init => I
  BY AnswerInit DEF Init, SSRCIsNumber
<1>2. I /\ [Next]_vars => I'
  BY LockStep, OwedStep, OwnStep, ScheduleStep, NumberStep DEF AnswerInv, SSRCIsNumber
<1>3. I => CollisionAnswered
  <2>1. AnswerInv => BYEIsOwed
    BY DEF AnswerInv, OwedInv, InList, BYEIsOwed
  <2> QED BY <2>1 DEF AnswerInv, ScheduleInv, CollisionAnswered
<1> HIDE DEF I
<1> QED BY <1>1, <1>2, <1>3, PTL DEF Spec

-----------------------------------------------------------------------------
(* What was said BYE for. *)

Leaving == app \in {"leave", "left"}

\* What has said BYE or waits to is older than the SSRC of the builder, but in
\* the step before it gets a new one, and in the end.
GoneIsOlder == \A x \in gone : x \in Nat /\ x < ssrc

WaitingIsOlder ==
  \A i \in DOMAIN byepackets : byepackets[i] < ssrc \/ (poll = "newssrc" /\ byepackets[i] = ssrc)

OlderInv ==
  /\ LockInv
  /\ ssrc \in Nat /\ byepackets \in Seq(Nat)
  /\ ~Leaving => GoneIsOlder /\ WaitingIsOlder

LEMMA OlderInit == Init => OlderInv
  BY DEF Init, OlderInv, LockInv, Processing, Leaving, GoneIsOlder, WaitingIsOlder

\* A step that leaves alone, or removes, what is gone and what waits.
LEMMA OlderKept ==
  ASSUME OlderInv, LockInv', Leaving => Leaving', ssrc' = ssrc, gone' \subseteq gone,
         byepackets' \in {byepackets, <<>>}, poll = "newssrc" => poll' = "newssrc"
  PROVE  OlderInv'
<1>1. byepackets' \in Seq(Nat)
  <2>1. CASE byepackets' = <<>>
    BY <2>1
  <2>2. CASE byepackets' = byepackets
    BY <2>2 DEF OlderInv
  <2> QED BY <2>1, <2>2
<1>2. GoneIsOlder => GoneIsOlder'
  BY DEF GoneIsOlder
<1>3. WaitingIsOlder => WaitingIsOlder'
  BY DEF WaitingIsOlder
<1> QED BY <1>1, <1>2, <1>3 DEF OlderInv

LEMMA OlderStep == OlderInv /\ [Next]_vars => OlderInv' /\ gone \subseteq gone'
<1> SUFFICES ASSUME OlderInv, [Next]_vars PROVE OlderInv' /\ gone \subseteq gone'
  OBVIOUS
<1>1. LockInv /\ LockInv'
  BY LockStep DEF OlderInv
<1>2. CASE Tick \/ BuildAPP \/ SetSessionBandwidth \/ BeginDataAccess \/ StopThread \/ UNCHANGED vars
  <2>1. UNCHANGED <<ssrc, gone, byepackets, poll>> /\ (Leaving => Leaving')
    BY <1>2 DEF Tick, BuildAPP, SetSessionBandwidth, BeginDataAccess, StopThread, MayCall, AppOnly,
                threads, history, vars, Leaving
  <2> QED BY <1>1, <2>1, OlderKept
<1>3. CASE SendPacket
  <2>1. ~Leaving /\ UNCHANGED <<ssrc, byepackets, poll>> /\ gone' \in {gone, gone \ {ssrc}}
    BY <1>3 DEF SendPacket, MayCall, AppOnly, Leaving
  <2>2. ssrc \notin gone
    BY <2>1 DEF OlderInv, GoneIsOlder
  <2> QED BY <1>1, <2>1, <2>2, OlderKept
<1>4. CASE MarkSender \/ SetParameters \/ FlagSent \/ SendAPP \/ EndDataAccess \/ Destroy \/ Leave
  <2>1. UNCHANGED <<ssrc, gone, poll>> /\ byepackets' \in {byepackets, <<>>} /\ (Leaving => Leaving')
    BY <1>4 DEF MarkSender, SetParameters, FlagSent, SendAPP, EndDataAccess, Destroy, Leave, AppOnly,
                history, Leaving
  <2> QED BY <1>1, <2>1, OlderKept
<1>5. CASE BYEDestroy
  <2>1. UNCHANGED <<ssrc, gone>> /\ byepackets' \in {byepackets, Append(byepackets, ssrc)} /\ Leaving'
    BY <1>5 DEF BYEDestroy, history, Leaving
  <2>2. byepackets' \in Seq(Nat)
    BY <2>1 DEF OlderInv
  <2> QED BY <1>1, <2>1, <2>2 DEF OlderInv
<1>6. CASE SendLastBYE
  <2>1. ssrc' = ssrc /\ byepackets # <<>> /\ Leaving'
    BY <1>6 DEF SendLastBYE, Leaving
  <2>2. byepackets' \in Seq(Nat) /\ gone \subseteq gone'
    <3>1. PICK r \in IsTime(sched, members) :
            IF r.istime THEN gone' = gone \cup {Head(byepackets)} /\ byepackets' = Tail(byepackets)
            ELSE UNCHANGED <<gone, byepackets>>
      BY <1>6 DEF SendLastBYE, SaysBYE
    <3>2. byepackets \in Seq(Nat)
      BY DEF OlderInv
    <3>3. Tail(byepackets) \in Seq(Nat)
      BY <2>1, <3>2
    <3> QED BY <3>1, <3>2, <3>3
  <2> QED BY <1>1, <2>1, <2>2 DEF OlderInv
<1>7. CASE LockSched \/ GetDelay \/ LockSources \/ WaitAndPoll \/ PacketFails \/ MemberJoins
            \/ MemberLeaves \/ PacketCollides
  <2>1. UNCHANGED <<ssrc, gone, byepackets, app>> /\ poll # "newssrc"
    BY <1>7 DEF LockSched, GetDelay, LockSources, WaitAndPoll, PacketFails, MemberJoins, MemberLeaves,
                PacketCollides, Taken, PollOnly, history
  <2> QED BY <1>1, <2>1, OlderKept DEF Leaving
<1>8. CASE KnownCollision \/ CollisionFails \/ ReplaceOwnSSRC \/ ReplaceFails \/ Timeouts \/ NotTime
            \/ EndProcess
  <2>1. UNCHANGED <<ssrc, gone, byepackets, app>> /\ poll # "newssrc"
    BY <1>8 DEF KnownCollision, CollisionFails, ReplaceOwnSSRC, ReplaceFails, Timeouts, NotTime,
                EndProcess, PollOnly, history
  <2> QED BY <1>1, <2>1, OlderKept DEF Leaving
<1>9. CASE NewCollision
  <2>1. /\ UNCHANGED <<ssrc, gone, app>>
        /\ byepackets' \in {byepackets, Append(byepackets, ssrc)}
        /\ poll = "collision" /\ poll' = "newssrc"
    BY <1>9 DEF NewCollision, PollOnly, history
  <2>2. byepackets' \in Seq(Nat)
    BY <2>1 DEF OlderInv
  <2>3. ~Leaving /\ ~Leaving' /\ GoneIsOlder'
    BY <1>1, <2>1 DEF Leaving, LockInv, OlderInv, GoneIsOlder
  <2>4. WaitingIsOlder'
    <3>1. \A i \in DOMAIN byepackets : byepackets[i] < ssrc
      BY <2>1, <2>3 DEF OlderInv, WaitingIsOlder
    <3>2. CASE byepackets' = byepackets
      BY <2>1, <3>1, <3>2 DEF WaitingIsOlder
    <3>3. CASE byepackets' = Append(byepackets, ssrc)
      BY <2>1, <3>1, <3>3 DEF WaitingIsOlder, OlderInv
    <3> QED BY <2>1, <3>2, <3>3
  <2> QED BY <1>1, <2>1, <2>2, <2>3, <2>4 DEF OlderInv
<1>10. CASE CreateNewSSRC
  <2>1. UNCHANGED <<gone, byepackets, app>> /\ ssrc' = ssrc + 1 /\ poll = "newssrc" /\ poll' = "newsource"
    BY <1>10 DEF CreateNewSSRC, PollOnly, history
  <2>2. ~Leaving
    BY <1>1, <2>1 DEF Leaving, LockInv
  <2>3. GoneIsOlder'
    BY <2>1, <2>2 DEF OlderInv, GoneIsOlder
  <2>4. WaitingIsOlder'
    BY <2>1, <2>2 DEF OlderInv, WaitingIsOlder
  <2> QED BY <1>1, <2>1, <2>3, <2>4 DEF OlderInv
<1>11. CASE SendReport
  <2>1. UNCHANGED <<ssrc, byepackets, app>> /\ gone' \in {gone, gone \ {ssrc}} /\ poll = "istime"
    BY <1>11 DEF SendReport, PollOnly, history
  <2>2. ~Leaving
    BY <1>1, <2>1 DEF Leaving, LockInv
  <2>3. ssrc \notin gone
    BY <2>2 DEF OlderInv, GoneIsOlder
  <2> QED BY <1>1, <2>1, <2>2, <2>3, OlderKept
<1>12. CASE SendBYE
  <2>1. /\ UNCHANGED <<ssrc, app>> /\ poll = "istime"
        /\ byepackets # <<>> /\ byepackets' = Tail(byepackets)
        /\ gone' \in {gone, gone \cup {Head(byepackets)}}
    BY <1>12 DEF SendBYE, SaysBYE, PollOnly
  <2>2. ~Leaving /\ ~Leaving'
    BY <1>1, <2>1 DEF Leaving, LockInv
  <2>3. \A i \in DOMAIN byepackets : byepackets[i] \in Nat /\ byepackets[i] < ssrc
    BY <2>1, <2>2 DEF OlderInv, WaitingIsOlder
  <2>4. GoneIsOlder'
    BY <2>1, <2>2, <2>3 DEF OlderInv, GoneIsOlder
  <2>5. WaitingIsOlder' /\ byepackets' \in Seq(Nat)
    BY <2>1, <2>3 DEF OlderInv, WaitingIsOlder
  <2> QED BY <1>1, <2>1, <2>2, <2>4, <2>5 DEF OlderInv
<1> QED BY <1>2, <1>3, <1>4, <1>5, <1>6, <1>7, <1>8, <1>9, <1>10, <1>11, <1>12, Steps

\* An SSRC that has said BYE sends no RTP packet and no report, whatever the
\* application is about when it changes.  (rtpsession.cpp 1376-1422.)
THEOREM SilentAfterBYE == Spec => BYEIsLast
<1>1. OlderInv /\ [Next]_vars => [gone \subseteq gone']_vars
  BY OlderStep
<1> QED BY OlderInit, OlderStep, <1>1, PTL DEF Spec, BYEIsLast

-----------------------------------------------------------------------------
(* RTPPollThread: who waits, and who is destroyed. *)

\* A waiter in the transmitter is the poll thread in WaitForIncomingData, or
\* one that was killed there; it holds waitmutex.
WaiterInv ==
  /\ WaitingHoldsMutex
  /\ waiting <=> waiter # "no"
  /\ waiter # "no" => thread \in {"waiting", "killed"}
  /\ waitmutex \in {"free", "waiter"}

\* The application is past Stop only when the thread has ended or was killed,
\* and between sessions nobody is left in the transmitter.
StoppedInv ==
  /\ caller \in {"idle", "destroying", "ending"} => ~Running
  /\ caller = "idle" => waiter = "no"
  /\ caller \in {"idle", "ending"} => ~created
  /\ caller \in {"open", "aborting", "awaiting", "destroying"} => created
  /\ thread = "killed" => caller \in {"awaiting", "destroying", "ending"}

DestroyInv == WaiterInv /\ StoppedInv

LEMMA DestroyInit == PollInit => DestroyInv
  BY DEF PollInit, TransInit, DestroyInv, WaiterInv, StoppedInv, WaitingHoldsMutex, Running

\* What only configures, or only moves datagrams, leaves the waiter alone.
LEMMA ConfigureKeeps == Configure => UNCHANGED <<created, waits>>
  BY DEF Configure, SetReceiveMode, AddToAcceptList, DeleteFromAcceptList, AddToIgnoreList,
         DeleteFromIgnoreList, AddTo, DeleteFrom, ClearAcceptList, ClearIgnoreList, Lists,
         AddDestination, DeleteDestination, ClearDestinations, SetDestinations,
         JoinMulticastGroup, LeaveMulticastGroup, LeaveAllMulticastGroups, Grouped, waits

LEMMA DestroyStep == DestroyInv /\ [PollNext]_pollVars => DestroyInv'
<1> SUFFICES ASSUME DestroyInv, [PollNext]_pollVars PROVE DestroyInv'
  OBVIOUS
<1> USE DEF DestroyInv, WaiterInv, StoppedInv, WaitingHoldsMutex, Running
<1>1. CASE CreateSession
  BY <1>1 DEF CreateSession, Create
<1>2. CASE ConfigureSession
  BY <1>2, ConfigureKeeps DEF ConfigureSession, waits
<1>3. CASE BeginStop
  BY <1>3 DEF BeginStop, transVars, waits
<1>4. CASE Kill
  BY <1>4 DEF Kill, transVars, waits
<1>5. CASE Arrival
  BY <1>5 DEF Arrival, DatagramArrives, waits
<1>6. CASE Thread
  <2>1. CASE ComputeDelay
    BY <2>1 DEF ComputeDelay, transVars, waits
  <2>2. CASE ThreadWaits
    BY <2>2 DEF ThreadWaits, BeginWait, CanWait
  <2>3. CASE ThreadWakes
    BY <2>3 DEF ThreadWakes, SelectReturns
  <2>4. CASE ThreadReturns
    BY <2>4 DEF ThreadReturns, EndWait
  <2>5. CASE ThreadPolls
    BY <2>5 DEF ThreadPolls, Poll, waits
  <2>6. CASE ThreadProcesses
    BY <2>6 DEF ThreadProcesses, GetNextPacket, transVars, waits
  <2>7. CASE TestStop
    BY <2>7 DEF TestStop, transVars, waits
  <2> QED BY <1>6, <2>1, <2>2, <2>3, <2>4, <2>5, <2>6, <2>7 DEF Thread
<1>7. CASE StopAndDestroy
  <2>1. CASE StopAborts
    BY <2>1 DEF StopAborts, AbortWait
  <2>2. CASE StopReturns
    BY <2>2 DEF StopReturns, transVars, waits
  <2>3. CASE DestroyBegins
    BY <2>3 DEF DestroyBegins, BeginDestroy
  <2>4. CASE DestroyEnds
    BY <2>4 DEF DestroyEnds, CanEndDestroy, transVars, waits
  <2> QED BY <1>7, <2>1, <2>2, <2>3, <2>4 DEF StopAndDestroy
<1>8. CASE UNCHANGED pollVars
  BY <1>8 DEF pollVars, transVars, waits
<1> QED BY <1>1, <1>2, <1>3, <1>4, <1>5, <1>6, <1>7, <1>8 DEF PollNext

\* The transmitter is destroyed when nobody waits in it, or a thread that was
\* killed there, for any number of sessions.  (rtppollthread.cpp 80-113,
\* rtpudpv4transmitter.cpp 335-378.)
THEOREM DestroyedSafely == PollSpec => []DestroyedAlone
<1>1. DestroyInv => DestroyedAlone
  BY DEF DestroyInv, WaiterInv, StoppedInv, DestroyedAlone, Running
<1> QED BY DestroyInit, DestroyStep, <1>1, PTL DEF PollSpec
-----------------------------------------------------------------------------
(* What is accepted and ignored. *)

EntriesTyped == acceptignore \in [Known -> Entry]

AskedInv == EntriesTyped /\ SelectedWasAsked

LEMMA AskedInit == PollInit => AskedInv
  BY DEF PollInit, TransInit, AskedInv, EntriesTyped, SelectedWasAsked, Selected, Known, NoEntries, HostPort

Selects(e, p) == IF e.all THEN p \notin e.ports ELSE p \in e.ports

\* What it means that an address is selected.
LEMMA SelectedBy ==
  ASSUME EntriesTyped, NEW a
  PROVE  Selected(acceptignore, a) <=> a[1] \in Known /\ Selects(acceptignore[a[1]], a[2])
<1>1. CASE a[1] \notin Known
  BY <1>1 DEF Selected, Known
<1>2. CASE a[1] \in Known
  <2>1. acceptignore[a[1]].all \in BOOLEAN
    BY <1>2 DEF EntriesTyped, Entry
  <2> QED BY <1>2, <2>1 DEF Selected, Selects, Known
<1> QED BY <1>1, <1>2

\* The list with one entry replaced.
LEMMA WithEntry ==
  ASSUME NEW h, NEW e \in Entry, EntriesTyped
  PROVE  /\ With(h, e) \in [DOMAIN With(h, e) -> Entry]
         /\ \A a : Selected(With(h, e), a) <=>
                     IF a[1] = h THEN Selects(e, a[2]) ELSE Selected(acceptignore, a)
<1>1. With(h, e) \in [Known \cup {h} -> Entry] /\ DOMAIN With(h, e) = Known \cup {h}
  BY DEF With, Known, EntriesTyped
<1>2. ASSUME NEW a, a[1] = h
      PROVE  Selected(With(h, e), a) <=> Selects(e, a[2])
  <2>1. With(h, e)[a[1]] = e /\ e.all \in BOOLEAN
    BY <1>2 DEF With, Entry
  <2> QED BY <1>1, <1>2, <2>1 DEF Selected, Selects
<1>3. ASSUME NEW a, a[1] # h
      PROVE  Selected(With(h, e), a) <=> Selected(acceptignore, a)
  <2>1. a[1] \in Known => With(h, e)[a[1]] = acceptignore[a[1]]
    BY <1>3 DEF With
  <2> QED BY <1>1, <1>3, <2>1 DEF Selected, Known
<1> QED BY <1>1, <1>2, <1>3

\* Adding to a list selects nothing that was not asked for.
LEMMA AddKeepsAsked ==
  ASSUME AskedInv, NEW mode, NEW h \in Host, NEW p \in Port \cup {0}, AddTo(mode, h, p)
  PROVE  AskedInv'
<1> DEFINE e == AddedEntry(h, p)
<1>1. e \in Entry
  BY DEF AskedInv, EntriesTyped, AddedEntry, Known, Entry
<1>2. acceptignore' = With(h, e) /\ asked' = asked \cup ({h} \X Ports(p))
  BY DEF AddTo, Lists
<1>3. EntriesTyped'
  BY <1>1, <1>2, WithEntry DEF AskedInv, EntriesTyped, Known
<1>5. \A c : Selected(acceptignore', c) <=>
                IF c[1] = h THEN Selects(e, c[2]) ELSE Selected(acceptignore, c)
  <2> HIDE DEF e
  <2> QED BY <1>1, <1>2, WithEntry DEF AskedInv
<1>4. ASSUME NEW a \in HostPort, Selected(acceptignore', a)
      PROVE  a \in asked'
  <2>1. a = <<a[1], a[2]>> /\ a[2] \in Port /\ a[2] # 0
    BY TransmitterAssumption DEF HostPort, TransmitterAssumption
  <2>2. CASE a[1] # h
    BY <2>2, <1>2, <1>5, <1>4 DEF AskedInv, SelectedWasAsked
  <2>3. CASE a[1] = h /\ p = 0
    BY <2>1, <2>3, <1>2 DEF Ports
  <2>4. CASE a[1] = h /\ p # 0
    <3>1. Selects(e, a[2])
      BY <2>4, <1>5, <1>4
    <3>2. CASE a[2] = p
      BY <2>1, <2>4, <3>2, <1>2 DEF Ports
    <3>3. CASE a[2] # p
      <4>1. CASE h \notin Known
        <5>1. e = [all |-> FALSE, ports |-> {p}]
          BY <2>4, <4>1 DEF AddedEntry
        <5> QED BY <3>1, <3>3, <5>1 DEF Selects
      <4>2. CASE h \in Known
        <5>1. acceptignore[h] \in Entry
          BY <4>2 DEF AskedInv, EntriesTyped
        <5>2. e.all = acceptignore[h].all /\ (a[2] \in e.ports <=> a[2] \in acceptignore[h].ports)
          <6>1. CASE acceptignore[h].all
            BY <2>4, <4>2, <6>1 DEF AddedEntry
          <6>2. CASE ~acceptignore[h].all
            <7>1. e = [acceptignore[h] EXCEPT !.ports = @ \cup {p}]
              BY <2>4, <4>2, <6>2 DEF AddedEntry
            <7> QED BY <3>3, <5>1, <7>1 DEF Entry
          <6> QED BY <6>1, <6>2
        <5>3. Selected(acceptignore, a)
          BY <2>4, <3>1, <4>2, <5>2, SelectedBy DEF Selects, AskedInv
        <5> QED BY <5>3, <1>2 DEF AskedInv, SelectedWasAsked
      <4> QED BY <4>1, <4>2
    <3> QED BY <3>2, <3>3
  <2> QED BY <2>2, <2>3, <2>4
<1> QED BY <1>3, <1>4 DEF AskedInv, SelectedWasAsked

\* Deleting deselects what it says, and selects nothing.
LEMMA DeleteKeepsAsked ==
  ASSUME AskedInv, NEW mode, NEW h \in Host, NEW p \in Port \cup {0}, DeleteFrom(mode, h, p)
  PROVE  AskedInv'
<1> DEFINE e == DeletedEntry(h, p)
<1>1. e \in Entry
  BY DEF AskedInv, EntriesTyped, DeletedEntry, DeleteFrom, Known, Entry
<1>2. acceptignore' = With(h, e) /\ asked' = asked \ ({h} \X Ports(p)) /\ h \in Known
  BY DEF DeleteFrom, Lists
<1>3. EntriesTyped'
  BY <1>1, <1>2, WithEntry DEF AskedInv, EntriesTyped, Known
<1>5. \A c : Selected(acceptignore', c) <=>
                IF c[1] = h THEN Selects(e, c[2]) ELSE Selected(acceptignore, c)
  <2> HIDE DEF e
  <2> QED BY <1>1, <1>2, WithEntry DEF AskedInv
<1>4. ASSUME NEW a \in HostPort, Selected(acceptignore', a)
      PROVE  a \in asked'
  <2>1. a = <<a[1], a[2]>> /\ a[2] \in Port /\ a[2] # 0
    BY TransmitterAssumption DEF HostPort, TransmitterAssumption
  <2>2. CASE a[1] # h
    <3>1. a \in asked
      BY <2>2, <1>2, <1>5, <1>4 DEF AskedInv, SelectedWasAsked
    <3>2. a \notin {h} \X Ports(p)
      BY <2>2
    <3> QED BY <3>1, <3>2, <1>2
  <2>3. CASE a[1] = h
    <3>1. Selects(e, a[2])
      BY <2>3, <1>5, <1>4
    <3>2. p # 0
      <4>1. p = 0 => e = [all |-> FALSE, ports |-> {}]
        BY DEF DeletedEntry
      <4> QED BY <3>1, <4>1 DEF Selects
    <3>3. acceptignore[h] \in Entry /\ acceptignore[h].all \in BOOLEAN
      BY <1>2 DEF AskedInv, EntriesTyped, Entry
    <3>4. DeleteFrom(mode, h, p) /\ Selected(acceptignore, <<h, p>>)
      BY <3>2 DEF DeleteFrom
    <3>5. a[2] # p /\ Selected(acceptignore, a)
      <4>1. CASE acceptignore[h].all
        <5>1. e = [acceptignore[h] EXCEPT !.ports = @ \cup {p}]
          BY <3>2, <4>1 DEF DeletedEntry
        <5>2. e.all /\ (a[2] \in e.ports <=> a[2] = p \/ a[2] \in acceptignore[h].ports)
          BY <3>3, <4>1, <5>1 DEF Entry
        <5> QED BY <2>3, <3>1, <4>1, <5>2, <1>2, SelectedBy DEF Selects, AskedInv
      <4>2. CASE ~acceptignore[h].all
        <5>1. e = [acceptignore[h] EXCEPT !.ports = @ \ {p}]
          BY <3>2, <4>2 DEF DeletedEntry
        <5>2. ~e.all /\ (a[2] \in e.ports <=> a[2] # p /\ a[2] \in acceptignore[h].ports)
          BY <3>3, <4>2, <5>1 DEF Entry
        <5> QED BY <2>3, <3>1, <4>2, <5>2, <1>2, SelectedBy DEF Selects, AskedInv
      <4> QED BY <3>3, <4>1, <4>2
    <3>6. a \in asked
      BY <3>5 DEF AskedInv, SelectedWasAsked
    <3>7. a \notin {h} \X Ports(p)
      BY <3>2, <3>5 DEF Ports
    <3> QED BY <3>6, <3>7, <1>2
  <2> QED BY <2>2, <2>3
<1> QED BY <1>3, <1>4 DEF AskedInv, SelectedWasAsked

\* An empty list selects nothing.
LEMMA EmptyIsAsked ==
  ASSUME acceptignore' = NoEntries
  PROVE  AskedInv'
  BY DEF AskedInv, EntriesTyped, SelectedWasAsked, Selected, Known, NoEntries

LEMMA SameIsAsked ==
  ASSUME AskedInv, UNCHANGED <<acceptignore, asked>>
  PROVE  AskedInv'
  BY DEF AskedInv, EntriesTyped, SelectedWasAsked, Selected, Known

LEMMA AskedStep == AskedInv /\ [PollNext]_pollVars => AskedInv'
<1> SUFFICES ASSUME AskedInv, [PollNext]_pollVars PROVE AskedInv'
  OBVIOUS
<1>1. CASE Configure
  <2>1. ASSUME NEW m \in {"all", "accept", "ignore"}, SetReceiveMode(m) PROVE AskedInv'
    BY <2>1, EmptyIsAsked, SameIsAsked DEF SetReceiveMode
  <2>2. ASSUME NEW h \in Host, NEW p \in Port \cup {0},
               \/ AddToAcceptList(h, p) \/ DeleteFromAcceptList(h, p)
               \/ AddToIgnoreList(h, p) \/ DeleteFromIgnoreList(h, p)
        PROVE  AskedInv'
    BY <2>2, AddKeepsAsked, DeleteKeepsAsked
       DEF AddToAcceptList, DeleteFromAcceptList, AddToIgnoreList, DeleteFromIgnoreList
  <2>3. CASE ClearAcceptList \/ ClearIgnoreList
    BY <2>3, EmptyIsAsked DEF ClearAcceptList, ClearIgnoreList, Lists
  <2>4. ASSUME NEW D, SetDestinations(D) PROVE AskedInv'
    BY <2>4, SameIsAsked DEF SetDestinations
  <2>5. ASSUME NEW G, NEW M, Grouped(G, M) PROVE AskedInv'
    BY <2>5, SameIsAsked DEF Grouped
  <2>6. CASE \/ \E h \in Host : AddDestination(h) \/ DeleteDestination(h)
             \/ ClearDestinations
    BY <2>6, <2>4 DEF AddDestination, DeleteDestination, ClearDestinations
  <2>7. CASE \/ \E g \in Group, ok \in [Sock -> BOOLEAN] : JoinMulticastGroup(g, ok)
             \/ \E g \in Group : LeaveMulticastGroup(g)
             \/ LeaveAllMulticastGroups
    BY <2>7, <2>5 DEF JoinMulticastGroup, LeaveMulticastGroup, LeaveAllMulticastGroups
  <2> QED BY <1>1, <2>1, <2>2, <2>3, <2>6, <2>7 DEF Configure
<1>2. CASE DestroyBegins
  BY <1>2, EmptyIsAsked DEF DestroyBegins, BeginDestroy
<1>3. CASE CreateSession
  BY <1>3, SameIsAsked DEF CreateSession, Create
<1>4. CASE BeginStop \/ Kill \/ Arrival
  BY <1>4, SameIsAsked DEF BeginStop, Kill, Arrival, DatagramArrives, transVars, lists
<1>5. CASE Thread
  <2>1. CASE ComputeDelay \/ TestStop
    BY <2>1, SameIsAsked DEF ComputeDelay, TestStop, transVars, lists
  <2>2. CASE ThreadWaits \/ ThreadWakes \/ ThreadReturns
    BY <2>2, SameIsAsked DEF ThreadWaits, BeginWait, ThreadWakes, SelectReturns,
                             ThreadReturns, EndWait, lists
  <2>3. CASE ThreadPolls \/ ThreadProcesses
    BY <2>3, SameIsAsked DEF ThreadPolls, Poll, ThreadProcesses, GetNextPacket, transVars, lists
  <2> QED BY <1>5, <2>1, <2>2, <2>3 DEF Thread
<1>6. CASE StopAborts \/ StopReturns \/ DestroyEnds
  BY <1>6, SameIsAsked DEF StopAborts, AbortWait, StopReturns, DestroyEnds, transVars, lists
<1>7. CASE UNCHANGED pollVars
  BY <1>7, SameIsAsked DEF pollVars, transVars, lists
<1> QED BY <1>1, <1>2, <1>3, <1>4, <1>5, <1>6, <1>7 DEF PollNext, ConfigureSession, StopAndDestroy

\* Whatever hosts and ports are added and deleted in whatever order, an entry
\* selects only what was asked for.  (rtpudpv4transmitter.cpp 1311-1422.)
THEOREM SelectionAsked == PollSpec => []SelectedWasAsked
<1>1. AskedInv => SelectedWasAsked
  BY DEF AskedInv
<1> QED BY AskedInit, AskedStep, <1>1, PTL DEF PollSpec

-----------------------------------------------------------------------------
(* Recursion and induction. *)

\* A set of naturals has a least one.
LEMMA SmallestIs ==
  ASSUME NEW S, S \subseteq Nat, S # {}
  PROVE  \E i \in S : \A j \in S : i <= j
<1> DEFINE R == {ss \in Nat \X Nat : ss[1] < ss[2]}
<1>1. IsWellFoundedOn(R, Nat)
  BY NatLessThanWellFounded DEF OpToRel
<1>2. PICK i \in S : \A j \in S : ~ (<<j, i>> \in R)
  <2> HIDE DEF R
  <2> QED BY <1>1, WFMin, Zenon
<1>3. ASSUME NEW j \in S PROVE i <= j
  <2>1. i \in Nat /\ j \in Nat
    OBVIOUS
  <2>2. <<j, i>> \in Nat \X Nat /\ <<j, i>>[1] = j /\ <<j, i>>[2] = i
    BY <2>1
  <2>3. ~ (j < i)
    BY <1>2, <2>2
  <2> QED BY <2>1, <2>3
<1> QED BY <1>3

\* Induction up to n, as far as it is a matter of a set.
LEMMA CountingUp ==
  ASSUME NEW n \in Nat, NEW P, 0 \in P, \A i \in 1 .. n : i - 1 \in P => i \in P
  PROVE  \A i \in 0 .. n : i \in P
<1> DEFINE Bad == {i \in 0 .. n : i \notin P}
<1>1. CASE Bad = {}
  BY <1>1
<1>2. CASE Bad # {}
  <2>1. Bad \subseteq Nat
    OBVIOUS
  <2>2. PICK i \in Bad : \A j \in Bad : i <= j
    <3> HIDE DEF Bad
    <3> QED BY <1>2, <2>1, SmallestIs
  <2>3. i \in 1 .. n /\ i - 1 \in 0 .. n /\ ~(i <= i - 1)
    BY <2>2
  <2>4. i - 1 \in P
    BY <2>2, <2>3
  <2> QED BY <2>2, <2>3, <2>4
<1> QED BY <1>1, <1>2

\* One step of each recursion of the builder.
TakenOn(kind, arg, x, i) ==
  CASE kind = "total" -> x + arg[i]
    [] kind = "end" -> ChunkEnd(x, arg[i])
    [] kind = "read" -> PastPacket(arg.wire, arg.len, x)
    [] kind = "visit" -> Visit(x, Sources[i], arg)
    [] OTHER -> OneItem(x, ItemOrder[i])

Runs(f, kind, arg, st, k) ==
  f = [i \in 0 .. k |-> IF i = 0 THEN st ELSE TakenOn(kind, arg, f[i - 1], i)]

\* The functions that they are defined by are there.
LEMMA RunsExist ==
  ASSUME NEW n \in Nat, NEW kind, NEW arg, NEW st
  PROVE  \E f : Runs(f, kind, arg, st, n)
<1> DEFINE Has(k) == \E f : Runs(f, kind, arg, st, k)
           P == {k \in 0 .. n : Has(k)}
<1>1. Has(0)
  <2> DEFINE f == [i \in 0 .. 0 |-> st]
             g == [i \in 0 .. 0 |-> IF i = 0 THEN st ELSE TakenOn(kind, arg, f[i - 1], i)]
  <2>1. \A i \in 0 .. 0 : f[i] = g[i]
    OBVIOUS
  <2>2. f = [i \in 0 .. 0 |-> f[i]] /\ g = [i \in 0 .. 0 |-> g[i]]
    OBVIOUS
  <2> HIDE DEF f, g
  <2>3. f = g
    BY <2>1, <2>2
  <2>4. Runs(f, kind, arg, st, 0)
    BY <2>3 DEF Runs, g
  <2> QED BY <2>4
<1>2. ASSUME NEW k \in Nat, Has(k), NEW m, m = k + 1 PROVE Has(m)
  <2>1. PICK f : Runs(f, kind, arg, st, k)
    BY <1>2
  <2>2. PICK v : v = TakenOn(kind, arg, f[k], m)
    OBVIOUS
  <2> DEFINE h == [i \in 0 .. m |-> IF i = m THEN v ELSE f[i]]
             g == [i \in 0 .. m |-> IF i = 0 THEN st ELSE TakenOn(kind, arg, h[i - 1], i)]
  <2>3. \A i \in 0 .. k : i \in 0 .. m /\ i # m /\ h[i] = f[i]
    BY <1>2
  <2>4. ASSUME NEW i \in 0 .. m PROVE h[i] = g[i]
    <3>0. g[i] = IF i = 0 THEN st ELSE TakenOn(kind, arg, h[i - 1], i)
      OBVIOUS
    <3>1. CASE i = m
      <4>1. h[i] = v
        BY <3>1
      <4>2. i # 0 /\ i - 1 = k /\ h[k] = f[k]
        BY <1>2, <2>3, <3>1
      <4> HIDE DEF h, g
      <4> QED BY <2>2, <3>0, <3>1, <4>1, <4>2
    <3>2. CASE i # m
      <4>1. i \in 0 .. k
        BY <1>2, <3>2
      <4>2. h[i] = f[i]
        BY <2>3, <4>1
      <4>3. f[i] = IF i = 0 THEN st ELSE TakenOn(kind, arg, f[i - 1], i)
        <5> DEFINE r == [j \in 0 .. k |-> IF j = 0 THEN st ELSE TakenOn(kind, arg, f[j - 1], j)]
        <5>1. f = r
          BY <2>1 DEF Runs
        <5>2. r[i] = IF i = 0 THEN st ELSE TakenOn(kind, arg, f[i - 1], i)
          BY <4>1
        <5> HIDE DEF r
        <5> QED BY <5>1, <5>2
      <4>4. i # 0 => i - 1 \in 0 .. k
        BY <1>2, <4>1
      <4>5. i # 0 => h[i - 1] = f[i - 1]
        BY <2>3, <4>4
      <4> HIDE DEF h, g
      <4> QED BY <3>0, <4>2, <4>3, <4>5
    <3> QED BY <3>1, <3>2
  <2>5. h = [i \in 0 .. m |-> h[i]] /\ g = [i \in 0 .. m |-> g[i]]
    OBVIOUS
  <2>6. g = [i \in 0 .. m |-> IF i = 0 THEN st ELSE TakenOn(kind, arg, h[i - 1], i)]
    OBVIOUS
  <2> HIDE DEF h, g
  <2>7. h = g
    BY <2>4, <2>5
  <2>8. Runs(h, kind, arg, st, m)
    BY <2>6, <2>7 DEF Runs
  <2> QED BY <2>8
<1> HIDE DEF Has
<1>3. 0 \in P
  BY <1>1
<1>4. ASSUME NEW i \in 1 .. n, i - 1 \in P PROVE i \in P
  <2>1. i - 1 \in Nat /\ i = (i - 1) + 1 /\ i \in 0 .. n
    OBVIOUS
  <2>2. Has(i - 1)
    BY <1>4
  <2>3. PICK k : k = i - 1
    OBVIOUS
  <2>4. Has(i)
    BY <1>2, <2>1, <2>2, <2>3
  <2> QED BY <2>1, <2>4
<1>5. \A i \in 0 .. n : i \in P
  <2> HIDE DEF P
  <2> QED BY <1>3, <1>4, CountingUp
<1>6. n \in P
  BY <1>5
<1> QED BY <1>6 DEF Has


\* So they are what their equations say.
\* f is the function of such a definition.
IsRun(f, kind, arg, st, n) == f = CHOOSE g : Runs(g, kind, arg, st, n)

LEMMA RunIs ==
  ASSUME NEW n \in Nat, NEW kind, NEW arg, NEW st, NEW f, IsRun(f, kind, arg, st, n)
  PROVE  f[0] = st /\ \A i \in 1 .. n : f[i] = TakenOn(kind, arg, f[i - 1], i)
<1>1. \E g : Runs(g, kind, arg, st, n)
  BY RunsExist
<1>2. Runs(f, kind, arg, st, n)
  BY <1>1 DEF IsRun
<1> DEFINE r == [i \in 0 .. n |-> IF i = 0 THEN st ELSE TakenOn(kind, arg, f[i - 1], i)]
<1>3. r[0] = st /\ \A i \in 1 .. n : r[i] = TakenOn(kind, arg, f[i - 1], i)
  OBVIOUS
<1>4. f = r
  BY <1>2 DEF Runs
<1> HIDE DEF r
<1> QED BY <1>3, <1>4

-----------------------------------------------------------------------------
(* Totals. *)

\* f[i] is the total of the first i of s.
Sums(f, s, n) == f[0] = 0 /\ \A i \in 1 .. n : f[i] = f[i - 1] + s[i]

LEMMA TotalIs ==
  ASSUME NEW s, NEW n \in Nat, n = Len(s)
  PROVE  \E f : Sums(f, s, n) /\ Total(s) = f[n]
<1> DEFINE f == CHOOSE g : Runs(g, "total", s, 0, n)
<1>0. IsRun(f, "total", s, 0, n)
  BY DEF IsRun
<1>1. f[0] = 0 /\ \A i \in 1 .. n : f[i] = TakenOn("total", s, f[i - 1], i)
  <2> HIDE DEF f
  <2> QED BY <1>0, RunIs
<1>2. Sums(f, s, n)
  BY <1>1 DEF Sums, TakenOn
<1>3. Total(s) = f[n]
  BY DEF Total, Runs, TakenOn
<1> QED BY <1>2, <1>3

\* Equal terms have equal sums, which are natural numbers if the terms are.
LEMMA SumsAgree ==
  ASSUME NEW n \in Nat, NEW s, NEW t, \A i \in 1 .. n : s[i] = t[i],
         NEW f, Sums(f, s, n), NEW g, Sums(g, t, n)
  PROVE  \A i \in 0 .. n : f[i] = g[i]
<1> DEFINE P == {i \in 0 .. n : f[i] = g[i]}
<1>1. 0 \in P
  BY DEF Sums
<1>2. ASSUME NEW i \in 1 .. n, i - 1 \in P PROVE i \in P
  <2>1. f[i] = f[i - 1] + s[i] /\ g[i] = g[i - 1] + t[i] /\ s[i] = t[i] /\ i \in 0 .. n
    BY DEF Sums
  <2>2. f[i - 1] = g[i - 1]
    BY <1>2
  <2> QED BY <2>1, <2>2
<1>3. \A i \in 0 .. n : i \in P
  <2> HIDE DEF P
  <2> QED BY <1>1, <1>2, CountingUp
<1> QED BY <1>3

LEMMA SumsNat ==
  ASSUME NEW n \in Nat, NEW s, \A i \in 1 .. n : s[i] \in Nat, NEW f, Sums(f, s, n)
  PROVE  \A i \in 0 .. n : f[i] \in Nat
<1> DEFINE P == {i \in 0 .. n : f[i] \in Nat}
<1>1. 0 \in P
  BY DEF Sums
<1>2. ASSUME NEW i \in 1 .. n, i - 1 \in P PROVE i \in P
  <2>1. PICK x : x = f[i - 1]
    OBVIOUS
  <2>2. PICK y : y = s[i]
    OBVIOUS
  <2>3. x \in Nat /\ y \in Nat /\ i \in 0 .. n
    BY <1>2, <2>1, <2>2
  <2>4. f[i] = x + y
    BY <2>1, <2>2 DEF Sums
  <2> QED BY <2>3, <2>4
<1>3. \A i \in 0 .. n : i \in P
  <2> HIDE DEF P
  <2> QED BY <1>1, <1>2, CountingUp
<1> QED BY <1>3

LEMMA TotalNat ==
  ASSUME NEW s \in Seq(Nat)
  PROVE  Total(s) \in Nat
<1>1. PICK n : n = Len(s)
  OBVIOUS
<1>2. n \in Nat /\ \A i \in 1 .. n : s[i] \in Nat
  BY <1>1
<1>3. PICK f : Sums(f, s, n) /\ Total(s) = f[n]
  BY <1>1, <1>2, TotalIs
<1>4. f[n] \in Nat
  BY ONLY <1>2, <1>3, SumsNat
<1> QED BY <1>3, <1>4

LEMMA TotalEmpty == Total(<<>>) = 0
<1>1. 0 = Len(<<>>)
  OBVIOUS
<1>2. PICK f : Sums(f, <<>>, 0) /\ Total(<<>>) = f[0]
  BY <1>1, TotalIs
<1> QED BY <1>2 DEF Sums

\* Two lists with the same terms have the same total.
LEMMA TotalSame ==
  ASSUME NEW n \in Nat, NEW s, n = Len(s), NEW t, n = Len(t), \A i \in 1 .. n : s[i] = t[i]
  PROVE  Total(s) = Total(t)
<1>1. PICK f : Sums(f, s, n) /\ Total(s) = f[n]
  BY TotalIs
<1>2. PICK g : Sums(g, t, n) /\ Total(t) = g[n]
  BY TotalIs
<1>3. f[n] = g[n]
  BY <1>1, <1>2, SumsAgree
<1> QED BY <1>1, <1>2, <1>3

\* The total of two lists, one after the other.
LEMMA TotalConcat ==
  ASSUME NEW s \in Seq(Nat), NEW t \in Seq(Nat)
  PROVE  Total(s \o t) = Total(s) + Total(t)
<1>1. PICK n \in Nat, m \in Nat : n = Len(s) /\ m = Len(t)
  OBVIOUS
<1>2. n \in Nat /\ m \in Nat
  BY <1>1
<1>3. PICK u : u = s \o t
  OBVIOUS
<1>4. /\ n + m = Len(u) /\ n + m \in Nat
      /\ \A i \in 1 .. n : u[i] = s[i]
      /\ \A i \in 1 .. m : u[n + i] = t[i]
  <2>1. u \in Seq(Nat) /\ Len(u) = Len(s) + Len(t)
    BY <1>3
  <2>2. \A i \in 1 .. n : u[i] = s[i]
    BY <1>1, <1>2, <1>3
  <2>3. ASSUME NEW i \in 1 .. m PROVE u[n + i] = t[i]
    <3>1. n + i \in 1 .. Len(s) + Len(t) /\ n + i > Len(s) /\ n + i - Len(s) = i
      BY <1>1, <1>2
    <3>2. PICK j : j = n + i
      OBVIOUS
    <3>3. j \in 1 .. Len(s) + Len(t) /\ ~(j <= Len(s)) /\ j - Len(s) = i
      BY <1>1, <1>2, <3>1, <3>2
    <3>4. (s \o t)[j] = t[j - Len(s)]
      BY <3>3, ConcatProperties
    <3> QED BY <1>3, <3>2, <3>3, <3>4
  <2> QED BY <1>1, <1>2, <2>1, <2>2, <2>3
<1>5. PICK f : Sums(f, s, n) /\ Total(s) = f[n]
  BY <1>1, <1>2, TotalIs
<1>6. PICK g : Sums(g, t, m) /\ Total(t) = g[m]
  BY <1>1, <1>2, TotalIs
<1>7. PICK h : Sums(h, u, n + m) /\ Total(u) = h[n + m]
  BY <1>4, TotalIs
<1>8. /\ \A i \in 0 .. n : f[i] \in Nat
      /\ \A i \in 0 .. m : g[i] \in Nat
  <2>1. (\A i \in 1 .. n : s[i] \in Nat) /\ \A i \in 1 .. m : t[i] \in Nat
    BY <1>1
  <2> QED BY ONLY <1>2, <1>5, <1>6, <2>1, SumsNat
<1>9. h[n] = f[n]
  <2>1. Sums(h, u, n)
    BY <1>2, <1>7 DEF Sums
  <2>2. \A i \in 0 .. n : h[i] = f[i]
    <3>1. \A i \in 1 .. n : u[i] = s[i]
      BY <1>4
    <3> DEFINE P == {i \in 0 .. n : h[i] = f[i]}
    <3>2. 0 \in P
      BY <1>2, <1>5, <2>1 DEF Sums
    <3>3. ASSUME NEW i \in 1 .. n, i - 1 \in P PROVE i \in P
      <4>1. f[i] = f[i - 1] + s[i] /\ h[i] = h[i - 1] + u[i] /\ u[i] = s[i] /\ i \in 0 .. n
        BY <1>5, <2>1, <3>1 DEF Sums
      <4> QED BY <3>3, <4>1
    <3>4. \A i \in 0 .. n : i \in P
      <4> HIDE DEF P
      <4> QED BY <3>2, <3>3, CountingUp
    <3> QED BY <3>4
  <2> QED BY <1>2, <2>2
<1> DEFINE P == {i \in 0 .. m : h[n + i] = f[n] + g[i]}
<1>10. 0 \in P
  <2>1. g[0] = 0 /\ n + 0 = n /\ 0 \in 0 .. m /\ f[n] \in Nat
    BY <1>2, <1>6, <1>8 DEF Sums
  <2> QED BY <1>9, <2>1
<1>11. ASSUME NEW i \in 1 .. m, i - 1 \in P PROVE i \in P
  <2>1. n + i \in 1 .. n + m /\ (n + i) - 1 = n + (i - 1) /\ i \in 0 .. m /\ i - 1 \in 0 .. m
    BY <1>2
  <2>2. h[n + i] = h[n + (i - 1)] + t[i]
    <3>1. h[n + i] = h[(n + i) - 1] + u[n + i]
      BY <1>7, <2>1 DEF Sums
    <3> QED BY <1>4, <2>1, <3>1
  <2>3. g[i] = g[i - 1] + t[i]
    BY <1>6 DEF Sums
  <2>4. h[n + (i - 1)] = f[n] + g[i - 1]
    BY <1>11
  <2>5. PICK a, b1, c : a = f[n] /\ b1 = g[i - 1] /\ c = t[i]
    OBVIOUS
  <2>6. a \in Nat /\ b1 \in Nat /\ c \in Nat
    BY <1>1, <1>2, <1>8, <2>1, <2>5
  <2>7. h[n + i] = f[n] + g[i]
    <3>1. PICK x, y : x = h[n + i] /\ y = h[n + (i - 1)]
      OBVIOUS
    <3>2. x = y + c /\ y = a + b1 /\ g[i] = b1 + c
      BY <2>2, <2>3, <2>4, <2>5, <3>1
    <3>3. x = a + (b1 + c)
      BY ONLY <2>6, <3>2
    <3> QED BY <2>5, <3>1, <3>2, <3>3
  <2> QED BY <2>1, <2>7
<1>12. \A i \in 0 .. m : i \in P
  <2> HIDE DEF P
  <2> QED BY <1>2, <1>10, <1>11, CountingUp
<1>13. h[n + m] = f[n] + g[m]
  BY <1>2, <1>12
<1> QED BY <1>3, <1>5, <1>6, <1>7, <1>13

LEMMA TotalOne ==
  ASSUME NEW x \in Nat
  PROVE  Total(<<x>>) = x
<1>1. 1 = Len(<<x>>) /\ 1 \in 1 .. 1 /\ <<x>>[1] = x
  OBVIOUS
<1>2. PICK f : Sums(f, <<x>>, 1) /\ Total(<<x>>) = f[1]
  BY <1>1, TotalIs
<1>3. f[0] = 0 /\ f[1] = f[1 - 1] + <<x>>[1]
  BY <1>1, <1>2 DEF Sums
<1> QED BY <1>1, <1>2, <1>3

LEMMA TotalAppend ==
  ASSUME NEW s \in Seq(Nat), NEW x \in Nat
  PROVE  Total(Append(s, x)) = Total(s) + x
<1>1. Append(s, x) = s \o <<x>> /\ <<x>> \in Seq(Nat)
  OBVIOUS
<1>2. Total(s \o <<x>>) = Total(s) + Total(<<x>>)
  BY ONLY <1>1, TotalConcat
<1> QED BY <1>1, <1>2, TotalOne

-----------------------------------------------------------------------------
(* Quotients, and the numbers near each other. *)

LEMMA DivMod ==
  ASSUME NEW C \in Nat \ {0}, NEW n \in Int
  PROVE  n = C * (n \div C) + (n % C) /\ n % C \in 0 .. C - 1 /\ n \div C \in Int
<1>1. n % C \in 0 .. C - 1
  OBVIOUS
<1>2. n \div C \in Int
  OBVIOUS
<1>3. n = C * (n \div C) + (n % C)
  OBVIOUS
<1> QED BY <1>1, <1>2, <1>3

LEMMA ModUnique ==
  ASSUME NEW C \in Nat \ {0}, NEW n \in Int, NEW k \in Int, NEW r \in 0 .. C - 1, n = C * k + r
  PROVE  n % C = r /\ n \div C = k
  OBVIOUS

LEMMA MulOrder ==
  ASSUME NEW C \in Nat \ {0}, NEW k \in Int, NEW m \in Int, k < m
  PROVE  C * k + C <= C * m
  OBVIOUS

LEMMA SmallMod ==
  ASSUME NEW C \in Nat \ {0}, NEW n \in 0 .. C - 1
  PROVE  n % C = n
  OBVIOUS

\* The assumptions on the constants that the numbers need.
LEMMA NumberConstants ==
  /\ Cycle \in Nat \ {0, 1} /\ ExtMod \in Nat \ {0, 1}
  /\ MaxNumber \in Nat /\ MaxGap \in Nat /\ MaxLate \in Nat /\ MaxReceived \in Nat
  /\ 2 * MaxGap < Cycle /\ 2 * MaxLate < Cycle
  /\ 2 * MaxNumber < ExtMod /\ 2 * MaxReceived < ExtMod
  /\ FirstNumber \subseteq Cycle .. MaxNumber
  BY PacketBuilderAssumption, SequenceAssumption

LEMMA PlusIs ==
  ASSUME NEW x \in Nat, NEW y \in Nat, x + y < ExtMod
  PROVE  Plus(x, y) = x + y
<1>1. ExtMod \in Nat \ {0} /\ x + y \in 0 .. ExtMod - 1
  BY NumberConstants
<1> QED BY <1>1, SmallMod DEF Plus

\* Numbers near one another are in the same cycle, or in the next one; in each
\* case the comparison of the low parts tells which.
LEMMA NearNumbers ==
  ASSUME NEW h \in Nat, NEW n \in Nat, NEW o \in Nat, NEW k \in Int, o = Cycle * k,
         NEW x, x.exthighseqnr = h - o,
         h - MaxLate <= n, n <= h + MaxGap, ~(n \div Cycle < h \div Cycle)
  PROVE  /\ x.exthighseqnr % Cycle = h % Cycle
         /\ \/ /\ n \div Cycle = h \div Cycle
               /\ n % Cycle >= h % Cycle <=> n >= h
               /\ ~Wraps(x, n % Cycle)
            \/ /\ n \div Cycle = (h \div Cycle) + 1
               /\ Cycle * (n \div Cycle) = Cycle * (h \div Cycle) + Cycle
               /\ n > h
               /\ Wraps(x, n % Cycle)
<1> DEFINE C == Cycle
<1>0. C \in Nat \ {0, 1} /\ MaxGap \in Nat /\ MaxLate \in Nat /\ 2 * MaxGap < C /\ 2 * MaxLate < C
  BY NumberConstants
<1> HIDE DEF C
<1>1. PICK a \in Int, e \in Int, i \in Int, j \in Int :
        a = h \div C /\ e = n \div C /\ i = h % C /\ j = n % C
  <2>1. h \div C \in Int /\ n \div C \in Int /\ h % C \in Int /\ n % C \in Int
    BY <1>0, DivMod
  <2> QED BY ONLY <2>1
<1>2. /\ h = C * a + i /\ n = C * e + j /\ i \in 0 .. C - 1 /\ j \in 0 .. C - 1
  BY <1>0, <1>1, DivMod
<1>3. x.exthighseqnr % C = i
  <2>1. h - o = C * (a - k) + i /\ a - k \in Int /\ h - o \in Int
    BY <1>0, <1>2 DEF C
  <2>2. (h - o) % C = i
    BY <1>0, <1>2, <2>1, ModUnique
  <2> QED BY <2>2
<1>4. e = a \/ e = a + 1
  <2>1. ~(e < a)
    BY <1>1 DEF C
  <2>2. ASSUME a + 1 < e PROVE FALSE
    <3>1. C * (a + 1) + C <= C * e
      BY <1>0, <2>2, MulOrder
    <3>2. C * (a + 1) = C * a + C
      BY <1>0
    <3>3. PICK u \in Int, v \in Int : u = C * a /\ v = C * e
      BY <1>0
    <3>4. v >= u + C + C /\ h = u + i /\ n = v + j
      BY <1>0, <1>2, <3>1, <3>2, <3>3
    <3> QED BY <1>0, <1>2, <3>4
  <2> QED BY <2>1, <2>2
<1>5. PICK u \in Int : u = C * a
  BY <1>0
<1>6. CASE e = a
  <2>1. h = u + i /\ n = u + j
    BY <1>2, <1>5, <1>6
  <2>2. j >= i <=> n >= h
    BY <1>2, <2>1
  <2>3. ASSUME j < i PROVE ~((j - i) % C < (i - j) % C)
    <3>1. (i - j) % C = i - j
      <4>1. i - j \in 0 .. C - 1
        BY <1>0, <1>2, <2>3
      <4> QED BY <1>0, <4>1, SmallMod
    <3>2. j - i = C * (-1) + (C + j - i) /\ C + j - i \in 0 .. C - 1 /\ -1 \in Int /\ j - i \in Int
      BY <1>0, <1>2, <2>3
    <3>3. (j - i) % C = C + j - i
      BY <1>0, <3>2, ModUnique
    <3>4. 2 * (i - j) < C
      BY <1>0, <1>2, <2>1
    <3> QED BY <1>0, <1>2, <3>1, <3>3, <3>4
  <2>4. ~Wraps(x, j)
    BY <1>3, <1>2, <2>3 DEF Wraps, C
  <2> QED BY <1>1, <1>3, <1>6, <2>2, <2>4 DEF C
<1>7. CASE e = a + 1
  <2>1. C * e = u + C
    BY <1>0, <1>5, <1>7
  <2>2. h = u + i /\ n = u + C + j
    BY <1>2, <1>5, <2>1
  <2>3. n > h /\ j < i
    BY <1>0, <1>2, <2>2
  <2>4. (j - i) % C < (i - j) % C
    <3>1. (i - j) % C = i - j
      <4>1. i - j \in 0 .. C - 1
        BY <1>0, <1>2, <2>3
      <4> QED BY <1>0, <4>1, SmallMod
    <3>2. j - i = C * (-1) + (C + j - i) /\ C + j - i \in 0 .. C - 1 /\ -1 \in Int /\ j - i \in Int
      BY <1>0, <1>2, <2>3
    <3>3. (j - i) % C = C + j - i
      BY <1>0, <3>2, ModUnique
    <3>4. 2 * (C + j - i) < C
      BY <1>0, <1>2, <2>2
    <3> QED BY <1>0, <1>2, <3>1, <3>3, <3>4
  <2>5. Wraps(x, j)
    BY <1>3, <1>2, <2>3, <2>4 DEF Wraps, C
  <2> QED BY <1>1, <1>3, <1>5, <1>7, <2>1, <2>3, <2>5 DEF C
<1> QED BY <1>4, <1>6, <1>7

-----------------------------------------------------------------------------
(* The queue. *)

Ordered(q) == \A i, j \in DOMAIN q : i < j => q[i] < q[j]

\* A set of numbers that has a bound has a greatest one.
LEMMA LargestIs ==
  ASSUME NEW l \in Nat, NEW S, S \subseteq 1 .. l, S # {}
  PROVE  \E i \in S : \A j \in S : j <= i
<1> DEFINE T == {l - i : i \in S}
<1>1. T \subseteq Nat /\ T # {}
  <2>1. \A i \in S : l - i \in Nat
    OBVIOUS
  <2>2. PICK i : i \in S
    OBVIOUS
  <2>3. l - i \in T
    BY <2>2
  <2> QED BY <2>1, <2>3
<1>2. PICK t \in T : \A u \in T : t <= u
  <2> HIDE DEF T
  <2> QED BY <1>1, SmallestIs
<1>3. PICK i \in S : t = l - i
  BY <1>2
<1>4. ASSUME NEW j \in S PROVE j <= i
  <2>1. t <= l - j /\ i \in 1 .. l /\ j \in 1 .. l
    BY <1>2
  <2> QED BY <1>3, <2>1
<1> QED BY <1>4

\* What Insert returns is in order, if the queue was.
LEMMA InsertKeepsOrder ==
  ASSUME NEW q \in Seq(Nat), Ordered(q), NEW n \in Nat
  PROVE  Insert(q, n) \in Seq(Nat) /\ Ordered(Insert(q, n))
<1> DEFINE smaller == {i \in DOMAIN q : q[i] < n}
<1>1. PICK l \in Nat : l = Len(q)
  OBVIOUS
<1>2. DOMAIN q = 1 .. l /\ \A i \in 1 .. l : q[i] \in Nat
  BY <1>1
<1>3. CASE \E i \in DOMAIN q : q[i] = n
  BY <1>3 DEF Insert
<1>4. CASE ~ \E i \in DOMAIN q : q[i] = n
  <2>0. PICK after \in 0 .. l :
          /\ after = IF smaller = {} THEN 0 ELSE CHOOSE i \in smaller : \A j \in smaller : j <= i
          /\ \A i \in 1 .. l : q[i] < n <=> i <= after
    <3>1. CASE smaller = {}
      <4>1. 0 \in 0 .. l /\ \A i \in 1 .. l : ~(q[i] < n) /\ ~(i <= 0)
        BY <1>1, <1>2, <3>1
      <4> QED BY <3>1, <4>1
    <3>2. CASE smaller # {}
      <4>1. \E i \in smaller : \A j \in smaller : j <= i
        <5>1. smaller \subseteq 1 .. l
          BY <1>2
        <5> HIDE DEF smaller
        <5> QED BY <3>2, <5>1, LargestIs
      <4>2. PICK m \in smaller : m = CHOOSE i \in smaller : \A j \in smaller : j <= i
        <5> HIDE DEF smaller
        <5> QED BY <4>1
      <4>3. \A j \in smaller : j <= m
        <5> HIDE DEF smaller
        <5> QED BY <4>1, <4>2
      <4>4. m \in 1 .. l /\ q[m] < n
        BY <1>2
      <4>5. \A i \in 1 .. l : q[i] < n <=> i <= m
        <5>1. ASSUME NEW i \in 1 .. l, i < m PROVE q[i] < n
          <6>1. q[i] < q[m] /\ q[i] \in Nat /\ q[m] \in Nat
            BY <1>2, <4>4, <5>1 DEF Ordered
          <6> QED BY <4>4, <6>1
        <5> QED BY <1>2, <4>3, <4>4, <5>1, SMTT(30)
      <4>6. m \in 0 .. l
        BY <4>4
      <4> HIDE DEF smaller
      <4>7. m = IF smaller = {} THEN 0 ELSE CHOOSE i \in smaller : \A j \in smaller : j <= i
        BY <3>2, <4>2
      <4> QED BY <4>5, <4>6, <4>7
    <3> QED BY <3>1, <3>2
  <2>1. after \in 0 .. l /\ after \in Nat
    OBVIOUS
  <2>2. PICK r : r = SubSeq(q, 1, after) \o <<n>> \o SubSeq(q, after + 1, Len(q))
    OBVIOUS
  <2>3. r = Insert(q, n)
    <3>1. after = IF smaller = {} THEN 0 ELSE CHOOSE i \in smaller : \A j \in smaller : j <= i
      BY ONLY <2>0, Zenon
    <3>2. ~ \E i \in DOMAIN q : q[i] = n
      BY ONLY <1>4
    <3> DEFINE Spliced(a) == SubSeq(q, 1, a) \o <<n>> \o SubSeq(q, a + 1, Len(q))
    <3>3. Insert(q, n) = Spliced(IF smaller = {} THEN 0 ELSE CHOOSE i \in smaller : \A j \in smaller : j <= i)
      BY ONLY <3>2, Zenon DEF Insert
    <3>4. Insert(q, n) = SubSeq(q, 1, after) \o <<n>> \o SubSeq(q, after + 1, Len(q))
      <4>1. Spliced(after) = SubSeq(q, 1, after) \o <<n>> \o SubSeq(q, after + 1, Len(q))
        OBVIOUS
      <4> HIDE DEF smaller, Spliced
      <4> QED BY ONLY <3>1, <3>3, <4>1
    <3> QED BY <2>2, <3>4
  <2>4. /\ r \in Seq(Nat) /\ Len(r) = l + 1
        /\ \A i \in 1 .. l + 1 : r[i] = IF i <= after THEN q[i] ELSE IF i = after + 1 THEN n ELSE q[i - 1]
    <3>1. PICK s, t : s = SubSeq(q, 1, after) /\ t = SubSeq(q, after + 1, Len(q))
      OBVIOUS
    <3>2. s \in Seq(Nat) /\ Len(s) = after /\ \A i \in 1 .. after : s[i] = q[i]
      BY <1>1, <1>2, <2>1, <3>1
    <3>3. t \in Seq(Nat) /\ Len(t) = l - after /\ \A i \in 1 .. l - after : t[i] = q[after + i]
      BY <1>1, <1>2, <2>1, <3>1
    <3>4. PICK u : u = s \o <<n>>
      OBVIOUS
    <3>5. /\ u \in Seq(Nat) /\ Len(u) = after + 1
          /\ \A i \in 1 .. after : u[i] = q[i]
          /\ u[after + 1] = n
      <4>1. <<n>> \in Seq(Nat) /\ Len(<<n>>) = 1 /\ <<n>>[1] = n
        OBVIOUS
      <4>2. u \in Seq(Nat) /\ Len(u) = after + 1
        BY <2>1, <3>2, <3>4, <4>1
      <4>3. \A i \in 1 .. after + 1 : u[i] = IF i <= after THEN s[i] ELSE <<n>>[i - after]
        BY <2>1, <3>2, <3>4, <4>1, ConcatProperties
      <4>4. after + 1 \in 1 .. after + 1 /\ ~(after + 1 <= after) /\ (after + 1) - after = 1
        BY <2>1
      <4>5. u[after + 1] = n
        BY <4>1, <4>3, <4>4
      <4> QED BY <2>1, <3>2, <4>2, <4>3, <4>5
    <3>6. r = u \o t
      BY <2>2, <3>1, <3>4
    <3>7. r \in Seq(Nat) /\ Len(r) = l + 1
      BY <1>1, <2>1, <3>3, <3>5, <3>6
    <3>8. ASSUME NEW i \in 1 .. l + 1
          PROVE  r[i] = IF i <= after THEN q[i] ELSE IF i = after + 1 THEN n ELSE q[i - 1]
      <4>1. r[i] = IF i <= Len(u) THEN u[i] ELSE t[i - Len(u)]
        <5>1. i \in 1 .. Len(u) + Len(t)
          BY <1>1, <2>1, <3>3, <3>5
        <5> QED BY <3>3, <3>5, <3>6, <5>1, ConcatProperties
      <4>2. CASE i <= after
        BY <2>1, <3>5, <4>1, <4>2
      <4>3. CASE i = after + 1
        BY <2>1, <3>5, <4>1, <4>3
      <4>4. CASE i > after + 1
        <5>1. PICK d \in Int : d = i - (after + 1)
          BY <2>1
        <5>2. d \in 1 .. l - after /\ after + d = i - 1 /\ ~(i <= after + 1) /\ ~(i <= after) /\ i # after + 1
          BY <1>1, <2>1, <4>4, <5>1
        <5>3. r[i] = t[d]
          BY <3>5, <4>1, <5>1, <5>2
        <5>4. t[d] = q[after + d]
          BY <3>3, <5>2
        <5> QED BY <5>2, <5>3, <5>4
      <4> QED BY <2>1, <4>2, <4>3, <4>4
    <3> QED BY <3>7, <3>8
  <2>5. Ordered(r)
    <3> SUFFICES ASSUME NEW i \in 1 .. l + 1, NEW j \in 1 .. l + 1, i < j
                 PROVE  r[i] < r[j]
      BY <2>4 DEF Ordered
    <3>1. \A m \in 1 .. l : q[m] \in Nat /\ (q[m] < n <=> m <= after) /\ q[m] # n
      <4> HIDE DEF smaller
      <4> QED BY <1>2, <1>4, <2>0
    <3>2. \A m, h \in 1 .. l : m < h => q[m] < q[h]
      BY <1>2 DEF Ordered
    <3>3. CASE j <= after
      <4>0. i \in 1 .. l /\ j \in 1 .. l /\ i <= after
        BY <1>1, <2>1, <3>3
      <4>1. i \in 1 .. l /\ j \in 1 .. l /\ r[i] = q[i] /\ r[j] = q[j]
        BY <2>4, <3>3, <4>0
      <4> QED BY <3>2, <4>1
    <3>4. CASE j = after + 1
      <4>0. i \in 1 .. l /\ i <= after /\ ~(j <= after)
        BY <1>1, <2>1, <3>4
      <4>1. i \in 1 .. l /\ i <= after /\ r[i] = q[i] /\ r[j] = n
        BY <2>4, <3>4, <4>0
      <4> QED BY <3>1, <4>1
    <3>5. CASE j > after + 1
      <4>1. PICK h \in 1 .. l : h = j - 1
        BY <1>1, <2>1, <3>5
      <4>2. r[j] = q[h] /\ h > after
        BY <1>1, <2>1, <2>4, <3>5, <4>1
      <4>3. CASE i <= after
        <5>1. i \in 1 .. l /\ r[i] = q[i] /\ i < h
          BY <1>1, <2>1, <2>4, <4>1, <4>2, <4>3
        <5> QED BY <3>2, <4>2, <5>1
      <4>4. CASE i = after + 1
        <5>1. r[i] = n /\ ~(q[h] < n) /\ q[h] # n /\ q[h] \in Nat
          BY <2>1, <2>4, <3>1, <4>2, <4>4
        <5> QED BY <4>2, <5>1
      <4>5. CASE i > after + 1
        <5>1. PICK m \in 1 .. l : m = i - 1
          BY <1>1, <2>1, <4>5
        <5>2. r[i] = q[m] /\ m < h
          BY <1>1, <2>1, <2>4, <4>1, <4>5, <5>1
        <5> QED BY <3>2, <4>2, <5>2
      <4> QED BY <2>1, <4>3, <4>4, <4>5
    <3> QED BY <2>1, <3>3, <3>4, <3>5
  <2> QED BY <2>3, <2>4, <2>5
<1> QED BY <1>3, <1>4

\* A queue without its first packet is in order, if the queue was.
LEMMA TailKeepsOrder ==
  ASSUME NEW q \in Seq(Nat), Ordered(q), q # <<>>
  PROVE  Tail(q) \in Seq(Nat) /\ Ordered(Tail(q))
<1>1. PICK l \in Nat : l = Len(q)
  OBVIOUS
<1>2. PICK r : r = Tail(q)
  OBVIOUS
<1>3. r \in Seq(Nat) /\ DOMAIN r = 1 .. l - 1 /\ \A i \in 1 .. l - 1 : r[i] = q[i + 1]
  BY <1>1, <1>2
<1>4. ASSUME NEW i \in 1 .. l - 1, NEW j \in 1 .. l - 1, i < j PROVE r[i] < r[j]
  <2>1. i + 1 \in DOMAIN q /\ j + 1 \in DOMAIN q /\ i + 1 < j + 1
    BY <1>1, <1>4
  <2>2. q[i + 1] < q[j + 1]
    BY <2>1 DEF Ordered
  <2> QED BY <1>3, <2>2
<1> QED BY <1>2, <1>3, <1>4 DEF Ordered

-----------------------------------------------------------------------------
(* The records that a pass is made of. *)

PassFields == {"b", "src", "rb", "full", "added", "skipped", "items", "toosoon"}
SourceFields == {"data", "fresh", "processed"}
StateFields == {"firstpacket", "processingsdes", "sdesbuildcount", "do", "sdesprocessed"}
BuilderFields == {"state", "isSR", "headerlength", "blocks", "chunks", "apps", "byes", "packets"}

IsFlags(r) ==
  r = [f \in SourceFields |-> r[f]] /\ r.data \in BOOLEAN /\ r.fresh \in BOOLEAN /\ r.processed \in BOOLEAN
IsState(x) ==
  /\ x = [f \in StateFields |-> x[f]]
  /\ x.firstpacket \in BOOLEAN /\ x.processingsdes \in BOOLEAN
  /\ x.do \subseteq Sent /\ x.sdesprocessed \subseteq x.do
-----------------------------------------------------------------------------
(* The builder. *)

Whole == {n \in Nat : n % 4 = 0 /\ n >= 4}
Reporters == Range(Sources) \cup {Observed}

\* A builder whose fields are what the calls of one make of them.
IsBuilder(x) ==
  /\ x = [f \in BuilderFields |-> x[f]]
  /\ x.state \in {"new", "building", "built"} /\ x.isSR \in BOOLEAN
  /\ x.headerlength = 0 \/ x.headerlength = SSRCBytes + IF x.isSR THEN SenderInfoBytes ELSE 0
  /\ x.blocks \in Seq(Reporters) /\ (x.blocks # <<>> => x.headerlength > 0)
  /\ x.chunks \in Seq(Seq(Nat))
  /\ x.apps \in Seq(Whole) /\ x.byes \in Seq(Whole)

\* ... and what EndBuild has made of it.
LaidOut(x) ==
  x.state = "built" =>
    /\ x.headerlength > 0
    /\ x.packets = Reports(x) \o SDESPackets(x) \o Data("APP", x.apps) \o Data("BYE", x.byes)

LEMMA NewBuilderIs ==
  IsBuilder(NewBuilder) /\ NewBuilder.state = "new" /\ NewBuilder.chunks = <<>>
  BY DEF NewBuilder, IsBuilder, BuilderFields

LEMMA InitBuildIs ==
  ASSUME NEW x, x = InitBuild(NewBuilder)
  PROVE  IsBuilder(x) /\ x.state = "building" /\ x.headerlength = 0 /\ x.blocks = <<>> /\ x.chunks = <<>>
         /\ x.apps = <<>> /\ x.byes = <<>> /\ x.isSR = FALSE
  BY DEF NewBuilder, InitBuild, IsBuilder, BuilderFields

LEMMA StartReportIs ==
  ASSUME NEW x, IsBuilder(x), x.headerlength = 0, NEW sr \in BOOLEAN, NEW y, y = StartReport(x, sr)
  PROVE  /\ IsBuilder(y) /\ y.state = x.state /\ y.isSR = sr
         /\ y.headerlength = SSRCBytes + (IF sr THEN SenderInfoBytes ELSE 0) /\ y.headerlength > 0
         /\ y.blocks = <<>> /\ x.blocks = <<>> /\ y.chunks = x.chunks /\ y.apps = x.apps /\ y.byes = x.byes
         /\ y.packets = x.packets
<1>1. x = [f \in BuilderFields |-> x[f]] /\ x.blocks = <<>>
  BY DEF IsBuilder
<1>2. y = [x EXCEPT !.isSR = sr, !.headerlength = SSRCBytes + IF sr THEN SenderInfoBytes ELSE 0]
  BY DEF StartReport
<1>3. /\ y = [f \in BuilderFields |-> y[f]]
      /\ y.state = x.state /\ y.isSR = sr
      /\ y.headerlength = SSRCBytes + (IF sr THEN SenderInfoBytes ELSE 0)
      /\ y.blocks = x.blocks /\ y.chunks = x.chunks /\ y.apps = x.apps /\ y.byes = x.byes
      /\ y.packets = x.packets
  BY <1>1, <1>2 DEF BuilderFields
<1> QED BY <1>1, <1>3 DEF IsBuilder, SSRCBytes, SenderInfoBytes

LEMMA AddReportBlockIs ==
  ASSUME NEW x, IsBuilder(x), x.headerlength > 0, NEW s \in Reporters, NEW y, y = AddReportBlock(x, s)
  PROVE  /\ IsBuilder(y) /\ y.state = x.state /\ y.isSR = x.isSR /\ y.headerlength = x.headerlength
         /\ y.blocks = Append(x.blocks, s) /\ y.chunks = x.chunks /\ y.apps = x.apps /\ y.byes = x.byes
         /\ Range(y.blocks) = Range(x.blocks) \cup {s}
<1>1. x = [f \in BuilderFields |-> x[f]] /\ x.blocks \in Seq(Reporters)
  BY DEF IsBuilder
<1>2. y = [x EXCEPT !.blocks = Append(x.blocks, s)]
  BY DEF AddReportBlock
<1>3. /\ y = [f \in BuilderFields |-> y[f]]
      /\ y.state = x.state /\ y.isSR = x.isSR /\ y.headerlength = x.headerlength
      /\ y.blocks = Append(x.blocks, s) /\ y.chunks = x.chunks /\ y.apps = x.apps /\ y.byes = x.byes
  BY <1>1, <1>2 DEF BuilderFields
<1>4. y.blocks \in Seq(Reporters)
  BY <1>1, <1>3
<1>5. Range(y.blocks) = Range(x.blocks) \cup {s}
  <2>1. PICK u, v : u = x.blocks /\ v = Append(u, s)
    OBVIOUS
  <2>2. u \in Seq(Reporters)
    BY <1>1, <2>1
  <2>3. DOMAIN v = DOMAIN u \cup {Len(u) + 1} /\ v[Len(u) + 1] = s /\ \A i \in DOMAIN u : v[i] = u[i]
    BY <2>1, <2>2
  <2>4. Range(u) = {u[i] : i \in DOMAIN u} /\ Range(v) = {v[i] : i \in DOMAIN v}
    BY DEF Range
  <2>5. Range(v) = Range(u) \cup {s}
    BY <2>3, <2>4
  <2> QED BY <1>3, <2>1, <2>5
<1> QED BY <1>3, <1>4, <1>5 DEF IsBuilder

LEMMA AddSDESSourceIs ==
  ASSUME NEW x, IsBuilder(x), NEW y, y = AddSDESSource(x)
  PROVE  /\ IsBuilder(y) /\ y.state = x.state /\ y.isSR = x.isSR /\ y.headerlength = x.headerlength
         /\ y.blocks = x.blocks /\ y.chunks = Append(x.chunks, <<>>) /\ y.apps = x.apps /\ y.byes = x.byes
<1>1. x = [f \in BuilderFields |-> x[f]] /\ x.chunks \in Seq(Seq(Nat))
  BY DEF IsBuilder
<1>2. y = [x EXCEPT !.chunks = Append(x.chunks, <<>>)]
  BY DEF AddSDESSource
<1>3. /\ y = [f \in BuilderFields |-> y[f]]
      /\ y.state = x.state /\ y.isSR = x.isSR /\ y.headerlength = x.headerlength
      /\ y.blocks = x.blocks /\ y.chunks = Append(x.chunks, <<>>) /\ y.apps = x.apps /\ y.byes = x.byes
  BY <1>1, <1>2 DEF BuilderFields
<1>4. y.chunks \in Seq(Seq(Nat))
  <2>1. <<>> \in Seq(Nat)
    OBVIOUS
  <2>2. PICK T : T = Seq(Nat)
    OBVIOUS
  <2>3. x.chunks \in Seq(T) /\ <<>> \in T
    BY <1>1, <2>1, <2>2
  <2>4. Append(x.chunks, <<>>) \in Seq(T)
    BY <2>3
  <2> QED BY <1>3, <2>2, <2>4
<1> QED BY <1>3, <1>4 DEF IsBuilder

\* The last chunk gets one more item.
LEMMA WithItemIs ==
  ASSUME NEW c \in Seq(Seq(Nat)), c # <<>>, NEW m \in Nat, NEW d, d = WithItem(c, m)
  PROVE  /\ d \in Seq(Seq(Nat)) /\ d # <<>> /\ Len(d) = Len(c)
         /\ Len(c) \in DOMAIN c
         /\ \A i \in DOMAIN c : i # Len(c) => d[i] = c[i]
         /\ d[Len(c)] = Append(c[Len(c)], m)
<1>1. PICK n \in Nat : n = Len(c)
  OBVIOUS
<1>2. n \in 1 .. n /\ DOMAIN c = 1 .. n /\ \A i \in 1 .. n : c[i] \in Seq(Nat)
  BY <1>1
<1>3. d = [c EXCEPT ![n] = Append(c[n], m)]
  BY <1>1 DEF WithItem
<1>4. Append(c[n], m) \in Seq(Nat)
  BY <1>2
<1>5. /\ d = [i \in 1 .. n |-> d[i]]
      /\ \A i \in 1 .. n : d[i] = IF i = n THEN Append(c[n], m) ELSE c[i]
  BY <1>2, <1>3
<1>6. \A i \in 1 .. n : d[i] \in Seq(Nat)
  BY <1>2, <1>4, <1>5
<1>7. d \in Seq(Seq(Nat)) /\ Len(d) = n
  BY <1>1, <1>5, <1>6
<1>8. d # <<>>
  BY <1>1, <1>2, <1>7
<1> QED BY <1>1, <1>2, <1>5, <1>7, <1>8

LEMMA AddSDESItemIs ==
  ASSUME NEW x, IsBuilder(x), x.chunks # <<>>, NEW m \in Nat, NEW y, y = AddSDESItem(x, m)
  PROVE  /\ IsBuilder(y) /\ y.state = x.state /\ y.isSR = x.isSR /\ y.headerlength = x.headerlength
         /\ y.blocks = x.blocks /\ y.chunks = WithItem(x.chunks, ItemBytes + m)
         /\ y.chunks # <<>> /\ y.apps = x.apps /\ y.byes = x.byes
<1>1. x = [f \in BuilderFields |-> x[f]] /\ x.chunks \in Seq(Seq(Nat))
  BY DEF IsBuilder
<1>2. y = [x EXCEPT !.chunks = WithItem(x.chunks, ItemBytes + m)]
  BY DEF AddSDESItem
<1>3. /\ y = [f \in BuilderFields |-> y[f]]
      /\ y.state = x.state /\ y.isSR = x.isSR /\ y.headerlength = x.headerlength
      /\ y.blocks = x.blocks /\ y.chunks = WithItem(x.chunks, ItemBytes + m)
      /\ y.apps = x.apps /\ y.byes = x.byes
  BY <1>1, <1>2 DEF BuilderFields
<1>4. y.chunks \in Seq(Seq(Nat)) /\ y.chunks # <<>>
  <2>1. ItemBytes + m \in Nat
    BY DEF ItemBytes
  <2> QED BY <1>1, <1>3, <2>1, WithItemIs
<1> QED BY <1>3, <1>4 DEF IsBuilder

LEMMA AddDataIs ==
  ASSUME NEW x, IsBuilder(x), NEW m \in Whole,
         NEW y, NEW z, y = [x EXCEPT !.apps = Append(@, m)], z = [x EXCEPT !.byes = Append(@, m)]
  PROVE  /\ IsBuilder(y) /\ y.state = x.state /\ y.isSR = x.isSR /\ y.headerlength = x.headerlength
         /\ y.blocks = x.blocks /\ y.chunks = x.chunks /\ y.apps = Append(x.apps, m) /\ y.byes = x.byes
         /\ IsBuilder(z) /\ z.state = x.state /\ z.isSR = x.isSR /\ z.headerlength = x.headerlength
         /\ z.blocks = x.blocks /\ z.chunks = x.chunks /\ z.byes = Append(x.byes, m) /\ z.apps = x.apps
<1>1. x = [f \in BuilderFields |-> x[f]] /\ x.apps \in Seq(Whole) /\ x.byes \in Seq(Whole)
  BY DEF IsBuilder
<1>2. /\ y = [f \in BuilderFields |-> y[f]]
      /\ y.state = x.state /\ y.isSR = x.isSR /\ y.headerlength = x.headerlength
      /\ y.blocks = x.blocks /\ y.chunks = x.chunks /\ y.apps = Append(x.apps, m) /\ y.byes = x.byes
  BY <1>1 DEF BuilderFields
<1>3. /\ z = [f \in BuilderFields |-> z[f]]
      /\ z.state = x.state /\ z.isSR = x.isSR /\ z.headerlength = x.headerlength
      /\ z.blocks = x.blocks /\ z.chunks = x.chunks /\ z.byes = Append(x.byes, m) /\ z.apps = x.apps
  BY <1>1 DEF BuilderFields
<1>4. Append(x.apps, m) \in Seq(Whole) /\ Append(x.byes, m) \in Seq(Whole)
  BY <1>1
<1> QED BY <1>2, <1>3, <1>4 DEF IsBuilder

LEMMA EndBuildIs ==
  ASSUME NEW x, IsBuilder(x), x.headerlength > 0, NEW y, y = EndBuild(x)
  PROVE  /\ IsBuilder(y) /\ y.state = "built" /\ y.isSR = x.isSR /\ y.headerlength = x.headerlength
         /\ y.blocks = x.blocks /\ y.chunks = x.chunks /\ y.apps = x.apps /\ y.byes = x.byes
         /\ LaidOut(y)
<1>1. x = [f \in BuilderFields |-> x[f]]
  BY DEF IsBuilder
<1>2. PICK u : u = Reports(x) \o SDESPackets(x) \o Data("APP", x.apps) \o Data("BYE", x.byes)
  OBVIOUS
<1>3. y = [x EXCEPT !.state = "built", !.packets = u]
  BY <1>2 DEF EndBuild
<1>4. /\ y = [f \in BuilderFields |-> y[f]]
      /\ y.state = "built" /\ y.isSR = x.isSR /\ y.headerlength = x.headerlength
      /\ y.blocks = x.blocks /\ y.chunks = x.chunks /\ y.apps = x.apps /\ y.byes = x.byes
      /\ y.packets = u
  BY <1>1, <1>3 DEF BuilderFields
<1>5. Reports(x) = Reports(y) /\ SDESPackets(x) = SDESPackets(y)
  BY ONLY <1>4 DEF Reports, SDESPackets
<1> QED BY <1>2, <1>4, <1>5 DEF IsBuilder, LaidOut

-----------------------------------------------------------------------------
(* What is needed. *)

LEMMA SizeConstants == MaximumPacketSize \in Nat /\ MaxPerPacket \in Nat \ {0}
  BY BuilderAssumption

LEMMA AlignedIs ==
  ASSUME NEW n \in Nat
  PROVE  Aligned(n) \in Nat /\ Aligned(n) >= n /\ Aligned(n) <= n + 3 /\ Aligned(n) % 4 = 0
<1>1. PICK k \in Int, r \in Int : k = (n + 3) \div 4 /\ r = (n + 3) % 4
  <2>1. n + 3 \in Int /\ 4 \in Nat \ {0}
    OBVIOUS
  <2> QED BY <2>1, DivMod
<1>2. n + 3 = 4 * k + r /\ r \in 0 .. 3
  <2>1. n + 3 \in Int /\ 4 \in Nat \ {0}
    OBVIOUS
  <2> QED BY <1>1, <2>1, DivMod
<1>3. Aligned(n) = 4 * k
  BY <1>1 DEF Aligned
<1>4. 4 * k \in Nat /\ 4 * k >= n /\ 4 * k <= n + 3 /\ (4 * k) % 4 = 0
  BY <1>2
<1> QED BY <1>3, <1>4

LEMMA PacketsForNat ==
  ASSUME NEW n \in Nat
  PROVE  PacketsFor(n) \in Nat
<1>1. MaxPerPacket \in Nat \ {0}
  BY SizeConstants
<1>2. n \div MaxPerPacket \in Nat
  BY <1>1
<1> QED BY <1>2 DEF PacketsFor

LEMMA ChunkNeedsNat ==
  ASSUME NEW items \in Seq(Nat)
  PROVE  ChunkNeeds(items) \in Nat /\ ChunkNeeds(items) % 4 = 0 /\ ChunkNeeds(items) >= 4
<1>1. PICK n \in Nat : n = Total(items)
  BY TotalNat
<1>2. PICK a \in Nat : a = Aligned(n + 1) /\ a % 4 = 0
  <2>1. PICK m \in Nat : m = n + 1
    OBVIOUS
  <2> QED BY <2>1, AlignedIs
<1>3. ChunkNeeds(items) = a + 4
  BY <1>1, <1>2 DEF ChunkNeeds, SSRCBytes
<1>4. a + 4 \in Nat /\ (a + 4) % 4 = 0 /\ a + 4 >= 4
  BY <1>2
<1> QED BY <1>3, <1>4

\* The sizes of some chunks.
Sizes(chunks) == [i \in DOMAIN chunks |-> ChunkNeeds(chunks[i])]

LEMMA SizesNat ==
  ASSUME NEW c \in Seq(Seq(Nat))
  PROVE  Sizes(c) \in Seq(Nat) /\ Len(Sizes(c)) = Len(c) /\ DOMAIN Sizes(c) = DOMAIN c
         /\ \A i \in DOMAIN c : Sizes(c)[i] = ChunkNeeds(c[i]) /\ ChunkNeeds(c[i]) \in Nat
<1>1. PICK n \in Nat : n = Len(c)
  OBVIOUS
<1>2. DOMAIN c = 1 .. n /\ \A i \in 1 .. n : c[i] \in Seq(Nat)
  BY <1>1
<1>3. \A i \in 1 .. n : ChunkNeeds(c[i]) \in Nat
  BY <1>2, ChunkNeedsNat
<1>4. PICK z : z = Sizes(c)
  OBVIOUS
<1>5. z = [i \in 1 .. n |-> z[i]] /\ \A i \in 1 .. n : z[i] = ChunkNeeds(c[i])
  BY <1>2, <1>4 DEF Sizes
<1>6. z \in Seq(Nat) /\ Len(z) = n /\ DOMAIN z = 1 .. n
  BY <1>3, <1>5
<1> QED BY <1>1, <1>2, <1>3, <1>4, <1>5, <1>6

LEMMA SDESNeedsNat ==
  ASSUME NEW c \in Seq(Seq(Nat))
  PROVE  SDESNeeds(c) = Total(Sizes(c)) + PacketsFor(Len(c)) * HeaderBytes /\ SDESNeeds(c) \in Nat
         /\ Total(Sizes(c)) \in Nat
<1>1. Total(Sizes(c)) \in Nat
  BY SizesNat, TotalNat
<1>2. PacketsFor(Len(c)) \in Nat
  BY PacketsForNat
<1>3. SDESNeeds(c) = Total(Sizes(c)) + PacketsFor(Len(c)) * HeaderBytes
  BY DEF SDESNeeds, Sizes
<1> QED BY <1>1, <1>2, <1>3 DEF HeaderBytes

LEMMA NeedsNat ==
  ASSUME NEW x, IsBuilder(x)
  PROVE  /\ Total(x.byes) \in Nat /\ Total(x.apps) \in Nat /\ SDESNeeds(x.chunks) \in Nat
         /\ ReportNeeds(x) \in Nat
<1>1. x.byes \in Seq(Whole) /\ x.apps \in Seq(Whole) /\ x.chunks \in Seq(Seq(Nat)) /\ x.blocks \in Seq(Reporters)
      /\ x.isSR \in BOOLEAN /\ x.headerlength \in Nat
  BY DEF IsBuilder, SSRCBytes, SenderInfoBytes
<1>2. x.byes \in Seq(Nat) /\ x.apps \in Seq(Nat)
  BY <1>1 DEF Whole
<1>3. PICK n \in Nat : n = Len(x.blocks)
  BY <1>1
<1>4. PICK k \in Nat : k = PacketsFor(n)
  BY PacketsForNat
<1>5. ReportNeeds(x) \in Nat
  BY <1>1, <1>3, <1>4, SMTT(30) DEF ReportNeeds, BlocksNeed, BlockBytes, HeaderBytes, SSRCBytes, SenderInfoBytes
<1> QED BY <1>1, <1>2, <1>5, TotalNat, SDESNeedsNat

\* A session's builder to which more may come.
IsOpen(x) ==
  /\ IsBuilder(x) /\ x.state = "building" /\ x.headerlength > 0 /\ x.chunks # <<>>
  /\ Needed(x) <= MaximumPacketSize

LEMMA BlockAdded ==
  ASSUME NEW x, IsBuilder(x), FitsReportBlock(x), NEW s \in Reporters, NEW y, y = AddReportBlock(x, s)
  PROVE  Needed(y) <= MaximumPacketSize
<1>1. /\ y.isSR = x.isSR /\ y.blocks = Append(x.blocks, s)
      /\ y.chunks = x.chunks /\ y.apps = x.apps /\ y.byes = x.byes
  BY AddReportBlockIs DEF FitsReportBlock
<1>2. Len(y.blocks) = Len(x.blocks) + 1 /\ Len(y.blocks) > 0
  BY <1>1 DEF IsBuilder
<1>3. ReportNeeds(y) = BlocksNeed(x, Len(x.blocks) + 1)
  BY <1>1, <1>2 DEF ReportNeeds, BlocksNeed
<1>4. Needed(y) = OtherThanReport(x) + BlocksNeed(x, Len(x.blocks) + 1)
  BY <1>1, <1>3 DEF Needed, OtherThanReport
<1> QED BY <1>4 DEF FitsReportBlock

LEMMA ItemAdded ==
  ASSUME NEW x, IsBuilder(x), NEW m \in Nat, FitsSDESItem(x, m), NEW y, y = AddSDESItem(x, m)
  PROVE  Needed(y) <= MaximumPacketSize
<1>1. /\ y.isSR = x.isSR /\ y.blocks = x.blocks /\ y.headerlength = x.headerlength /\ IsBuilder(y)
      /\ y.chunks = WithItem(x.chunks, ItemBytes + m) /\ y.apps = x.apps /\ y.byes = x.byes
  BY AddSDESItemIs DEF FitsSDESItem
<1>2. ReportNeeds(y) = ReportNeeds(x)
  BY <1>1 DEF ReportNeeds, BlocksNeed
<1>3. PICK c, d, e, f \in Nat : c = Total(y.byes) /\ d = Total(y.apps) /\ e = SDESNeeds(y.chunks) /\ f = ReportNeeds(y)
  BY <1>1, NeedsNat
<1>4. Needed(y) = c + d + e + f
  BY <1>3 DEF Needed
<1>5. c + d + f + e <= MaximumPacketSize
  BY <1>1, <1>2, <1>3 DEF FitsSDESItem, OtherThanSDES
<1> QED BY <1>3, <1>4, <1>5, SizeConstants

LEMMA DataAdded ==
  ASSUME NEW x, IsBuilder(x), NEW m \in Whole, Needed(x) + m <= MaximumPacketSize,
         NEW y, NEW z, y = [x EXCEPT !.apps = Append(@, m)], z = [x EXCEPT !.byes = Append(@, m)]
  PROVE  Needed(y) <= MaximumPacketSize /\ Needed(z) <= MaximumPacketSize
<1>1. /\ IsBuilder(y) /\ y.isSR = x.isSR /\ y.headerlength = x.headerlength
      /\ y.blocks = x.blocks /\ y.chunks = x.chunks /\ y.apps = Append(x.apps, m) /\ y.byes = x.byes
  BY AddDataIs
<1>2. /\ IsBuilder(z) /\ z.isSR = x.isSR /\ z.headerlength = x.headerlength
      /\ z.blocks = x.blocks /\ z.chunks = x.chunks /\ z.byes = Append(x.byes, m) /\ z.apps = x.apps
  BY AddDataIs
<1>3. PICK c, d, e, f \in Nat : c = Total(x.byes) /\ d = Total(x.apps) /\ e = SDESNeeds(x.chunks) /\ f = ReportNeeds(x)
  BY NeedsNat
<1>4. ReportNeeds(y) = ReportNeeds(x) /\ ReportNeeds(z) = ReportNeeds(x)
  BY <1>1, <1>2 DEF ReportNeeds, BlocksNeed
<1>5. m \in Nat /\ x.apps \in Seq(Nat) /\ x.byes \in Seq(Nat)
  BY SMTT(30) DEF Whole, IsBuilder
<1>6. Total(y.apps) = d + m /\ Total(z.byes) = c + m
  BY <1>1, <1>2, <1>3, <1>5, TotalAppend
<1>7. Needed(x) = c + d + e + f
  BY <1>3 DEF Needed
<1>8. Needed(y) = c + (d + m) + e + f
  BY <1>1, <1>3, <1>4, <1>6 DEF Needed
<1>9. Needed(z) = (c + m) + d + e + f
  BY <1>2, <1>3, <1>4, <1>6 DEF Needed
<1> QED BY <1>3, <1>5, <1>7, <1>8, <1>9, SizeConstants

LEMMA ReportStarted ==
  ASSUME NEW x, IsBuilder(x), NEW sr \in BOOLEAN, FitsReport(x, sr), Needed(x) <= MaximumPacketSize,
         NEW y, y = StartReport(x, sr)
  PROVE  Needed(y) <= MaximumPacketSize
<1>1. /\ IsBuilder(y) /\ y.isSR = sr
      /\ y.headerlength = SSRCBytes + (IF sr THEN SenderInfoBytes ELSE 0)
      /\ y.blocks = <<>> /\ y.chunks = x.chunks /\ y.apps = x.apps /\ y.byes = x.byes
  BY StartReportIs DEF FitsReport
<1>2. PICK c, d, e, f \in Nat : c = Total(x.byes) /\ d = Total(x.apps) /\ e = SDESNeeds(x.chunks) /\ f = ReportNeeds(x)
  BY NeedsNat
<1>3. PICK h \in Nat : h = HeaderBytes + SSRCBytes + (IF sr THEN SenderInfoBytes ELSE 0)
  BY DEF HeaderBytes, SSRCBytes, SenderInfoBytes
<1>4. ReportNeeds(y) = h
  BY <1>1, <1>3 DEF ReportNeeds, HeaderBytes, SSRCBytes, SenderInfoBytes
<1>5. Needed(x) = c + d + e + f /\ OtherThanReport(x) = c + d + e
  BY <1>2 DEF Needed, OtherThanReport
<1>6. Needed(y) = c + d + e + h
  BY <1>1, <1>2, <1>4 DEF Needed
<1>7. c + d + e > MaximumPacketSize \/ h <= MaximumPacketSize - (c + d + e)
  BY <1>3, <1>5 DEF FitsReport
<1> QED BY <1>2, <1>3, <1>5, <1>6, <1>7, SizeConstants

-----------------------------------------------------------------------------
(* The blocks of a pass. *)

IsPass(p) ==
  /\ p = [f \in PassFields |-> p[f]]
  /\ p.src = [s \in remote |-> p.src[s]] /\ \A s \in remote : IsFlags(p.src[s])
  /\ IsState(p.rb)
  /\ p.full \in BOOLEAN /\ p.toosoon \in BOOLEAN
  /\ p.added \in Nat /\ p.skipped \in Nat
  /\ p.items \subseteq Items
  /\ IsOpen(p.b)

LEMMA ReportedFields ==
  ASSUME NEW p, IsPass(p), NEW s \in remote, NEW q, q = Reported(p, s)
  PROVE  /\ q = [f \in PassFields |-> q[f]]
         /\ q.b = AddReportBlock(p.b, s) /\ q.added = p.added + 1
         /\ q.rb = p.rb /\ q.full = p.full /\ q.skipped = p.skipped /\ q.items = p.items
         /\ q.toosoon = p.toosoon
         /\ q.src = [t \in remote |-> q.src[t]]
         /\ \A t \in remote : IsFlags(q.src[t])
         /\ \A t \in remote : q.src[t].data = p.src[t].data /\ q.src[t].fresh = p.src[t].fresh
                              /\ q.src[t].processed = (p.src[t].processed \/ t = s)
<1>1. p = [f \in PassFields |-> p[f]] /\ p.src = [t \in remote |-> p.src[t]] /\ \A t \in remote : IsFlags(p.src[t])
  BY DEF IsPass
<1>2. PICK u : u = [p.src EXCEPT ![s].processed = TRUE]
  OBVIOUS
<1>3. q = [p EXCEPT !.b = AddReportBlock(p.b, s), !.src = u, !.added = p.added + 1]
  BY <1>1, <1>2 DEF Reported, PassFields
<1>4. /\ q = [f \in PassFields |-> q[f]]
      /\ q.b = AddReportBlock(p.b, s) /\ q.added = p.added + 1
      /\ q.rb = p.rb /\ q.full = p.full /\ q.skipped = p.skipped /\ q.items = p.items
      /\ q.toosoon = p.toosoon /\ q.src = u
  BY <1>1, <1>3 DEF PassFields
<1>5. /\ u = [t \in remote |-> u[t]]
      /\ \A t \in remote : u[t] = IF t = s THEN [p.src[t] EXCEPT !.processed = TRUE] ELSE p.src[t]
  BY <1>1, <1>2
<1>6. ASSUME NEW t \in remote
      PROVE  /\ IsFlags(u[t])
             /\ u[t].data = p.src[t].data /\ u[t].fresh = p.src[t].fresh
             /\ u[t].processed = (p.src[t].processed \/ t = s)
  <2>1. PICK x, y : x = p.src[t] /\ y = u[t]
    OBVIOUS
  <2>2. IsFlags(x)
    BY <1>1, <2>1
  <2>3. CASE t = s
    <3>1. y = [x EXCEPT !.processed = TRUE]
      BY <1>5, <2>1, <2>3
    <3>2. IsFlags(y) /\ y.data = x.data /\ y.fresh = x.fresh /\ y.processed = TRUE
      BY ONLY <2>2, <3>1 DEF IsFlags, SourceFields
    <3>3. y.processed = (x.processed \/ t = s)
      BY ONLY <2>3, <3>2, Zenon
    <3> QED BY <2>1, <3>2, <3>3
  <2>4. CASE t # s
    <3>1. y = x
      BY <1>5, <2>1, <2>4
    <3>2. x.processed \in BOOLEAN
      BY <2>2 DEF IsFlags
    <3>3. y.processed = (x.processed \/ t = s)
      BY <2>4, <3>1, <3>2
    <3> QED BY <2>1, <2>2, <3>1, <3>3
  <2> QED BY <2>3, <2>4
<1> QED BY <1>4, <1>5, <1>6

\* q is p after the blocks of the sources S.
Grown(p, q, S) ==
  /\ IsPass(q)
  /\ q.rb = p.rb /\ q.items = p.items /\ q.toosoon = p.toosoon /\ q.b.chunks = p.b.chunks
  /\ S \subseteq {s \in remote : ShouldProcess(p, s) /\ ~p.src[s].processed}
  /\ \A s \in remote : q.src[s].data = p.src[s].data /\ q.src[s].fresh = p.src[s].fresh
                       /\ q.src[s].processed = (p.src[s].processed \/ s \in S)
  /\ Range(q.b.blocks) = Range(p.b.blocks) \cup S
  /\ S = {} => q.b = p.b

LEMMA GrownSame ==
  ASSUME NEW p, NEW q, NEW S, Grown(p, q, S)
  PROVE  \A s \in remote : ShouldProcess(q, s) <=> ShouldProcess(p, s)
  BY DEF Grown, ShouldProcess

\* One source more.
LEMMA ReportedGrows ==
  ASSUME NEW p, NEW q, NEW S, Grown(p, q, S), remote \subseteq Reporters,
         NEW s \in remote, ShouldProcess(q, s), ~q.src[s].processed, FitsReportBlock(q.b),
         NEW r, r = Reported(q, s)
  PROVE  Grown(p, r, S \cup {s}) /\ r.added = q.added + 1 /\ r.full = q.full /\ s \notin S
         /\ r.src[s].processed /\ r.skipped = q.skipped
<1>1. /\ r = [f \in PassFields |-> r[f]]
      /\ r.b = AddReportBlock(q.b, s) /\ r.added = q.added + 1
      /\ r.rb = q.rb /\ r.full = q.full /\ r.skipped = q.skipped /\ r.items = q.items
      /\ r.toosoon = q.toosoon
      /\ r.src = [t \in remote |-> r.src[t]]
      /\ \A t \in remote : IsFlags(r.src[t])
      /\ \A t \in remote : r.src[t].data = q.src[t].data /\ r.src[t].fresh = q.src[t].fresh
                           /\ r.src[t].processed = (q.src[t].processed \/ t = s)
  <2>1. IsPass(q)
    BY DEF Grown
  <2> QED BY <2>1, ReportedFields
<1>2. IsBuilder(q.b) /\ q.b.headerlength > 0 /\ s \in Reporters /\ q.b.chunks # <<>> /\ q.b.state = "building"
  BY DEF Grown, IsPass, IsOpen
<1>3. /\ IsBuilder(r.b) /\ r.b.state = q.b.state /\ r.b.headerlength = q.b.headerlength
      /\ r.b.chunks = q.b.chunks
      /\ Range(r.b.blocks) = Range(q.b.blocks) \cup {s}
  <2>1. PICK x, y : x = q.b /\ y = r.b
    OBVIOUS
  <2>2. IsBuilder(x) /\ x.headerlength > 0 /\ y = AddReportBlock(x, s)
    BY <1>1, <1>2, <2>1
  <2>3. IsBuilder(y) /\ y.state = x.state /\ y.headerlength = x.headerlength /\ y.chunks = x.chunks
         /\ Range(y.blocks) = Range(x.blocks) \cup {s}
    <3>1. s \in Reporters
      BY <1>2
    <3>2. IsBuilder(y) /\ y.state = x.state
      BY ONLY <2>2, <3>1, AddReportBlockIs
    <3>3. y.headerlength = x.headerlength /\ y.chunks = x.chunks
      BY ONLY <2>2, <3>1, AddReportBlockIs
    <3>4. Range(y.blocks) = Range(x.blocks) \cup {s}
      BY ONLY <2>2, <3>1, AddReportBlockIs
    <3> QED BY <3>2, <3>3, <3>4
  <2> QED BY <2>1, <2>3
<1>4. Needed(r.b) <= MaximumPacketSize
  BY <1>1, <1>2, BlockAdded
<1>5. IsOpen(r.b)
  BY <1>2, <1>3, <1>4 DEF IsOpen
<1>6. IsPass(r)
  <2>1. q.added + 1 \in Nat /\ q.skipped \in Nat /\ IsState(q.rb) /\ q.full \in BOOLEAN /\ q.toosoon \in BOOLEAN
        /\ q.items \subseteq Items
    BY DEF Grown, IsPass
  <2> QED BY <1>1, <1>5, <2>1 DEF IsPass
<1>7. ~p.src[s].processed /\ s \notin S /\ ShouldProcess(p, s)
  BY GrownSame DEF Grown
<1>8. \A t \in remote : r.src[t].data = p.src[t].data /\ r.src[t].fresh = p.src[t].fresh
                        /\ r.src[t].processed = (p.src[t].processed \/ t \in S \cup {s})
  <2> SUFFICES ASSUME NEW t \in remote
               PROVE  /\ r.src[t].data = p.src[t].data /\ r.src[t].fresh = p.src[t].fresh
                      /\ r.src[t].processed = (p.src[t].processed \/ t \in S \cup {s})
    OBVIOUS
  <2>1. /\ r.src[t].data = q.src[t].data /\ r.src[t].fresh = q.src[t].fresh
        /\ r.src[t].processed = (q.src[t].processed \/ t = s)
    BY <1>1
  <2>2. /\ q.src[t].data = p.src[t].data /\ q.src[t].fresh = p.src[t].fresh
        /\ q.src[t].processed = (p.src[t].processed \/ t \in S)
    BY DEF Grown
  <2>3. t \in S \cup {s} <=> t \in S \/ t = s
    OBVIOUS
  <2>4. r.src[t].processed = (p.src[t].processed \/ t \in S \cup {s})
    BY ONLY <2>1, <2>2, <2>3, Zenon
  <2> QED BY ONLY <2>1, <2>2, <2>4, Zenon
<1>9. Range(r.b.blocks) = Range(p.b.blocks) \cup (S \cup {s})
  BY <1>3 DEF Grown
<1>10. S \cup {s} \subseteq {t \in remote : ShouldProcess(p, t) /\ ~p.src[t].processed}
  BY <1>7 DEF Grown
<1>11. r.rb = p.rb /\ r.items = p.items /\ r.toosoon = p.toosoon /\ r.b.chunks = p.b.chunks
  BY <1>1, <1>3 DEF Grown
<1>12. Grown(p, r, S \cup {s})
  BY <1>6, <1>8, <1>9, <1>10, <1>11 DEF Grown
<1> QED BY <1>1, <1>7, <1>8, <1>12

\* After the first i sources: those that got a block are S; none that is due is
\* left, unless there is no room for a block or there are enough, and those that
\* had been processed before were counted.
Visiting(p, q, S, i, maxcount) ==
  /\ Grown(p, q, S)
  /\ IsFiniteSet(S) /\ q.added = Cardinality(S)
  /\ q.full /\ S = {} => ~FitsReportBlock(p.b)
  /\ ~q.full /\ q.added < maxcount =>
       \A j \in 1 .. i : Sources[j] \in remote /\ ShouldProcess(p, Sources[j]) =>
                           /\ q.src[Sources[j]].processed
                           /\ q.skipped = 0 => ~p.src[Sources[j]].processed

LEMMA VisitIs ==
  ASSUME NEW p, NEW q, NEW S, NEW i \in Nat, NEW m \in Nat, Visiting(p, q, S, i, m), remote \subseteq Reporters,
         NEW k, k = i + 1, NEW r, r = Visit(q, Sources[k], m)
  PROVE  \E T : Visiting(p, r, T, k, m)
<1> DEFINE s == Sources[k]
<1>0. Grown(p, q, S) /\ IsPass(q) /\ q.added \in Nat /\ q = [f \in PassFields |-> q[f]] /\ k \in Nat
  <2>1. Grown(p, q, S) /\ k \in Nat
    BY DEF Visiting
  <2>2. IsPass(q)
    BY <2>1 DEF Grown
  <2> QED BY <2>1, <2>2 DEF IsPass
<1>a. \A j \in 1 .. k : j \in 1 .. i \/ j = k
  OBVIOUS
<1>1. CASE s \notin remote \/ q.full \/ q.added >= m \/ ~ShouldProcess(q, s)
  <2>1. r = q
    <3>1. r = Visit(q, s, m)
      OBVIOUS
    <3> HIDE DEF s
    <3>2. Visit(q, s, m) = q
      BY ONLY <1>1, Zenon DEF Visit
    <3> QED BY ONLY <3>1, <3>2
  <2>2. ~q.full /\ q.added < m => \A j \in 1 .. k :
          Sources[j] \in remote /\ ShouldProcess(p, Sources[j]) =>
            /\ q.src[Sources[j]].processed
            /\ q.skipped = 0 => ~p.src[Sources[j]].processed
    <3> SUFFICES ASSUME ~q.full, q.added < m, NEW j \in 1 .. k, Sources[j] \in remote, ShouldProcess(p, Sources[j])
                 PROVE  /\ q.src[Sources[j]].processed
                        /\ q.skipped = 0 => ~p.src[Sources[j]].processed
      OBVIOUS
    <3>1. CASE j = k
      <4>1. ~(q.added >= m)
        BY <1>0
      <4>2. ShouldProcess(q, s)
        BY <1>0, <3>1, GrownSame
      <4> QED BY <1>1, <3>1, <4>1, <4>2
    <3>2. CASE j \in 1 .. i
      BY <3>2 DEF Visiting
    <3> QED BY <1>a, <3>1, <3>2
  <2>3. Visiting(p, q, S, k, m)
    BY <2>2 DEF Visiting
  <2> QED BY <2>1, <2>3
<1>2. CASE ~(s \notin remote \/ q.full \/ q.added >= m \/ ~ShouldProcess(q, s)) /\ q.src[s].processed
  <2>1. r = [q EXCEPT !.skipped = q.skipped + 1]
    <3>1. r = Visit(q, s, m)
      OBVIOUS
    <3> HIDE DEF s
    <3>2. Visit(q, s, m) = [q EXCEPT !.skipped = @ + 1]
      BY ONLY <1>2, Zenon DEF Visit
    <3> QED BY ONLY <3>1, <3>2
  <2>2. /\ r = [f \in PassFields |-> r[f]] /\ r.skipped = q.skipped + 1
        /\ r.b = q.b /\ r.src = q.src /\ r.rb = q.rb /\ r.full = q.full /\ r.added = q.added
        /\ r.items = q.items /\ r.toosoon = q.toosoon
    BY <1>0, <2>1 DEF PassFields
  <2>3. IsPass(r)
    BY <1>0, <2>2 DEF IsPass
  <2>4. Grown(p, r, S)
    BY <1>0, <2>2, <2>3 DEF Grown
  <2>5. \A j \in 1 .. k : ~q.full /\ q.added < m
          /\ Sources[j] \in remote /\ ShouldProcess(p, Sources[j]) => q.src[Sources[j]].processed
    BY <1>2, <1>a DEF Visiting
  <2>6. r.skipped # 0
    BY <2>2 DEF Visiting, Grown, IsPass
  <2>7. Visiting(p, r, S, k, m)
    BY <2>2, <2>4, <2>5, <2>6 DEF Visiting
  <2> QED BY <2>7
<1>3. CASE /\ ~(s \notin remote \/ q.full \/ q.added >= m \/ ~ShouldProcess(q, s)) /\ ~q.src[s].processed
           /\ ~FitsReportBlock(q.b)
  <2>1. r = [q EXCEPT !.full = TRUE]
    BY <1>3 DEF Visit
  <2>2. /\ r = [f \in PassFields |-> r[f]] /\ r.full = TRUE
        /\ r.b = q.b /\ r.src = q.src /\ r.rb = q.rb /\ r.skipped = q.skipped /\ r.added = q.added
        /\ r.items = q.items /\ r.toosoon = q.toosoon
    BY <1>0, <2>1 DEF PassFields
  <2>3. IsPass(r)
    BY <1>0, <2>2 DEF IsPass
  <2>4. Grown(p, r, S)
    BY <1>0, <2>2, <2>3 DEF Grown
  <2>5. S = {} => ~FitsReportBlock(p.b)
    BY <1>0, <1>3 DEF Grown
  <2>6. Visiting(p, r, S, k, m)
    BY <2>2, <2>4, <2>5 DEF Visiting
  <2> QED BY <2>6
<1>4. CASE /\ ~(s \notin remote \/ q.full \/ q.added >= m \/ ~ShouldProcess(q, s)) /\ ~q.src[s].processed
           /\ FitsReportBlock(q.b)
  <2>1. r = Reported(q, s)
    BY <1>4 DEF Visit
  <2>2. Grown(p, r, S \cup {s}) /\ r.added = q.added + 1 /\ r.full = q.full /\ s \notin S
        /\ r.src[s].processed /\ r.skipped = q.skipped
    BY <1>0, <1>4, <2>1, ReportedGrows, SMTT(30)
  <2>3. IsFiniteSet(S \cup {s}) /\ Cardinality(S \cup {s}) = Cardinality(S) + 1
    BY <2>2, FS_AddElement DEF Visiting
  <2>4. \A t \in remote : q.src[t].processed => r.src[t].processed
    BY <1>0, <2>2 DEF Grown
  <2>5. r.added < m => q.added < m
    BY <1>0, <2>2
  <2>6. ASSUME NEW j \in 1 .. k, ~r.full, r.added < m, Sources[j] \in remote, ShouldProcess(p, Sources[j])
        PROVE  /\ r.src[Sources[j]].processed
               /\ r.skipped = 0 => ~p.src[Sources[j]].processed
    <3>1. CASE j \in 1 .. i
      <4>1. /\ q.src[Sources[j]].processed
            /\ q.skipped = 0 => ~p.src[Sources[j]].processed
        BY <2>2, <2>5, <2>6, <3>1 DEF Visiting
      <4> QED BY <2>2, <2>4, <2>6, <4>1
    <3>2. CASE j = k
      <4>1. ~p.src[s].processed
        BY <1>0, <1>4, <2>6, <3>2 DEF Grown, IsPass, IsFlags
      <4> QED BY <2>2, <3>2, <4>1
    <3> QED BY <1>a, <3>1, <3>2
  <2>7. Visiting(p, r, S \cup {s}, k, m)
    BY <1>4, <2>2, <2>3, <2>6 DEF Visiting
  <2> QED BY <2>7
<1> QED BY <1>1, <1>2, <1>3, <1>4

Filled(p, q, S, maxcount) ==
  /\ Grown(p, q, S)
  /\ IsFiniteSet(S) /\ q.added = Cardinality(S)
  /\ q.full /\ S = {} => ~FitsReportBlock(p.b)
  /\ ~q.full /\ q.added < maxcount =>
       \A s \in remote : ShouldProcess(p, s) => /\ q.src[s].processed
                                                /\ q.skipped = 0 => ~p.src[s].processed

LEMMA FillInReportBlocksIs ==
  ASSUME NEW p, IsPass(p), remote \subseteq Range(Sources), NEW m \in Nat, NEW q, q = FillInReportBlocks(p, m)
  PROVE  \E S : Filled(p, q, S, m)
<1>1. PICK n \in Nat : n = Len(Sources)
  BY PacketBuilderAssumption
<1>2. Range(Sources) = {Sources[i] : i \in 1 .. n}
  BY <1>1, PacketBuilderAssumption, SMTT(30) DEF Range
<1>3. remote \subseteq Reporters
  BY DEF Reporters
<1>4. PICK st : st = [p EXCEPT !.full = FALSE, !.added = 0, !.skipped = 0]
  OBVIOUS
<1> DEFINE f == CHOOSE g : Runs(g, "visit", m, st, n)
<1>5. IsRun(f, "visit", m, st, n)
  BY DEF IsRun
<1>6. f[0] = st /\ \A i \in 1 .. n : f[i] = TakenOn("visit", m, f[i - 1], i)
  <2> HIDE DEF f
  <2>1. n \in Nat
    OBVIOUS
  <2>2. f[0] = st
    BY ONLY <1>5, <2>1, RunIs
  <2>3. \A i \in 1 .. n : f[i] = TakenOn("visit", m, f[i - 1], i)
    BY ONLY <1>5, <2>1, RunIs
  <2> QED BY <2>2, <2>3
<1>7. q = f[n]
  BY <1>1, <1>4 DEF FillInReportBlocks, Runs, TakenOn
<1> HIDE DEF f
<1>8. \E S : Visiting(p, st, S, 0, m)
  <2>1. p = [x \in PassFields |-> p[x]]
    BY DEF IsPass
  <2>2. /\ st = [x \in PassFields |-> st[x]] /\ st.full = FALSE /\ st.added = 0 /\ st.skipped = 0
        /\ st.b = p.b /\ st.src = p.src /\ st.rb = p.rb /\ st.items = p.items /\ st.toosoon = p.toosoon
    BY <1>4, <2>1 DEF PassFields
  <2>3. IsPass(st)
    <3>1. /\ p.src = [s \in remote |-> p.src[s]] /\ \A s \in remote : IsFlags(p.src[s])
          /\ IsState(p.rb) /\ p.toosoon \in BOOLEAN /\ p.items \subseteq Items /\ IsOpen(p.b)
      BY DEF IsPass
    <3>2. /\ st.src = [s \in remote |-> st.src[s]] /\ \A s \in remote : IsFlags(st.src[s])
          /\ IsState(st.rb) /\ st.toosoon \in BOOLEAN /\ st.items \subseteq Items /\ IsOpen(st.b)
      BY ONLY <2>2, <3>1
    <3>3. st.full \in BOOLEAN /\ st.added \in Nat /\ st.skipped \in Nat
      <4>1. st.full = FALSE /\ st.added = 0 /\ st.skipped = 0
        BY ONLY <2>2, Zenon
      <4>2. st.full \in BOOLEAN
        BY ONLY <4>1, Zenon
      <4> QED BY ONLY <4>1, <4>2
    <3>4. st = [x \in PassFields |-> st[x]]
      BY ONLY <2>2
    <3> QED BY ONLY <3>2, <3>3, <3>4 DEF IsPass
  <2>4. Grown(p, st, {})
    <3>1. \A s \in remote : st.src[s].processed = (p.src[s].processed \/ s \in {})
      <4> SUFFICES ASSUME NEW s \in remote PROVE st.src[s].processed = (p.src[s].processed \/ s \in {})
        OBVIOUS
      <4>1. st.src[s].processed = p.src[s].processed /\ p.src[s].processed \in BOOLEAN
        BY <2>2 DEF IsPass, IsFlags
      <4> QED BY <4>1
    <3> QED BY <2>2, <2>3, <3>1 DEF Grown
  <2>5. Visiting(p, st, {}, 0, m)
    BY <2>2, <2>4, FS_EmptySet DEF Visiting
  <2> QED BY <2>5
<1> DEFINE P == {i \in 0 .. n : \E S : Visiting(p, f[i], S, i, m)}
<1>9. 0 \in P
  BY <1>6, <1>8
<1>10. ASSUME NEW i \in 1 .. n, i - 1 \in P PROVE i \in P
  <2>0. PICK j \in Nat : j = i - 1
    OBVIOUS
  <2>1. PICK x : x = f[j]
    OBVIOUS
  <2>2. PICK S : Visiting(p, x, S, j, m)
    BY <1>10, <2>0, <2>1
  <2>3. i = j + 1 /\ f[i] = Visit(x, Sources[i], m)
    BY <1>6, <2>0, <2>1 DEF TakenOn
  <2>4. \E T : Visiting(p, f[i], T, i, m)
    BY <1>3, <2>2, <2>3, VisitIs
  <2> QED BY <2>4
<1>11. \A i \in 0 .. n : i \in P
  <2> HIDE DEF P
  <2> QED BY <1>9, <1>10, CountingUp
<1>12. PICK S : Visiting(p, q, S, n, m)
  BY <1>7, <1>11
<1>13. Filled(p, q, S, m)
  BY <1>2, <1>12 DEF Filled, Visiting
<1> QED BY <1>13

-----------------------------------------------------------------------------
(* The items of a pass. *)

\* q is p after the items T.
Itemed(p, q, T) ==
  /\ IsPass(q)
  /\ q.src = p.src /\ q.toosoon = p.toosoon /\ q.added = p.added /\ q.skipped = p.skipped
  /\ q.rb.firstpacket = p.rb.firstpacket /\ q.rb.processingsdes = p.rb.processingsdes
  /\ q.rb.sdesbuildcount = p.rb.sdesbuildcount /\ q.rb.do = p.rb.do
  /\ q.rb.sdesprocessed = p.rb.sdesprocessed \cup T
  /\ T \subseteq p.rb.do \ p.rb.sdesprocessed
  /\ q.items = T
  /\ q.b.blocks = p.b.blocks
  /\ T = {} => q.b = p.b

\* After the first i items: those that were added are T.
Itemizing(p, q, T, i) ==
  /\ Itemed(p, q, T)
  /\ q.full => \E t \in p.rb.do : t \notin q.rb.sdesprocessed /\ (T = {} => ~FitsSDESItem(p.b, ItemLength[t]))
  /\ ~q.full => \A j \in 1 .. i : ItemOrder[j] \in p.rb.do => ItemOrder[j] \in q.rb.sdesprocessed

LEMMA ItemsAre ==
  /\ Items = {ItemOrder[j] : j \in 1 .. 6} /\ Len(ItemOrder) = 6
  /\ Sent \subseteq Items /\ \A t \in Items : ItemLength[t] \in Nat
<1>1. Len(ItemOrder) = 6 /\ DOMAIN ItemOrder = 1 .. 6
  BY DEF ItemOrder
<1>2. Items = {ItemOrder[j] : j \in 1 .. 6}
  BY <1>1 DEF Items, Range
<1>3. \A t \in Items : ItemLength[t] \in Nat
  BY PacketBuilderAssumption
<1> QED BY <1>1, <1>2, <1>3 DEF Sent

LEMMA OneItemIs ==
  ASSUME NEW p, NEW q, NEW T, NEW i \in Nat, Itemizing(p, q, T, i), NEW k, k = i + 1, k \in 1 .. 6,
         NEW r, r = OneItem(q, ItemOrder[k])
  PROVE  \E U : Itemizing(p, r, U, k)
<1>1. PICK t : t = ItemOrder[k]
  OBVIOUS
<1>2. t \in Items /\ ItemLength[t] \in Nat
  BY <1>1, ItemsAre
<1>3. Itemed(p, q, T) /\ IsPass(q) /\ k \in Nat
  BY DEF Itemizing, Itemed
<1>4. /\ q = [x \in PassFields |-> q[x]] /\ IsState(q.rb) /\ q.items \subseteq Items /\ IsOpen(q.b)
      /\ q.rb.do = p.rb.do /\ q.rb.sdesprocessed = p.rb.sdesprocessed \cup T
  BY <1>3 DEF IsPass, Itemed
<1>5. \A j \in 1 .. k : j \in 1 .. i \/ j = k
  OBVIOUS
<1>6. CASE q.full \/ t \notin q.rb.do \/ t \in q.rb.sdesprocessed
  <2>1. r = q
    <3>1. OneItem(q, t) = q
      BY ONLY <1>6, Zenon DEF OneItem
    <3> QED BY <1>1, <3>1
  <2>2. ~q.full => \A j \in 1 .. k : ItemOrder[j] \in p.rb.do => ItemOrder[j] \in q.rb.sdesprocessed
    BY <1>1, <1>4, <1>5, <1>6 DEF Itemizing
  <2>3. Itemizing(p, q, T, k)
    BY <2>2 DEF Itemizing
  <2> QED BY <2>1, <2>3
<1>7. CASE ~(q.full \/ t \notin q.rb.do \/ t \in q.rb.sdesprocessed) /\ ~FitsSDESItem(q.b, ItemLength[t])
  <2>1. r = [q EXCEPT !.full = TRUE]
    <3>1. OneItem(q, t) = [q EXCEPT !.full = TRUE]
      BY ONLY <1>7, Zenon DEF OneItem
    <3> QED BY <1>1, <3>1
  <2>2. /\ r = [x \in PassFields |-> r[x]] /\ r.full = TRUE
        /\ r.b = q.b /\ r.src = q.src /\ r.rb = q.rb /\ r.skipped = q.skipped /\ r.added = q.added
        /\ r.items = q.items /\ r.toosoon = q.toosoon
    BY <1>4, <2>1 DEF PassFields
  <2>3. IsPass(r)
    BY <1>3, <2>2 DEF IsPass
  <2>4. Itemed(p, r, T)
    BY <1>3, <2>2, <2>3 DEF Itemed
  <2>5. t \in p.rb.do /\ t \notin r.rb.sdesprocessed
    BY <1>4, <1>7, <2>2
  <2>6. T = {} => ~FitsSDESItem(p.b, ItemLength[t])
    BY <1>3, <1>7 DEF Itemed
  <2>7. r.full
    BY ONLY <2>2, Zenon
  <2>8. Itemizing(p, r, T, k)
    BY ONLY <2>4, <2>5, <2>6, <2>7, Zenon DEF Itemizing
  <2> QED BY <2>8
<1>8. CASE ~(q.full \/ t \notin q.rb.do \/ t \in q.rb.sdesprocessed) /\ FitsSDESItem(q.b, ItemLength[t])
  <2>1. PICK y, z : y = AddSDESItem(q.b, ItemLength[t])
                    /\ z = [q.rb EXCEPT !.sdesprocessed = @ \cup {t}]
    OBVIOUS
  <2>2. r = [q EXCEPT !.b = y, !.items = q.items \cup {t}, !.rb = z]
    <3>1. OneItem(q, t) = [q EXCEPT !.b = AddSDESItem(@, ItemLength[t]), !.items = @ \cup {t},
                                    !.rb.sdesprocessed = @ \cup {t}]
      BY ONLY <1>8, Zenon DEF OneItem
    <3>2. OneItem(q, t) = [q EXCEPT !.b = y, !.items = q.items \cup {t}, !.rb = z]
      BY <1>4, <2>1, <3>1 DEF PassFields
    <3> QED BY <1>1, <3>2
  <2>3. /\ r = [x \in PassFields |-> r[x]] /\ r.full = q.full
        /\ r.b = y /\ r.src = q.src /\ r.rb = z /\ r.skipped = q.skipped /\ r.added = q.added
        /\ r.items = q.items \cup {t} /\ r.toosoon = q.toosoon
    BY <1>4, <2>2 DEF PassFields
  <2>4. /\ z = [x \in StateFields |-> z[x]]
        /\ z.firstpacket = q.rb.firstpacket /\ z.processingsdes = q.rb.processingsdes
        /\ z.sdesbuildcount = q.rb.sdesbuildcount /\ z.do = q.rb.do
        /\ z.sdesprocessed = q.rb.sdesprocessed \cup {t}
    BY <1>4, <2>1 DEF IsState, StateFields
  <2>5. IsState(z)
    BY <1>4, <1>8, <2>4 DEF IsState
  <2>6. /\ IsBuilder(y) /\ y.state = q.b.state /\ y.headerlength = q.b.headerlength
        /\ y.blocks = q.b.blocks /\ y.chunks # <<>>
    BY <1>2, <1>4, <2>1, AddSDESItemIs DEF IsOpen
  <2>7. Needed(y) <= MaximumPacketSize
    BY <1>2, <1>4, <1>8, <2>1, ItemAdded DEF IsOpen
  <2>8. IsOpen(y)
    BY <1>4, <2>6, <2>7 DEF IsOpen
  <2>9. IsPass(r)
    BY <1>2, <1>3, <2>3, <2>5, <2>8 DEF IsPass
  <2>10. Itemed(p, r, T \cup {t})
    <3>1. T \cup {t} # {} /\ t \in p.rb.do \ p.rb.sdesprocessed
      BY <1>4, <1>8
    <3>2. r.items = T \cup {t} /\ r.b.blocks = p.b.blocks
      BY <1>3, <2>3, <2>6 DEF Itemed
    <3>3. r.src = p.src /\ r.toosoon = p.toosoon /\ r.added = p.added /\ r.skipped = p.skipped
      BY <1>3, <2>3 DEF Itemed
    <3>4. /\ r.rb.firstpacket = p.rb.firstpacket /\ r.rb.processingsdes = p.rb.processingsdes
          /\ r.rb.sdesbuildcount = p.rb.sdesbuildcount /\ r.rb.do = p.rb.do
          /\ r.rb.sdesprocessed = p.rb.sdesprocessed \cup (T \cup {t})
      BY <1>3, <2>3, <2>4 DEF Itemed
    <3>5. T \subseteq p.rb.do \ p.rb.sdesprocessed
      BY <1>3 DEF Itemed
    <3> QED BY ONLY <2>9, <3>1, <3>2, <3>3, <3>4, <3>5 DEF Itemed
  <2>11. ~r.full
    BY <1>8, <2>3
  <2>12. \A j \in 1 .. k : ItemOrder[j] \in p.rb.do => ItemOrder[j] \in r.rb.sdesprocessed
    BY <1>1, <1>4, <1>5, <1>8, <2>3, <2>4 DEF Itemizing
  <2>13. Itemizing(p, r, T \cup {t}, k)
    BY ONLY <2>10, <2>11, <2>12, Zenon DEF Itemizing
  <2> QED BY <2>13
<1> QED BY <1>6, <1>7, <1>8

\* FillInSDES: the items are added until all that are due have been, or one does
\* not fit.
Sending(p, q, T) ==
  /\ Itemed(p, q, T)
  /\ q.full => \E t \in p.rb.do : t \notin q.rb.sdesprocessed /\ (T = {} => ~FitsSDESItem(p.b, ItemLength[t]))
  /\ ~q.full => p.rb.do \subseteq q.rb.sdesprocessed

LEMMA FillInSDESIs ==
  ASSUME NEW p, IsPass(p), NEW q, q = FillInSDES(p)
  PROVE  \E T : Sending(p, q, T)
<1>1. PICK n \in Nat : n = Len(ItemOrder) /\ n = 6
  BY ItemsAre
<1>2. PICK st : st = [p EXCEPT !.full = FALSE, !.items = {}]
  OBVIOUS
<1> DEFINE f == CHOOSE g : Runs(g, "item", 0, st, n)
<1>3. IsRun(f, "item", 0, st, n)
  BY DEF IsRun
<1>4. f[0] = st /\ \A i \in 1 .. n : f[i] = TakenOn("item", 0, f[i - 1], i)
  <2> HIDE DEF f
  <2>1. n \in Nat
    OBVIOUS
  <2>2. f[0] = st
    BY ONLY <1>3, <2>1, RunIs
  <2>3. \A i \in 1 .. n : f[i] = TakenOn("item", 0, f[i - 1], i)
    BY ONLY <1>3, <2>1, RunIs
  <2> QED BY <2>2, <2>3
<1>5. q = f[n]
  BY <1>1, <1>2 DEF FillInSDES, Runs, TakenOn
<1> HIDE DEF f
<1>6. \E T : Itemizing(p, st, T, 0)
  <2>1. p = [x \in PassFields |-> p[x]]
    BY DEF IsPass
  <2>2. /\ st = [x \in PassFields |-> st[x]] /\ st.full = FALSE /\ st.added = p.added /\ st.skipped = p.skipped
        /\ st.b = p.b /\ st.src = p.src /\ st.rb = p.rb /\ st.items = {} /\ st.toosoon = p.toosoon
    BY <1>2, <2>1 DEF PassFields
  <2>3. st.full \in BOOLEAN /\ ~st.full
    BY ONLY <2>2, Zenon
  <2>4. IsPass(st)
    BY <2>2, <2>3 DEF IsPass
  <2>5. Itemed(p, st, {})
    BY <2>2, <2>4 DEF Itemed
  <2>6. Itemizing(p, st, {}, 0)
    BY <2>3, <2>5 DEF Itemizing
  <2> QED BY <2>6
<1> DEFINE P == {i \in 0 .. n : \E T : Itemizing(p, f[i], T, i)}
<1>7. 0 \in P
  BY <1>4, <1>6
<1>8. ASSUME NEW i \in 1 .. n, i - 1 \in P PROVE i \in P
  <2>0. PICK j \in Nat : j = i - 1
    OBVIOUS
  <2>1. PICK x : x = f[j]
    OBVIOUS
  <2>2. PICK T : Itemizing(p, x, T, j)
    BY <1>8, <2>0, <2>1
  <2>3. i = j + 1 /\ f[i] = OneItem(x, ItemOrder[i]) /\ i \in 1 .. 6
    BY <1>1, <1>4, <2>0, <2>1 DEF TakenOn
  <2>4. \E U : Itemizing(p, f[i], U, i)
    BY <2>2, <2>3, OneItemIs
  <2> QED BY <2>4
<1>9. \A i \in 0 .. n : i \in P
  <2> HIDE DEF P
  <2> QED BY <1>7, <1>8, CountingUp
<1>10. PICK T : Itemizing(p, q, T, 6)
  BY <1>1, <1>5, <1>9
<1>11. p.rb.do \subseteq {ItemOrder[j] : j \in 1 .. 6}
  BY ItemsAre DEF IsPass, IsState
<1>12. Sending(p, q, T)
  BY <1>10, <1>11 DEF Sending, Itemizing
<1> QED BY <1>12

-----------------------------------------------------------------------------
(* A packet. *)

LEMMA RangeFinite ==
  ASSUME NEW T, NEW f \in Seq(T)
  PROVE  IsFiniteSet(Range(f)) /\ Cardinality(Range(f)) <= Len(f)
<1>1. PICK n \in Nat : n = Len(f)
  OBVIOUS
<1>2. DOMAIN f = 1 .. n /\ f \in [1 .. n -> T]
  BY <1>1
<1>3. Range(f) = {f[i] : i \in 1 .. n}
  BY <1>2 DEF Range
<1>4. PICK R : R = Range(f)
  OBVIOUS
<1>5. f \in [1 .. n -> R] /\ \A r \in R : \E i \in 1 .. n : f[i] = r
  BY <1>2, <1>3, <1>4
<1>6. f \in Surjection(1 .. n, R)
  BY <1>5 DEF Surjection
<1>7. IsFiniteSet(1 .. n) /\ Cardinality(1 .. n) = n
  <2>1. n \in Int /\ 1 \in Int /\ (1 > n => n = 0) /\ n - 1 + 1 = n
    OBVIOUS
  <2> QED BY <2>1, FS_Interval
<1>8. IsFiniteSet(R) /\ Cardinality(R) <= n
  BY <1>6, <1>7, FS_Surjection
<1> QED BY <1>1, <1>4, <1>8

\* There are at most Len(Sources) sources, and finitely many items.
LEMMA Finite ==
  /\ remote \subseteq Range(Sources) =>
       /\ IsFiniteSet(remote) /\ Cardinality(remote) \in Nat /\ Cardinality(remote) <= Len(Sources)
       /\ Len(Sources) \in Nat
  /\ IsFiniteSet(Items) /\ Cardinality(Items) \in Nat
  /\ IsFiniteSet(Sent) /\ Cardinality(Sent) \in Nat /\ Cardinality(Sent) <= Cardinality(Items)
<1>1. Sources \in Seq(Range(Sources))
  BY PacketBuilderAssumption
<1>2. IsFiniteSet(Range(Sources)) /\ Cardinality(Range(Sources)) <= Len(Sources) /\ Len(Sources) \in Nat
  BY <1>1, RangeFinite
<1>3. ItemOrder \in Seq({"NAME", "EMAIL", "LOC", "PHONE", "TOOL", "NOTE"})
  BY DEF ItemOrder
<1>4. IsFiniteSet(Items)
  BY <1>3, RangeFinite DEF Items
<1>5. IsFiniteSet(Sent) /\ Cardinality(Sent) <= Cardinality(Items)
  BY <1>4, ItemsAre, FS_Subset
<1>6. ASSUME remote \subseteq Range(Sources)
      PROVE  IsFiniteSet(remote) /\ Cardinality(remote) \in Nat /\ Cardinality(remote) <= Len(Sources)
  <2>1. IsFiniteSet(remote) /\ Cardinality(remote) <= Cardinality(Range(Sources))
    BY <1>2, <1>6, FS_Subset
  <2>2. Cardinality(remote) \in Nat /\ Cardinality(Range(Sources)) \in Nat
    BY <1>2, <2>1, FS_CardinalityType
  <2> QED BY <1>2, <2>1, <2>2
<1> QED BY <1>2, <1>4, <1>5, <1>6, FS_CardinalityType

Due(p) == {s \in remote : ShouldProcess(p, s)}
Done(p) == {s \in remote : p.src[s].processed}

\* There is room for a block, and for any item.
HasRoom(x) == FitsReportBlock(x) /\ \A t \in Items : FitsSDESItem(x, ItemLength[t])

\* Of a pass, what the sources are like stays.
SameSources(p, q) ==
  /\ q.rb.firstpacket = p.rb.firstpacket
  /\ \A s \in remote : q.src[s].data = p.src[s].data /\ q.src[s].fresh = p.src[s].fresh

LEMMA SameSourcesDue ==
  ASSUME NEW p, NEW q, SameSources(p, q)
  PROVE  Due(q) = Due(p)
  BY DEF SameSources, Due, ShouldProcess

LEMMA ClearedIs ==
  ASSUME NEW p, IsPass(p), NEW q, q = ClearAllSourceFlags(p)
  PROVE  /\ IsPass(q) /\ SameSources(p, q) /\ Done(q) = {}
         /\ q.rb = p.rb /\ q.items = p.items /\ q.toosoon = p.toosoon /\ q.b = p.b /\ q.added = p.added
<1>1. /\ p = [x \in PassFields |-> p[x]]
      /\ p.src = [s \in remote |-> p.src[s]] /\ \A s \in remote : IsFlags(p.src[s])
      /\ IsState(p.rb) /\ p.toosoon \in BOOLEAN /\ p.full \in BOOLEAN /\ p.items \subseteq Items /\ IsOpen(p.b)
      /\ p.added \in Nat /\ p.skipped \in Nat
  BY DEF IsPass
<1>2. PICK u : u = [s \in remote |-> [p.src[s] EXCEPT !.processed = FALSE]]
  OBVIOUS
<1>3. q = [p EXCEPT !.src = u]
  BY <1>1, <1>2 DEF ClearAllSourceFlags
<1>4. /\ q = [x \in PassFields |-> q[x]] /\ q.src = u
      /\ q.b = p.b /\ q.rb = p.rb /\ q.full = p.full /\ q.added = p.added
      /\ q.skipped = p.skipped /\ q.items = p.items /\ q.toosoon = p.toosoon
  BY <1>1, <1>3 DEF PassFields
<1>5. u = [s \in remote |-> u[s]]
  BY <1>2
<1>6. ASSUME NEW s \in remote
      PROVE  IsFlags(u[s]) /\ u[s].data = p.src[s].data /\ u[s].fresh = p.src[s].fresh /\ ~u[s].processed
  BY <1>1, <1>2 DEF IsFlags, SourceFields
<1>7. IsPass(q)
  BY ONLY <1>1, <1>4, <1>5, <1>6 DEF IsPass
<1> QED BY <1>4, <1>6, <1>7 DEF SameSources, Done

LEMMA EndSDESIs ==
  ASSUME NEW p, IsPass(p), NEW q, q = EndSDES(p)
  PROVE  /\ IsPass(q) /\ SameSources(p, q) /\ Done(q) = Done(p)
         /\ ~q.rb.processingsdes /\ q.rb.sdesprocessed = {} /\ q.rb.do = p.rb.do
         /\ q.items = p.items /\ q.toosoon = p.toosoon /\ q.b = p.b
<1>1. p = [x \in PassFields |-> p[x]] /\ IsState(p.rb) /\ p.rb = [x \in StateFields |-> p.rb[x]]
  BY DEF IsPass, IsState
<1>2. PICK z : z = [p.rb EXCEPT !.processingsdes = FALSE, !.sdesprocessed = {}]
  OBVIOUS
<1>3. q = [p EXCEPT !.rb = z]
  BY <1>1, <1>2 DEF EndSDES, PassFields
<1>4. /\ q = [x \in PassFields |-> q[x]] /\ q.rb = z
      /\ q.b = p.b /\ q.src = p.src /\ q.full = p.full /\ q.added = p.added
      /\ q.skipped = p.skipped /\ q.items = p.items /\ q.toosoon = p.toosoon
  BY <1>1, <1>3 DEF PassFields
<1>5. /\ z = [x \in StateFields |-> z[x]] /\ z.firstpacket = p.rb.firstpacket
      /\ z.processingsdes = FALSE /\ z.do = p.rb.do /\ z.sdesprocessed = {}
  BY <1>1, <1>2 DEF StateFields
<1>6. ~z.processingsdes /\ z.processingsdes \in BOOLEAN
  BY ONLY <1>5, Zenon
<1>7. IsState(z)
  BY <1>1, <1>5, <1>6 DEF IsState
<1>8. IsPass(q)
  BY ONLY <1>4, <1>7, IsPass(p) DEF IsPass
<1> QED BY <1>4, <1>5, <1>6, <1>8 DEF SameSources, Done

\* When the reports are done: the items that are due in this round begin.
Begins(p, c, d, q) ==
  q = [ClearAllSourceFlags(p) EXCEPT !.rb.processingsdes = TRUE, !.rb.sdesbuildcount = c, !.rb.do = d]

\* ... and what it has to do then.
Begun(p, d, q) ==
  /\ IsPass(q) /\ SameSources(p, q) /\ Done(q) = {}
  /\ q.rb.processingsdes /\ q.rb.sdesprocessed = {} /\ q.rb.do = d
  /\ q.items = p.items /\ q.toosoon = p.toosoon /\ q.b = p.b

LEMMA BeginIs ==
  ASSUME NEW p, IsPass(p), p.rb.sdesprocessed = {}, NEW c, NEW d, d \subseteq Sent,
         NEW q, Begins(p, c, d, q)
  PROVE  Begun(p, d, q)
<1>1. PICK r : r = ClearAllSourceFlags(p)
  OBVIOUS
<1>2. /\ IsPass(r) /\ SameSources(p, r) /\ Done(r) = {}
      /\ r.rb = p.rb /\ r.items = p.items /\ r.toosoon = p.toosoon /\ r.b = p.b
  BY <1>1, ClearedIs
<1>3. r = [x \in PassFields |-> r[x]] /\ IsState(r.rb) /\ r.rb = [x \in StateFields |-> r.rb[x]]
  BY <1>2 DEF IsPass, IsState
<1>4. PICK z : z = [r.rb EXCEPT !.processingsdes = TRUE, !.sdesbuildcount = c, !.do = d]
  OBVIOUS
<1>5. q = [r EXCEPT !.rb = z]
  BY <1>1, <1>3, <1>4 DEF PassFields, Begins
<1>6. /\ q = [x \in PassFields |-> q[x]] /\ q.rb = z
      /\ q.b = r.b /\ q.src = r.src /\ q.full = r.full /\ q.added = r.added
      /\ q.skipped = r.skipped /\ q.items = r.items /\ q.toosoon = r.toosoon
  BY <1>3, <1>5 DEF PassFields
<1>7. /\ z = [x \in StateFields |-> z[x]] /\ z.firstpacket = p.rb.firstpacket
      /\ z.processingsdes = TRUE /\ z.do = d /\ z.sdesprocessed = {}
  BY <1>2, <1>3, <1>4 DEF StateFields
<1>8. z.processingsdes /\ z.processingsdes \in BOOLEAN
  BY ONLY <1>7, Zenon
<1>9. IsState(z)
  BY <1>2, <1>3, <1>7, <1>8 DEF IsState
<1>10. IsPass(q)
  BY ONLY <1>2, <1>6, <1>9 DEF IsPass
<1>11. SameSources(p, q) /\ Done(q) = {}
  <2>1. z.firstpacket = r.rb.firstpacket
    BY <1>2, <1>7
  <2> QED BY <1>2, <1>6, <2>1 DEF SameSources, Done
<1>12. q.rb.processingsdes /\ q.rb.sdesprocessed = {} /\ q.rb.do = d
  BY <1>6, <1>7, <1>8
<1>13. q.items = p.items /\ q.toosoon = p.toosoon /\ q.b = p.b
  BY <1>2, <1>6
<1> QED BY ONLY <1>10, <1>11, <1>12, <1>13 DEF Begun

LEMMA GrownIs ==
  ASSUME NEW p, NEW q, NEW S, Grown(p, q, S)
  PROVE  /\ IsPass(q) /\ SameSources(p, q) /\ Due(q) = Due(p) /\ Done(q) = Done(p) \cup S
         /\ S \subseteq Due(p) \ Done(p) /\ S \subseteq remote
         /\ q.rb = p.rb /\ q.items = p.items /\ q.toosoon = p.toosoon
         /\ Range(q.b.blocks) = Range(p.b.blocks) \cup S /\ (S = {} => q.b = p.b)
<1>1. IsPass(q) /\ q.rb = p.rb /\ q.items = p.items /\ q.toosoon = p.toosoon
      /\ Range(q.b.blocks) = Range(p.b.blocks) \cup S /\ (S = {} => q.b = p.b)
  BY DEF Grown
<1>2. SameSources(p, q)
  BY DEF Grown, SameSources
<1>3. Due(q) = Due(p)
  BY <1>2, SameSourcesDue
<1>4. S \subseteq Due(p) \ Done(p) /\ S \subseteq remote
  BY DEF Grown, Due, Done
<1>5. Done(q) = Done(p) \cup S
  BY <1>4 DEF Grown, Done
<1> QED BY <1>1, <1>2, <1>3, <1>4, <1>5

LEMMA ItemedIs ==
  ASSUME NEW p, NEW q, NEW T, Itemed(p, q, T)
  PROVE  /\ IsPass(q) /\ SameSources(p, q) /\ Due(q) = Due(p) /\ Done(q) = Done(p)
         /\ q.toosoon = p.toosoon /\ q.b.blocks = p.b.blocks /\ (T = {} => q.b = p.b)
<1>1. IsPass(q) /\ q.src = p.src /\ q.rb.firstpacket = p.rb.firstpacket
      /\ q.toosoon = p.toosoon /\ q.b.blocks = p.b.blocks /\ (T = {} => q.b = p.b)
  BY DEF Itemed
<1>2. SameSources(p, q) /\ Done(q) = Done(p)
  BY <1>1 DEF SameSources, Done
<1> QED BY <1>1, <1>2, SameSourcesDue

LEMMA SameSourcesTwice ==
  ASSUME NEW p, NEW q, NEW r, SameSources(p, q), SameSources(q, r)
  PROVE  SameSources(p, r)
  BY DEF SameSources

\* There is never more to report than there are sources.
LEMMA FilledAll ==
  ASSUME NEW p, IsPass(p), remote \subseteq Range(Sources), NEW m, m = Cardinality(remote) + 1,
         NEW q, q = FillInReportBlocks(p, m)
  PROVE  \E S : /\ Grown(p, q, S) /\ IsFiniteSet(S)
                /\ q.added = 0 <=> S = {}
                /\ q.full /\ S = {} => ~FitsReportBlock(p.b)
                /\ ~q.full => Due(p) \subseteq Done(q)
                /\ ~q.full /\ q.skipped = 0 => Due(p) \cap Done(p) = {}
<1>1. IsFiniteSet(remote) /\ Cardinality(remote) \in Nat
  BY Finite
<1>2. m \in Nat
  BY <1>1
<1>3. PICK S : Filled(p, q, S, m)
  BY <1>2, FillInReportBlocksIs
<1>4. Grown(p, q, S) /\ IsFiniteSet(S) /\ q.added = Cardinality(S) /\ S \subseteq remote
  BY <1>3, GrownIs DEF Filled
<1>5. Cardinality(S) <= Cardinality(remote) /\ Cardinality(S) \in Nat
  BY <1>1, <1>4, FS_Subset, FS_CardinalityType
<1>6. q.added < m
  BY <1>1, <1>4, <1>5
<1>7. q.added = 0 <=> S = {}
  BY <1>4, FS_EmptySet
<1>8. ~q.full => Due(p) \subseteq Done(q)
  BY <1>3, <1>6 DEF Filled, Due, Done
<1>9. ~q.full /\ q.skipped = 0 => Due(p) \cap Done(p) = {}
  BY <1>3, <1>6 DEF Filled, Due, Done
<1>10. q.full /\ S = {} => ~FitsReportBlock(p.b)
  BY <1>3 DEF Filled
<1> QED BY <1>4, <1>7, <1>8, <1>9, <1>10

\* A packet with reports only, and more of them to come.
MoreReports(p, z, S) ==
  /\ S # {} /\ S \subseteq Due(p) \ Done(p)
  /\ ~z.rb.processingsdes /\ z.rb.sdesprocessed = {}
  /\ Done(z) = Done(p) \cup S /\ Range(z.b.blocks) = S

\* The last reports, and the first of the items.
ItemsBegin(p, z, S, T) ==
  /\ S \subseteq Due(p) \ Done(p) /\ Due(p) \subseteq Done(p) \cup S
  /\ z.rb.processingsdes /\ z.rb.sdesprocessed = T /\ z.items = T /\ ~(z.rb.do \subseteq T)
  /\ S = {} => T # {}
  /\ Done(z) = {} /\ Range(z.b.blocks) = S

\* The last reports and all of the items, and sources that had been reported.
RoundOver(p, z, S, T, R) ==
  /\ S \subseteq Due(p) \ Done(p) /\ Due(p) \subseteq Done(p) \cup S /\ T \subseteq Sent
  /\ ~z.rb.processingsdes /\ z.rb.sdesprocessed = {}
  /\ Done(z) = R /\ R \subseteq Due(p) /\ Range(z.b.blocks) = S \cup R
  /\ S = {} /\ T = {} /\ Due(p) \cap Done(p) # {} => R # {}

LEMMA ReportsFirstIs ==
  ASSUME NEW p, IsPass(p), ~p.toosoon, ~p.rb.processingsdes, p.rb.sdesprocessed = {},
         Range(p.b.blocks) = {}, HasRoom(p.b), remote \subseteq Range(Sources),
         NEW z, z = ReportsFirst(p)
  PROVE  /\ IsPass(z) /\ SameSources(p, z) /\ ~z.toosoon
         /\ \/ \E S : MoreReports(p, z, S)
            \/ \E S, T : ItemsBegin(p, z, S, T)
            \/ \E S, T, R : RoundOver(p, z, S, T, R)
<1>1. PICK N : N = Cardinality(remote) + 1
  OBVIOUS
<1>2. PICK q : q = FillInReportBlocks(p, N)
  OBVIOUS
<1>3. PICK c : c = (q.rb.sdesbuildcount + 1) % Rounds
  OBVIOUS
<1>4. PICK d : d = {t \in Sent : c % Interval[t] = 0}
  OBVIOUS
<1>5. PICK w : Begins(q, c, d, w)
  BY DEF Begins
<1>6. PICK r : r = FillInSDES(w)
  OBVIOUS
<1>7. z = CASE q.full /\ q.added = 0 -> TooSoon(q)
            [] q.full /\ q.added > 0 -> q
            [] ~q.full /\ r.full -> r
            [] ~q.full /\ ~r.full /\ q.skipped > 0 -> FillInReportBlocks(EndSDES(r), q.skipped)
            [] OTHER -> EndSDES(r)
  BY <1>1, <1>2, <1>3, <1>4, <1>5, <1>6 DEF ReportsFirst, Begins
<1>8. PICK S : /\ Grown(p, q, S) /\ IsFiniteSet(S)
               /\ q.added = 0 <=> S = {}
               /\ q.full /\ S = {} => ~FitsReportBlock(p.b)
               /\ ~q.full => Due(p) \subseteq Done(q)
               /\ ~q.full /\ q.skipped = 0 => Due(p) \cap Done(p) = {}
  BY <1>1, <1>2, FilledAll
<1>9. /\ IsPass(q) /\ SameSources(p, q) /\ Due(q) = Due(p) /\ Done(q) = Done(p) \cup S
      /\ S \subseteq Due(p) \ Done(p) /\ S \subseteq remote
      /\ q.rb = p.rb /\ q.toosoon = p.toosoon
      /\ Range(q.b.blocks) = S /\ (S = {} => q.b = p.b)
  BY <1>8, GrownIs
<1>10. /\ IsPass(w) /\ SameSources(q, w) /\ Done(w) = {}
       /\ w.rb.processingsdes /\ w.rb.sdesprocessed = {} /\ w.rb.do = d
       /\ w.toosoon = q.toosoon /\ w.b = q.b
  <2>1. d \subseteq Sent /\ IsPass(q) /\ q.rb.sdesprocessed = {}
    BY <1>4, <1>9
  <2>2. Begins(q, c, d, w)
    BY <1>5
  <2>3. Begun(q, d, w)
    BY ONLY <2>1, <2>2, BeginIs
  <2> QED BY ONLY <2>3 DEF Begun
<1>11. PICK T : Sending(w, r, T)
  BY <1>6, <1>10, FillInSDESIs
<1>12. /\ IsPass(r) /\ SameSources(w, r) /\ Done(r) = {}
       /\ r.toosoon = w.toosoon /\ r.b.blocks = w.b.blocks /\ (T = {} => r.b = w.b)
  BY <1>10, <1>11, ItemedIs DEF Sending
<1>13. /\ r.rb.processingsdes /\ r.rb.sdesprocessed = T /\ r.rb.do = d /\ r.items = T /\ T \subseteq d
       /\ r.full => ~(d \subseteq T)
       /\ r.full /\ T = {} => \E t \in d : ~FitsSDESItem(w.b, ItemLength[t])
  BY <1>10, <1>11 DEF Sending, Itemed
<1>14. SameSources(p, r) /\ d \subseteq Sent /\ d \subseteq Items
  BY <1>4, <1>9, <1>10, <1>12, SameSourcesTwice, ItemsAre
<1>15. q.added \in Nat /\ q.skipped \in Nat
  BY <1>9 DEF IsPass
<1>16. ~(q.full /\ q.added = 0)
  BY <1>8 DEF HasRoom
<1>17. CASE q.full
  <2>1. q.added > 0 /\ ~(q.added = 0)
    BY <1>15, <1>16, <1>17
  <2>2. z = q
    BY ONLY <1>7, <1>17, <2>1
  <2>3. MoreReports(p, q, S)
    BY <1>8, <1>9, <2>1 DEF MoreReports
  <2> QED BY <1>9, <2>2, <2>3
<1>18. CASE ~q.full /\ r.full
  <2>1. z = r
    BY ONLY <1>7, <1>18
  <2>2. S = {} => T # {}
    <3> SUFFICES ASSUME S = {}, T = {} PROVE FALSE
      OBVIOUS
    <3>1. w.b = p.b
      BY <1>9, <1>10
    <3> QED BY <1>13, <1>14, <1>18, <3>1 DEF HasRoom
  <2>3. ItemsBegin(p, r, S, T)
    BY <1>8, <1>9, <1>10, <1>12, <1>13, <1>18, <2>2 DEF ItemsBegin
  <2> QED BY <1>9, <1>10, <1>12, <1>14, <2>1, <2>3
<1>19. CASE ~q.full /\ ~r.full
  <2>1. PICK e : e = EndSDES(r)
    OBVIOUS
  <2>2. /\ IsPass(e) /\ SameSources(r, e) /\ Done(e) = {}
        /\ ~e.rb.processingsdes /\ e.rb.sdesprocessed = {}
        /\ e.toosoon = r.toosoon /\ e.b = r.b
    BY <1>12, <2>1, EndSDESIs
  <2>3. SameSources(p, e) /\ Due(e) = Due(p) /\ T \subseteq Sent /\ ~e.toosoon /\ Range(e.b.blocks) = S
    BY <1>9, <1>10, <1>12, <1>13, <1>14, <2>2, SameSourcesTwice, SameSourcesDue
  <2>4. Due(p) \subseteq Done(p) \cup S
    BY <1>8, <1>9, <1>19
  <2>5. CASE q.skipped > 0
    <3>1. z = FillInReportBlocks(e, q.skipped)
      BY ONLY <1>7, <1>19, <2>1, <2>5
    <3>2. PICK R : Filled(e, z, R, q.skipped)
      BY <1>15, <2>2, <3>1, FillInReportBlocksIs
    <3>3. /\ IsPass(z) /\ SameSources(e, z) /\ Done(z) = R /\ R \subseteq Due(e)
          /\ z.rb = e.rb /\ z.toosoon = e.toosoon /\ Range(z.b.blocks) = S \cup R
      <4>1. Grown(e, z, R)
        BY <3>2 DEF Filled
      <4>2. /\ IsPass(z) /\ SameSources(e, z) /\ Done(z) = Done(e) \cup R /\ R \subseteq Due(e) \ Done(e)
            /\ z.rb = e.rb /\ z.toosoon = e.toosoon /\ Range(z.b.blocks) = Range(e.b.blocks) \cup R
        BY ONLY <4>1, GrownIs
      <4> QED BY <2>2, <2>3, <4>2
    <3>4. S = {} /\ T = {} /\ Due(p) \cap Done(p) # {} => R # {}
      <4> SUFFICES ASSUME S = {}, T = {}, Due(p) \cap Done(p) # {}, R = {} PROVE FALSE
        OBVIOUS
      <4>1. e.b = p.b
        BY <1>9, <1>10, <1>12, <2>2
      <4>2. ~z.full
        BY <3>2, <4>1 DEF Filled, HasRoom
      <4>3. z.added = 0
        BY <3>2, FS_EmptySet DEF Filled
      <4>4. \A s \in remote : ShouldProcess(e, s) => z.src[s].processed
        BY <2>5, <3>2, <4>2, <4>3 DEF Filled
      <4>5. Due(e) \subseteq Done(z)
        BY <4>4 DEF Due, Done
      <4> QED BY <2>3, <3>3, <4>5
    <3>5. RoundOver(p, z, S, T, R)
      BY <1>9, <2>2, <2>3, <2>4, <3>3, <3>4 DEF RoundOver
    <3> QED BY <2>3, <3>3, <3>5, SameSourcesTwice
  <2>6. CASE ~(q.skipped > 0)
    <3>1. z = e
      BY ONLY <1>7, <1>19, <2>1, <2>6
    <3>2. Due(p) \cap Done(p) = {}
      BY <1>8, <1>15, <1>19, <2>6
    <3>3. RoundOver(p, e, S, T, {})
      BY <1>9, <2>2, <2>3, <2>4, <3>2 DEF RoundOver
    <3> QED BY <2>2, <2>3, <3>1, <3>3
  <2> QED BY <2>5, <2>6
<1> QED BY <1>17, <1>18, <1>19

\* A packet with items only, and more of them to come.
MoreItems(p, z, T) ==
  /\ T # {} /\ T \subseteq p.rb.do \ p.rb.sdesprocessed
  /\ z.rb.processingsdes /\ z.rb.sdesprocessed = p.rb.sdesprocessed \cup T /\ z.items = T
  /\ z.rb.do = p.rb.do /\ ~(z.rb.do \subseteq z.rb.sdesprocessed)
  /\ Done(z) = {} /\ Range(z.b.blocks) = {}

\* The last items, and the first reports of the next round.
ItemsOver(p, z, S) ==
  /\ S \subseteq Due(p)
  /\ ~z.rb.processingsdes /\ z.rb.sdesprocessed = {}
  /\ Range(z.b.blocks) = S
  /\ Done(z) = S \/ (Done(z) = {} /\ Due(p) \subseteq S)

LEMMA SDESFirstIs ==
  ASSUME NEW p, IsPass(p), ~p.toosoon, Done(p) = {}, p.rb.processingsdes,
         ~(p.rb.do \subseteq p.rb.sdesprocessed),
         Range(p.b.blocks) = {}, HasRoom(p.b), remote \subseteq Range(Sources),
         NEW z, z = SDESFirst(p)
  PROVE  /\ IsPass(z) /\ SameSources(p, z) /\ ~z.toosoon
         /\ \/ \E T : MoreItems(p, z, T)
            \/ \E S : ItemsOver(p, z, S)
<1>1. PICK q : q = FillInSDES(p)
  OBVIOUS
<1>2. PICK e : e = EndSDES(q)
  OBVIOUS
<1>3. PICK N : N = Cardinality(remote) + 1
  OBVIOUS
<1>4. PICK r : r = FillInReportBlocks(e, N)
  OBVIOUS
<1>5. z = CASE q.items = {} -> TooSoon(q)
            [] q.items # {} /\ q.full -> q
            [] OTHER -> IF AtEndOfList(r) THEN ClearAllSourceFlags(r) ELSE r
  BY <1>1, <1>2, <1>3, <1>4 DEF SDESFirst
<1>6. PICK T : Sending(p, q, T)
  BY <1>1, FillInSDESIs
<1>7. /\ IsPass(q) /\ SameSources(p, q) /\ Due(q) = Due(p) /\ Done(q) = {}
      /\ q.toosoon = p.toosoon /\ q.b.blocks = p.b.blocks /\ (T = {} => q.b = p.b)
  <2>1. Itemed(p, q, T)
    BY <1>6 DEF Sending
  <2> QED BY <2>1, ItemedIs
<1>8. /\ q.rb.processingsdes /\ q.rb.sdesprocessed = p.rb.sdesprocessed \cup T
      /\ q.rb.do = p.rb.do /\ q.items = T /\ T \subseteq p.rb.do \ p.rb.sdesprocessed
      /\ q.full => ~(p.rb.do \subseteq q.rb.sdesprocessed)
      /\ q.full /\ T = {} => \E t \in p.rb.do : ~FitsSDESItem(p.b, ItemLength[t])
      /\ ~q.full => p.rb.do \subseteq q.rb.sdesprocessed
  BY <1>6 DEF Sending, Itemed
<1>9. T # {}
  <2> SUFFICES ASSUME T = {} PROVE FALSE
    OBVIOUS
  <2>1. q.full
    BY <1>8
  <2>2. p.rb.do \subseteq Items
    BY ItemsAre DEF IsPass, IsState
  <2> QED BY <1>8, <2>1, <2>2 DEF HasRoom
<1>10. CASE q.full
  <2>1. z = q
    BY ONLY <1>5, <1>8, <1>9, <1>10
  <2>2. MoreItems(p, q, T)
    BY <1>7, <1>8, <1>9, <1>10 DEF MoreItems
  <2> QED BY <1>7, <2>1, <2>2
<1>11. CASE ~q.full
  <2>1. z = IF AtEndOfList(r) THEN ClearAllSourceFlags(r) ELSE r
    BY ONLY <1>5, <1>8, <1>9, <1>11
  <2>2. /\ IsPass(e) /\ SameSources(q, e) /\ Done(e) = {}
        /\ ~e.rb.processingsdes /\ e.rb.sdesprocessed = {}
        /\ e.toosoon = q.toosoon /\ e.b = q.b
    BY <1>2, <1>7, EndSDESIs
  <2>3. PICK S : /\ Grown(e, r, S) /\ IsFiniteSet(S)
                 /\ r.added = 0 <=> S = {}
                 /\ r.full /\ S = {} => ~FitsReportBlock(e.b)
                 /\ ~r.full => Due(e) \subseteq Done(r)
                 /\ ~r.full /\ r.skipped = 0 => Due(e) \cap Done(e) = {}
    BY <1>3, <1>4, <2>2, FilledAll
  <2>4. /\ IsPass(r) /\ SameSources(e, r) /\ Due(r) = Due(e) /\ Done(r) = S
        /\ S \subseteq Due(e)
        /\ r.rb = e.rb /\ r.toosoon = e.toosoon /\ Range(r.b.blocks) = Range(e.b.blocks) \cup S
    BY <2>2, <2>3, GrownIs
  <2>5. SameSources(p, e) /\ SameSources(p, r) /\ Due(e) = Due(p) /\ Range(r.b.blocks) = S
    BY <1>7, <2>2, <2>4, SameSourcesTwice, SameSourcesDue
  <2>6. CASE AtEndOfList(r)
    <3>1. z = ClearAllSourceFlags(r)
      BY <2>1, <2>6
    <3>2. /\ IsPass(z) /\ SameSources(r, z) /\ Done(z) = {}
          /\ z.rb = r.rb /\ z.toosoon = r.toosoon /\ z.b = r.b
      BY <2>4, <3>1, ClearedIs
    <3>3. Due(p) \subseteq S
      BY <2>4, <2>5, <2>6 DEF AtEndOfList, Due, Done
    <3>4. ItemsOver(p, z, S)
      BY <2>2, <2>4, <2>5, <3>2, <3>3 DEF ItemsOver
    <3> QED BY <1>7, <2>2, <2>4, <2>5, <3>2, <3>4, SameSourcesTwice
  <2>7. CASE ~AtEndOfList(r)
    <3>1. z = r
      BY <2>1, <2>7
    <3>2. ItemsOver(p, r, S)
      BY <2>2, <2>4, <2>5 DEF ItemsOver
    <3> QED BY <1>7, <2>2, <2>4, <2>5, <3>1, <3>2
  <2> QED BY <2>6, <2>7
<1> QED BY <1>10, <1>11

-----------------------------------------------------------------------------
(* What every packet of the session begins with. *)

LEMMA NoChunkNeeds == SDESNeeds(<<>>) = 0
<1>1. MaxPerPacket \in Nat \ {0}
  BY SizeConstants
<1>2. 0 % MaxPerPacket = 0
  BY <1>1, SmallMod
<1>3. 0 \div MaxPerPacket = 0
  <2>1. 0 = MaxPerPacket * 0 + 0 /\ 0 \in 0 .. MaxPerPacket - 1 /\ 0 \in Int
    BY <1>1
  <2> QED BY <1>1, <2>1, ModUnique
<1>4. PacketsFor(0) = 0
  BY <1>2, <1>3 DEF PacketsFor
<1>5. Sizes(<<>>) = <<>>
  BY DEF Sizes
<1>6. <<>> \in Seq(Seq(Nat)) /\ Len(<<>>) = 0
  OBVIOUS
<1>7. SDESNeeds(<<>>) = Total(Sizes(<<>>)) + PacketsFor(Len(<<>>)) * HeaderBytes
  BY <1>6, SDESNeedsNat
<1> QED BY <1>4, <1>5, <1>6, <1>7, TotalEmpty DEF HeaderBytes

LEMMA OnePacket == PacketsFor(1) = 1
<1>1. MaxPerPacket \in Nat \ {0}
  BY SizeConstants
<1>2. CASE MaxPerPacket = 1
  <2>1. 1 = MaxPerPacket * 1 + 0 /\ 0 \in 0 .. MaxPerPacket - 1 /\ 1 \in Int
    BY <1>2
  <2>2. 1 % MaxPerPacket = 0 /\ 1 \div MaxPerPacket = 1
    BY <1>1, <2>1, ModUnique
  <2> QED BY <2>2 DEF PacketsFor
<1>3. CASE MaxPerPacket # 1
  <2>1. 1 = MaxPerPacket * 0 + 1 /\ 1 \in 0 .. MaxPerPacket - 1 /\ 1 \in Int /\ 0 \in Int
    BY <1>1, <1>3
  <2>2. 1 % MaxPerPacket = 1 /\ 1 \div MaxPerPacket = 0
    BY <1>1, <2>1, ModUnique
  <2> QED BY <2>2 DEF PacketsFor
<1> QED BY <1>2, <1>3

LEMMA OneChunkNeeds ==
  ASSUME NEW a \in Seq(Nat)
  PROVE  /\ SDESNeeds(<<a>>) = Aligned(Total(a) + 1) + HeaderBytes + SSRCBytes
         /\ \A m \in Nat : WithItem(<<a>>, m) = <<Append(a, m)>>
<1>1. <<a>> \in Seq(Seq(Nat)) /\ Len(<<a>>) = 1 /\ DOMAIN <<a>> = {1} /\ <<a>>[1] = a
  OBVIOUS
<1>2. PICK n \in Nat : n = ChunkNeeds(a)
  BY ChunkNeedsNat
<1>3. Sizes(<<a>>) = <<n>>
  <2>1. Sizes(<<a>>) = [i \in {1} |-> n]
    BY <1>1, <1>2 DEF Sizes
  <2> QED BY <2>1
<1>4. Total(Sizes(<<a>>)) = n
  BY <1>2, <1>3, TotalOne
<1>5. SDESNeeds(<<a>>) = n + 1 * HeaderBytes
  BY <1>1, <1>4, SDESNeedsNat, OnePacket
<1>6. PICK k \in Nat : k = Total(a)
  BY TotalNat
<1>7. PICK l \in Nat : l = Aligned(k + 1)
  <2>1. k + 1 \in Nat
    OBVIOUS
  <2> QED BY <2>1, AlignedIs
<1>8. n = l + SSRCBytes
  BY <1>2, <1>6, <1>7 DEF ChunkNeeds
<1>9. SDESNeeds(<<a>>) = l + HeaderBytes + SSRCBytes
  BY <1>2, <1>5, <1>8 DEF HeaderBytes, SSRCBytes
<1>10. ASSUME NEW m \in Nat PROVE WithItem(<<a>>, m) = <<Append(a, m)>>
  BY <1>1 DEF WithItem
<1> QED BY <1>6, <1>7, <1>9, <1>10

LEMMA OpeningIs ==
  ASSUME NEW sr \in BOOLEAN, NEW x, x = Opening(sr)
  PROVE  /\ FitsOpening(sr) /\ IsOpen(x) /\ x.blocks = <<>> /\ HasRoom(x)
         /\ \A n \in Lengths : FitsBYE(x, 1, n)
<1>1. CNameLength \in Nat /\ MaximumPacketSize \in Nat
  BY PacketBuilderAssumption, SizeConstants
<1>2. PICK h \in Nat : h = SSRCBytes + (IF sr THEN SenderInfoBytes ELSE 0) /\ h <= SSRCBytes + SenderInfoBytes /\ h > 0
  BY DEF SSRCBytes, SenderInfoBytes
<1>3. PICK x0, x1, x2 : x0 = InitBuild(NewBuilder) /\ x1 = StartReport(x0, sr) /\ x2 = AddSDESSource(x1)
  OBVIOUS
<1>4. x = AddSDESItem(x2, CNameLength)
  BY <1>3 DEF Opening
<1>5. IsBuilder(x0) /\ x0.state = "building" /\ x0.headerlength = 0 /\ x0.blocks = <<>> /\ x0.chunks = <<>>
      /\ x0.apps = <<>> /\ x0.byes = <<>> /\ x0.isSR = FALSE
  BY <1>3, InitBuildIs
<1>6. IsBuilder(x1) /\ x1.state = "building" /\ x1.isSR = sr /\ x1.headerlength = h
      /\ x1.blocks = <<>> /\ x1.chunks = <<>> /\ x1.apps = <<>> /\ x1.byes = <<>>
  BY <1>2, <1>3, <1>5, StartReportIs
<1>7. IsBuilder(x2) /\ x2.state = "building" /\ x2.isSR = sr /\ x2.headerlength = h
      /\ x2.blocks = <<>> /\ x2.chunks = Append(<<>>, <<>>) /\ x2.apps = <<>> /\ x2.byes = <<>>
  BY <1>3, <1>6, AddSDESSourceIs
<1>8. Append(<<>>, <<>>) = << <<>> >> /\ << <<>> >> # <<>> /\ <<>> \in Seq(Nat)
  OBVIOUS
<1>9. PICK c \in Nat : c = ItemBytes + CNameLength
  BY <1>1 DEF ItemBytes
<1>10. WithItem(<< <<>> >>, c) = << <<c>> >>
  <2>1. WithItem(<< <<>> >>, c) = <<Append(<<>>, c)>>
    BY <1>8, OneChunkNeeds
  <2>2. Append(<<>>, c) = <<c>>
    OBVIOUS
  <2> QED BY <2>1, <2>2
<1>11. IsBuilder(x) /\ x.state = "building" /\ x.isSR = sr /\ x.headerlength = h
       /\ x.blocks = <<>> /\ x.chunks = << <<c>> >> /\ x.apps = <<>> /\ x.byes = <<>>
  <2>1. x2.chunks = << <<>> >> /\ x2.chunks # <<>>
    BY <1>7, <1>8
  <2>2. IsBuilder(x) /\ x.state = x2.state /\ x.isSR = x2.isSR /\ x.headerlength = x2.headerlength
         /\ x.blocks = x2.blocks /\ x.chunks = WithItem(x2.chunks, ItemBytes + CNameLength)
         /\ x.apps = x2.apps /\ x.byes = x2.byes
    <3>1. IsBuilder(x2) /\ x2.chunks # <<>> /\ CNameLength \in Nat /\ x = AddSDESItem(x2, CNameLength)
      BY <1>1, <1>4, <1>7, <2>1
    <3> QED BY ONLY <3>1, AddSDESItemIs
  <2> QED BY <1>7, <1>9, <1>10, <2>1, <2>2
<1>12. <<c>> \in Seq(Nat) /\ Total(<<c>>) = c /\ x.chunks # <<>>
  BY <1>11, TotalOne
<1>13. PICK l \in Nat : l = Aligned(c + 1)
  <2>1. c + 1 \in Nat
    OBVIOUS
  <2> QED BY <2>1, AlignedIs
<1>14. SDESNeeds(<< <<c>> >>) = l + HeaderBytes + SSRCBytes
  BY <1>12, <1>13, OneChunkNeeds
<1>15. OpeningBytes + l <= MaximumPacketSize /\ OpeningBytes + l + BlockBytes <= MaximumPacketSize
  BY <1>1, <1>9, <1>13, SizeAssumption DEF OpeningBytes, HeaderBytes, SSRCBytes, SenderInfoBytes, BlockBytes
<1>16. /\ ReportNeeds(x0) = 0
       /\ ReportNeeds(x1) = HeaderBytes + h /\ ReportNeeds(x2) = HeaderBytes + h /\ ReportNeeds(x) = HeaderBytes + h
  BY <1>2, <1>5, <1>6, <1>7, <1>11 DEF ReportNeeds
<1>17. FitsOpening(sr)
  <2>1. OtherThanReport(x0) = 0
    BY <1>5, TotalEmpty, NoChunkNeeds DEF OtherThanReport
  <2>2. OtherThanSDES(x1) = HeaderBytes + h /\ OtherThanSDES(x2) = HeaderBytes + h
    BY <1>6, <1>7, <1>16, TotalEmpty DEF OtherThanSDES, HeaderBytes
  <2>3. FitsReport(x0, sr)
    BY <1>1, <1>2, <1>5, <1>15, <2>1 DEF FitsReport, OpeningBytes, HeaderBytes, SSRCBytes, SenderInfoBytes
  <2>4. FitsSDESSource(x1)
    BY <1>1, <1>2, <1>6, <1>15, <2>2
       DEF FitsSDESSource, ExtraSourceNeeds, OpeningBytes, HeaderBytes, SSRCBytes, SenderInfoBytes
  <2>5. FitsSDESItem(x2, CNameLength)
    <3>1. SDESNeeds(WithItem(x2.chunks, ItemBytes + CNameLength)) = l + HeaderBytes + SSRCBytes
      BY <1>7, <1>8, <1>9, <1>10, <1>14
    <3>2. HeaderBytes + h + (l + HeaderBytes + SSRCBytes) <= MaximumPacketSize
      BY <1>1, <1>2, <1>15 DEF OpeningBytes, HeaderBytes, SSRCBytes, SenderInfoBytes
    <3> QED BY <1>7, <1>8, <2>2, <3>1, <3>2 DEF FitsSDESItem
  <2> QED BY <1>3, <2>3, <2>4, <2>5 DEF FitsOpening
<1>18. Needed(x) = l + HeaderBytes + SSRCBytes + HeaderBytes + h
  BY <1>2, <1>11, <1>14, <1>16, TotalEmpty DEF Needed, HeaderBytes, SSRCBytes
<1>19. IsOpen(x)
  BY <1>1, <1>2, <1>11, <1>12, <1>15, <1>18 DEF IsOpen, OpeningBytes, HeaderBytes, SSRCBytes, SenderInfoBytes
<1>20. FitsReportBlock(x)
  <2>1. OtherThanReport(x) = l + HeaderBytes + SSRCBytes
    BY <1>11, <1>14, TotalEmpty DEF OtherThanReport, HeaderBytes, SSRCBytes
  <2>2. Len(x.blocks) + 1 = 1
    BY <1>11
  <2>3. BlocksNeed(x, 1) = BlockBytes + HeaderBytes + h
    BY <1>2, <1>11, OnePacket DEF BlocksNeed, BlockBytes, HeaderBytes, SSRCBytes, SenderInfoBytes
  <2> QED BY <1>1, <1>2, <1>11, <1>15, <2>1, <2>2, <2>3
          DEF FitsReportBlock, OpeningBytes, HeaderBytes, SSRCBytes, SenderInfoBytes, BlockBytes
<1>21. ASSUME NEW t \in Items PROVE FitsSDESItem(x, ItemLength[t])
  <2>1. PICK m \in Nat : m = ItemLength[t]
    BY ItemsAre
  <2>2. PICK i \in Nat : i = ItemBytes + m
    BY DEF ItemBytes
  <2>3. WithItem(x.chunks, i) = <<Append(<<c>>, i)>>
    BY <1>11, <1>12, OneChunkNeeds
  <2>4. PICK a \in Seq(Nat) : a = Append(<<c>>, i) /\ Total(a) = c + i
    <3>1. Append(<<c>>, i) \in Seq(Nat)
      BY <1>12
    <3>2. Total(Append(<<c>>, i)) = c + i
      BY <1>12, TotalAppend
    <3> QED BY <3>1, <3>2
  <2>5. PICK k \in Nat : k = Aligned(c + i + 1)
    <3>1. c + i + 1 \in Nat
      OBVIOUS
    <3> QED BY <3>1, AlignedIs
  <2>6. SDESNeeds(WithItem(x.chunks, i)) = k + HeaderBytes + SSRCBytes
    BY <2>3, <2>4, <2>5, OneChunkNeeds
  <2>7. c + i + 1 = ItemBytes + CNameLength + ItemBytes + ItemLength[t] + 1
    <3>1. c + i + 1 = ItemBytes + CNameLength + ItemBytes + m + 1
      BY ONLY <1>1, <1>9, <2>2, m \in Nat DEF ItemBytes
    <3> QED BY ONLY <2>1, <3>1
  <2>8. OpeningBytes + k <= MaximumPacketSize
    BY <2>5, <2>7, SizeAssumption
  <2>9. OtherThanSDES(x) = HeaderBytes + h
    BY <1>11, <1>16, TotalEmpty DEF OtherThanSDES, HeaderBytes
  <2>10. HeaderBytes + h + (k + HeaderBytes + SSRCBytes) <= MaximumPacketSize
    BY <1>1, <1>2, <2>5, <2>8 DEF OpeningBytes, HeaderBytes, SSRCBytes, SenderInfoBytes
  <2> QED BY <1>11, <1>12, <2>1, <2>2, <2>6, <2>9, <2>10 DEF FitsSDESItem
<1>22. ASSUME NEW n \in Lengths PROVE FitsBYE(x, 1, n)
  <2>1. n \in Nat
    BY PacketBuilderAssumption
  <2>2. PICK k \in Nat : k = BYEBytes(1, n)
    <3>1. Aligned(1 + n) \in Nat
      BY <2>1, AlignedIs
    <3> QED BY <3>1 DEF BYEBytes, HeaderBytes, SSRCBytes
  <2>3. OpeningBytes + l + k <= MaximumPacketSize
    BY <1>9, <1>13, <2>2, SizeAssumption
  <2>4. 1 <= MaxPerPacket
    BY SizeConstants
  <2> QED BY <1>1, <1>2, <1>11, <1>18, <2>2, <2>3, <2>4
          DEF FitsBYE, OpeningBytes, HeaderBytes, SSRCBytes, SenderInfoBytes
<1> QED BY <1>11, <1>17, <1>19, <1>20, <1>21, <1>22 DEF HasRoom

-----------------------------------------------------------------------------
(* Between the packets. *)

Processed == {s \in remote : src[s].processed}

\* What is marked while a round goes on.
RoundInv ==
  /\ user \in {"session", "application"} /\ issender \in BOOLEAN /\ failed \in BOOLEAN
  /\ remote \subseteq Range(Sources)
  /\ src = [s \in remote |-> src[s]] /\ \A s \in remote : IsFlags(src[s])
  /\ IsState(rb)
  /\ rb.processingsdes => Processed = {} /\ ~(rb.do \subseteq rb.sdesprocessed)
  /\ ~rb.processingsdes => rb.sdesprocessed = {}

Outcome(p, z) ==
  \/ ~p.rb.processingsdes /\ \E S : MoreReports(p, z, S)
  \/ ~p.rb.processingsdes /\ \E S, T : ItemsBegin(p, z, S, T)
  \/ ~p.rb.processingsdes /\ \E S, T, R : RoundOver(p, z, S, T, R)
  \/ p.rb.processingsdes /\ \E T : MoreItems(p, z, T)
  \/ p.rb.processingsdes /\ \E S : ItemsOver(p, z, S)

\* The pass p, from this state, became z, and that is the packet.
Packs(p, z) ==
  /\ IsPass(p) /\ p.src = src /\ p.rb = rb /\ p.b = Opening(issender)
  /\ IsPass(z) /\ SameSources(p, z)
  /\ Outcome(p, z)
  /\ user = "session" /\ failed' = failed
  /\ b' = EndBuild(z.b)
  /\ src' = [s \in remote |-> [z.src[s] EXCEPT !.fresh = FALSE]]
  /\ rb' = [z.rb EXCEPT !.firstpacket = FALSE]
  /\ stats' = IF Observed \in Range(z.b.blocks) THEN StartNewInterval(stats) ELSE stats
  /\ Waited(z)
  /\ UNCHANGED <<session, issender, queue, first, highest, crossed, misplaced>>

LEMMA PacketIs ==
  ASSUME RoundInv, BuildNextPacket
  PROVE  \E p, z : Packs(p, z)
<1>1. PICK p : p = [b |-> Opening(issender), src |-> src, rb |-> rb, full |-> FALSE, added |-> 0,
                    skipped |-> 0, items |-> {}, toosoon |-> FALSE]
  OBVIOUS
<1>2. /\ p = [x \in PassFields |-> p[x]] /\ p.b = Opening(issender) /\ p.src = src /\ p.rb = rb
      /\ p.full = FALSE /\ p.added = 0 /\ p.skipped = 0 /\ p.items = {} /\ p.toosoon = FALSE
  BY <1>1 DEF PassFields
<1>3. FitsOpening(issender) /\ IsOpen(p.b) /\ p.b.blocks = <<>> /\ HasRoom(p.b)
  BY <1>2, OpeningIs DEF RoundInv
<1>4. ~p.toosoon /\ p.full \in BOOLEAN /\ p.toosoon \in BOOLEAN
  BY ONLY <1>2, Zenon
<1>5. IsPass(p)
  <2>1. p.added \in Nat /\ p.skipped \in Nat /\ p.items \subseteq Items
    BY <1>2
  <2>2. IsState(p.rb) /\ p.src = [s \in remote |-> p.src[s]] /\ \A s \in remote : IsFlags(p.src[s])
    BY <1>2 DEF RoundInv
  <2>3. p = [x \in PassFields |-> p[x]]
    BY <1>2
  <2> QED BY ONLY <1>3, <1>4, <2>1, <2>2, <2>3 DEF IsPass
<1>6. Range(p.b.blocks) = {} /\ remote \subseteq Range(Sources) /\ Done(p) = Processed
  BY <1>2, <1>3 DEF Range, RoundInv, Done, Processed
<1>7. PICK z : z = IF rb.processingsdes THEN SDESFirst(p) ELSE ReportsFirst(p)
  OBVIOUS
<1>8. IsPass(z) /\ SameSources(p, z) /\ ~z.toosoon /\ Outcome(p, z)
  <2>1. CASE rb.processingsdes
    <3>1. z = SDESFirst(p)
      BY <1>7, <2>1
    <3>2. p.rb.processingsdes /\ Done(p) = {} /\ ~(p.rb.do \subseteq p.rb.sdesprocessed)
      BY <1>2, <1>6, <2>1 DEF RoundInv
    <3>3. /\ IsPass(z) /\ SameSources(p, z) /\ ~z.toosoon
          /\ (\E T : MoreItems(p, z, T)) \/ (\E S : ItemsOver(p, z, S))
      BY ONLY <1>3, <1>4, <1>5, <1>6, <3>1, <3>2, SDESFirstIs
    <3> QED BY <3>2, <3>3 DEF Outcome
  <2>2. CASE ~rb.processingsdes
    <3>1. z = ReportsFirst(p)
      BY <1>7, <2>2
    <3>2. ~p.rb.processingsdes /\ p.rb.sdesprocessed = {}
      BY <1>2, <2>2 DEF RoundInv
    <3>3. /\ IsPass(z) /\ SameSources(p, z) /\ ~z.toosoon
          /\ \/ \E S : MoreReports(p, z, S)
             \/ \E S, T : ItemsBegin(p, z, S, T)
             \/ \E S, T, R : RoundOver(p, z, S, T, R)
      BY ONLY <1>3, <1>4, <1>5, <1>6, <3>1, <3>2, ReportsFirstIs
    <3> QED BY <3>2, <3>3 DEF Outcome
  <2> QED BY <2>1, <2>2
<1>9. /\ user = "session" /\ failed' = failed
      /\ b' = EndBuild(z.b)
      /\ src' = [s \in remote |-> [z.src[s] EXCEPT !.fresh = FALSE]]
      /\ rb' = [z.rb EXCEPT !.firstpacket = FALSE]
      /\ stats' = IF Observed \in Range(z.b.blocks) THEN StartNewInterval(stats) ELSE stats
      /\ Waited(z)
      /\ UNCHANGED <<session, issender, queue, first, highest, crossed, misplaced>>
  BY <1>1, <1>3, <1>7, <1>8 DEF BuildNextPacket, NewBuildTime
<1>10. Packs(p, z)
  BY <1>2, <1>5, <1>8, <1>9 DEF Packs
<1> QED BY <1>10

\* What a packet leaves.
LEMMA PacketLeaves ==
  ASSUME NEW p, NEW z, Packs(p, z)
  PROVE  /\ remote' = remote /\ user' = user /\ issender' = issender
         /\ src' = [s \in remote |-> src'[s]]
         /\ \A s \in remote : /\ IsFlags(src'[s]) /\ ~src'[s].fresh /\ src'[s].data = src[s].data
                              /\ src'[s].processed <=> s \in Done(z)
         /\ IsState(rb') /\ ~rb'.firstpacket /\ rb'.processingsdes = z.rb.processingsdes
         /\ rb'.do = z.rb.do /\ rb'.sdesprocessed = z.rb.sdesprocessed
         /\ Processed' = Done(z)
<1>1. /\ z.src = [s \in remote |-> z.src[s]] /\ \A s \in remote : IsFlags(z.src[s])
      /\ IsState(z.rb) /\ SameSources(p, z) /\ p.src = src
      /\ remote' = remote /\ user' = user /\ issender' = issender
  BY DEF Packs, IsPass, session
<1>2. src' = [s \in remote |-> [z.src[s] EXCEPT !.fresh = FALSE]]
  BY DEF Packs
<1>3. rb' = [z.rb EXCEPT !.firstpacket = FALSE]
  BY DEF Packs
<1>4. src' = [s \in remote |-> src'[s]]
  BY <1>2
<1>5. ASSUME NEW s \in remote
      PROVE  /\ IsFlags(src'[s]) /\ ~src'[s].fresh /\ src'[s].data = src[s].data
             /\ src'[s].processed <=> s \in Done(z)
  <2>1. PICK x, y : x = z.src[s] /\ y = src'[s]
    OBVIOUS
  <2>2. y = [x EXCEPT !.fresh = FALSE] /\ IsFlags(x)
    BY <1>1, <1>2, <2>1
  <2>3. IsFlags(y) /\ ~y.fresh /\ y.data = x.data /\ y.processed = x.processed
    BY ONLY <2>2 DEF IsFlags, SourceFields
  <2>4. x.data = src[s].data
    BY <1>1, <2>1 DEF SameSources
  <2>5. x.processed <=> s \in Done(z)
    BY <2>1 DEF Done
  <2> QED BY ONLY <2>1, <2>3, <2>4, <2>5
<1>6. /\ rb' = [x \in StateFields |-> rb'[x]] /\ rb'.firstpacket = FALSE
      /\ rb'.processingsdes = z.rb.processingsdes
      /\ rb'.do = z.rb.do /\ rb'.sdesprocessed = z.rb.sdesprocessed
  BY <1>1, <1>3 DEF IsState, StateFields
<1>7. rb'.firstpacket \in BOOLEAN /\ ~rb'.firstpacket
  BY ONLY <1>6, Zenon
<1>8. IsState(rb')
  BY <1>1, <1>6, <1>7 DEF IsState
<1>9. Processed' = Done(z)
  BY <1>1, <1>5 DEF Processed, Done
<1> QED BY <1>1, <1>4, <1>5, <1>6, <1>7, <1>8, <1>9

LEMMA MarkedIs ==
  ASSUME RoundInv, NEW s \in remote, src' = Marked(s)
  PROVE  /\ src' = [t \in remote |-> src'[t]]
         /\ \A t \in remote : IsFlags(src'[t]) /\ src'[t].processed = src[t].processed
         /\ \A t \in remote : t # s => src'[t] = src[t]
<1>1. src = [t \in remote |-> src[t]] /\ \A t \in remote : IsFlags(src[t])
  BY DEF RoundInv
<1>2. PICK y : y = [src[s] EXCEPT !.data = TRUE, !.fresh = TRUE]
  OBVIOUS
<1>3. src' = [src EXCEPT ![s] = y]
  BY <1>1, <1>2 DEF Marked, IsFlags, SourceFields
<1>4. /\ y = [x \in SourceFields |-> y[x]] /\ y.data = TRUE /\ y.fresh = TRUE
      /\ y.processed = src[s].processed /\ src[s].processed \in BOOLEAN
  BY <1>1, <1>2 DEF IsFlags, SourceFields
<1>5. IsFlags(y)
  BY <1>4 DEF IsFlags
<1> QED BY <1>1, <1>3, <1>4, <1>5

LEMMA RoundInit ==
  ASSUME RTCPInit
  PROVE  RoundInv
<1>1. /\ user \in {"session", "application"} /\ issender = FALSE /\ failed = FALSE /\ remote \in Memberships
      /\ src = [s \in remote |-> [data |-> FALSE, fresh |-> FALSE, processed |-> FALSE]]
      /\ rb = [firstpacket |-> TRUE, processingsdes |-> FALSE, sdesbuildcount |-> 0,
               do |-> {}, sdesprocessed |-> {}]
  BY DEF RTCPInit
<1>2. remote \subseteq Range(Sources)
  BY <1>1, PacketBuilderAssumption
<1>3. src = [s \in remote |-> src[s]] /\ \A s \in remote : IsFlags(src[s])
  BY <1>1 DEF IsFlags, SourceFields
<1>4. IsState(rb) /\ ~rb.processingsdes /\ rb.sdesprocessed = {}
  BY <1>1 DEF IsState, StateFields
<1>5. issender \in BOOLEAN /\ failed \in BOOLEAN
  BY ONLY <1>1, Zenon
<1> QED BY <1>1, <1>2, <1>3, <1>4, <1>5 DEF RoundInv

LEMMA RoundStep ==
  ASSUME RoundInv, [RTCPNext]_rtcpVars
  PROVE  RoundInv'
<1>1. ASSUME UNCHANGED <<user, remote, src, rb>>, issender' \in BOOLEAN, failed' \in BOOLEAN
      PROVE  RoundInv'
  BY <1>1 DEF RoundInv, Processed
<1>2. issender \in BOOLEAN /\ failed \in BOOLEAN /\ (~issender) \in BOOLEAN /\ TRUE \in BOOLEAN
  BY DEF RoundInv
<1>3. CASE ApplicationBuilds
  BY <1>1, <1>2, <1>3 DEF ApplicationBuilds, session
<1>4. CASE BuildNextPacket
  <2>1. PICK p, z : Packs(p, z)
    BY <1>4, PacketIs
  <2>2. /\ remote' = remote /\ user' = user /\ issender' = issender /\ failed' = failed
        /\ src' = [s \in remote |-> src'[s]] /\ \A s \in remote : IsFlags(src'[s])
        /\ IsState(rb') /\ rb'.processingsdes = z.rb.processingsdes
        /\ rb'.do = z.rb.do /\ rb'.sdesprocessed = z.rb.sdesprocessed
        /\ Processed' = Done(z)
    <3>1. failed' = failed
      BY <2>1 DEF Packs
    <3>2. /\ remote' = remote /\ user' = user /\ issender' = issender
          /\ rb'.processingsdes = z.rb.processingsdes
          /\ rb'.do = z.rb.do /\ rb'.sdesprocessed = z.rb.sdesprocessed
          /\ Processed' = Done(z) /\ IsState(rb')
      BY <2>1, PacketLeaves
    <3>3. src' = [s \in remote |-> src'[s]] /\ \A s \in remote : IsFlags(src'[s])
      BY <2>1, PacketLeaves
    <3> QED BY <3>1, <3>2, <3>3
  <2>3. /\ z.rb.processingsdes => Done(z) = {} /\ ~(z.rb.do \subseteq z.rb.sdesprocessed)
        /\ ~z.rb.processingsdes => z.rb.sdesprocessed = {}
    BY <2>1 DEF Packs, Outcome, MoreReports, ItemsBegin, RoundOver, MoreItems, ItemsOver
  <2> QED BY <1>2, <2>2, <2>3 DEF RoundInv
<1>5. CASE \E sr \in BOOLEAN, n \in Lengths : BuildBYEPacket(sr, n)
  BY <1>1, <1>2, <1>5 DEF BuildBYEPacket, session
<1>6. CASE \E n \in Lengths : SendRTCPAPPPacket(n)
  BY <1>1, <1>2, <1>6 DEF SendRTCPAPPPacket, session
<1>7. CASE OwnSenderChanges
  BY <1>1, <1>2, <1>7 DEF OwnSenderChanges, session
<1>8. ASSUME NEW s \in remote, src' = Marked(s), UNCHANGED <<user, remote, rb, issender, failed>>
      PROVE  RoundInv'
  <2>1. /\ src' = [t \in remote |-> src'[t]]
        /\ \A t \in remote : IsFlags(src'[t]) /\ src'[t].processed = src[t].processed
    BY <1>8, MarkedIs
  <2>2. Processed' = Processed
    BY <1>8, <2>1 DEF Processed
  <2> QED BY <1>8, <2>1, <2>2 DEF RoundInv
<1>9. ASSUME NEW s \in remote, SourceSends(s) PROVE RoundInv'
  BY <1>8, <1>9 DEF SourceSends, session
<1>10. ASSUME NEW n, NumberArrives(n) PROVE RoundInv'
  <2>1. Observed \in remote /\ src' = Marked(Observed) /\ UNCHANGED <<user, remote, rb, issender, failed>>
    BY <1>10 DEF NumberArrives, session
  <2> QED BY <1>8, <2>1
<1>11. CASE TakePacket
  BY <1>1, <1>2, <1>11 DEF TakePacket, session
<1>12. CASE UNCHANGED rtcpVars
  BY <1>1, <1>2, <1>12 DEF rtcpVars, session
<1> QED BY <1>3, <1>4, <1>5, <1>6, <1>7, <1>9, <1>10, <1>11, <1>12 DEF RTCPNext

-----------------------------------------------------------------------------
(* The numbers of the first source. *)

StatsFields == {"sentdata", "numcycles", "baseseqnr", "exthighseqnr", "savedextseqnr",
                "packetsreceived", "numnewpackets"}

\* A statistics record, whatever its numbers are worth.
IsStats(x) ==
  /\ x = [f \in StatsFields |-> x[f]]
  /\ x.sentdata \in BOOLEAN
  /\ x.numcycles \in Ext /\ x.baseseqnr \in Ext /\ x.exthighseqnr \in Ext /\ x.savedextseqnr \in Ext
  /\ x.packetsreceived \in 0 .. MaxReceived /\ x.numnewpackets \in 0 .. x.packetsreceived

\* The cycles before the one that counting begins with.
Skipped(n) == (n \div Cycle) - IF n % Cycle = 0 THEN 1 ELSE 0
Start(n) == Cycle * Skipped(n)

\* The statistics x tell the truth of a source that began with f and came to h.
Truth(x, f, h) ==
  /\ x.exthighseqnr = h - Start(f)
  /\ x.numcycles = Cycle * (h \div Cycle) - Start(f)
  /\ x.baseseqnr = f - Start(f) - 1

CountingInv ==
  /\ IsStats(stats)
  /\ first \in 0 .. MaxNumber /\ highest \in first .. MaxNumber
  /\ crossed \in BOOLEAN /\ misplaced \in BOOLEAN
  /\ stats.sentdata => first >= Cycle
  /\ ~stats.sentdata => /\ stats.packetsreceived = 0 /\ stats.numnewpackets = 0 /\ stats.numcycles = 0
                        /\ first = 0 /\ highest = 0 /\ ~crossed /\ ~misplaced
  /\ stats.sentdata /\ ~crossed => ~misplaced /\ Truth(stats, first, highest)

\* A source that is due has sent a packet since the last block.
FreshInv ==
  \A s \in remote : HasNews(s) => s \in renewed /\ (s = Observed => stats.numnewpackets >= 1)

QueueInv == queue \in Seq(Nat) /\ Ordered(queue)

LEMMA StartIs ==
  ASSUME NEW f \in Nat, f >= Cycle
  PROVE  /\ Skipped(f) \in Nat /\ Start(f) \in Nat
         /\ Start(f) <= Cycle * (f \div Cycle) /\ Cycle * (f \div Cycle) <= f /\ Start(f) < f
         /\ f % Cycle = 0 => f - Start(f) = Cycle /\ Cycle * (f \div Cycle) - Start(f) = Cycle
         /\ f % Cycle # 0 => f - Start(f) = f % Cycle /\ Cycle * (f \div Cycle) - Start(f) = 0
<1> DEFINE C == Cycle
<1>0. C \in Nat \ {0, 1}
  BY NumberConstants
<1> HIDE DEF C
<1>1. PICK a \in Int, i \in Int : a = f \div C /\ i = f % C /\ f = C * a + i /\ i \in 0 .. C - 1
  <2>1. f \div C \in Int /\ f % C \in Int /\ f = C * (f \div C) + (f % C) /\ f % C \in 0 .. C - 1
    BY <1>0, DivMod
  <2> QED BY ONLY <2>1
<1>2. a >= 1
  <2>1. ASSUME a < 1 PROVE FALSE
    <3>1. C * a + C <= C * 1
      BY <1>0, <2>1, MulOrder
    <3>2. f >= C
      BY DEF C
    <3> QED BY <1>0, <1>1, <3>1, <3>2
  <2> QED BY <2>1
<1>3. PICK u \in Int : u = C * a
  BY <1>0
<1>4. C * (a - 1) = u - C
  BY <1>0, <1>3
<1>5. u >= C
  <2>1. CASE a = 1
    BY <1>0, <1>3, <2>1
  <2>2. CASE 1 < a
    <3>1. C * 1 + C <= C * a
      BY <1>0, <2>2, MulOrder
    <3> QED BY <1>0, <1>3, <3>1
  <2> QED BY <1>2, <2>1, <2>2
<1>6. CASE i = 0
  <2>1. Skipped(f) = a - 1 /\ Start(f) = u - C
    BY <1>1, <1>4, <1>6 DEF Skipped, Start, C
  <2> QED BY <1>0, <1>1, <1>2, <1>3, <1>5, <1>6, <2>1 DEF C
<1>7. CASE i # 0
  <2>1. Skipped(f) = a
    BY <1>1, <1>7 DEF Skipped, C
  <2>2. Start(f) = u
    BY <1>3, <2>1 DEF Start, C
  <2> QED BY <1>0, <1>1, <1>2, <1>3, <1>5, <1>7, <2>1, <2>2 DEF C
<1> QED BY <1>6, <1>7

LEMMA FirstPacketIs ==
  ASSUME NEW x, IsStats(x), x.numcycles = 0, x.packetsreceived = 0, x.numnewpackets = 0,
         NEW n \in Nat, n >= Cycle, n <= MaxNumber, MaxReceived >= 1
  PROVE  LET y == FirstPacket(x, n % Cycle)
         IN /\ IsStats(y) /\ y.sentdata /\ y.packetsreceived = 1 /\ y.numnewpackets = 1
            /\ Truth(y, n, n)
<1>0. Cycle \in Nat \ {0, 1} /\ ExtMod \in Nat \ {0, 1} /\ ExtMod > 2 * Cycle
  BY NumberConstants, SequenceAssumption
<1>1. PICK i \in Int : i = n % Cycle /\ i \in 0 .. Cycle - 1
  <2>1. n % Cycle \in 0 .. Cycle - 1
    BY <1>0, DivMod
  <2>2. n % Cycle \in Int
    BY <1>0, <2>1
  <2> QED BY ONLY <2>1, <2>2
<1>2. PICK base \in Int : base = IF i = 0 THEN Cycle - 1 ELSE i - 1
  BY <1>0
<1>3. base \in Ext /\ base + 1 \in Ext /\ Cycle \in Ext /\ 0 \in Ext
  BY <1>0, <1>1, <1>2 DEF Ext
<1>4. PICK y : y = FirstPacket(x, n % Cycle)
  OBVIOUS
<1>5. Plus(0, 1) = 1
  BY <1>0, PlusIs
<1>6. y = [sentdata |-> TRUE, numcycles |-> IF i = 0 THEN Cycle ELSE 0,
           baseseqnr |-> base, exthighseqnr |-> base + 1, savedextseqnr |-> base,
           packetsreceived |-> 1, numnewpackets |-> 1]
  BY <1>1, <1>2, <1>4, <1>5 DEF FirstPacket
<1>7. /\ y = [f \in StatsFields |-> y[f]] /\ y.sentdata = TRUE /\ y.numcycles = IF i = 0 THEN Cycle ELSE 0
      /\ y.baseseqnr = base /\ y.exthighseqnr = base + 1 /\ y.savedextseqnr = base
      /\ y.packetsreceived = 1 /\ y.numnewpackets = 1
  BY <1>6 DEF StatsFields
<1>8. y.sentdata \in BOOLEAN /\ y.sentdata
  BY ONLY <1>7, Zenon
<1>9. IsStats(y)
  <2>1. y.numcycles \in Ext
    BY <1>3, <1>7
  <2>2. y.packetsreceived \in 0 .. MaxReceived /\ y.numnewpackets \in 0 .. y.packetsreceived
    BY <1>7, NumberConstants
  <2> QED BY <1>3, <1>7, <1>8, <2>1, <2>2 DEF IsStats
<1>10. Truth(y, n, n)
  <2>1. /\ Start(n) \in Nat
        /\ i = 0 => n - Start(n) = Cycle /\ Cycle * (n \div Cycle) - Start(n) = Cycle
        /\ i # 0 => n - Start(n) = i /\ Cycle * (n \div Cycle) - Start(n) = 0
    BY <1>1, StartIs
  <2> QED BY <1>0, <1>1, <1>2, <1>7, <2>1 DEF Truth
<1> QED BY <1>4, <1>7, <1>8, <1>9, <1>10

\* The number that belongs to a packet.
LEMMA TrueNumberIs ==
  ASSUME first \in Nat, first >= Cycle, first <= MaxNumber,
         NEW n \in Nat, n <= MaxNumber, n >= Start(first)
  PROVE  TrueNumber(n) = n - Start(first)
<1>0. Cycle \in Nat \ {0, 1} /\ ExtMod \in Nat \ {0, 1} /\ 2 * MaxNumber < ExtMod /\ MaxNumber \in Nat
  BY NumberConstants
<1>1. PICK s \in Nat : s = Start(first) /\ s < first
  BY StartIs
<1>2. FirstPacket(NewStats, first % Cycle).exthighseqnr = first - s
  <2>1. PICK i \in Int : i = first % Cycle
    BY <1>0
  <2>2. /\ i = 0 => first - s = Cycle
        /\ i # 0 => first - s = i
    BY <1>1, <2>1, StartIs
  <2> QED BY <1>0, <2>1, <2>2 DEF FirstPacket
<1>3. PICK v \in Int : v = n - s
  BY <1>1
<1>4. first - s + n - first = v
  BY <1>1, <1>3
<1>5. v \in 0 .. ExtMod - 1
  BY <1>0, <1>1, <1>3
<1>6. v % ExtMod = v
  BY <1>0, <1>5, SmallMod
<1>7. TrueNumber(n) = v % ExtMod
  BY <1>2, <1>4 DEF TrueNumber
<1> QED BY <1>1, <1>3, <1>6, <1>7

\* One more packet of a source that has sent some: the counters go on.
LEMMA ProcessPacketIs ==
  ASSUME NEW x, IsStats(x), x.sentdata, x.packetsreceived < MaxReceived, NEW i \in 0 .. Cycle - 1
  PROVE  LET y == ProcessPacket(x, i)
         IN /\ IsStats(y) /\ y.sentdata
            /\ y.packetsreceived = x.packetsreceived + 1 /\ y.numnewpackets = x.numnewpackets + 1
            /\ y.baseseqnr = x.baseseqnr
            /\ y.numcycles = IF Wraps(x, i) THEN Plus(x.numcycles, Cycle) ELSE x.numcycles
            /\ y.exthighseqnr = IF i >= x.exthighseqnr % Cycle \/ Wraps(x, i)
                                THEN Extended(x, i) ELSE x.exthighseqnr
            /\ Extended(x, i) = IF Wraps(x, i) THEN Plus(x.numcycles, Cycle + i) ELSE Plus(x.numcycles, i)
            /\ Extended(x, i) \in Ext
<1>0. Cycle \in Nat \ {0, 1} /\ ExtMod \in Nat \ {0, 1} /\ 2 * MaxReceived < ExtMod /\ MaxReceived \in Nat
  BY NumberConstants
<1>1. /\ x = [f \in StatsFields |-> x[f]] /\ x.sentdata \in BOOLEAN
      /\ x.numcycles \in Ext /\ x.baseseqnr \in Ext /\ x.exthighseqnr \in Ext /\ x.savedextseqnr \in Ext
      /\ x.packetsreceived \in 0 .. MaxReceived /\ x.numnewpackets \in 0 .. x.packetsreceived
  BY DEF IsStats
<1>2. \A u, v \in Nat : Plus(u, v) \in Ext
  BY <1>0 DEF Plus, Ext
<1>3. Plus(x.packetsreceived, 1) = x.packetsreceived + 1 /\ Plus(x.numnewpackets, 1) = x.numnewpackets + 1
  BY <1>0, <1>1, PlusIs
<1>4. /\ Extended(x, i) = IF Wraps(x, i) THEN Plus(x.numcycles, Cycle + i) ELSE Plus(x.numcycles, i)
      /\ Extended(x, i) \in Ext
  <2>1. Wraps(x, i) => Extended(x, i) = Plus(x.numcycles, Cycle + i)
    BY DEF Extended
  <2>2. ~Wraps(x, i) => Extended(x, i) = Plus(x.numcycles, i)
    BY DEF Extended
  <2>3. x.numcycles \in Nat /\ i \in Nat /\ Cycle + i \in Nat
    BY <1>0, <1>1 DEF Ext
  <2> QED BY <1>2, <2>1, <2>2, <2>3
<1>5. PICK c : c = IF Wraps(x, i) THEN Plus(x.numcycles, Cycle) ELSE x.numcycles
  OBVIOUS
<1>6. PICK h : h = IF i >= x.exthighseqnr % Cycle \/ Wraps(x, i) THEN Extended(x, i) ELSE x.exthighseqnr
  OBVIOUS
<1>7. c \in Ext /\ h \in Ext
  <2>1. x.numcycles \in Nat /\ Cycle \in Nat
    BY <1>0, <1>1 DEF Ext
  <2> QED BY <1>1, <1>2, <1>4, <1>5, <1>6, <2>1
<1>8. PICK y : y = [x EXCEPT !.packetsreceived = x.packetsreceived + 1, !.numnewpackets = x.numnewpackets + 1,
                             !.numcycles = c, !.exthighseqnr = h]
  OBVIOUS
<1>9. y = ProcessPacket(x, i)
  BY <1>3, <1>5, <1>6, <1>8 DEF ProcessPacket
<1>10. /\ y = [f \in StatsFields |-> y[f]] /\ y.sentdata = x.sentdata
       /\ y.packetsreceived = x.packetsreceived + 1 /\ y.numnewpackets = x.numnewpackets + 1
       /\ y.numcycles = c /\ y.exthighseqnr = h
       /\ y.baseseqnr = x.baseseqnr /\ y.savedextseqnr = x.savedextseqnr
  BY <1>1, <1>8 DEF StatsFields
<1>11. y.sentdata /\ y.sentdata \in BOOLEAN
  BY ONLY <1>1, <1>10, x.sentdata, Zenon
<1>12. y.packetsreceived \in 0 .. MaxReceived /\ y.numnewpackets \in 0 .. y.packetsreceived
  BY <1>0, <1>1, <1>10
<1>13. IsStats(y)
  BY <1>1, <1>7, <1>10, <1>11, <1>12 DEF IsStats
<1> QED BY <1>4, <1>5, <1>6, <1>9, <1>10, <1>11, <1>13

\* A packet that does not come after one of the next cycle gets its own number.
LEMMA TruthGoesOn ==
  ASSUME NEW x, IsStats(x), x.sentdata, x.packetsreceived < MaxReceived,
         first \in Nat, first >= Cycle, first <= MaxNumber,
         NEW h \in Nat, first <= h, h <= MaxNumber, Truth(x, first, h),
         NEW n \in Nat, n <= MaxNumber, h - MaxLate <= n, n <= h + MaxGap,
         ~(n \div Cycle < h \div Cycle)
  PROVE  /\ Extended(x, n % Cycle) = TrueNumber(n)
         /\ Truth(ProcessPacket(x, n % Cycle), first, IF n > h THEN n ELSE h)
<1>0. /\ Cycle \in Nat \ {0, 1} /\ ExtMod \in Nat \ {0, 1}
      /\ 2 * MaxNumber < ExtMod /\ MaxNumber \in Nat /\ MaxGap \in Nat /\ MaxLate \in Nat
  BY NumberConstants
<1>1. PICK o \in Nat, k \in Nat : o = Start(first) /\ o = Cycle * k /\ o <= Cycle * (first \div Cycle)
  BY StartIs DEF Start
<1>2. PICK a \in Int, e \in Int, i \in Int, j \in Int :
        /\ a = h \div Cycle /\ e = n \div Cycle /\ i = h % Cycle /\ j = n % Cycle
        /\ h = Cycle * a + i /\ n = Cycle * e + j /\ i \in 0 .. Cycle - 1 /\ j \in 0 .. Cycle - 1
  <2>0. Cycle \in Nat \ {0} /\ h \in Int /\ n \in Int
    BY <1>0
  <2>1. h \div Cycle \in Int /\ h % Cycle \in 0 .. Cycle - 1 /\ h = Cycle * (h \div Cycle) + (h % Cycle)
    BY ONLY <2>0, DivMod
  <2>2. n \div Cycle \in Int /\ n % Cycle \in 0 .. Cycle - 1 /\ n = Cycle * (n \div Cycle) + (n % Cycle)
    BY ONLY <2>0, DivMod
  <2>3. h % Cycle \in Int /\ n % Cycle \in Int
    BY <1>0, <2>1, <2>2
  <2> QED BY ONLY <2>1, <2>2, <2>3
<1>3. PICK u \in Int : u = Cycle * a
  BY <1>0
<1>4. u >= o
  <2>1. PICK d \in Int, m \in Int : d = first \div Cycle /\ m = Cycle * d /\ m <= first
    <3>1. first \div Cycle \in Int /\ Cycle * (first \div Cycle) <= first
      BY <1>0, DivMod, StartIs
    <3> QED BY <1>0, <3>1
  <2>2. o <= m
    BY <1>1, <2>1
  <2>3. CASE a < d
    <3>1. Cycle * a + Cycle <= Cycle * d
      BY <1>0, <2>3, MulOrder
    <3>2. h < u + Cycle
      BY <1>0, <1>2, <1>3
    <3> QED BY <1>0, <1>3, <2>1, <3>1, <3>2
  <2>4. CASE a = d
    BY <1>3, <2>1, <2>2, <2>4
  <2>5. CASE d < a
    <3>1. Cycle * d + Cycle <= Cycle * a
      BY <1>0, <2>5, MulOrder
    <3> QED BY <1>0, <1>3, <2>1, <2>2, <3>1
  <2> QED BY <2>3, <2>4, <2>5
<1>5. /\ x.exthighseqnr = h - o /\ x.numcycles = u - o /\ x.baseseqnr = first - o - 1
      /\ u - o \in Nat
  <2>1. Cycle * (h \div Cycle) = u
    BY ONLY <1>2, <1>3
  <2> QED BY <1>1, <1>4, <2>1 DEF Truth
<1>6. /\ x.exthighseqnr % Cycle = i
      /\ \/ /\ e = a
            /\ j >= i <=> n >= h
            /\ ~Wraps(x, j)
         \/ /\ e = a + 1
            /\ Cycle * e = u + Cycle
            /\ n > h
            /\ Wraps(x, j)
  <2>1. o = Cycle * k /\ x.exthighseqnr = h - o /\ k \in Int
    BY <1>1, <1>5
  <2>2. /\ x.exthighseqnr % Cycle = h % Cycle
        /\ \/ /\ n \div Cycle = h \div Cycle
              /\ n % Cycle >= h % Cycle <=> n >= h
              /\ ~Wraps(x, n % Cycle)
           \/ /\ n \div Cycle = (h \div Cycle) + 1
              /\ Cycle * (n \div Cycle) = Cycle * (h \div Cycle) + Cycle
              /\ n > h
              /\ Wraps(x, n % Cycle)
    BY <2>1, NearNumbers
  <2> QED BY <1>2, <1>3, <2>2
<1>7. PICK y : y = ProcessPacket(x, j)
  OBVIOUS
<1>8. /\ y.baseseqnr = x.baseseqnr
      /\ y.numcycles = IF Wraps(x, j) THEN Plus(x.numcycles, Cycle) ELSE x.numcycles
      /\ y.exthighseqnr = IF j >= x.exthighseqnr % Cycle \/ Wraps(x, j)
                          THEN Extended(x, j) ELSE x.exthighseqnr
      /\ Extended(x, j) = IF Wraps(x, j) THEN Plus(x.numcycles, Cycle + j) ELSE Plus(x.numcycles, j)
  BY <1>2, <1>7, ProcessPacketIs
<1>9. PICK w \in Nat : w = IF n > h THEN n ELSE h
  OBVIOUS
<1>10. CASE e = a /\ ~Wraps(x, j) /\ (j >= i <=> n >= h)
  <2>1. n = u + j
    BY <1>2, <1>3, <1>10
  <2>2. Plus(u - o, j) = n - o
    <3>1. u - o + j < ExtMod /\ j \in Nat /\ u - o + j = n - o
      BY <1>0, <1>1, <1>2, <2>1
    <3> QED BY <1>5, <3>1, PlusIs
  <2>3. Extended(x, j) = n - o /\ n >= o
    <3>1. n >= o
      BY <1>2, <1>4, <2>1
    <3> QED BY <1>5, <1>8, <1>10, <2>2, <3>1
  <2>4. TrueNumber(n) = n - o
    BY <1>1, <2>3, TrueNumberIs
  <2>5. y.exthighseqnr = w - o
    BY <1>5, <1>6, <1>8, <1>9, <1>10, <2>3
  <2>6. y.numcycles = Cycle * (w \div Cycle) - o
    BY <1>2, <1>3, <1>5, <1>8, <1>9, <1>10
  <2>7. Truth(y, first, w)
    BY <1>1, <1>5, <1>8, <2>5, <2>6 DEF Truth
  <2> QED BY <1>2, <1>7, <1>9, <2>3, <2>4, <2>7
<1>11. CASE e = a + 1 /\ Cycle * e = u + Cycle /\ n > h /\ Wraps(x, j)
  <2>1. n = u + Cycle + j
    BY <1>2, <1>11
  <2>2. Plus(u - o, Cycle + j) = n - o /\ Plus(u - o, Cycle) = u + Cycle - o
    <3>1. /\ u - o + (Cycle + j) < ExtMod /\ Cycle + j \in Nat /\ u - o + (Cycle + j) = n - o
          /\ u - o + Cycle < ExtMod /\ u - o + Cycle = u + Cycle - o
      BY <1>0, <1>1, <1>2, <2>1
    <3> QED BY <1>0, <1>5, <3>1, PlusIs
  <2>3. Extended(x, j) = n - o /\ n >= o
    <3>1. n >= o
      BY <1>0, <1>2, <1>4, <2>1
    <3> QED BY <1>5, <1>8, <1>11, <2>2, <3>1
  <2>4. TrueNumber(n) = n - o
    BY <1>1, <2>3, TrueNumberIs
  <2>5. w = n /\ y.exthighseqnr = w - o
    BY <1>8, <1>9, <1>11, <2>3
  <2>6. y.numcycles = Cycle * (w \div Cycle) - o
    <3>1. Cycle * (w \div Cycle) = u + Cycle
      BY ONLY <1>2, <1>11, <2>5
    <3>2. y.numcycles = (u + Cycle) - o
      BY <1>0, <1>1, <1>3, <1>5, <1>8, <1>11, <2>2
    <3> QED BY ONLY <3>1, <3>2
  <2>7. Truth(y, first, w)
    BY <1>1, <1>5, <1>8, <2>5, <2>6 DEF Truth
  <2> QED BY <1>2, <1>7, <1>9, <2>3, <2>4, <2>7
<1> QED BY <1>6, <1>10, <1>11

LEMMA NewIntervalIs ==
  ASSUME NEW x, IsStats(x)
  PROVE  LET y == StartNewInterval(x)
         IN /\ IsStats(y) /\ y.sentdata = x.sentdata /\ y.packetsreceived = x.packetsreceived
            /\ y.numnewpackets = 0 /\ y.numcycles = x.numcycles
            /\ y.baseseqnr = x.baseseqnr /\ y.exthighseqnr = x.exthighseqnr
<1>1. PICK y : y = [x EXCEPT !.numnewpackets = 0, !.savedextseqnr = x.exthighseqnr]
  OBVIOUS
<1>2. x = [f \in StatsFields |-> x[f]]
  BY DEF IsStats
<1>3. /\ y = [f \in StatsFields |-> y[f]] /\ y.sentdata = x.sentdata /\ y.packetsreceived = x.packetsreceived
      /\ y.numnewpackets = 0 /\ y.numcycles = x.numcycles /\ y.savedextseqnr = x.exthighseqnr
      /\ y.baseseqnr = x.baseseqnr /\ y.exthighseqnr = x.exthighseqnr
  BY <1>1, <1>2 DEF StatsFields
<1>4. IsStats(y)
  <2>1. y.numnewpackets \in 0 .. y.packetsreceived
    BY <1>3 DEF IsStats
  <2> QED BY <1>3, <2>1 DEF IsStats
<1> QED BY <1>1, <1>3, <1>4 DEF StartNewInterval

LEMMA CountingInit ==
  ASSUME RTCPInit
  PROVE  CountingInv /\ FreshInv /\ QueueInv
<1>0. ExtMod \in Nat \ {0, 1} /\ MaxNumber \in Nat /\ MaxReceived \in Nat
  BY NumberConstants
<1>1. /\ stats = NewStats /\ queue = <<>> /\ first = 0 /\ highest = 0 /\ crossed = FALSE /\ misplaced = FALSE
      /\ src = [s \in remote |-> [data |-> FALSE, fresh |-> FALSE, processed |-> FALSE]]
  BY DEF RTCPInit
<1>2. /\ stats = [f \in StatsFields |-> stats[f]] /\ stats.sentdata = FALSE
      /\ stats.numcycles = 0 /\ stats.baseseqnr = 0 /\ stats.exthighseqnr = 0 /\ stats.savedextseqnr = 0
      /\ stats.packetsreceived = 0 /\ stats.numnewpackets = 0
  BY <1>1 DEF NewStats, StatsFields
<1>3. stats.sentdata \in BOOLEAN /\ ~stats.sentdata
  BY ONLY <1>2, Zenon
<1>4. IsStats(stats)
  BY <1>0, <1>2, <1>3 DEF IsStats, Ext
<1>5. crossed \in BOOLEAN /\ misplaced \in BOOLEAN /\ ~crossed /\ ~misplaced
  BY ONLY <1>1, Zenon
<1>6. CountingInv
  BY <1>0, <1>1, <1>2, <1>3, <1>4, <1>5 DEF CountingInv
<1>7. FreshInv
  BY <1>1 DEF FreshInv, HasNews
<1>8. QueueInv
  BY <1>1 DEF QueueInv, Ordered
<1> QED BY <1>6, <1>7, <1>8

\* A packet of the first source is counted, and waits at its place.
LEMMA NumberCounts ==
  ASSUME CountingInv, QueueInv, NEW n \in Arriving, NumberArrives(n)
  PROVE  CountingInv' /\ QueueInv' /\ stats'.numnewpackets >= 1
<1>0. /\ Cycle \in Nat \ {0, 1} /\ ExtMod \in Nat \ {0, 1} /\ MaxNumber \in Nat /\ MaxReceived \in Nat
      /\ MaxGap \in Nat /\ MaxLate \in Nat /\ FirstNumber \subseteq Cycle .. MaxNumber
  BY NumberConstants
<1>1. /\ stats' = ProcessPacket(stats, n % Cycle)
      /\ queue' = Insert(queue, Extended(stats, n % Cycle))
      /\ first' = IF stats.sentdata THEN first ELSE n
      /\ highest' = IF n > highest THEN n ELSE highest
      /\ crossed' = (crossed \/ n \div Cycle < highest \div Cycle)
      /\ misplaced' = (misplaced \/ (stats.sentdata /\ Extended(stats, n % Cycle) # TrueNumber(n)))
      /\ stats.packetsreceived < MaxReceived
  BY DEF NumberArrives
<1>2. /\ IsStats(stats) /\ first \in Nat /\ highest \in Nat /\ first <= highest /\ highest <= MaxNumber
      /\ crossed \in BOOLEAN /\ misplaced \in BOOLEAN
      /\ stats.packetsreceived \in Nat /\ stats.numnewpackets \in Nat
  BY <1>0 DEF CountingInv, IsStats
<1>3. crossed' \in BOOLEAN /\ misplaced' \in BOOLEAN
  BY ONLY <1>1, <1>2, Zenon
<1>4. n \in Nat /\ n >= 1 /\ n <= MaxNumber
  BY <1>0 DEF Arriving
<1>5. n % Cycle \in 0 .. Cycle - 1
  BY <1>0, <1>4, DivMod
<1>6. \A m \in Nat : Insert(queue, m) \in Seq(Nat) /\ Ordered(Insert(queue, m))
  BY InsertKeepsOrder DEF QueueInv
<1>7. highest' \in Nat /\ highest' <= MaxNumber /\ highest' >= highest /\ highest' >= n
  BY <1>1, <1>2, <1>4
<1>8. CASE ~stats.sentdata
  <2>1. /\ stats.packetsreceived = 0 /\ stats.numnewpackets = 0 /\ stats.numcycles = 0
        /\ first = 0 /\ highest = 0 /\ ~crossed /\ ~misplaced
    BY <1>8 DEF CountingInv
  <2>2. n >= Cycle
    BY <1>0, <1>8 DEF Arriving
  <2>3. stats' = FirstPacket(stats, n % Cycle) /\ first' = n /\ highest' = n
    BY <1>0, <1>1, <1>4, <1>8, <2>1, <2>2 DEF ProcessPacket
  <2>4. IsStats(stats') /\ stats'.sentdata /\ stats'.numnewpackets = 1 /\ Truth(stats', n, n)
    <3>1. MaxReceived >= 1
      BY <1>0, <1>1, <2>1
    <3> QED BY <1>2, <1>4, <2>1, <2>2, <2>3, <3>1, FirstPacketIs
  <2>5. ~misplaced'
    BY ONLY <1>1, <1>8, <2>1, Zenon
  <2>6. CountingInv'
    BY <1>3, <1>4, <2>2, <2>3, <2>4, <2>5 DEF CountingInv
  <2>7. Extended(stats, n % Cycle) \in Nat
    BY <1>0, <1>5, <1>8 DEF Extended
  <2> QED BY <1>1, <1>6, <2>4, <2>6, <2>7, SMTT(30) DEF QueueInv
<1>9. CASE stats.sentdata
  <2>1. /\ IsStats(stats') /\ stats'.sentdata /\ stats'.numnewpackets = stats.numnewpackets + 1
        /\ Extended(stats, n % Cycle) \in Ext
    BY <1>1, <1>2, <1>5, <1>9, ProcessPacketIs
  <2>2. first' = first /\ first >= Cycle
    BY <1>1, <1>9 DEF CountingInv
  <2>3. n >= highest - MaxLate /\ n <= highest + MaxGap
    BY <1>0, <1>2, <1>4, <1>9 DEF Arriving
  <2>4. ASSUME ~crossed' PROVE ~misplaced' /\ Truth(stats', first', highest')
    <3>1. ~crossed /\ ~(n \div Cycle < highest \div Cycle)
      BY ONLY <1>1, <2>4, Zenon
    <3>2. ~misplaced /\ Truth(stats, first, highest)
      BY <1>9, <3>1 DEF CountingInv
    <3>3. first <= MaxNumber
      BY <1>0, <1>2
    <3>4. /\ Extended(stats, n % Cycle) = TrueNumber(n)
          /\ Truth(ProcessPacket(stats, n % Cycle), first, IF n > highest THEN n ELSE highest)
      BY <1>1, <1>2, <1>4, <1>9, <2>2, <2>3, <3>1, <3>2, <3>3, TruthGoesOn
    <3>5. ~misplaced'
      BY ONLY <1>1, <3>2, <3>4, Zenon
    <3> QED BY ONLY <1>1, <2>2, <3>4, <3>5
  <2>5. first' \in 0 .. MaxNumber /\ highest' \in first' .. MaxNumber
    BY <1>0, <1>2, <1>7, <2>2
  <2>6. CountingInv'
    BY <1>3, <2>1, <2>2, <2>4, <2>5 DEF CountingInv
  <2>7. Extended(stats, n % Cycle) \in Nat
    BY <1>0, <2>1 DEF Ext
  <2>8. QueueInv'
    BY <1>1, <1>6, <2>7 DEF QueueInv
  <2>9. stats'.numnewpackets >= 1
    BY <1>2, <2>1
  <2> QED BY <2>6, <2>8, <2>9
<1> QED BY <1>8, <1>9

LEMMA CountingStep ==
  ASSUME RoundInv, CountingInv, FreshInv, QueueInv, [RTCPNext]_rtcpVars
  PROVE  CountingInv' /\ FreshInv' /\ QueueInv'
<1>1. ASSUME UNCHANGED <<remote, src, rb, reception>>
      PROVE  CountingInv' /\ FreshInv' /\ QueueInv'
  <2>1. \A s : HasNews(s)' <=> HasNews(s)
    BY <1>1 DEF HasNews
  <2>2. UNCHANGED <<stats, queue, first, highest, crossed, misplaced, renewed>>
    BY <1>1 DEF reception, numbers
  <2> QED BY <1>1, <2>1, <2>2 DEF CountingInv, FreshInv, QueueInv
<1>2. CASE ApplicationBuilds
  BY <1>1, <1>2 DEF ApplicationBuilds, session
<1>3. CASE BuildNextPacket
  <2>1. PICK p, z : Packs(p, z)
    BY <1>3, PacketIs
  <2>2. /\ remote' = remote /\ \A s \in remote : ~src'[s].fresh
        /\ ~rb'.firstpacket
    BY <2>1, PacketLeaves
  <2>3. /\ UNCHANGED <<queue, first, highest, crossed, misplaced>>
        /\ stats' = stats \/ stats' = StartNewInterval(stats)
    BY <2>1 DEF Packs
  <2>4. FreshInv'
    BY <2>2 DEF FreshInv, HasNews
  <2>5. CountingInv'
    <3>1. CASE stats' = stats
      BY <2>3, <3>1 DEF CountingInv
    <3>2. CASE stats' = StartNewInterval(stats)
      <4>1. /\ IsStats(stats') /\ stats'.sentdata = stats.sentdata
            /\ stats'.packetsreceived = stats.packetsreceived
            /\ stats'.numnewpackets = 0 /\ stats'.numcycles = stats.numcycles
            /\ stats'.baseseqnr = stats.baseseqnr /\ stats'.exthighseqnr = stats.exthighseqnr
        BY <3>2, NewIntervalIs DEF CountingInv
      <4>2. Truth(stats, first, highest) => Truth(stats', first', highest')
        BY <2>3, <4>1 DEF Truth
      <4> QED BY <2>3, <4>1, <4>2 DEF CountingInv
    <3> QED BY <2>3, <3>1, <3>2
  <2>6. QueueInv'
    BY <2>3 DEF QueueInv
  <2> QED BY <2>4, <2>5, <2>6
<1>4. CASE \E sr \in BOOLEAN, n \in Lengths : BuildBYEPacket(sr, n)
  BY <1>1, <1>4 DEF BuildBYEPacket, session
<1>5. CASE \E n \in Lengths : SendRTCPAPPPacket(n)
  BY <1>1, <1>5 DEF SendRTCPAPPPacket, session
<1>6. CASE OwnSenderChanges
  BY <1>1, <1>6 DEF OwnSenderChanges, session
<1>7. ASSUME NEW s \in remote, SourceSends(s) PROVE CountingInv' /\ FreshInv' /\ QueueInv'
  <2>1. /\ s # Observed /\ renewed' = renewed \cup {s}
        /\ UNCHANGED <<remote, rb, stats, queue, first, highest, crossed, misplaced>>
        /\ src' = Marked(s)
    BY <1>7 DEF SourceSends, session, numbers
  <2>2. \A t \in remote : t # s => src'[t] = src[t]
    BY <2>1 DEF Marked, RoundInv
  <2>3. \A t \in remote : t # s /\ HasNews(t)' => HasNews(t)
    BY <2>1, <2>2 DEF HasNews
  <2>4. FreshInv'
    BY <2>1, <2>3 DEF FreshInv
  <2> QED BY <2>1, <2>4 DEF CountingInv, QueueInv
<1>8. ASSUME NEW n \in Arriving, NumberArrives(n) PROVE CountingInv' /\ FreshInv' /\ QueueInv'
  <2>1. CountingInv' /\ QueueInv' /\ stats'.numnewpackets >= 1
    BY <1>8, NumberCounts
  <2>2. /\ renewed' = renewed \cup {Observed} /\ UNCHANGED <<remote, rb>>
        /\ src' = Marked(Observed) /\ Observed \in remote
    BY <1>8 DEF NumberArrives, session
  <2>3. \A t \in remote : t # Observed => src'[t] = src[t]
    BY <2>2 DEF Marked, RoundInv
  <2>4. \A t \in remote : t # Observed /\ HasNews(t)' => HasNews(t)
    BY <2>2, <2>3 DEF HasNews
  <2>5. FreshInv'
    BY <2>1, <2>2, <2>4 DEF FreshInv
  <2> QED BY <2>1, <2>5
<1>9. CASE TakePacket
  <2>1. /\ queue # <<>> /\ queue' = Tail(queue)
        /\ UNCHANGED <<remote, src, rb, stats, first, highest, crossed, misplaced, renewed>>
    BY <1>9 DEF TakePacket, session
  <2>2. QueueInv'
    BY <2>1, TailKeepsOrder DEF QueueInv
  <2> QED BY <2>1, <2>2 DEF CountingInv, FreshInv, HasNews
<1>10. CASE UNCHANGED rtcpVars
  BY <1>1, <1>10 DEF rtcpVars, session
<1> QED BY <1>2, <1>3, <1>4, <1>5, <1>6, <1>7, <1>8, <1>9, <1>10 DEF RTCPNext

\* The fraction of what was lost, in 256ths, is a byte.
LEMMA FractionFits ==
  ASSUME NEW x, IsStats(x), x.numnewpackets >= 1
  PROVE  FractionLost(x) \in 0 .. 255
<1>0. ExtMod \in Nat \ {0, 1}
  BY NumberConstants
<1>1. PICK e \in Nat, m \in Nat : e = Expected(x) /\ m = x.numnewpackets /\ m >= 1
  <2>1. x.exthighseqnr - x.savedextseqnr \in Int /\ x.numnewpackets \in Nat
    BY <1>0 DEF IsStats, Ext
  <2>2. (x.exthighseqnr - x.savedextseqnr) % ExtMod \in Nat
    BY <1>0, <2>1
  <2> QED BY <2>1, <2>2 DEF Expected
<1>2. CASE e < m
  BY <1>1, <1>2 DEF FractionLost
<1>3. CASE e >= m
  <2>1. PICK d \in Nat : d = (e - m) * 256 /\ d <= e * 256 - 256
    BY <1>1, <1>3
  <2>2. PICK q \in Int, r \in Int : q = d \div e /\ d = e * q + r /\ r \in 0 .. e - 1
    <3>1. e \in Nat \ {0} /\ d \in Int
      BY <1>1, <1>3
    <3>2. d = e * (d \div e) + (d % e) /\ d % e \in 0 .. e - 1 /\ d \div e \in Int
      BY ONLY <3>1, DivMod
    <3>3. d % e \in Int
      BY <3>2
    <3> QED BY ONLY <3>2, <3>3
  <2>3. PICK u \in Int : u = e * q
    OBVIOUS
  <2>4. ~(q < 0)
    <3>1. ASSUME q < 0 PROVE FALSE
      <4>1. e * q + e <= e * 0
        BY <1>1, <1>3, <3>1, MulOrder
      <4> QED BY <2>2, <2>3, <4>1
    <3> QED BY <3>1
  <2>5. ~(q > 255)
    <3>1. ASSUME q > 255 PROVE FALSE
      <4>1. e * 255 + e <= e * q
        BY <1>1, <1>3, <3>1, MulOrder
      <4> QED BY <1>1, <1>3, <2>1, <2>2, <2>3, <4>1
    <3> QED BY <3>1
  <2>6. FractionLost(x) = q
    <3>1. ~(e < m) /\ ~(e = 0 /\ m = 0)
      BY <1>1, <1>3
    <3> QED BY <1>1, <2>1, <2>2, <3>1 DEF FractionLost
  <2> QED BY <2>4, <2>5, <2>6
<1> QED BY <1>1, <1>2, <1>3

LEMMA StatisticsHold ==
  ASSUME CountingInv, FreshInv, QueueInv
  PROVE  StatisticsAreTrue
<1>0. /\ Cycle \in Nat \ {0, 1} /\ ExtMod \in Nat \ {0, 1} /\ MaxNumber \in Nat /\ MaxReceived \in Nat
      /\ 2 * MaxNumber < ExtMod /\ 2 * MaxReceived < ExtMod
  BY NumberConstants
<1>1. HighestIsTrue
  <2> SUFFICES ASSUME stats.sentdata, ~crossed
               PROVE  /\ ~misplaced
                      /\ stats.exthighseqnr = TrueNumber(highest)
                      /\ PacketsLost(stats) = highest - first + 1 - stats.packetsreceived
    BY DEF HighestIsTrue
  <2>1. /\ ~misplaced /\ Truth(stats, first, highest)
        /\ first \in Nat /\ highest \in Nat /\ first >= Cycle /\ first <= highest /\ highest <= MaxNumber
    BY <1>0 DEF CountingInv
  <2>2. PICK o \in Nat : o = Start(first) /\ o < first
    BY <2>1, StartIs
  <2>3. stats.exthighseqnr = highest - o /\ stats.baseseqnr = first - o - 1
    BY <2>1, <2>2 DEF Truth
  <2>4. TrueNumber(highest) = highest - o
    <3>1. first <= MaxNumber /\ highest >= o
      BY <1>0, <2>1, <2>2
    <3> QED BY <2>1, <2>2, <3>1, TrueNumberIs
  <2>5. PICK m \in Nat : m = stats.packetsreceived /\ m <= MaxReceived
    BY <1>0 DEF CountingInv, IsStats
  <2>6. PICK v \in Int : v = highest - first + 1 - m
    BY <2>1
  <2>7. stats.exthighseqnr - stats.baseseqnr - stats.packetsreceived = v
    BY <2>1, <2>2, <2>3, <2>5, <2>6
  <2>8. 2 * v < ExtMod /\ -ExtMod < 2 * v
    BY <1>0, <2>1, <2>5, <2>6
  <2>9. PacketsLost(stats) = v
    <3>1. CASE v >= 0
      <4>1. v \in 0 .. ExtMod - 1
        BY <1>0, <2>8, <3>1
      <4>2. v % ExtMod = v
        BY <1>0, <4>1, SmallMod
      <4> QED BY <1>0, <2>7, <2>8, <4>2 DEF PacketsLost
    <3>2. CASE v < 0
      <4>1. v + ExtMod \in 0 .. ExtMod - 1 /\ v = ExtMod * (-1) + (v + ExtMod)
        BY <1>0, <2>8, <3>2
      <4>2. v % ExtMod = v + ExtMod
        BY <1>0, <4>1, ModUnique
      <4>3. 2 * (v + ExtMod) >= ExtMod /\ v + ExtMod - ExtMod = v
        BY <1>0, <2>8
      <4> QED BY <1>0, <2>7, <4>2, <4>3 DEF PacketsLost
    <3> QED BY <3>1, <3>2
  <2> QED BY <2>1, <2>3, <2>4, <2>5, <2>6, <2>9
<1>2. FractionIsByte
  BY FractionFits DEF FractionIsByte, FreshInv, CountingInv
<1>3. QueueInOrder
  BY DEF QueueInOrder, QueueInv, Ordered
<1> QED BY <1>1, <1>2, <1>3 DEF StatisticsAreTrue

\* What is reported of a source is what came, however many sources share the
\* packets: RTPSourceStats::ProcessPacket follows its numbers through the cycles
\* of 2^16, FillInReportBlocks computes highest, loss and fraction of the first
\* block that a packet has of it, and ProcessRTPPacket keeps its queue.
THEOREM StatisticsStayTrue == RTCPSpec => []StatisticsAreTrue
<1>1. RTCPInit => RoundInv /\ CountingInv /\ FreshInv /\ QueueInv
  BY RoundInit, CountingInit
<1>2. RoundInv /\ CountingInv /\ FreshInv /\ QueueInv /\ [RTCPNext]_rtcpVars
        => RoundInv' /\ CountingInv' /\ FreshInv' /\ QueueInv'
  BY RoundStep, CountingStep
<1>3. CountingInv /\ FreshInv /\ QueueInv => StatisticsAreTrue
  BY StatisticsHold
<1> QED BY <1>1, <1>2, <1>3, PTL DEF RTCPSpec

-----------------------------------------------------------------------------
(* Parts of at most MaxPerPacket elements. *)

Ceil(n) == (n + MaxPerPacket - 1) \div MaxPerPacket
Low(i) == (i - 1) * MaxPerPacket
High(i, n) == IF i * MaxPerPacket < n THEN i * MaxPerPacket ELSE n

LEMMA CeilIs ==
  ASSUME NEW n \in Nat
  PROVE  /\ Ceil(n) \in Nat /\ PacketsFor(n) = Ceil(n)
         /\ n > 0 => Ceil(n) > 0
         /\ n = 0 => Ceil(n) = 0
         /\ \A i \in 1 .. Ceil(n) : Low(i) < n
         /\ n <= Ceil(n) * MaxPerPacket
<1> DEFINE M == MaxPerPacket
<1>0. M \in Nat \ {0}
  BY SizeConstants
<1> HIDE DEF M
<1>1. PICK q \in Int, r \in Int : q = n \div M /\ r = n % M /\ n = M * q + r /\ r \in 0 .. M - 1
  <2>1. n \in Int
    OBVIOUS
  <2>2. n \div M \in Int /\ n % M \in 0 .. M - 1 /\ n = M * (n \div M) + (n % M)
    BY ONLY <1>0, <2>1, DivMod
  <2>3. n % M \in Int
    BY <1>0, <2>2
  <2> QED BY ONLY <2>2, <2>3
<1>2. PICK u \in Int : u = M * q
  BY <1>0
<1>3. q >= 0
  <2>1. ASSUME q < 0 PROVE FALSE
    <3>1. M * q + M <= M * 0
      BY <1>0, <2>1, MulOrder
    <3> QED BY <1>0, <1>1, <1>2, <3>1
  <2> QED BY <2>1
<1>4. \A j \in Int : j < q => M * j + M <= u
  BY <1>0, <1>2, MulOrder
<1>5. CASE r = 0
  <2>1. n + M - 1 = M * q + (M - 1) /\ M - 1 \in 0 .. M - 1 /\ n + M - 1 \in Int
    BY <1>0, <1>1, <1>5
  <2>2. (n + M - 1) \div M = q
    BY <1>0, <2>1, ModUnique
  <2>3. Ceil(n) = q /\ PacketsFor(n) = q /\ n = u
    <3>1. Ceil(n) = q
      BY <2>2 DEF Ceil, M
    <3>2. PacketsFor(n) = q
      BY <1>1, <1>5 DEF PacketsFor, M
    <3>3. n = u
      BY <1>0, <1>1, <1>2, <1>5
    <3> QED BY ONLY <3>1, <3>2, <3>3
  <2>4. n > 0 => q > 0
    BY <1>0, <1>2, <1>3, <2>3
  <2>5. n = 0 => q = 0
    <3>1. ASSUME n = 0, q > 0 PROVE FALSE
      <4>1. M * 0 + M <= M * q
        BY <1>0, <3>1, MulOrder
      <4> QED BY <1>0, <1>2, <2>3, <3>1, <4>1
    <3> QED BY <1>3, <3>1
  <2>6. ASSUME NEW i \in 1 .. q PROVE (i - 1) * M < n
    <3>1. M * (i - 1) + M <= u
      BY <1>3, <1>4
    <3>2. PICK v \in Int : v = M * (i - 1) /\ v = (i - 1) * M
      BY <1>0
    <3> QED BY <1>0, <2>3, <3>1, <3>2
  <2>7. n <= q * M
    BY <1>0, <1>2, <2>3
  <2> QED BY <1>3, <2>3, <2>4, <2>5, <2>6, <2>7 DEF Low, M
<1>6. CASE r # 0
  <2>1. n + M - 1 = M * (q + 1) + (r - 1) /\ r - 1 \in 0 .. M - 1 /\ n + M - 1 \in Int /\ q + 1 \in Int
    <3>1. M * (q + 1) = u + M
      BY <1>0, <1>2
    <3> QED BY <1>0, <1>1, <1>2, <1>6, <3>1
  <2>2. (n + M - 1) \div M = q + 1
    BY <1>0, <2>1, ModUnique
  <2>3. Ceil(n) = q + 1 /\ PacketsFor(n) = q + 1 /\ n = u + r
    BY <1>1, <1>2, <1>6, <2>2 DEF Ceil, PacketsFor, M
  <2>4. n > 0
    BY <1>0, <1>1, <1>2, <1>6
  <2>5. ASSUME NEW i \in 1 .. q + 1 PROVE (i - 1) * M < n
    <3>2. PICK v \in Int : v = M * (i - 1) /\ v = (i - 1) * M
      BY <1>0
    <3>3. CASE i - 1 < q
      <4>1. M * (i - 1) + M <= u
        BY <1>3, <1>4, <3>3
      <4> QED BY <1>0, <1>1, <2>3, <3>2, <4>1
    <3>4. CASE i - 1 = q
      BY <1>0, <1>1, <1>2, <1>6, <2>3, <3>2, <3>4
    <3> QED BY <1>3, <3>3, <3>4
  <2>6. n <= (q + 1) * M
    <3>1. (q + 1) * M = u + M
      BY <1>0, <1>2
    <3> QED BY <1>0, <1>1, <2>3, <3>1
  <2> QED BY <1>3, <2>3, <2>4, <2>5, <2>6 DEF Low, M
<1> QED BY <1>5, <1>6

\* Where a part begins, the one before it ends.
LEMMA BoundsAre ==
  ASSUME NEW n \in Nat, NEW i \in 1 .. Ceil(n)
  PROVE  /\ Low(i) \in Nat /\ High(i, n) \in Nat /\ Low(i) < High(i, n) /\ High(i, n) <= n
         /\ High(i, n) - Low(i) <= MaxPerPacket
         /\ High(i - 1, n) = Low(i)
<1>0. MaxPerPacket \in Nat \ {0} /\ i \in Nat \ {0} /\ i - 1 \in Nat
  BY SizeConstants, CeilIs
<1>1. PICK u \in Nat : u = (i - 1) * MaxPerPacket
  BY <1>0
<1>2. i * MaxPerPacket = u + MaxPerPacket
  BY <1>0, <1>1
<1>3. Low(i) = u /\ u < n
  BY <1>1, CeilIs DEF Low
<1>4. High(i, n) = IF u + MaxPerPacket < n THEN u + MaxPerPacket ELSE n
  BY <1>2 DEF High
<1>5. High(i - 1, n) = u
  BY <1>1, <1>3 DEF High
<1> QED BY <1>0, <1>3, <1>4, <1>5

LEMMA PartIs ==
  ASSUME NEW T, NEW s \in Seq(T), NEW i \in 1 .. Ceil(Len(s)), NEW p, p = Part(s, i)
  PROVE  /\ p \in Seq(T) /\ Len(p) = High(i, Len(s)) - Low(i)
         /\ \A j \in 1 .. Len(p) : p[j] = s[Low(i) + j] /\ Low(i) + j \in DOMAIN s
<1>1. PICK n \in Nat : n = Len(s)
  OBVIOUS
<1>2. PICK l \in Nat, h \in Nat : l = Low(i) /\ h = High(i, n) /\ l < h /\ h <= n
  BY <1>1, BoundsAre
<1>3. p = SubSeq(s, l + 1, h)
  BY <1>1, <1>2 DEF Part, Low, High
<1>4. p \in Seq(T) /\ Len(p) = h - l /\ \A j \in 1 .. h - l : p[j] = s[l + j] /\ l + j \in DOMAIN s
  <2>1. \A j \in 1 .. h - l : l + j \in DOMAIN s
    BY <1>1, <1>2
  <2>2. p \in Seq(T)
    BY <1>1, <1>2, <1>3
  <2>3. Len(p) = h - l
    BY <1>1, <1>2, <1>3
  <2>4. \A j \in 1 .. h - l : p[j] = s[l + j]
    BY <1>1, <1>2, <1>3, SMTT(30)
  <2> QED BY <2>1, <2>2, <2>3, <2>4
<1> QED BY <1>1, <1>2, <1>4

\* Packets of parts, each with c bytes of its own, and e more in the first one:
\* what they hold adds up to the whole, G telling how much there is in the first j.
Parts(t, n, c, e, G) ==
  /\ G[0] = 0 /\ \A j \in 0 .. n : G[j] \in Nat
  /\ Len(t) = Ceil(n)
  /\ \A i \in 1 .. Ceil(n) : t[i] = c + (IF i = 1 THEN e ELSE 0) + (G[High(i, n)] - G[Low(i)])

LEMMA PartsAddUp ==
  ASSUME NEW n \in Nat, NEW c \in Nat, NEW e \in Nat, NEW G, NEW t, Parts(t, n, c, e, G)
  PROVE  Total(t) = Ceil(n) * c + (IF n = 0 THEN 0 ELSE e) + G[n]
<1>0. /\ G[0] = 0 /\ \A j \in 0 .. n : G[j] \in Nat
      /\ Len(t) = Ceil(n)
      /\ \A i \in 1 .. Ceil(n) : t[i] = c + (IF i = 1 THEN e ELSE 0) + (G[High(i, n)] - G[Low(i)])
  BY DEF Parts
<1>1. PICK k \in Nat : k = Ceil(n)
  BY CeilIs
<1>2. PICK f : Sums(f, t, k) /\ Total(t) = f[k]
  BY <1>0, <1>1, TotalIs
<1> DEFINE P == {i \in 0 .. k : f[i] = i * c + (IF i = 0 THEN 0 ELSE e) + G[High(i, n)]}
<1>3. 0 \in P
  <2>1. High(0, n) = 0
    BY SizeConstants DEF High
  <2>2. 0 * c = 0 /\ f[0] = 0
    BY <1>2 DEF Sums
  <2> QED BY <1>0, <2>1, <2>2
<1>4. ASSUME NEW i \in 1 .. k, i - 1 \in P PROVE i \in P
  <2>1. f[i] = f[i - 1] + t[i]
    BY <1>2 DEF Sums
  <2>2. /\ High(i, n) \in 0 .. n /\ Low(i) \in 0 .. n /\ High(i - 1, n) = Low(i)
    BY <1>1, BoundsAre
  <2>3. PICK g, h \in Nat : g = G[High(i, n)] /\ h = G[Low(i)]
    BY <1>0, <2>2
  <2>4. f[i - 1] = (i - 1) * c + (IF i - 1 = 0 THEN 0 ELSE e) + h
    BY <1>4, <2>2, <2>3
  <2>5. t[i] = c + (IF i = 1 THEN e ELSE 0) + (g - h)
    BY <1>0, <1>1, <2>3
  <2>6. PICK u \in Int : u = (i - 1) * c
    OBVIOUS
  <2>7. i * c = u + c
    BY <2>6
  <2>8. f[i] = i * c + (IF i = 0 THEN 0 ELSE e) + g
    <3>1. PICK x \in Int : x = f[i - 1] /\ x = u + (IF i - 1 = 0 THEN 0 ELSE e) + h
      <4>1. u + (IF i - 1 = 0 THEN 0 ELSE e) + h \in Int
        OBVIOUS
      <4> QED BY <2>4, <2>6, <4>1
    <3>2. PICK y \in Int : y = t[i] /\ y = c + (IF i = 1 THEN e ELSE 0) + (g - h)
      <4>1. c + (IF i = 1 THEN e ELSE 0) + (g - h) \in Int
        OBVIOUS
      <4> QED BY <2>5, <4>1
    <3>3. f[i] = x + y
      BY <2>1, <3>1, <3>2
    <3>4. CASE i = 1
      <4>1. x = u + h /\ y = c + e + (g - h)
        BY ONLY <3>1, <3>2, <3>4, h \in Nat, u \in Int
      <4> QED BY <2>7, <3>3, <3>4, <4>1
    <3>5. CASE i # 1
      <4>1. x = u + e + h /\ y = c + (g - h)
        BY <3>1, <3>2, <3>5
      <4> QED BY <2>7, <3>3, <3>5, <4>1
    <3> QED BY <3>4, <3>5
  <2> QED BY <2>3, <2>8
<1>5. k \in P
  <2>1. \A i \in 0 .. k : i \in P
    <3> HIDE DEF P
    <3> QED BY <1>3, <1>4, CountingUp
  <2> QED BY <2>1
<1>6. High(k, n) = n
  BY <1>1, CeilIs, SizeConstants DEF High
<1>7. k = 0 <=> n = 0
  BY <1>1, CeilIs
<1> QED BY <1>1, <1>2, <1>5, <1>6, <1>7

\* The total of some of the terms in a row.
Within(t, a, l, m, n) ==
  /\ n \in Nat /\ l \in Nat /\ m \in Nat /\ l + m <= n /\ m = Len(t)
  /\ \A j \in 1 .. n : a[j] \in Nat
  /\ \A j \in 1 .. m : t[j] = a[l + j]

LEMMA SumsOfPart ==
  ASSUME NEW n, NEW a, NEW f, Sums(f, a, n), NEW l, NEW m, NEW t, Within(t, a, l, m, n)
  PROVE  Total(t) = f[l + m] - f[l]
<1>1. /\ n \in Nat /\ l \in Nat /\ m \in Nat /\ l + m <= n
      /\ \A j \in 1 .. n : a[j] \in Nat
  BY DEF Within
<1>2. PICK g : Sums(g, t, m) /\ Total(t) = g[m]
  BY TotalIs DEF Within
<1>3. \A j \in 0 .. n : f[j] \in Nat
  BY ONLY <1>1, Sums(f, a, n), SumsNat
<1>4. f[l] \in Nat
  BY <1>3, <1>1
<1> DEFINE P == {i \in 0 .. m : g[i] = f[l + i] - f[l]}
<1>5. 0 \in P
  <2>1. g[0] = 0 /\ l + 0 = l
    BY <1>2, <1>1 DEF Sums
  <2> QED BY <1>1, <1>4, <2>1
<1>6. ASSUME NEW i \in 1 .. m, i - 1 \in P PROVE i \in P
  <2>1. g[i] = g[i - 1] + a[l + i]
    BY <1>2 DEF Sums, Within
  <2>2. PICK d \in 1 .. n : d = l + i
    BY <1>1
  <2>3. f[d] = f[d - 1] + a[d] /\ d - 1 \in 0 .. n /\ d \in 0 .. n /\ d - 1 = l + (i - 1)
    BY <1>1, <2>2 DEF Sums
  <2>4. PICK x, y \in Nat : x = f[d] /\ y = f[d - 1]
    BY <1>3, <2>3
  <2>5. PICK z \in Nat : z = a[d]
    BY <1>1, <2>2
  <2>6. g[i - 1] = y - f[l]
    BY <1>6, <2>3, <2>4
  <2>7. x = y + z
    BY <2>3, <2>4, <2>5
  <2>8. g[i] = (y - f[l]) + z
    BY ONLY <2>1, <2>2, <2>5, <2>6
  <2>9. g[i] = f[l + i] - f[l]
    BY <1>4, <2>2, <2>4, <2>7, <2>8
  <2> QED BY <2>9
<1>7. m \in P
  <2>1. \A i \in 0 .. m : i \in P
    <3> HIDE DEF P
    <3> QED BY <1>1, <1>5, <1>6, CountingUp
  <2> QED BY <1>1, <2>1
<1> QED BY <1>2, <1>7

-----------------------------------------------------------------------------
(* The packets that are laid out. *)

\* Where the chunks of an SDES packet end.
LEMMA SDESEndIs ==
  ASSUME NEW c \in Seq(Seq(Nat))
  PROVE  SDESEnd(c) = HeaderBytes + Total(Sizes(c)) /\ SDESEnd(c) \in Whole
<1>1. PICK n \in Nat : n = Len(c)
  OBVIOUS
<1>2. \A i \in 1 .. n : c[i] \in Seq(Nat)
  BY <1>1
<1>3. PICK z : z = Sizes(c)
  OBVIOUS
<1>4. n = Len(z) /\ \A i \in 1 .. n : z[i] = ChunkNeeds(c[i]) /\ z[i] \in Nat
  BY <1>1, <1>3, SizesNat
<1>5. PICK f : Sums(f, z, n) /\ Total(z) = f[n]
  BY <1>4, TotalIs
<1> DEFINE g == CHOOSE h : Runs(h, "end", c, HeaderBytes, n)
<1>6. IsRun(g, "end", c, HeaderBytes, n)
  BY DEF IsRun
<1>7. g[0] = HeaderBytes /\ \A i \in 1 .. n : g[i] = TakenOn("end", c, g[i - 1], i)
  <2>1. n \in Nat
    OBVIOUS
  <2> HIDE DEF g
  <2>2. g[0] = HeaderBytes
    BY ONLY <1>6, <2>1, RunIs
  <2>3. \A i \in 1 .. n : g[i] = TakenOn("end", c, g[i - 1], i)
    BY ONLY <1>6, <2>1, RunIs
  <2> QED BY <2>2, <2>3
<1>8. SDESEnd(c) = g[n]
  BY <1>1 DEF SDESEnd, Runs, TakenOn
<1> HIDE DEF g
<1>9. \A i \in 1 .. n : g[i] = ChunkEnd(g[i - 1], c[i])
  BY <1>7 DEF TakenOn
<1> DEFINE P == {i \in 0 .. n : g[i] \in Whole /\ f[i] \in Nat /\ g[i] = HeaderBytes + f[i]}
<1>10. 0 \in P
  BY <1>5, <1>7 DEF Sums, HeaderBytes, Whole
<1>11. ASSUME NEW i \in 1 .. n, i - 1 \in P PROVE i \in P
  <2>1. PICK x \in Nat, y \in Nat : x = g[i - 1] /\ y = f[i - 1] /\ x = 4 + y /\ x % 4 = 0
    BY <1>11 DEF Whole, HeaderBytes
  <2>2. PICK m \in Nat : m = Total(c[i])
    BY <1>2, TotalNat
  <2>3. PICK a \in Nat, k \in Nat : a = 4 * k /\ a = Aligned(m + 1) /\ k = (m + 1 + 3) \div 4
    BY DEF Aligned
  <2>4. g[i] = Aligned(x + 4 + m + 1)
    BY <1>9, <2>1, <2>2 DEF ChunkEnd, SSRCBytes
  <2>5. Aligned(x + 4 + m + 1) = x + 4 + a
    <3>1. PICK j \in Nat : x = 4 * j
      <4>1. x = 4 * (x \div 4) /\ x \div 4 \in Nat
        BY <2>1
      <4> QED BY <4>1
    <3>2. x + 4 + m + 1 + 3 = 4 * (j + 1) + (m + 1 + 3)
      BY <3>1
    <3>3. (x + 4 + m + 1 + 3) \div 4 = j + 1 + k
      BY <2>3, <3>2
    <3> QED BY <2>3, <3>1, <3>3 DEF Aligned
  <2>6. z[i] = a + 4
    BY <1>4, <2>2, <2>3 DEF ChunkNeeds, SSRCBytes
  <2>7. f[i] = y + (a + 4)
    BY <1>5, <2>1, <2>6 DEF Sums
  <2>8. g[i] = x + 4 + a /\ (x + 4 + a) % 4 = 0
    BY <2>1, <2>3, <2>4, <2>5, SMTT(30)
  <2>9. g[i] \in Whole
    <3>1. x + 4 + a \in Nat /\ x + 4 + a >= 4
      OBVIOUS
    <3> QED BY <2>8, <3>1 DEF Whole
  <2>10. f[i] \in Nat /\ g[i] = HeaderBytes + f[i]
    <3>1. f[i] \in Nat
      BY <2>7
    <3>0. x = 4 + y
      BY <2>1
    <3>2. x + 4 + a = 4 + (y + (a + 4))
      BY ONLY <3>0, x \in Nat, y \in Nat, a \in Nat
    <3>3. g[i] = 4 + f[i]
      BY ONLY <2>7, <2>8, <3>2
    <3> QED BY <3>1, <3>3 DEF HeaderBytes
  <2> QED BY <2>9, <2>10
<1>12. n \in P
  <2>1. \A i \in 0 .. n : i \in P
    <3> HIDE DEF P
    <3> QED BY <1>10, <1>11, CountingUp
  <2> QED BY <2>1
<1> QED BY <1>3, <1>5, <1>8, <1>12

\* A packet that its reader knows, of at most so many parts.
IsGood(p) == p.bytes \in Whole /\ KnownFormat(p, p.bytes) /\ Len(p.parts) <= MaxPerPacket

Bytes(ps) == [i \in DOMAIN ps |-> ps[i].bytes]

\* A list of them, and the bytes in it.
IsList(ps, total) ==
  /\ Len(ps) \in Nat /\ ps = [i \in 1 .. Len(ps) |-> ps[i]]
  /\ \A i \in 1 .. Len(ps) : IsGood(ps[i])
  /\ Total(Bytes(ps)) = total

LEMMA BytesAre ==
  ASSUME NEW ps, NEW n \in Nat, ps = [i \in 1 .. n |-> ps[i]], \A i \in 1 .. n : ps[i].bytes \in Nat
  PROVE  /\ Len(ps) = n /\ Bytes(ps) \in Seq(Nat) /\ Len(Bytes(ps)) = n
         /\ \A i \in 1 .. n : Bytes(ps)[i] = ps[i].bytes
<1>1. PICK t : t = Bytes(ps)
  OBVIOUS
<1>2. DOMAIN ps = 1 .. n /\ Len(ps) = n
  OBVIOUS
<1>3. t = [i \in 1 .. n |-> ps[i].bytes]
  BY <1>1, <1>2 DEF Bytes
<1>4. t \in Seq(Nat) /\ Len(t) = n /\ \A i \in 1 .. n : t[i] = ps[i].bytes
  BY <1>3
<1> QED BY <1>1, <1>2, <1>4

\* Two lists, one after the other.
LEMMA ListsJoin ==
  ASSUME NEW T, NEW s \in Seq(T), NEW t \in Seq(T), NEW k, NEW l, IsList(s, k), IsList(t, l)
  PROVE  s \o t \in Seq(T) /\ IsList(s \o t, k + l)
<1>1. PICK n \in Nat, m \in Nat : n = Len(s) /\ m = Len(t)
  OBVIOUS
<1>2. PICK u : u = s \o t
  OBVIOUS
<1>3. /\ u \in Seq(T) /\ Len(u) = n + m
      /\ \A i \in 1 .. n + m : u[i] = IF i <= n THEN s[i] ELSE t[i - n]
  BY <1>1, <1>2, ConcatProperties
<1>4. u = [i \in 1 .. n + m |-> u[i]]
  BY <1>3
<1>5. \A i \in 1 .. n + m : IsGood(u[i])
  <2>1. ASSUME NEW i \in 1 .. n + m PROVE IsGood(u[i])
    <3>1. CASE i <= n
      <4>1. i \in 1 .. n /\ u[i] = s[i]
        BY <1>3, <3>1
      <4> QED BY <1>1, <4>1 DEF IsList
    <3>2. CASE ~(i <= n)
      <4>1. i - n \in 1 .. m /\ u[i] = t[i - n]
        BY <1>3, <3>2
      <4> QED BY <1>1, <4>1 DEF IsList
    <3> QED BY <3>1, <3>2
  <2> QED BY <2>1
<1>6. /\ \A i \in 1 .. n : s[i].bytes \in Nat
      /\ \A i \in 1 .. m : t[i].bytes \in Nat
      /\ \A i \in 1 .. n + m : u[i].bytes \in Nat
  BY <1>1, <1>5 DEF IsList, IsGood, Whole
<1>7. s = [i \in 1 .. n |-> s[i]] /\ t = [i \in 1 .. m |-> t[i]]
  BY <1>1
<1>8. PICK a, b0, c : a = Bytes(s) /\ b0 = Bytes(t) /\ c = Bytes(u)
  OBVIOUS
<1>9. a \in Seq(Nat) /\ Len(a) = n /\ \A i \in 1 .. n : a[i] = s[i].bytes
  BY <1>6, <1>7, <1>8, BytesAre
<1>10. b0 \in Seq(Nat) /\ Len(b0) = m /\ \A i \in 1 .. m : b0[i] = t[i].bytes
  BY <1>6, <1>7, <1>8, BytesAre
<1>11. c \in Seq(Nat) /\ Len(c) = n + m /\ \A i \in 1 .. n + m : c[i] = u[i].bytes
  <2>1. n + m \in Nat
    OBVIOUS
  <2> QED BY <1>4, <1>6, <1>8, <2>1, BytesAre
<1>12. PICK d : d = a \o b0
  OBVIOUS
<1>13. Len(d) = n + m /\ \A i \in 1 .. n + m : d[i] = IF i <= n THEN a[i] ELSE b0[i - n]
  <2>1. Len(d) = Len(a) + Len(b0) /\ \A i \in 1 .. Len(a) + Len(b0) : d[i] = IF i <= Len(a) THEN a[i] ELSE b0[i - Len(a)]
    BY <1>9, <1>10, <1>12, ConcatProperties
  <2> QED BY <1>9, <1>10, <2>1
<1>14. \A i \in 1 .. n + m : c[i] = d[i]
  <2>1. ASSUME NEW i \in 1 .. n + m PROVE c[i] = d[i]
    <3>1. CASE i <= n
      <4>1. i \in 1 .. n
        BY <3>1
      <4>2. u[i] = s[i] /\ a[i] = s[i].bytes /\ c[i] = u[i].bytes
        BY <1>3, <1>9, <1>11, <3>1, <4>1
      <4>3. d[i] = a[i]
        BY <1>13, <3>1
      <4> QED BY ONLY <4>2, <4>3
    <3>2. CASE ~(i <= n)
      <4>1. i - n \in 1 .. m
        BY <3>2
      <4>2. u[i] = t[i - n] /\ b0[i - n] = t[i - n].bytes /\ c[i] = u[i].bytes
        BY <1>3, <1>10, <1>11, <3>2, <4>1
      <4>3. d[i] = b0[i - n]
        BY <1>13, <3>2
      <4> QED BY ONLY <4>2, <4>3
    <3> QED BY <3>1, <3>2
  <2> QED BY <2>1
<1>15. Total(c) = Total(d)
  <2>1. n + m \in Nat
    OBVIOUS
  <2> QED BY <1>11, <1>13, <1>14, <2>1, TotalSame, SMTT(30)
<1>16. Total(d) = k + l
  <2>1. Total(d) = Total(a) + Total(b0)
    BY ONLY <1>9, <1>10, <1>12, TotalConcat
  <2> QED BY <1>8, <2>1 DEF IsList
<1>17. Len(u) \in Nat /\ u = [i \in 1 .. Len(u) |-> u[i]] /\ \A i \in 1 .. Len(u) : IsGood(u[i])
  BY <1>3, <1>4, <1>5
<1>18. Total(Bytes(u)) = k + l
  BY ONLY <1>8, <1>15, <1>16
<1>19. IsList(u, k + l)
  BY ONLY <1>17, <1>18 DEF IsList
<1> QED BY ONLY <1>2, <1>3, <1>19

\* The reports, as many bytes as they need.
LEMMA ReportsAre ==
  ASSUME NEW x, IsBuilder(x), x.headerlength > 0
  PROVE  /\ IsList(Reports(x), ReportNeeds(x))
         /\ Len(Reports(x)) > 0 /\ Reports(x)[1].type \in {"SR", "RR"}
<1>0. MaxPerPacket \in Nat \ {0}
  BY SizeConstants
<1>1. /\ x.blocks \in Seq(Reporters) /\ x.isSR \in BOOLEAN
      /\ x.headerlength = SSRCBytes + IF x.isSR THEN SenderInfoBytes ELSE 0
  BY DEF IsBuilder
<1>2. PICK n \in Nat : n = Len(x.blocks) /\ (x.blocks = <<>> <=> n = 0)
  BY <1>1
<1>3. PICK e \in Nat : e = IF x.isSR THEN SenderInfoBytes ELSE 0
  BY DEF SenderInfoBytes
<1>4. PICK r : r = Reports(x)
  OBVIOUS
<1>5. PICK k \in Nat : k = IF n = 0 THEN 1 ELSE Ceil(n)
  BY CeilIs
<1>6. k > 0
  BY <1>5, CeilIs
<1>7. r = [i \in 1 .. k |->
            Packet(IF i = 1 /\ x.isSR THEN "SR" ELSE "RR", Part(x.blocks, i),
                   HeaderBytes + (IF i = 1 THEN x.headerlength ELSE SSRCBytes)
                     + BlockBytes * Len(Part(x.blocks, i)))]
  BY <1>2, <1>4, <1>5 DEF Reports, Ceil
<1>8. ASSUME NEW i \in 1 .. k
      PROVE  /\ r[i].type = IF i = 1 /\ x.isSR THEN "SR" ELSE "RR"
             /\ r[i].parts = Part(x.blocks, i)
             /\ r[i].bytes = 8 + (IF i = 1 THEN e ELSE 0) + 24 * Len(Part(x.blocks, i))
  <2>1. PICK l \in Nat : l = Len(Part(x.blocks, i))
    <3>1. CASE n = 0
      <4>1. i = 1 /\ (i - 1) * MaxPerPacket = 0 /\ i * MaxPerPacket = MaxPerPacket
        BY <1>0, <1>5, <3>1
      <4>2. Part(x.blocks, i) = SubSeq(x.blocks, 1, 0)
        BY <1>0, <1>2, <3>1, <4>1 DEF Part
      <4>3. Len(SubSeq(x.blocks, 1, 0)) = 0
        BY <1>1
      <4> QED BY <4>2, <4>3
    <3>2. CASE n # 0
      <4>1. i \in 1 .. Ceil(n)
        BY <1>5, <3>2
      <4>2. Len(Part(x.blocks, i)) = High(i, n) - Low(i)
        BY <1>1, <1>2, <4>1, PartIs
      <4> QED BY <4>1, <4>2, BoundsAre
    <3> QED BY <3>1, <3>2
  <2>2. r[i] = Packet(IF i = 1 /\ x.isSR THEN "SR" ELSE "RR", Part(x.blocks, i),
                   HeaderBytes + (IF i = 1 THEN x.headerlength ELSE SSRCBytes)
                     + BlockBytes * Len(Part(x.blocks, i)))
    BY <1>7
  <2>3. HeaderBytes + (IF i = 1 THEN x.headerlength ELSE SSRCBytes) + BlockBytes * l
          = 8 + (IF i = 1 THEN e ELSE 0) + 24 * l
    BY <1>1, <1>3, <2>1 DEF HeaderBytes, SSRCBytes, BlockBytes
  <2> QED BY <2>1, <2>2, <2>3 DEF Packet
<1>9. ASSUME NEW i \in 1 .. k
      PROVE  Len(Part(x.blocks, i)) \in Nat /\ Len(Part(x.blocks, i)) <= MaxPerPacket
             /\ Len(Part(x.blocks, i)) = High(i, n) - Low(i)
  <2>1. CASE n = 0
    <3>1. i = 1 /\ (i - 1) * MaxPerPacket = 0 /\ i * MaxPerPacket = MaxPerPacket
      BY <1>0, <1>5, <2>1
    <3>2. Part(x.blocks, i) = SubSeq(x.blocks, 1, 0)
      BY <1>0, <1>2, <2>1, <3>1 DEF Part
    <3>3. Len(SubSeq(x.blocks, 1, 0)) = 0
      BY <1>1
    <3>4. High(i, n) = 0 /\ Low(i) = 0
      BY <1>0, <2>1, <3>1 DEF High, Low
    <3> QED BY <1>0, <3>2, <3>3, <3>4
  <2>2. CASE n # 0
    <3>1. i \in 1 .. Ceil(n)
      BY <1>5, <2>2
    <3>2. Len(Part(x.blocks, i)) = High(i, n) - Low(i)
      BY <1>1, <1>2, <3>1, PartIs
    <3> QED BY <3>1, <3>2, BoundsAre
  <2> QED BY <2>1, <2>2
<1>10. ASSUME NEW i \in 1 .. k PROVE IsGood(r[i])
  <2>1. PICK l \in Nat : l = Len(Part(x.blocks, i)) /\ l <= MaxPerPacket
    BY <1>9
  <2>2. /\ r[i].type = IF i = 1 /\ x.isSR THEN "SR" ELSE "RR"
        /\ Len(r[i].parts) = l
        /\ r[i].bytes = 8 + (IF i = 1 THEN e ELSE 0) + 24 * l
    BY <1>8, <2>1
  <2>3. r[i].bytes \in Whole
    <3>1. CASE i = 1 /\ e = 20
      <4>1. r[i].bytes = 28 + 24 * l /\ 28 + 24 * l \in Nat /\ (28 + 24 * l) % 4 = 0 /\ 28 + 24 * l >= 4
        BY <2>2, <3>1
      <4> QED BY <4>1 DEF Whole
    <3>2. CASE i # 1 \/ e = 0
      <4>1. r[i].bytes = 8 + 24 * l /\ 8 + 24 * l \in Nat /\ (8 + 24 * l) % 4 = 0 /\ 8 + 24 * l >= 4
        BY <2>2, <3>2
      <4> QED BY <4>1 DEF Whole
    <3> QED BY <1>3, <3>1, <3>2 DEF SenderInfoBytes
  <2>4. KnownFormat(r[i], r[i].bytes)
    <3>1. CASE i = 1 /\ x.isSR
      <4>1. r[i].type = "SR" /\ e = 20
        BY <1>3, <2>2, <3>1 DEF SenderInfoBytes
      <4> QED BY <2>1, <2>2, <3>1, <4>1 DEF KnownFormat, HeaderBytes, SSRCBytes, SenderInfoBytes, BlockBytes
    <3>2. CASE ~(i = 1 /\ x.isSR)
      <4>1. r[i].type = "RR" /\ r[i].bytes = 8 + 24 * l
        BY <1>3, <2>2, <3>2
      <4> QED BY <2>1, <2>2, <4>1 DEF KnownFormat, HeaderBytes, SSRCBytes, BlockBytes
    <3> QED BY <3>1, <3>2
  <2> QED BY <2>1, <2>2, <2>3, <2>4 DEF IsGood
<1>11. r = [i \in 1 .. k |-> r[i]] /\ Len(r) = k
  BY <1>7
<1>12. Total(Bytes(r)) = ReportNeeds(x)
  <2>1. PICK t : t = Bytes(r)
    OBVIOUS
  <2>2. \A i \in 1 .. k : r[i].bytes \in Nat
    BY <1>10 DEF IsGood, Whole
  <2>3. t \in Seq(Nat) /\ Len(t) = k /\ \A i \in 1 .. k : t[i] = r[i].bytes
    BY <1>11, <2>1, <2>2, BytesAre
  <2>4. CASE n = 0
    <3>1. k = 1 /\ 1 \in 1 .. k
      BY <1>5, <2>4
    <3>2. High(1, n) = 0 /\ Low(1) = 0
      BY <1>0, <2>4 DEF High, Low
    <3>3. t[1] = 8 + e
      BY <1>8, <1>9, <2>3, <3>1, <3>2
    <3>4. t = <<8 + e>>
      BY <2>3, <3>1, <3>3
    <3>5. Total(t) = 8 + e
      BY <3>4, TotalOne
    <3>6. ReportNeeds(x) = 8 + e
      BY <1>1, <1>2, <1>3, <2>4 DEF ReportNeeds, HeaderBytes, SSRCBytes
    <3> QED BY <2>1, <3>5, <3>6
  <2>5. CASE n # 0
    <3> DEFINE G == [j \in 0 .. n |-> 24 * j]
    <3>1. G[0] = 0 /\ \A j \in 0 .. n : G[j] = 24 * j /\ G[j] \in Nat
      OBVIOUS
    <3> HIDE DEF G
    <3>2. ASSUME NEW i \in 1 .. Ceil(n)
          PROVE  t[i] = 8 + (IF i = 1 THEN e ELSE 0) + (G[High(i, n)] - G[Low(i)])
      <4>1. i \in 1 .. k
        BY <1>5, <2>5
      <4>2. PICK h \in Nat, l \in Nat : h = High(i, n) /\ l = Low(i) /\ l < h /\ h <= n
        BY BoundsAre
      <4>3. G[h] = 24 * h /\ G[l] = 24 * l
        BY <3>1, <4>2
      <4>4. t[i] = 8 + (IF i = 1 THEN e ELSE 0) + 24 * (h - l)
        BY <1>8, <1>9, <2>3, <4>1, <4>2
      <4> QED BY <4>2, <4>3, <4>4
    <3>3. Total(t) = Ceil(n) * 8 + (IF n = 0 THEN 0 ELSE e) + G[n]
      <4>1. Len(t) = Ceil(n)
        BY <1>5, <2>3, <2>5
      <4>2. PICK c \in Nat : c = 8
        OBVIOUS
      <4>3. e \in Nat /\ n \in Nat /\ c \in Nat
        OBVIOUS
      <4>4. Parts(t, n, c, e, G)
        BY ONLY <3>1, <3>2, <4>1, <4>2 DEF Parts
      <4>5. Total(t) = Ceil(n) * c + (IF n = 0 THEN 0 ELSE e) + G[n]
        BY ONLY <4>3, <4>4, PartsAddUp
      <4> QED BY ONLY <4>2, <4>5
    <3>4. ReportNeeds(x) = n * 24 + Ceil(n) * 8 + e
      <4>1. Len(x.blocks) > 0
        BY <1>2, <2>5
      <4>2. ReportNeeds(x) = BlocksNeed(x, n)
        BY <1>2, <4>1 DEF ReportNeeds
      <4> QED BY <1>3, <4>2, CeilIs DEF BlocksNeed, BlockBytes, HeaderBytes, SSRCBytes
    <3> QED BY <1>5, <2>1, <2>5, <3>1, <3>3, <3>4
  <2> QED BY <2>4, <2>5
<1>13. r[1].type \in {"SR", "RR"}
  BY <1>6, <1>8
<1> QED BY <1>4, <1>6, <1>10, <1>11, <1>12, <1>13 DEF IsList

\* The SDES packets.
LEMMA SDESPacketsAre ==
  ASSUME NEW x, IsBuilder(x)
  PROVE  IsList(SDESPackets(x), SDESNeeds(x.chunks))
<1>1. PICK c \in Seq(Seq(Nat)) : c = x.chunks
  BY DEF IsBuilder
<1>2. PICK n \in Nat : n = Len(c)
  OBVIOUS
<1>3. PICK k \in Nat : k = Ceil(n)
  BY CeilIs
<1>4. PICK r : r = SDESPackets(x)
  OBVIOUS
<1>5. r = [i \in 1 .. k |-> Packet("SDES", Part(c, i), SDESEnd(Part(c, i)))]
  BY <1>1, <1>2, <1>3, <1>4 DEF SDESPackets, Ceil
<1>6. PICK z : z = Sizes(c)
  OBVIOUS
<1>7. n = Len(z) /\ \A i \in 1 .. n : z[i] = ChunkNeeds(c[i]) /\ z[i] \in Nat
  BY <1>2, <1>6, SizesNat
<1>8. PICK f : Sums(f, z, n) /\ Total(z) = f[n]
  BY <1>7, TotalIs
<1>9. \A j \in 0 .. n : f[j] \in Nat
  BY <1>7, <1>8, SumsNat
<1>10. ASSUME NEW i \in 1 .. k
       PROVE  /\ IsGood(r[i])
              /\ r[i].bytes = HeaderBytes + (f[High(i, n)] - f[Low(i)])
  <2>1. PICK p : p = Part(c, i)
    OBVIOUS
  <2>2. PICK l \in Nat, h \in Nat : l = Low(i) /\ h = High(i, n) /\ l < h /\ h <= n /\ h - l <= MaxPerPacket
    BY <1>3, BoundsAre
  <2>3. PICK T : T = Seq(Nat)
    OBVIOUS
  <2>4. c \in Seq(T) /\ i \in 1 .. Ceil(Len(c)) /\ p = Part(c, i)
    BY <1>2, <1>3, <2>1, <2>3
  <2>5. /\ p \in Seq(T) /\ Len(p) = High(i, Len(c)) - Low(i)
        /\ \A j \in 1 .. Len(p) : p[j] = c[Low(i) + j] /\ Low(i) + j \in DOMAIN c
    BY ONLY <2>4, PartIs
  <2>6. p \in Seq(Seq(Nat)) /\ Len(p) = h - l /\ \A j \in 1 .. h - l : p[j] = c[l + j] /\ l + j \in 1 .. n
    BY <1>2, <2>2, <2>3, <2>5
  <2>7. SDESEnd(p) = HeaderBytes + Total(Sizes(p)) /\ SDESEnd(p) \in Whole
    BY <2>6, SDESEndIs
  <2>8. PICK m \in Nat : m = h - l
    BY <2>2
  <2>9. PICK y : y = Sizes(p)
    OBVIOUS
  <2>10. Len(y) = m /\ \A j \in 1 .. m : y[j] = z[l + j]
    <3>1. Len(y) = m /\ \A j \in 1 .. m : y[j] = ChunkNeeds(p[j])
      <4>1. p \in Seq(Seq(Nat)) /\ Len(p) = m /\ DOMAIN p = 1 .. m
        BY <2>6, <2>8
      <4>2. Len(Sizes(p)) = Len(p) /\ \A j \in DOMAIN p : Sizes(p)[j] = ChunkNeeds(p[j])
        BY ONLY <4>1, SizesNat
      <4> QED BY ONLY <2>9, <4>1, <4>2
    <3> QED BY <1>7, <2>6, <2>8, <3>1
  <2>11. Total(y) = f[h] - f[l]
    <3>1. l + m <= n /\ l + m = h
      BY <2>2, <2>8
    <3>2. Total(y) = f[l + m] - f[l]
      <4>1. n \in Nat /\ l \in Nat /\ m \in Nat /\ l + m <= n
        BY <3>1
      <4>2. \A j \in 1 .. n : z[j] \in Nat
        BY <1>7
      <4>3. Within(y, z, l, m, n)
        BY <2>10, <4>1, <4>2 DEF Within
      <4> QED BY ONLY <1>8, <4>3, SumsOfPart
    <3> QED BY <3>1, <3>2
  <2>12. r[i].type = "SDES" /\ r[i].parts = p /\ r[i].bytes = SDESEnd(p)
    BY <1>5, <2>1 DEF Packet
  <2>13. KnownFormat(r[i], r[i].bytes)
    BY <2>7, <2>12 DEF KnownFormat, Sizes
  <2>14. Len(p) <= MaxPerPacket
    BY <2>2, <2>6
  <2>15. IsGood(r[i])
    BY <2>7, <2>12, <2>13, <2>14 DEF IsGood
  <2> QED BY <2>2, <2>7, <2>9, <2>11, <2>12, <2>15
<1>11. r = [i \in 1 .. k |-> r[i]] /\ Len(r) = k
  BY <1>5
<1>12. PICK t : t = Bytes(r)
  OBVIOUS
<1>13. t \in Seq(Nat) /\ Len(t) = k /\ \A i \in 1 .. k : t[i] = r[i].bytes
  <2>1. \A i \in 1 .. k : r[i].bytes \in Nat
    BY <1>10 DEF IsGood, Whole
  <2> QED BY <1>11, <1>12, <2>1, BytesAre
<1>14. Parts(t, n, HeaderBytes, 0, f)
  <2>1. f[0] = 0
    BY <1>8 DEF Sums
  <2>2. ASSUME NEW i \in 1 .. Ceil(n)
        PROVE  t[i] = HeaderBytes + (IF i = 1 THEN 0 ELSE 0) + (f[High(i, n)] - f[Low(i)])
    <3>1. t[i] = HeaderBytes + (f[High(i, n)] - f[Low(i)])
      BY <1>3, <1>10, <1>13
    <3> QED BY <3>1 DEF HeaderBytes
  <2> QED BY <1>3, <1>9, <1>13, <2>1, <2>2 DEF Parts
<1>15. Total(t) = SDESNeeds(x.chunks)
  <2>1. Total(t) = Ceil(n) * HeaderBytes + (IF n = 0 THEN 0 ELSE 0) + f[n]
    <3>1. HeaderBytes \in Nat /\ 0 \in Nat /\ n \in Nat
      BY DEF HeaderBytes
    <3> QED BY ONLY <1>14, <3>1, PartsAddUp
  <2>2. SDESNeeds(c) = Total(z) + Ceil(n) * HeaderBytes
    BY <1>2, <1>6, SDESNeedsNat, CeilIs
  <2>3. f[n] \in Nat
    BY <1>9
  <2> QED BY <1>1, <1>3, <1>8, <2>1, <2>2, <2>3 DEF HeaderBytes
<1> QED BY <1>4, <1>10, <1>11, <1>12, <1>15 DEF IsList

\* APP and BYE packets.
LEMMA DataPacketsAre ==
  ASSUME NEW type, type \notin {"SR", "RR", "SDES"}, NEW a \in Seq(Whole)
  PROVE  IsList(Data(type, a), Total(a))
<1>1. PICK n \in Nat : n = Len(a)
  OBVIOUS
<1>2. \A i \in 1 .. n : a[i] \in Whole
  BY <1>1
<1>3. PICK r : r = Data(type, a)
  OBVIOUS
<1>4. r = [i \in 1 .. n |-> Packet(type, <<>>, a[i])]
  BY <1>1, <1>3 DEF Data
<1>5. r = [i \in 1 .. n |-> r[i]] /\ Len(r) = n
  BY <1>4
<1>6. ASSUME NEW i \in 1 .. n PROVE IsGood(r[i]) /\ r[i].bytes = a[i]
  <2>1. r[i].type = type /\ r[i].parts = <<>> /\ r[i].bytes = a[i]
    BY <1>4 DEF Packet
  <2>2. KnownFormat(r[i], r[i].bytes)
    BY <1>2, <2>1 DEF KnownFormat, Whole, HeaderBytes
  <2>3. Len(<<>>) <= MaxPerPacket
    BY SizeConstants
  <2> QED BY <1>2, <2>1, <2>2, <2>3 DEF IsGood
<1>7. Total(Bytes(r)) = Total(a)
  <2>1. PICK t : t = Bytes(r)
    OBVIOUS
  <2>2. \A i \in 1 .. n : r[i].bytes \in Nat
    BY <1>6 DEF IsGood, Whole
  <2>3. Len(t) = n /\ \A i \in 1 .. n : t[i] = r[i].bytes
    BY <1>5, <2>1, <2>2, BytesAre
  <2>4. n \in Nat /\ n = Len(t) /\ n = Len(a) /\ \A i \in 1 .. n : t[i] = a[i]
    BY <1>1, <1>6, <2>3
  <2>5. Total(t) = Total(a)
    BY ONLY <2>4, TotalSame
  <2> QED BY ONLY <2>1, <2>5
<1> QED BY <1>3, <1>5, <1>6, <1>7 DEF IsList

\* What EndBuild lays out.
LEMMA PacketsAre ==
  ASSUME NEW x, IsBuilder(x), LaidOut(x), x.state = "built"
  PROVE  /\ IsList(x.packets, Needed(x))
         /\ Len(x.packets) > 0 /\ x.packets[1].type \in {"SR", "RR"}
<1>1. /\ x.headerlength > 0
      /\ x.packets = Reports(x) \o SDESPackets(x) \o Data("APP", x.apps) \o Data("BYE", x.byes)
      /\ x.apps \in Seq(Whole) /\ x.byes \in Seq(Whole)
  BY DEF LaidOut, IsBuilder
<1>2. PICK r, s, t, u : r = Reports(x) /\ s = SDESPackets(x) /\ t = Data("APP", x.apps) /\ u = Data("BYE", x.byes)
  OBVIOUS
<1>3. PICK i, j, k, l \in Nat :
        i = ReportNeeds(x) /\ j = SDESNeeds(x.chunks) /\ k = Total(x.apps) /\ l = Total(x.byes)
  BY NeedsNat
<1>4. IsList(r, i) /\ Len(r) > 0 /\ r[1].type \in {"SR", "RR"}
  BY <1>1, <1>2, <1>3, ReportsAre
<1>5. IsList(s, j)
  BY <1>2, <1>3, SDESPacketsAre
<1>6. IsList(t, k) /\ IsList(u, l)
  BY <1>1, <1>2, <1>3, DataPacketsAre
<1>7. PICK T : T = Range(r) \cup Range(s) \cup Range(t) \cup Range(u)
  OBVIOUS
<1>8. r \in Seq(T) /\ s \in Seq(T) /\ t \in Seq(T) /\ u \in Seq(T)
  <2>1. ASSUME NEW v, NEW m, IsList(v, m), Range(v) \subseteq T PROVE v \in Seq(T)
    <3>1. PICK n \in Nat : n = Len(v) /\ v = [h \in 1 .. n |-> v[h]]
      BY <2>1 DEF IsList
    <3>2. \A h \in 1 .. n : v[h] \in T
      BY <2>1, <3>1 DEF Range
    <3>3. Len(v) = n /\ DOMAIN v = 1 .. n
      BY <3>1
    <3>4. [h \in 1 .. n |-> v[h]] \in Seq(T)
      BY <3>2
    <3> QED BY ONLY <3>1, <3>4
  <2> QED BY <1>4, <1>5, <1>6, <1>7, <2>1
<1>9. PICK v, w, y : v = r \o s /\ w = v \o t /\ y = w \o u
  OBVIOUS
<1>10. v \in Seq(T) /\ IsList(v, i + j)
  BY ONLY <1>4, <1>5, <1>8, <1>9, ListsJoin
<1>11. w \in Seq(T) /\ IsList(w, i + j + k)
  BY ONLY <1>6, <1>8, <1>9, <1>10, ListsJoin
<1>12. y \in Seq(T) /\ IsList(y, i + j + k + l)
  BY ONLY <1>6, <1>8, <1>9, <1>11, ListsJoin
<1>13. y = x.packets
  BY <1>1, <1>2, <1>9
<1>14. Needed(x) = i + j + k + l
  BY <1>3 DEF Needed
<1>15. Len(y) > 0 /\ y[1] = r[1]
  BY <1>4, <1>8, <1>9
<1> QED BY <1>4, <1>12, <1>13, <1>14, <1>15

-----------------------------------------------------------------------------
(* The reader. *)

LEMMA SumsGrow ==
  ASSUME NEW n \in Nat, NEW a, \A i \in 1 .. n : a[i] \in Nat /\ a[i] >= 4, NEW f, Sums(f, a, n)
  PROVE  \A j \in 0 .. n : \A i \in 0 .. n : i < j => f[i] + 4 <= f[j]
<1>1. \A i \in 0 .. n : f[i] \in Nat
  <2>1. \A i \in 1 .. n : a[i] \in Nat
    OBVIOUS
  <2> QED BY <2>1, SumsNat
<1> DEFINE P == {j \in 0 .. n : \A i \in 0 .. n : i < j => f[i] + 4 <= f[j]}
<1>2. 0 \in P
  OBVIOUS
<1>3. ASSUME NEW j \in 1 .. n, j - 1 \in P PROVE j \in P
  <2>1. PICK x, y \in Nat : x = f[j - 1] /\ y = f[j]
    BY <1>1
  <2>2. x + 4 <= y
    <3>1. PICK z \in Nat : z = a[j] /\ z >= 4
      OBVIOUS
    <3>2. y = x + z
      BY <2>1, <3>1 DEF Sums
    <3> QED BY <3>1, <3>2
  <2>3. ASSUME NEW i \in 0 .. n, i < j PROVE f[i] + 4 <= f[j]
    <3>1. CASE i = j - 1
      BY <2>1, <2>2, <3>1
    <3>2. CASE i < j - 1
      <4>1. f[i] + 4 <= x /\ f[i] \in Nat
        BY <1>1, <1>3, <2>1, <3>2
      <4> QED BY <2>1, <2>2, <4>1
    <3> QED BY <2>3, <3>1, <3>2
  <2> QED BY <2>3
<1>4. \A j \in 0 .. n : j \in P
  <2> HIDE DEF P
  <2> QED BY <1>2, <1>3, CountingUp
<1> QED BY <1>4

\* Each header tells where the next one is, and none is left out.
LEMMA WireReads ==
  ASSUME NEW ps, NEW len \in Nat, IsList(ps, len), Len(ps) > 0, ps[1].type \in {"SR", "RR"}
  PROVE  ParseData(Wire(ps), len)
<1>1. PICK n \in Nat : n = Len(ps) /\ n > 0
  BY DEF IsList
<1>2. ps = [i \in 1 .. n |-> ps[i]] /\ \A i \in 1 .. n : IsGood(ps[i])
  BY <1>1 DEF IsList
<1>3. DOMAIN ps = 1 .. n
  BY <1>2
<1>4. PICK t : t = Bytes(ps)
  OBVIOUS
<1>5. Len(t) = n /\ \A i \in 1 .. n : t[i] = ps[i].bytes /\ t[i] \in Nat /\ t[i] % 4 = 0 /\ t[i] >= 4
  <2>1. \A i \in 1 .. n : ps[i].bytes \in Nat /\ ps[i].bytes % 4 = 0 /\ ps[i].bytes >= 4
    BY <1>2 DEF IsGood, Whole
  <2>2. Len(t) = n /\ \A i \in 1 .. n : t[i] = ps[i].bytes
    BY <1>2, <1>4, <2>1, BytesAre
  <2> QED BY <2>1, <2>2
<1>6. PICK f : Sums(f, t, n) /\ Total(t) = f[n]
  BY <1>5, TotalIs
<1>7. f[0] = 0 /\ f[n] = len
  BY <1>4, <1>6 DEF Sums, IsList
<1>8. \A i \in 0 .. n : f[i] \in Nat
  BY <1>5, <1>6, SumsNat
<1>9. \A j \in 0 .. n : \A i \in 0 .. n : i < j => f[i] + 4 <= f[j]
  BY <1>5, <1>6, SumsGrow
<1>10. PICK w : w = Wire(ps)
  OBVIOUS
<1>11. Len(w) = n /\ DOMAIN w = 1 .. n
       /\ \A i \in 1 .. n : /\ w[i].packet = ps[i] /\ w[i].length = ps[i].bytes \div 4 - 1
                            /\ w[i].at = Total([j \in 1 .. i - 1 |-> ps[j].bytes])
  <2>1. w = [i \in 1 .. n |->
              [packet |-> ps[i], at |-> Total([j \in 1 .. i - 1 |-> ps[j].bytes]), length |-> ps[i].bytes \div 4 - 1]]
    BY <1>3, <1>10 DEF Wire
  <2> QED BY <2>1
<1>12. ASSUME NEW i \in 1 .. n
       PROVE  w[i].at = f[i - 1] /\ WordsAt(w, i) = t[i]
  <2>1. PICK u : u = [j \in 1 .. i - 1 |-> ps[j].bytes]
    OBVIOUS
  <2>2. PICK m \in Nat : m = i - 1
    OBVIOUS
  <2>3. Within(u, t, 0, m, n)
    <3>1. m = Len(u) /\ \A j \in 1 .. m : u[j] = ps[j].bytes
      BY <2>1, <2>2
    <3>2. ASSUME NEW j \in 1 .. m PROVE u[j] = t[0 + j]
      <4>1. j \in 1 .. n /\ 0 + j = j
        BY <2>2
      <4> QED BY <1>5, <3>1, <4>1
    <3>3. 0 + m <= n /\ 0 \in Nat
      BY <2>2
    <3> QED BY <1>5, <3>1, <3>2, <3>3 DEF Within
  <2>4. Total(u) = f[0 + m] - f[0]
    BY ONLY <1>6, <2>3, SumsOfPart
  <2>5. w[i].at = f[i - 1]
    BY <1>7, <1>8, <1>11, <2>1, <2>2, <2>4
  <2>6. PICK x \in Nat : x = ps[i].bytes /\ x = t[i] /\ x % 4 = 0
    BY <1>5
  <2>7. 4 * ((x \div 4 - 1) + 1) = x
    <3>0. 4 \in Nat \ {0} /\ x \in Int
      OBVIOUS
    <3>1. PICK y \in Int : y = x \div 4 /\ x = 4 * y
      <4>1. x \div 4 \in Int
        BY <3>0, DivMod
      <4>2. x = 4 * (x \div 4) + (x % 4)
        BY <3>0, DivMod
      <4>3. x = 4 * (x \div 4)
        <5>1. PICK y \in Int : y = x \div 4
          BY <4>1
        <5>2. x = 4 * y + 0
          BY <2>6, <4>2, <5>1
        <5> QED BY <5>1, <5>2
      <4> QED BY <4>1, <4>3
    <3>2. 4 * ((y - 1) + 1) = x
      BY ONLY <3>1, y \in Int
    <3> QED BY ONLY <3>1, <3>2
  <2>8. w[i].length = x \div 4 - 1
    BY <1>11, <2>6
  <2>9. WordsAt(w, i) = x
    BY ONLY <2>7, <2>8 DEF WordsAt
  <2> QED BY <2>5, <2>6, <2>9
<1>13. ASSUME NEW k \in 1 .. n PROVE PastPacket(w, len, f[k - 1]) = f[k]
  <2>0. f[k - 1] \in Nat /\ f[k] \in Nat /\ t[k] \in Nat
    <3>1. k - 1 \in 0 .. n /\ k \in 0 .. n
      OBVIOUS
    <3> QED BY <1>5, <1>8, <3>1
  <2>1. PICK x, y, z \in Nat : x = f[k - 1] /\ y = f[k] /\ z = t[k]
    BY <2>0
  <2>2. y = x + z /\ z >= 4
    BY <1>5, <1>6, <2>1 DEF Sums
  <2>3. y <= len
    <3>1. CASE k = n
      BY <1>7, <2>1, <3>1
    <3>2. CASE k # n
      <4>1. f[k] + 4 <= f[n]
        BY <1>9, <3>2
      <4> QED BY <1>7, <2>1, <4>1
    <3> QED BY <3>1, <3>2
  <2> DEFINE here == {i \in DOMAIN w : /\ w[i].at = x /\ x + WordsAt(w, i) <= len
                                       /\ KnownFormat(w[i].packet, WordsAt(w, i))}
  <2>4. k \in here
    <3>1. w[k].at = x /\ WordsAt(w, k) = z /\ w[k].packet = ps[k] /\ ps[k].bytes = z
      BY <1>5, <1>11, <1>12, <2>1
    <3>2. KnownFormat(ps[k], z)
      BY <1>2, <3>1 DEF IsGood
    <3>3. x + z <= len /\ k \in DOMAIN w
      BY <1>11, <2>2, <2>3
    <3> QED BY <3>1, <3>2, <3>3
  <2>5. ASSUME NEW i \in here PROVE i = k
    <3>1. i \in 1 .. n /\ f[i - 1] = x
      BY <1>11, <1>12
    <3>2. CASE i < k
      <4>1. f[i - 1] + 4 <= f[k - 1]
        BY <1>9, <3>1, <3>2
      <4> QED BY <2>1, <3>1, <4>1
    <3>3. CASE k < i
      <4>1. f[k - 1] + 4 <= f[i - 1]
        BY <1>9, <3>1, <3>3
      <4> QED BY <2>1, <3>1, <4>1
    <3> QED BY <3>1, <3>2, <3>3
  <2>6. (CHOOSE i \in here : TRUE) = k
    <3> HIDE DEF here
    <3>1. PICK c : c = CHOOSE i \in here : TRUE
      OBVIOUS
    <3>2. c \in here
      BY <2>4, <3>1
    <3> QED BY <2>5, <3>1, <3>2
  <2>7. here # {} /\ ~(len - x < HeaderBytes)
    BY <2>2, <2>3, <2>4 DEF HeaderBytes
  <2>8. WordsAt(w, k) = z
    BY <1>12, <2>1
  <2>9. PastPacket(w, len, x) = x + WordsAt(w, CHOOSE i \in here : TRUE)
    <3>1. len - x >= HeaderBytes
      BY <2>2, <2>3 DEF HeaderBytes
    <3> QED BY <2>7, <3>1 DEF PastPacket
  <2> HIDE DEF here
  <2> QED BY <2>1, <2>2, <2>6, <2>8, <2>9
<1>14. PICK m : m = [wire |-> w, len |-> len]
  OBVIOUS
<1> DEFINE g == CHOOSE h : Runs(h, "read", m, 0, n)
<1>15. IsRun(g, "read", m, 0, n)
  BY DEF IsRun
<1>16. g[0] = 0 /\ \A i \in 1 .. n : g[i] = TakenOn("read", m, g[i - 1], i)
  <2>1. n \in Nat
    OBVIOUS
  <2> HIDE DEF g
  <2>2. g[0] = 0
    BY ONLY <1>15, <2>1, RunIs
  <2>3. \A i \in 1 .. n : g[i] = TakenOn("read", m, g[i - 1], i)
    BY ONLY <1>15, <2>1, RunIs
  <2> QED BY ONLY <2>2, <2>3
<1>17. ParseData(w, len) <=>
         /\ len >= HeaderBytes
         /\ w[1].packet.type \in {"SR", "RR"}
         /\ g[n] = len
  BY <1>11, <1>14 DEF ParseData, Runs, TakenOn
<1> HIDE DEF g
<1>18. \A i \in 1 .. n : g[i] = PastPacket(w, len, g[i - 1])
  BY <1>14, <1>16 DEF TakenOn
<1> DEFINE P == {i \in 0 .. n : g[i] = f[i]}
<1>19. 0 \in P
  BY <1>7, <1>16
<1>20. ASSUME NEW i \in 1 .. n, i - 1 \in P PROVE i \in P
  <2>1. g[i - 1] = f[i - 1]
    BY <1>20
  <2>2. g[i] = f[i]
    BY <1>13, <1>18, <2>1
  <2> QED BY <2>2
<1>21. g[n] = len
  <2>1. \A i \in 0 .. n : i \in P
    <3> HIDE DEF P
    <3> QED BY <1>19, <1>20, CountingUp
  <2> QED BY <1>7, <2>1
<1>22. len >= HeaderBytes
  <2>1. f[0] + 4 <= f[n]
    BY <1>1, <1>9
  <2> QED BY <1>7, <2>1 DEF HeaderBytes
<1>23. w[1].packet.type \in {"SR", "RR"}
  <2>0. 1 \in 1 .. n
    BY <1>1
  <2>1. w[1].packet = ps[1]
    BY ONLY <1>11, <2>0
  <2> QED BY ONLY <2>1, ps[1].type \in {"SR", "RR"}
<1> QED BY <1>10, <1>17, <1>21, <1>22, <1>23

\* What a whole builder lays out is read back.
LEMMA WholeParsesBack ==
  ASSUME IsBuilder(b), LaidOut(b)
  PROVE  ParsesBack
<1> SUFFICES ASSUME b.state = "built"
             PROVE  /\ Total([i \in DOMAIN b.packets |-> b.packets[i].bytes]) = Needed(b)
                    /\ \A i \in DOMAIN b.packets : Len(b.packets[i].parts) <= MaxPerPacket
                    /\ ParseData(Wire(b.packets), Needed(b))
  BY DEF ParsesBack
<1>1. /\ IsList(b.packets, Needed(b))
      /\ Len(b.packets) > 0 /\ b.packets[1].type \in {"SR", "RR"}
  BY PacketsAre
<1>2. PICK n \in Nat : n = Len(b.packets) /\ DOMAIN b.packets = 1 .. n /\ \A i \in 1 .. n : IsGood(b.packets[i])
  BY <1>1 DEF IsList
<1>3. Needed(b) \in Nat
  BY NeedsNat DEF Needed
<1>4. Total([i \in DOMAIN b.packets |-> b.packets[i].bytes]) = Needed(b)
  BY <1>1 DEF IsList, Bytes
<1>5. \A i \in DOMAIN b.packets : Len(b.packets[i].parts) <= MaxPerPacket
  BY <1>2 DEF IsGood
<1>6. ParseData(Wire(b.packets), Needed(b))
  BY <1>1, <1>3, WireReads
<1> QED BY <1>4, <1>5, <1>6

-----------------------------------------------------------------------------
(* The builder, from call to call. *)

WholeInv ==
  /\ IsBuilder(b) /\ LaidOut(b)
  /\ FitsMaximum
  /\ ~failed

\* A builder to which more can be added keeps the maximum.
IsWhole(x, who) == IsBuilder(x) /\ LaidOut(x) /\ (who = "session" \/ x.chunks = <<>> => Needed(x) <= MaximumPacketSize)

LEMMA NothingNeeded ==
  ASSUME NEW x, x.blocks = <<>>, x.headerlength = 0, x.chunks = <<>>, x.apps = <<>>, x.byes = <<>>
  PROVE  Needed(x) = 0
<1>1. Total(x.byes) = 0 /\ Total(x.apps) = 0 /\ SDESNeeds(x.chunks) = 0
  BY TotalEmpty, NoChunkNeeds
<1>2. ReportNeeds(x) = 0
  BY DEF ReportNeeds
<1> QED BY <1>1, <1>2 DEF Needed

\* APP and BYE packets are of whole words.
LEMMA DataIsWhole ==
  ASSUME NEW n \in Nat
  PROVE  /\ n % 4 = 0 => APPBytes(n) \in Whole
         /\ \A m \in Nat : BYEBytes(m, n) \in Whole
<1>1. ASSUME n % 4 = 0 PROVE APPBytes(n) \in Whole
  <2>1. 4 + 2 * 4 + n \in Nat /\ (4 + 2 * 4 + n) % 4 = 0 /\ 4 + 2 * 4 + n >= 4
    BY <1>1
  <2> QED BY <2>1 DEF APPBytes, HeaderBytes, SSRCBytes, Whole
<1>2. ASSUME NEW m \in Nat PROVE BYEBytes(m, n) \in Whole
  <2>1. PICK a \in Nat : a = (IF n = 0 THEN 0 ELSE Aligned(1 + n)) /\ a % 4 = 0
    <3>1. 1 + n \in Nat
      OBVIOUS
    <3>2. Aligned(1 + n) \in Nat /\ Aligned(1 + n) % 4 = 0
      BY ONLY <3>1, AlignedIs
    <3> QED BY <3>2
  <2>2. 4 + 4 * m + a \in Nat /\ (4 + 4 * m + a) % 4 = 0 /\ 4 + 4 * m + a >= 4
    BY <2>1
  <2> QED BY <2>1, <2>2 DEF BYEBytes, HeaderBytes, SSRCBytes, Whole
<1> QED BY <1>1, <1>2

LEMMA BuiltIsWhole ==
  ASSUME NEW x, IsBuilder(x), x.headerlength > 0, NEW who,
         who = "session" \/ x.chunks = <<>> => Needed(x) <= MaximumPacketSize,
         NEW y, y = EndBuild(x)
  PROVE  IsWhole(y, who)
<1>1. /\ IsBuilder(y) /\ y.isSR = x.isSR /\ y.headerlength = x.headerlength
      /\ y.blocks = x.blocks /\ y.chunks = x.chunks /\ y.apps = x.apps /\ y.byes = x.byes
      /\ LaidOut(y)
  BY EndBuildIs
<1>2. Needed(y) = Needed(x)
  BY ONLY <1>1 DEF Needed, ReportNeeds, BlocksNeed
<1> QED BY <1>1, <1>2 DEF IsWhole

LEMMA WholeInit ==
  ASSUME RTCPInit
  PROVE  WholeInv
<1>1. b = NewBuilder /\ failed = FALSE
  BY DEF RTCPInit
<1>2. IsBuilder(b) /\ b.state = "new" /\ Needed(b) = 0
  <2>1. /\ b.blocks = <<>> /\ b.headerlength = 0 /\ b.chunks = <<>> /\ b.apps = <<>> /\ b.byes = <<>>
    BY <1>1 DEF NewBuilder
  <2> QED BY <1>1, <2>1, NewBuilderIs, NothingNeeded
<1>3. LaidOut(b)
  BY <1>2 DEF LaidOut
<1> QED BY <1>1, <1>2, <1>3, SizeConstants DEF WholeInv, FitsMaximum

\* What the application adds.
LEMMA ApplicationStep ==
  ASSUME WholeInv, ApplicationBuilds
  PROVE  WholeInv'
<1>1. /\ user = "application" /\ user' = user /\ failed' = failed /\ ~failed
      /\ IsBuilder(b) /\ (b.chunks = <<>> => Needed(b) <= MaximumPacketSize)
  BY DEF ApplicationBuilds, WholeInv, FitsMaximum, session
<1>2. ASSUME IsWhole(b', "application") PROVE WholeInv'
  BY <1>1, <1>2 DEF WholeInv, FitsMaximum, IsWhole
<1>3. ASSUME IsBuilder(b'), b'.state = "building", b'.chunks = <<>> => Needed(b') <= MaximumPacketSize
      PROVE  IsWhole(b', "application")
  BY <1>3 DEF IsWhole, LaidOut
<1>4. CASE b' = InitBuild(NewBuilder)
  <2>1. IsBuilder(b') /\ b'.state = "building" /\ Needed(b') = 0
    BY <1>4, InitBuildIs, NothingNeeded
  <2> QED BY <1>2, <1>3, <2>1, SizeConstants
<1>5. ASSUME NEW sr \in BOOLEAN, FitsReport(b, sr), b' = StartReport(b, sr) PROVE WholeInv'
  <2>1. b.state = "building" /\ b.headerlength = 0
    BY <1>5 DEF FitsReport
  <2>2. IsBuilder(b') /\ b'.state = b.state /\ b'.chunks = b.chunks
    BY <1>1, <1>5, <2>1, StartReportIs
  <2>3. b.chunks = <<>> => Needed(b') <= MaximumPacketSize
    BY <1>1, <1>5, ReportStarted
  <2> QED BY <1>2, <1>3, <2>1, <2>2, <2>3
<1>6. CASE FitsReportBlock(b) /\ b' = AddReportBlock(b, Observed)
  <2>1. b.state = "building" /\ b.headerlength > 0 /\ Observed \in Reporters
    BY <1>6 DEF FitsReportBlock, Reporters
  <2>2. IsBuilder(b') /\ b'.state = b.state /\ Needed(b') <= MaximumPacketSize
    BY <1>1, <1>6, <2>1, AddReportBlockIs, BlockAdded
  <2> QED BY <1>2, <1>3, <2>1, <2>2
<1>7. CASE FitsSDESSource(b) /\ b' = AddSDESSource(b)
  <2>1. b.state = "building"
    BY <1>7 DEF FitsSDESSource
  <2>2. IsBuilder(b') /\ b'.state = b.state /\ b'.chunks = Append(b.chunks, <<>>)
    BY <1>1, <1>7, AddSDESSourceIs
  <2>3. b'.chunks # <<>>
    <3>1. PICK c, T : c = b.chunks /\ T = Seq(Nat)
      OBVIOUS
    <3>2. c \in Seq(T) /\ <<>> \in T
      BY <1>1, <3>1 DEF IsBuilder
    <3>3. Len(Append(c, <<>>)) = Len(c) + 1 /\ Len(c) \in Nat
      BY ONLY <3>2
    <3>4. Append(c, <<>>) # <<>>
      BY ONLY <3>3
    <3> QED BY <2>2, <3>1, <3>4
  <2> QED BY <1>2, <1>3, <2>1, <2>2, <2>3
<1>8. ASSUME NEW n \in Lengths, FitsSDESItem(b, n), b' = AddSDESItem(b, n) PROVE WholeInv'
  <2>1. b.state = "building" /\ b.chunks # <<>> /\ n \in Nat
    BY <1>8, PacketBuilderAssumption DEF FitsSDESItem
  <2>2. IsBuilder(b') /\ b'.state = b.state /\ b'.chunks # <<>>
    BY <1>1, <1>8, <2>1, AddSDESItemIs
  <2> QED BY <1>2, <1>3, <2>1, <2>2
<1>9. ASSUME NEW n \in Lengths, FitsAPP(b, n), b' = AddAPPPacket(b, n) PROVE WholeInv'
  <2>1. b.state = "building" /\ n \in Nat /\ n % 4 = 0 /\ Needed(b) + APPBytes(n) <= MaximumPacketSize
    BY <1>9, PacketBuilderAssumption DEF FitsAPP
  <2>2. PICK m \in Whole : m = APPBytes(n)
    BY <2>1, DataIsWhole
  <2>3. b' = [b EXCEPT !.apps = Append(@, m)]
    BY <1>9, <2>2 DEF AddAPPPacket
  <2>4. PICK y, z : y = [b EXCEPT !.apps = Append(@, m)] /\ z = [b EXCEPT !.byes = Append(@, m)]
    OBVIOUS
  <2>5. IsBuilder(y) /\ y.state = b.state /\ IsBuilder(z) /\ z.state = b.state
    <3>1. IsBuilder(b) /\ m \in Whole
      BY <1>1
    <3>2. IsBuilder(y) /\ y.state = b.state
      BY ONLY <2>4, <3>1, AddDataIs
    <3>3. IsBuilder(z) /\ z.state = b.state
      BY ONLY <2>4, <3>1, AddDataIs
    <3> QED BY <3>2, <3>3
  <2>6. Needed(y) <= MaximumPacketSize /\ Needed(z) <= MaximumPacketSize
    BY <1>1, <2>1, <2>2, <2>4, DataAdded
  <2> QED BY <1>2, <1>3, <2>1, <2>3, <2>4, <2>5, <2>6
<1>10. ASSUME NEW n \in Lengths, NEW k \in 0 .. MaxPerPacket, FitsBYE(b, k, n), b' = AddBYEPacket(b, k, n)
       PROVE  WholeInv'
  <2>1. b.state = "building" /\ n \in Nat /\ k \in Nat /\ Needed(b) + BYEBytes(k, n) <= MaximumPacketSize
    BY <1>10, PacketBuilderAssumption, SizeConstants DEF FitsBYE
  <2>2. PICK m \in Whole : m = BYEBytes(k, n)
    BY <2>1, DataIsWhole
  <2>3. b' = [b EXCEPT !.byes = Append(@, m)]
    BY <1>10, <2>2 DEF AddBYEPacket
  <2>4. PICK y, z : y = [b EXCEPT !.apps = Append(@, m)] /\ z = [b EXCEPT !.byes = Append(@, m)]
    OBVIOUS
  <2>5. IsBuilder(y) /\ y.state = b.state /\ IsBuilder(z) /\ z.state = b.state
    <3>1. IsBuilder(b) /\ m \in Whole
      BY <1>1
    <3>2. IsBuilder(y) /\ y.state = b.state
      BY ONLY <2>4, <3>1, AddDataIs
    <3>3. IsBuilder(z) /\ z.state = b.state
      BY ONLY <2>4, <3>1, AddDataIs
    <3> QED BY <3>2, <3>3
  <2>6. Needed(y) <= MaximumPacketSize /\ Needed(z) <= MaximumPacketSize
    BY <1>1, <2>1, <2>2, <2>4, DataAdded
  <2> QED BY <1>2, <1>3, <2>1, <2>3, <2>4, <2>5, <2>6
<1>11. CASE CanEnd(b) /\ b' = EndBuild(b)
  <2>1. IsWhole(b', "application")
    BY <1>1, <1>11, BuiltIsWhole DEF CanEnd
  <2> QED BY <1>2, <2>1
<1> QED BY <1>4, <1>5, <1>6, <1>7, <1>8, <1>9, <1>10, <1>11 DEF ApplicationBuilds

LEMMA WholeStep ==
  ASSUME RoundInv, WholeInv, [RTCPNext]_rtcpVars
  PROVE  WholeInv'
<1>1. ASSUME UNCHANGED <<user, b, failed>> PROVE WholeInv'
  BY <1>1 DEF WholeInv, FitsMaximum
<1>2. ASSUME IsWhole(b', "session"), failed' = failed PROVE WholeInv'
  BY <1>2 DEF WholeInv, FitsMaximum, IsWhole
<1>3. CASE ApplicationBuilds
  BY <1>3, ApplicationStep
<1>4. CASE BuildNextPacket
  <2>1. PICK p, z : Packs(p, z)
    BY <1>4, PacketIs
  <2>2. IsOpen(z.b) /\ b' = EndBuild(z.b) /\ failed' = failed
    BY <2>1 DEF Packs, IsPass
  <2>3. IsWhole(b', "session")
    BY <2>2, BuiltIsWhole DEF IsOpen
  <2> QED BY <1>2, <2>2, <2>3
<1>5. ASSUME NEW sr \in BOOLEAN, NEW n \in Lengths, BuildBYEPacket(sr, n) PROVE WholeInv'
  <2>1. PICK x : x = Opening(sr)
    OBVIOUS
  <2>2. FitsOpening(sr) /\ IsOpen(x) /\ FitsBYE(x, 1, n)
    BY <2>1, OpeningIs
  <2>3. b' = EndBuild(AddBYEPacket(x, 1, n)) /\ failed' = failed
    BY <1>5, <2>1, <2>2 DEF BuildBYEPacket
  <2>4. n \in Nat /\ IsBuilder(x) /\ Needed(x) + BYEBytes(1, n) <= MaximumPacketSize /\ x.headerlength > 0
    BY <2>2, PacketBuilderAssumption DEF FitsBYE, IsOpen
  <2>5. PICK m \in Whole : m = BYEBytes(1, n)
    BY <2>4, DataIsWhole
  <2>6. PICK y, z : y = [x EXCEPT !.byes = Append(@, m)] /\ z = [x EXCEPT !.apps = Append(@, m)]
    OBVIOUS
  <2>7. IsBuilder(y) /\ y.headerlength = x.headerlength
    BY <2>4, <2>6, AddDataIs
  <2>8. Needed(y) <= MaximumPacketSize
    BY <2>4, <2>5, <2>6, DataAdded
  <2>9. b' = EndBuild(y)
    BY <2>3, <2>5, <2>6 DEF AddBYEPacket
  <2>10. IsWhole(b', "session")
    BY <2>4, <2>7, <2>8, <2>9, BuiltIsWhole
  <2> QED BY <1>2, <2>3, <2>10
<1>6. ASSUME NEW n \in Lengths, SendRTCPAPPPacket(n) PROVE WholeInv'
  <2>1. PICK x : x = Opening(FALSE)
    OBVIOUS
  <2>2. IsOpen(x)
    BY <2>1, OpeningIs
  <2>3. b' = EndBuild(AddAPPPacket(x, n)) /\ failed' = failed /\ FitsAPP(x, n)
    BY <1>6, <2>1 DEF SendRTCPAPPPacket
  <2>4. /\ n \in Nat /\ n % 4 = 0 /\ IsBuilder(x) /\ Needed(x) + APPBytes(n) <= MaximumPacketSize
        /\ x.headerlength > 0
    BY <2>2, <2>3, PacketBuilderAssumption DEF FitsAPP, IsOpen
  <2>5. PICK m \in Whole : m = APPBytes(n)
    BY <2>4, DataIsWhole
  <2>6. PICK y, z : y = [x EXCEPT !.apps = Append(@, m)] /\ z = [x EXCEPT !.byes = Append(@, m)]
    OBVIOUS
  <2>7. IsBuilder(y) /\ y.headerlength = x.headerlength
    BY <2>4, <2>6, AddDataIs
  <2>8. Needed(y) <= MaximumPacketSize
    BY <2>4, <2>5, <2>6, DataAdded
  <2>9. b' = EndBuild(y)
    BY <2>3, <2>5, <2>6 DEF AddAPPPacket
  <2>10. IsWhole(b', "session")
    BY <2>4, <2>7, <2>8, <2>9, BuiltIsWhole
  <2> QED BY <1>2, <2>3, <2>10
<1>7. CASE OwnSenderChanges
  BY <1>1, <1>7 DEF OwnSenderChanges, session
<1>8. ASSUME NEW s \in remote, SourceSends(s) PROVE WholeInv'
  BY <1>1, <1>8 DEF SourceSends, session
<1>9. ASSUME NEW n, NumberArrives(n) PROVE WholeInv'
  BY <1>1, <1>9 DEF NumberArrives, session
<1>10. CASE TakePacket
  BY <1>1, <1>10 DEF TakePacket, session
<1>11. CASE UNCHANGED rtcpVars
  BY <1>1, <1>11 DEF rtcpVars, session
<1> QED BY <1>3, <1>4, <1>5, <1>6, <1>7, <1>8, <1>9, <1>10, <1>11 DEF RTCPNext

\* Whatever the sources and the lengths: what RTCPCompoundPacketBuilder counted is
\* what EndBuild lays out, no count exceeds its five bits, ParseData takes all of
\* it apart; the session never exceeds the maximum, and BuildNextPacket and
\* BuildBYEPacket never return ERR_RTP_RTCPPACKETBUILDER_PACKETFILLEDTOOSOON.
THEOREM PacketsStayWhole == RTCPSpec => []PacketsAreWhole
<1>1. RTCPInit => RoundInv /\ WholeInv
  BY RoundInit, WholeInit
<1>2. RoundInv /\ WholeInv /\ [RTCPNext]_rtcpVars => RoundInv' /\ WholeInv'
  BY RoundStep, WholeStep
<1>3. WholeInv => PacketsAreWhole
  BY WholeParsesBack DEF WholeInv, PacketsAreWhole, NeverTooSoon
<1> QED BY <1>1, <1>2, <1>3, PTL DEF RTCPSpec

-----------------------------------------------------------------------------
(* How long sources and items wait. *)

\* A bound that the next packet, which reports one more source or sends one
\* more item, keeps: P are the sources that the round has reported, or, with
\* sdes, D the items that it has sent.
SourceWait(s, P, sdes, D) ==
  IF sdes THEN (Cardinality(remote) - 1) + Cardinality(D)
  ELSE IF s \in P THEN Cardinality(P \ {s})
  ELSE (Cardinality(remote) - 1) + Cardinality(Sent) + Cardinality(P)

ItemWait(sdes, D) == IF sdes THEN Cardinality(D) + 1 ELSE 0

WaitInv ==
  /\ \A s \in remote :
       unreported[s] \in Nat /\ unreported[s] <= SourceWait(s, Processed, rb.processingsdes, rb.sdesprocessed)
  /\ \A t \in Items :
       unsent[t] \in Nat /\ unsent[t] <= ItemWait(rb.processingsdes, rb.sdesprocessed)

\* Sets of sources and of items.
LEMMA PartCounts ==
  ASSUME NEW U, IsFiniteSet(U), NEW A, A \subseteq U
  PROVE  IsFiniteSet(A) /\ Cardinality(A) \in Nat /\ Cardinality(A) <= Cardinality(U)
         /\ (A # U => Cardinality(A) < Cardinality(U))
<1>1. IsFiniteSet(A) /\ Cardinality(A) <= Cardinality(U) /\ (A # U => Cardinality(A) # Cardinality(U))
  BY FS_Subset
<1>2. Cardinality(A) \in Nat /\ Cardinality(U) \in Nat
  BY <1>1, FS_CardinalityType
<1> QED BY <1>1, <1>2

LEMMA MoreCounts ==
  ASSUME NEW U, IsFiniteSet(U), NEW A, A \subseteq U, NEW B, B \subseteq U, B # {}, A \cap B = {}
  PROVE  Cardinality(A) + 1 <= Cardinality(A \cup B)
<1>1. A \cup B \subseteq U /\ A \subseteq A \cup B /\ A # A \cup B
  OBVIOUS
<1>2. IsFiniteSet(A \cup B) /\ Cardinality(A \cup B) \in Nat
  BY <1>1, PartCounts
<1>3. Cardinality(A) < Cardinality(A \cup B) /\ Cardinality(A) \in Nat
  BY <1>1, <1>2, PartCounts
<1> QED BY <1>2, <1>3

LEMMA WithoutCounts ==
  ASSUME NEW U, IsFiniteSet(U), NEW A, A \subseteq U, NEW s \in U
  PROVE  /\ Cardinality(U) \in Nat /\ Cardinality(U) >= 1
         /\ Cardinality(A \ {s}) \in Nat /\ Cardinality(A \ {s}) <= Cardinality(U) - 1
         /\ \A B \in SUBSET U : B # {} /\ A \cap B = {} /\ s \in A => Cardinality(A \ {s}) + 1 <= Cardinality(U) - 1
<1>1. Cardinality(U) \in Nat /\ Cardinality(U \ {s}) \in Nat /\ Cardinality(U \ {s}) < Cardinality(U)
  BY PartCounts
<1>2. IsFiniteSet(U \ {s})
  BY PartCounts
<1>3. A \ {s} \subseteq U \ {s}
  OBVIOUS
<1>4. Cardinality(A \ {s}) \in Nat /\ Cardinality(A \ {s}) <= Cardinality(U \ {s})
  BY <1>2, <1>3, PartCounts
<1>5. ASSUME NEW B \in SUBSET U, B # {}, A \cap B = {}, s \in A
      PROVE  Cardinality(A \ {s}) + 1 <= Cardinality(U) - 1
  <2>1. A \ {s} # U \ {s}
    BY <1>5
  <2>2. Cardinality(A \ {s}) < Cardinality(U \ {s})
    BY <1>2, <1>3, <2>1, PartCounts
  <2> QED BY <1>1, <1>4, <2>2
<1>6. Cardinality(U) >= 1 /\ Cardinality(A \ {s}) <= Cardinality(U) - 1
  BY <1>1, <1>4
<1> QED BY ONLY <1>1, <1>4, <1>5, <1>6

\* What waits, waits one packet more; what does not, has not waited.
LEMMA WaitedIs ==
  ASSUME WaitInv, NEW p, NEW z, Packs(p, z)
  PROVE  /\ \A s \in remote :
              \/ unreported'[s] = 0
              \/ /\ s \in Due(p) /\ s \notin Range(z.b.blocks)
                 /\ unreported'[s] \in Nat /\ unreported'[s] <= unreported[s] + 1
         /\ \A t \in Items :
              \/ unsent'[t] = 0
              \/ z.rb.processingsdes /\ unsent'[t] = unsent[t] + 1
<1>1. Waited(z) /\ Due(z) = Due(p)
  BY SameSourcesDue DEF Packs
<1>2. MaxWait \in Nat
  <2>1. Len(Sources) \in Nat
    BY PacketBuilderAssumption
  <2> QED BY <2>1, Finite DEF MaxWait
<1>3. ASSUME NEW s \in remote
      PROVE  \/ unreported'[s] = 0
             \/ /\ s \in Due(p) /\ s \notin Range(z.b.blocks)
                /\ unreported'[s] \in Nat /\ unreported'[s] <= unreported[s] + 1
  <2>1. PICK u \in Nat : u = unreported[s]
    BY DEF WaitInv
  <2>2. PICK v : v = unreported'[s]
    OBVIOUS
  <2>3. v = IF ShouldProcess(z, s) /\ s \notin Range(z.b.blocks) /\ u < MaxWait THEN u + 1
            ELSE IF ShouldProcess(z, s) /\ s \notin Range(z.b.blocks) THEN MaxWait ELSE 0
    BY <1>1, <2>1, <2>2 DEF Waited
  <2>4. ShouldProcess(z, s) => s \in Due(p)
    BY <1>1 DEF Due
  <2>5. v = 0 \/ (s \in Due(p) /\ s \notin Range(z.b.blocks) /\ v \in Nat /\ v <= u + 1)
    BY <1>2, <2>1, <2>3, <2>4
  <2> QED BY <2>1, <2>2, <2>5
<1>4. ASSUME NEW t \in Items
      PROVE  unsent'[t] = 0 \/ (z.rb.processingsdes /\ unsent'[t] = unsent[t] + 1)
  BY <1>1 DEF Waited
<1> QED BY <1>3, <1>4

\* The bound after a packet, if the source is left out of it.
LEMMA SourceWaitGrows ==
  ASSUME RoundInv, NEW p, NEW z, Packs(p, z), NEW s \in Due(p), s \notin Range(z.b.blocks)
  PROVE  SourceWait(s, Processed, rb.processingsdes, rb.sdesprocessed) + 1
           <= SourceWait(s, Done(z), z.rb.processingsdes, z.rb.sdesprocessed)
<1>1. PICK P, sdes, D : P = Done(p) /\ P = Processed /\ sdes = rb.processingsdes /\ D = rb.sdesprocessed
  BY DEF Packs, Processed, Done
<1>2. PICK Q, more, E : Q = Done(z) /\ more = z.rb.processingsdes /\ E = z.rb.sdesprocessed
  OBVIOUS
<1>3. s \in remote /\ IsFiniteSet(remote) /\ IsFiniteSet(Sent) /\ P \subseteq remote /\ Q \subseteq remote
      /\ Due(p) \subseteq remote /\ p.rb = rb
  BY <1>1, <1>2, Finite DEF RoundInv, Due, Done, Packs
<1>4. D \subseteq Sent /\ E \subseteq Sent /\ (sdes => D # Sent)
  BY <1>1, <1>2 DEF RoundInv, Packs, IsPass, IsState
<1>5. PICK n \in Nat, k \in Nat, c \in Nat, e \in Nat, d \in Nat, q \in Nat :
        /\ n = Cardinality(remote) /\ k = Cardinality(Sent) /\ c = Cardinality(P) /\ e = Cardinality(E)
        /\ d = Cardinality(D) /\ q = Cardinality(Q) /\ n >= 1
        /\ c <= n /\ e <= k /\ d <= k /\ (sdes => d + 1 <= k)
  <2>1. Cardinality(D) <= Cardinality(Sent) /\ (D # Sent => Cardinality(D) < Cardinality(Sent))
        /\ Cardinality(D) \in Nat /\ Cardinality(Sent) \in Nat
    BY <1>3, <1>4, PartCounts
  <2>2. Cardinality(E) <= Cardinality(Sent) /\ Cardinality(E) \in Nat
    BY <1>3, <1>4, PartCounts
  <2>3. Cardinality(P) <= Cardinality(remote) /\ Cardinality(P) \in Nat /\ Cardinality(Q) \in Nat
    BY <1>3, PartCounts
  <2>4. Cardinality(remote) \in Nat /\ Cardinality(remote) >= 1
    BY <1>3, WithoutCounts
  <2> QED BY <1>4, <2>1, <2>2, <2>3, <2>4, SMTT(30)
<1>6. PICK f \in Nat, g \in Nat :
        /\ f = Cardinality(P \ {s}) /\ g = Cardinality(Q \ {s}) /\ f <= n - 1 /\ g <= n - 1
        /\ \A B \in SUBSET remote : B # {} /\ P \cap B = {} /\ s \in P => f + 1 <= n - 1
  BY <1>3, <1>5, WithoutCounts
<1>7. SourceWait(s, P, sdes, D) = IF sdes THEN (n - 1) + d ELSE IF s \in P THEN f ELSE (n - 1) + k + c
  BY <1>5, <1>6 DEF SourceWait
<1>8. SourceWait(s, Q, more, E) = IF more THEN (n - 1) + e ELSE IF s \in Q THEN g ELSE (n - 1) + k + q
  BY <1>5, <1>6 DEF SourceWait
<1>9. SUFFICES SourceWait(s, P, sdes, D) + 1 <= SourceWait(s, Q, more, E)
  BY <1>1, <1>2
<1>10. ASSUME ~sdes, NEW S, MoreReports(p, z, S)
       PROVE  SourceWait(s, P, sdes, D) + 1 <= SourceWait(s, Q, more, E)
  <2>1. S # {} /\ S \subseteq remote /\ P \cap S = {} /\ Q = P \cup S /\ ~more /\ s \notin S
    BY <1>1, <1>2, <1>3, <1>10 DEF MoreReports
  <2>2. c + 1 <= q
    BY <1>3, <1>5, <2>1, MoreCounts
  <2>3. CASE s \in P
    <3>1. Q \ {s} = (P \ {s}) \cup S /\ (P \ {s}) \cap S = {} /\ P \ {s} \subseteq remote
      BY <1>3, <2>1
    <3>2. f + 1 <= g
      BY <1>3, <1>6, <2>1, <3>1, MoreCounts
    <3> QED BY <1>7, <1>8, <1>10, <2>1, <2>3, <3>2
  <2>4. CASE s \notin P
    BY <1>5, <1>7, <1>8, <1>10, <2>1, <2>2, <2>4
  <2> QED BY <2>3, <2>4
<1>11. ASSUME ~sdes, NEW S, NEW T, ItemsBegin(p, z, S, T)
       PROVE  SourceWait(s, P, sdes, D) + 1 <= SourceWait(s, Q, more, E)
  <2>1. S \subseteq remote /\ P \cap S = {} /\ E = T /\ more /\ s \in P /\ (S = {} => T # {})
    BY <1>1, <1>2, <1>3, <1>11 DEF ItemsBegin
  <2>2. f + 1 <= (n - 1) + e
    <3>1. CASE S # {}
      <4>1. f + 1 <= n - 1
        BY <1>6, <2>1, <3>1
      <4> QED BY <1>5, <1>6, <4>1
    <3>2. CASE S = {}
      <4>1. {} \subseteq Sent /\ E # {} /\ E = {} \cup E /\ {} \cap E = {}
        BY <2>1, <3>2
      <4>2. Cardinality({}) + 1 <= Cardinality({} \cup E)
        BY <1>3, <1>4, <4>1, MoreCounts
      <4>3. Cardinality({}) = 0
        BY FS_EmptySet
      <4>4. e >= 1
        BY <1>5, <4>1, <4>2, <4>3
      <4> QED BY <1>5, <1>6, <4>4
    <3> QED BY <3>1, <3>2
  <2> QED BY <1>5, <1>6, <1>7, <1>8, <1>11, <2>1, <2>2
<1>12. ASSUME ~sdes, NEW S, NEW T, NEW R, RoundOver(p, z, S, T, R)
       PROVE  SourceWait(s, P, sdes, D) + 1 <= SourceWait(s, Q, more, E)
  <2>1. /\ S \subseteq remote /\ P \cap S = {} /\ ~more /\ s \in P /\ s \notin Q /\ Q = R /\ T \subseteq Sent
        /\ S = {} /\ T = {} => R # {}
    BY <1>1, <1>2, <1>3, <1>12 DEF RoundOver
  <2>2. f + 1 <= (n - 1) + k + q
    <3>1. CASE S # {}
      <4>1. f + 1 <= n - 1
        BY <1>6, <2>1, <3>1
      <4> QED BY <1>5, <1>6, <4>1
    <3>2. CASE T # {}
      <4>1. Cardinality({}) + 1 <= Cardinality({} \cup T)
        BY <1>3, <2>1, <3>2, MoreCounts
      <4>2. Cardinality({}) = 0 /\ {} \cup T = T
        BY FS_EmptySet
      <4>3. Cardinality(T) <= Cardinality(Sent) /\ Cardinality(T) \in Nat
        BY <1>3, <2>1, PartCounts
      <4> QED BY <1>5, <1>6, <4>1, <4>2, <4>3
    <3>3. CASE R # {}
      <4>1. Cardinality({}) + 1 <= Cardinality({} \cup R)
        BY <1>3, <2>1, <3>3, MoreCounts
      <4>2. Cardinality({}) = 0 /\ {} \cup R = Q
        BY <2>1, FS_EmptySet
      <4> QED BY <1>5, <1>6, <4>1, <4>2
    <3> QED BY <2>1, <3>1, <3>2, <3>3
  <2> QED BY <1>7, <1>8, <1>12, <2>1, <2>2
<1>13. ASSUME sdes, NEW T, MoreItems(p, z, T)
       PROVE  SourceWait(s, P, sdes, D) + 1 <= SourceWait(s, Q, more, E)
  <2>1. T # {} /\ T \subseteq Sent /\ D \cap T = {} /\ E = D \cup T /\ more
    BY <1>1, <1>2, <1>3, <1>13 DEF MoreItems, RoundInv, IsState
  <2>2. d + 1 <= e
    BY <1>3, <1>4, <1>5, <2>1, MoreCounts
  <2> QED BY <1>5, <1>7, <1>8, <1>13, <2>1, <2>2
<1>14. ASSUME sdes, NEW S, ItemsOver(p, z, S)
       PROVE  SourceWait(s, P, sdes, D) + 1 <= SourceWait(s, Q, more, E)
  <2>1. ~more /\ s \notin Q
    BY <1>2, <1>14 DEF ItemsOver
  <2> QED BY <1>5, <1>7, <1>8, <1>14, <2>1
<1>15. Outcome(p, z) /\ p.rb.processingsdes = sdes
  BY <1>1, <1>3 DEF Packs
<1> QED BY <1>10, <1>11, <1>12, <1>13, <1>14, <1>15 DEF Outcome

\* ... and it is a number, whatever the packet.
LEMMA SourceWaitNat ==
  ASSUME RoundInv, NEW s \in remote, NEW P, P \subseteq remote, NEW sdes \in BOOLEAN, NEW D, D \subseteq Sent
  PROVE  SourceWait(s, P, sdes, D) \in Nat
         /\ SourceWait(s, P, sdes, D) <= IF sdes THEN (Cardinality(remote) - 1) + Cardinality(D)
                                         ELSE 2 * (Cardinality(remote) - 1) + Cardinality(Sent)
<1>1. IsFiniteSet(remote) /\ IsFiniteSet(Sent)
  BY Finite DEF RoundInv
<1>2. PICK n \in Nat, k \in Nat, d \in Nat, c \in Nat, f \in Nat :
        /\ n = Cardinality(remote) /\ k = Cardinality(Sent) /\ d = Cardinality(D) /\ c = Cardinality(P)
        /\ f = Cardinality(P \ {s}) /\ n >= 1 /\ f <= n - 1
  BY <1>1, PartCounts, WithoutCounts
<1>3. s \notin P => c = f
  <2>1. s \notin P => P \ {s} = P
    OBVIOUS
  <2> QED BY <1>2, <2>1
<1> QED BY <1>2, <1>3 DEF SourceWait

LEMMA WaitInit ==
  ASSUME RTCPInit, RoundInv
  PROVE  WaitInv
<1>1. /\ unreported = [s \in remote |-> 0] /\ unsent = [t \in Items |-> 0]
      /\ rb.processingsdes = FALSE /\ rb.sdesprocessed = {}
  BY DEF RTCPInit
<1>2. Processed \subseteq remote /\ rb.processingsdes \in BOOLEAN
  BY <1>1 DEF Processed
<1>3. \A s \in remote : SourceWait(s, Processed, rb.processingsdes, rb.sdesprocessed) \in Nat
  BY <1>1, <1>2, SourceWaitNat
<1>4. \A s \in remote :
        unreported[s] \in Nat /\ unreported[s] <= SourceWait(s, Processed, rb.processingsdes, rb.sdesprocessed)
  BY <1>1, <1>3
<1> QED BY <1>1, <1>4 DEF WaitInv, ItemWait

LEMMA PacketKeepsWaits ==
  ASSUME RoundInv, WaitInv, BuildNextPacket
  PROVE  WaitInv'
<1>1. PICK p, z : Packs(p, z)
  BY PacketIs
<1>2. /\ remote' = remote /\ rb'.processingsdes = z.rb.processingsdes /\ rb'.sdesprocessed = z.rb.sdesprocessed
      /\ Processed' = Done(z) /\ Done(z) \subseteq remote /\ Due(p) \subseteq remote
      /\ p.rb = rb /\ z.rb.processingsdes \in BOOLEAN /\ z.rb.sdesprocessed \subseteq Sent
  BY <1>1, PacketLeaves DEF Done, Due, Packs, IsPass, IsState
<1>3. rb.processingsdes \in BOOLEAN /\ rb.sdesprocessed \subseteq Sent /\ Processed \subseteq remote
  BY DEF RoundInv, IsState, Processed
<1>4. ASSUME NEW s \in remote
      PROVE  /\ unreported'[s] \in Nat
             /\ unreported'[s] <= SourceWait(s, Done(z), z.rb.processingsdes, z.rb.sdesprocessed)
  <2>1. PICK w \in Nat : w = SourceWait(s, Done(z), z.rb.processingsdes, z.rb.sdesprocessed)
    BY <1>2, SourceWaitNat
  <2>2. PICK v \in Nat : v = SourceWait(s, Processed, rb.processingsdes, rb.sdesprocessed)
    BY <1>3, SourceWaitNat
  <2>3. unreported[s] \in Nat /\ unreported[s] <= v
    BY <2>2 DEF WaitInv
  <2>4. CASE unreported'[s] = 0
    BY <2>1, <2>4
  <2>5. CASE /\ s \in Due(p) /\ s \notin Range(z.b.blocks)
             /\ unreported'[s] \in Nat /\ unreported'[s] <= unreported[s] + 1
    <3>1. v + 1 <= w
      BY <1>1, <2>1, <2>2, <2>5, SourceWaitGrows
    <3> QED BY <2>1, <2>3, <2>5, <3>1
  <2> QED BY <1>1, <2>4, <2>5, WaitedIs
<1>5. ASSUME NEW t \in Items
      PROVE  unsent'[t] \in Nat /\ unsent'[t] <= ItemWait(z.rb.processingsdes, z.rb.sdesprocessed)
  <2>1. PICK u \in Nat : u = unsent[t] /\ u <= ItemWait(rb.processingsdes, rb.sdesprocessed)
    BY DEF WaitInv
  <2>2. IsFiniteSet(Sent)
    BY Finite
  <2>3. PICK d \in Nat, e \in Nat : d = Cardinality(rb.sdesprocessed) /\ e = Cardinality(z.rb.sdesprocessed)
    BY <1>2, <1>3, <2>2, PartCounts
  <2>4. CASE unsent'[t] = 0
    BY <2>3, <2>4 DEF ItemWait
  <2>5. CASE z.rb.processingsdes /\ unsent'[t] = unsent[t] + 1
    <3>1. CASE ~rb.processingsdes
      <4>1. u = 0
        BY <2>1, <3>1 DEF ItemWait
      <4> QED BY <2>1, <2>3, <2>5, <4>1 DEF ItemWait
    <3>2. CASE rb.processingsdes
      <4>1. PICK T : MoreItems(p, z, T)
        BY <1>1, <1>2, <2>5, <3>2 DEF Packs, Outcome, ItemsOver
      <4>2. /\ T # {} /\ T \subseteq Sent /\ rb.sdesprocessed \cap T = {}
            /\ z.rb.sdesprocessed = rb.sdesprocessed \cup T
        BY <1>2, <4>1 DEF MoreItems, RoundInv, IsState
      <4>3. d + 1 <= e
        BY <1>3, <2>2, <2>3, <4>2, MoreCounts
      <4>4. u <= d + 1
        BY <2>1, <2>3, <3>2 DEF ItemWait
      <4> QED BY <2>1, <2>3, <2>5, <4>3, <4>4 DEF ItemWait
    <3> QED BY <3>1, <3>2
  <2> QED BY <1>1, <2>4, <2>5, WaitedIs
<1> QED BY <1>2, <1>4, <1>5 DEF WaitInv, SourceWait

LEMMA WaitStep ==
  ASSUME RoundInv, WaitInv, [RTCPNext]_rtcpVars
  PROVE  WaitInv'
<1>1. ASSUME UNCHANGED <<remote, rb, unreported, unsent>>, Processed' = Processed
      PROVE  WaitInv'
  BY <1>1 DEF WaitInv, SourceWait
<1>2. UNCHANGED <<src, remote>> => Processed' = Processed
  BY DEF Processed
<1>3. CASE ApplicationBuilds
  BY <1>1, <1>2, <1>3 DEF ApplicationBuilds, session, delays
<1>4. CASE BuildNextPacket
  BY <1>4, PacketKeepsWaits
<1>5. CASE \E sr \in BOOLEAN, n \in Lengths : BuildBYEPacket(sr, n)
  BY <1>1, <1>2, <1>5 DEF BuildBYEPacket, session, delays
<1>6. CASE \E n \in Lengths : SendRTCPAPPPacket(n)
  BY <1>1, <1>2, <1>6 DEF SendRTCPAPPPacket, session, delays
<1>7. CASE OwnSenderChanges
  BY <1>1, <1>2, <1>7 DEF OwnSenderChanges, session, delays
<1>8. ASSUME NEW s \in remote, src' = Marked(s), UNCHANGED <<remote, rb, unreported, unsent>>
      PROVE  WaitInv'
  <2>1. Processed' = Processed
    BY <1>8, MarkedIs DEF Processed
  <2> QED BY <1>1, <1>8, <2>1
<1>9. ASSUME NEW s \in remote, SourceSends(s) PROVE WaitInv'
  BY <1>8, <1>9 DEF SourceSends, session, delays
<1>10. ASSUME NEW n, NumberArrives(n) PROVE WaitInv'
  <2>1. Observed \in remote /\ src' = Marked(Observed) /\ UNCHANGED <<remote, rb, unreported, unsent>>
    BY <1>10 DEF NumberArrives, session, delays
  <2> QED BY <1>8, <2>1
<1>11. CASE TakePacket
  BY <1>1, <1>2, <1>11 DEF TakePacket, session, delays
<1>12. CASE UNCHANGED rtcpVars
  BY <1>1, <1>2, <1>12 DEF rtcpVars, session, delays
<1> QED BY <1>3, <1>4, <1>5, <1>6, <1>7, <1>9, <1>10, <1>11, <1>12 DEF RTCPNext

LEMMA WaitsAreShort ==
  ASSUME RoundInv, WaitInv
  PROVE  NothingStarves
<1>1. rb.processingsdes \in BOOLEAN /\ rb.sdesprocessed \subseteq Sent /\ Processed \subseteq remote
      /\ (rb.processingsdes => rb.sdesprocessed # Sent) /\ IsFiniteSet(Sent) /\ IsFiniteSet(remote)
  BY Finite DEF RoundInv, IsState, Processed
<1>2. PICK d \in Nat, k \in Nat : /\ d = Cardinality(rb.sdesprocessed) /\ k = Cardinality(Sent)
                                  /\ d <= k /\ (rb.processingsdes => d < k)
  BY <1>1, PartCounts
<1>3. ASSUME NEW s \in remote
      PROVE  unreported[s] <= 2 * (Cardinality(remote) - 1) + Cardinality(Sent)
  <2>1. PICK n \in Nat : n = Cardinality(remote) /\ n >= 1
    BY <1>1, WithoutCounts
  <2>2. PICK w \in Nat : /\ w = SourceWait(s, Processed, rb.processingsdes, rb.sdesprocessed)
                         /\ w <= IF rb.processingsdes THEN (n - 1) + d ELSE 2 * (n - 1) + k
    BY <1>1, <1>2, <2>1, SourceWaitNat
  <2>3. unreported[s] \in Nat /\ unreported[s] <= w
    BY <2>2 DEF WaitInv
  <2> QED BY <1>1, <1>2, <2>1, <2>2, <2>3
<1>4. ASSUME NEW t \in Items
      PROVE  unsent[t] <= Cardinality(Sent)
  BY <1>2 DEF WaitInv, ItemWait
<1> QED BY <1>3, <1>4 DEF NothingStarves, ReportedInTime, SentInTime

\* Small packets share out fairly.  A source that sends before every packet is
\* reported before the other sources have come more than twice and the items
\* that are due once, and an item that is due is sent before the others have
\* been sent once more: each packet of a round, as ReportsFirst and SDESFirst
\* build it, takes at least one more source or item.
THEOREM NothingStarvesEver == RTCPSpec => []NothingStarves
<1>1. RTCPInit => RoundInv /\ WaitInv
  BY RoundInit, WaitInit
<1>2. RoundInv /\ WaitInv /\ [RTCPNext]_rtcpVars => (RoundInv /\ WaitInv)'
  BY RoundStep, WaitStep
<1>3. RoundInv /\ WaitInv => NothingStarves
  BY WaitsAreShort
<1> QED BY <1>1, <1>2, <1>3, PTL DEF RTCPSpec

=============================================================================

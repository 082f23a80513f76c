--------------------------- MODULE RTCPPacketBuilder ---------------------------
(***************************************************************************)
(* RTCPPacketBuilder: the RTCP packets that a session sends, as they go    *)
(* through the sources and through our own SDES items.  What does not fit  *)
(* into one packet goes into the next ones: a source that was reported and *)
(* an item that was sent are marked until the round is complete.           *)
(*                                                                         *)
(* The packets are built under the mutexes of the session, so each one is  *)
(* an action.  The compound builder is also open to the application, which *)
(* may call it in any order: user says who uses it in a behaviour.         *)
(* The sequence numbers of one source are followed; its packets may be     *)
(* lost, and come late or twice.                                           *)
(***************************************************************************)
EXTENDS RTCPCompoundPacketBuilder, RTPSourceStats, Functions

CONSTANTS
  Sources,      \* other participants, in the order of the table
  Memberships,  \* the sets of them that a behaviour may have
  Interval,     \* for each SDES item but the CNAME: sent every so many rounds
  ItemLength,   \* ... and its length
  CNameLength,
  Lengths,      \* lengths that the application gives to items, data and reasons
  MaxAdded,     \* bound on what the application adds to a packet
  FirstNumber,  \* numbers that the first RTP packet may have
  MaxNumber,    \* bound on the numbers
  MaxGap,       \* bound on the packets lost in a row, and one
  MaxLate,      \* bound on how late a packet may come
  MaxReceived, MaxWaiting,  \* bounds on the packets received, and on those that wait
  MaxBeside     \* ... and on those received beside packets of other sources

\* The order of FillInSDES.
ItemOrder == <<"NAME", "EMAIL", "LOC", "PHONE", "TOOL", "NOTE">>
Items == Range(ItemOrder)
Sent == {t \in Items : Interval[t] > 0}

\* A multiple of the intervals: sdesbuildcount need not be told apart beyond it.
Rounds == CHOOSE n \in 1 .. 100 : \A t \in Sent : n % Interval[t] = 0

ASSUME PacketBuilderAssumption ==
  /\ Sources \in Seq(Range(Sources)) /\ Memberships \subseteq SUBSET Range(Sources)
  /\ Interval \in [Items -> Int] /\ ItemLength \in [Items -> Nat] /\ CNameLength \in Nat
  /\ {MaxAdded, MaxNumber, MaxGap, MaxLate, MaxReceived, MaxWaiting, MaxBeside} \subseteq Nat
  /\ 2 * MaxGap < Cycle /\ 2 * MaxLate < Cycle
  /\ 2 * MaxNumber < ExtMod /\ 2 * MaxReceived < ExtMod
  /\ Lengths \subseteq Nat /\ FirstNumber \subseteq Cycle .. MaxNumber

\* RTP_MINPACKETSIZE: after a sender report and our CNAME there is room for any
\* one more block, item, or BYE with a reason; 600 bytes are enough for lengths
\* of one byte each.
OpeningBytes == HeaderBytes + SSRCBytes + SenderInfoBytes + HeaderBytes + SSRCBytes

ASSUME SizeAssumption ==
  /\ OpeningBytes + Aligned(ItemBytes + CNameLength + 1) + BlockBytes <= MaximumPacketSize
  /\ \A t \in Items :
       OpeningBytes + Aligned(ItemBytes + CNameLength + ItemBytes + ItemLength[t] + 1) <= MaximumPacketSize
  /\ \A n \in Lengths :
       OpeningBytes + Aligned(ItemBytes + CNameLength + 1) + BYEBytes(1, n) <= MaximumPacketSize

VARIABLES
  user,      \* who uses the compound builder: "session" or "application"
  b,         \* the compound builder
  remote,    \* the other participants
  issender,  \* is our own source a sender?
  src,       \* for each participant, see Source
  rb,        \* the RTCPPacketBuilder, see State
  failed,    \* ERR_RTP_RTCPPACKETBUILDER_PACKETFILLEDTOOSOON was returned
  stats, queue,  \* statistics and packets of the first source
  first, highest,  \* the first and the highest number received from it, not cut
  crossed,   \* a packet came after one of the next cycle
  misplaced, \* a packet got a number that is not its own
  renewed,   \* participants that sent a packet since their last block
  unreported, unsent  \* packets built while a source, or an item, waited

session == <<user, remote>>
numbers == <<stats, queue, first, highest, crossed, misplaced>>
reception == <<numbers, renewed>>
delays == <<unreported, unsent>>
rtcpVars == <<session, b, issender, src, rb, failed, reception, delays>>

\* data: INF_HasSentData; fresh: sent since the last packet was built.
Source == [data : BOOLEAN, fresh : BOOLEAN, processed : BOOLEAN]
State == [firstpacket : BOOLEAN, processingsdes : BOOLEAN, sdesbuildcount : 0 .. Rounds - 1,
          do : SUBSET Items, sdesprocessed : SUBSET Items]

Observed == Sources[1]
MaxWait == 2 * Len(Sources) + Cardinality(Items) + 1

RTCPTypeOK ==
  /\ user \in {"session", "application"}
  /\ remote \in Memberships
  /\ issender \in BOOLEAN /\ failed \in BOOLEAN
  /\ src \in [remote -> Source]
  /\ rb \in State
  /\ b.state \in {"new", "building", "built"} /\ b.isSR \in BOOLEAN
  /\ stats \in Stats /\ queue \in Seq(Ext)
  /\ {first, highest} \subseteq 0 .. MaxNumber /\ crossed \in BOOLEAN /\ misplaced \in BOOLEAN
  /\ renewed \subseteq remote
  /\ unreported \in [remote -> 0 .. MaxWait] /\ unsent \in [Items -> 0 .. MaxWait]

RTCPInit ==
  /\ user \in {"session", "application"}
  /\ b = NewBuilder
  /\ remote \in IF user = "session" THEN Memberships ELSE {{}} \cap Memberships
  /\ issender = FALSE
  /\ src = [s \in remote |-> [data |-> FALSE, fresh |-> FALSE, processed |-> FALSE]]
  /\ rb = [firstpacket |-> TRUE, processingsdes |-> FALSE, sdesbuildcount |-> 0,
           do |-> {}, sdesprocessed |-> {}]
  /\ failed = FALSE
  /\ stats = NewStats /\ queue = <<>> /\ first = 0 /\ highest = 0
  /\ crossed = FALSE /\ misplaced = FALSE /\ renewed = {}
  /\ unreported = [s \in remote |-> 0] /\ unsent = [t \in Items |-> 0]

-----------------------------------------------------------------------------
(* The application's own use of the compound builder. *)

Added == Len(b.blocks) + Total([i \in DOMAIN b.chunks |-> Len(b.chunks[i]) + 1])
           + Len(b.apps) + Len(b.byes)

ApplicationBuilds ==
  /\ user = "application"
  /\ \/ b' = InitBuild(NewBuilder)   \* a new one; this one may be given up
     \/ \E sr \in BOOLEAN : FitsReport(b, sr) /\ b' = StartReport(b, sr)
     \/ /\ Added < MaxAdded
        /\ \/ FitsReportBlock(b) /\ b' = AddReportBlock(b, Observed)
           \/ FitsSDESSource(b) /\ b' = AddSDESSource(b)
           \/ \E n \in Lengths :
                \/ FitsSDESItem(b, n) /\ b' = AddSDESItem(b, n)
                \/ FitsAPP(b, n) /\ b' = AddAPPPacket(b, n)
                \/ \E m \in 0 .. MaxPerPacket : FitsBYE(b, m, n) /\ b' = AddBYEPacket(b, m, n)
     \/ CanEnd(b) /\ b' = EndBuild(b)
  /\ UNCHANGED <<session, issender, src, rb, failed, reception, delays>>

-----------------------------------------------------------------------------
(* Building the next packet.  A pass p carries what it works on. *)

ShouldProcess(p, s) ==
  p.src[s].data /\ (p.rb.firstpacket \/ p.src[s].fresh)

Reported(p, s) ==
  [p EXCEPT !.b = AddReportBlock(@, s), !.src[s].processed = TRUE, !.added = @ + 1]

Visit(p, s, maxcount) ==
  IF s \notin remote \/ p.full \/ p.added >= maxcount \/ ~ShouldProcess(p, s) THEN p
  ELSE IF p.src[s].processed THEN [p EXCEPT !.skipped = @ + 1]
  ELSE IF FitsReportBlock(p.b) THEN Reported(p, s) ELSE [p EXCEPT !.full = TRUE]

FillInReportBlocks(p, maxcount) ==
  LET after[i \in 0 .. Len(Sources)] ==
        IF i = 0 THEN [p EXCEPT !.full = FALSE, !.added = 0, !.skipped = 0]
        ELSE Visit(after[i - 1], Sources[i], maxcount)
  IN after[Len(Sources)]

AtEndOfList(p) == \A s \in remote : ShouldProcess(p, s) => p.src[s].processed

ClearAllSourceFlags(p) == [p EXCEPT !.src = [s \in remote |-> [@[s] EXCEPT !.processed = FALSE]]]

OneItem(p, t) ==
  IF p.full \/ t \notin p.rb.do \/ t \in p.rb.sdesprocessed THEN p
  ELSE IF ~FitsSDESItem(p.b, ItemLength[t]) THEN [p EXCEPT !.full = TRUE]
  ELSE [p EXCEPT !.b = AddSDESItem(@, ItemLength[t]), !.items = @ \cup {t},
                 !.rb.sdesprocessed = @ \cup {t}]

FillInSDES(p) ==
  LET after[i \in 0 .. Len(ItemOrder)] ==
        IF i = 0 THEN [p EXCEPT !.full = FALSE, !.items = {}] ELSE OneItem(after[i - 1], ItemOrder[i])
  IN after[Len(ItemOrder)]

\* processedall; then the flags of the items are cleared.
EndSDES(p) == [p EXCEPT !.rb.processingsdes = FALSE, !.rb.sdesprocessed = {}]

TooSoon(p) == [p EXCEPT !.toosoon = TRUE]

\* Mutant: the flags of the sources stay when the round is complete.
ReportsFirstKeepingFlags(p) ==
  LET q == FillInReportBlocks(p, Cardinality(remote) + 1)
      n == (q.rb.sdesbuildcount + 1) % Rounds
      r == FillInSDES([q EXCEPT !.rb.processingsdes = TRUE, !.rb.sdesbuildcount = n,
                                !.rb.do = {t \in Sent : n % Interval[t] = 0}])
  IN CASE q.full /\ q.added = 0 -> TooSoon(q)
       [] q.full /\ q.added > 0 -> q
       [] ~q.full /\ r.full -> r
       [] OTHER -> EndSDES(r)

\* A round begins with the reports.  When all sources are done, the items that
\* are due follow, and then the sources that had been skipped.
ReportsFirst(p) ==
  LET q == FillInReportBlocks(p, Cardinality(remote) + 1)
      n == (q.rb.sdesbuildcount + 1) % Rounds
      r == FillInSDES([ClearAllSourceFlags(q) EXCEPT
                         !.rb.processingsdes = TRUE, !.rb.sdesbuildcount = n,
                         !.rb.do = {t \in Sent : n % Interval[t] = 0}])
  IN CASE q.full /\ q.added = 0 -> TooSoon(q)
       [] q.full /\ q.added > 0 -> q
       [] ~q.full /\ r.full -> r
       [] ~q.full /\ ~r.full /\ q.skipped > 0 -> FillInReportBlocks(EndSDES(r), q.skipped)
       [] OTHER -> EndSDES(r)

\* Items of an earlier packet are left: they go on, and then the sources.
SDESFirst(p) ==
  LET q == FillInSDES(p)
      r == FillInReportBlocks(EndSDES(q), Cardinality(remote) + 1)
  IN CASE q.items = {} -> TooSoon(q)
       [] q.items # {} /\ q.full -> q
       [] OTHER -> IF AtEndOfList(r) THEN ClearAllSourceFlags(r) ELSE r

\* Every packet of the session begins with a report and our CNAME.
FitsOpening(sr) ==
  LET c == StartReport(InitBuild(NewBuilder), sr)
  IN /\ FitsReport(InitBuild(NewBuilder), sr)
     /\ FitsSDESSource(c)
     /\ FitsSDESItem(AddSDESSource(c), CNameLength)

Opening(sr) ==
  AddSDESItem(AddSDESSource(StartReport(InitBuild(NewBuilder), sr)), CNameLength)

\* Mutant: the time of the packet is not kept.
SameBuildTime(f) == f

\* prevbuildtime: what was sent before now is sent no more since the last packet.
NewBuildTime(f) == [s \in remote |-> [f[s] EXCEPT !.fresh = FALSE]]

\* What became of the sources and of the items that waited.
Waited(p) ==
  /\ unreported' = [s \in remote |->
       IF ShouldProcess(p, s) /\ s \notin Range(p.b.blocks) /\ unreported[s] < MaxWait
       THEN unreported[s] + 1
       ELSE IF ShouldProcess(p, s) /\ s \notin Range(p.b.blocks) THEN MaxWait ELSE 0]
  /\ unsent' = [t \in Items |->
       IF t \in p.rb.do \ p.items /\ p.rb.processingsdes /\ t \notin p.rb.sdesprocessed
          /\ unsent[t] < MaxWait
       THEN unsent[t] + 1 ELSE 0]

BuildNextPacket ==
  /\ user = "session"
  /\ LET start == [b |-> Opening(issender), src |-> src, rb |-> rb, full |-> FALSE, added |-> 0,
                   skipped |-> 0, items |-> {}, toosoon |-> FALSE]
         p == IF rb.processingsdes THEN SDESFirst(start) ELSE ReportsFirst(start)
     IN IF ~FitsOpening(issender) \/ p.toosoon
        THEN failed' = TRUE /\ UNCHANGED <<b, src, rb, stats, renewed, delays>>
        ELSE /\ b' = EndBuild(p.b)
             /\ src' = NewBuildTime(p.src)
             /\ rb' = [p.rb EXCEPT !.firstpacket = FALSE]
             /\ stats' = IF Observed \in Range(p.b.blocks) THEN StartNewInterval(stats) ELSE stats
             /\ renewed' = renewed \ Range(p.b.blocks)
             /\ Waited(p)
             /\ UNCHANGED failed
  /\ UNCHANGED <<session, issender, queue, first, highest, crossed, misplaced>>

\* BuildBYEPacket, with a reason.
BuildBYEPacket(sr, reason) ==
  /\ user = "session"
  /\ sr => issender
  /\ IF FitsOpening(sr) /\ FitsBYE(Opening(sr), 1, reason)
     THEN b' = EndBuild(AddBYEPacket(Opening(sr), 1, reason)) /\ UNCHANGED failed
     ELSE failed' = TRUE /\ UNCHANGED b
  /\ UNCHANGED <<session, issender, src, rb, reception, delays>>

\* RTPSession::SendRTCPAPPPacket; data that does not fit is an error.
SendRTCPAPPPacket(data) ==
  /\ user = "session"
  /\ FitsOpening(FALSE) /\ FitsAPP(Opening(FALSE), data)
  /\ b' = EndBuild(AddAPPPacket(Opening(FALSE), data))
  /\ UNCHANGED <<session, issender, src, rb, failed, reception, delays>>

-----------------------------------------------------------------------------
(* The sources. *)

\* SentRTPPacket, or SenderTimeout: our own source.
OwnSenderChanges ==
  /\ user = "session"
  /\ issender' = ~issender
  /\ UNCHANGED <<session, b, src, rb, failed, reception, delays>>

Marked(s) == [src EXCEPT ![s].data = TRUE, ![s].fresh = TRUE]

\* RTP packets of another source ...
SourceSends(s) ==
  /\ s # Observed
  /\ src' = Marked(s) /\ renewed' = renewed \cup {s}
  /\ UNCHANGED <<session, b, issender, rb, failed, numbers, delays>>

\* The number that packet n should get: numbers run on from that of the first.
TrueNumber(n) == (FirstPacket(NewStats, first % Cycle).exthighseqnr + n - first) % ExtMod

\* ... and packet n of the first.
NumberArrives(n) ==
  /\ Observed \in remote
  /\ stats.packetsreceived < MaxReceived /\ Len(queue) < MaxWaiting
  /\ remote = {Observed} \/ stats.packetsreceived < MaxBeside
  /\ src' = Marked(Observed) /\ renewed' = renewed \cup {Observed}
  /\ stats' = ProcessPacket(stats, n % Cycle)
  /\ queue' = Insert(queue, Extended(stats, n % Cycle))
  /\ first' = IF stats.sentdata THEN first ELSE n
  /\ highest' = IF n > highest THEN n ELSE highest
  /\ crossed' = (crossed \/ n \div Cycle < highest \div Cycle)
  /\ misplaced' = (misplaced \/ (stats.sentdata /\ Extended(stats, n % Cycle) # TrueNumber(n)))
  /\ UNCHANGED <<session, b, issender, rb, failed, delays>>

Arriving ==
  IF ~stats.sentdata THEN FirstNumber
  ELSE {n \in highest - MaxLate .. highest + MaxGap : n \in 1 .. MaxNumber}

TakePacket ==
  /\ queue # <<>>
  /\ queue' = Tail(queue)
  /\ UNCHANGED <<session, b, issender, src, rb, failed, stats, first, highest, crossed,
                 misplaced, renewed, delays>>

RTCPNext ==
  \/ ApplicationBuilds
  \/ BuildNextPacket
  \/ /\ remote = {}   \* these do not look at the other participants
     /\ \/ \E sr \in BOOLEAN, n \in Lengths : BuildBYEPacket(sr, n)
        \/ \E n \in Lengths : SendRTCPAPPPacket(n)
  \/ remote # {Observed} /\ OwnSenderChanges
  \/ \E s \in remote : SourceSends(s)
  \/ \E n \in Arriving : NumberArrives(n)
  \/ TakePacket

RTCPSpec == RTCPInit /\ [][RTCPNext]_rtcpVars

-----------------------------------------------------------------------------
(* Properties. *)

\* What EndBuild lays out has the length that NeededBytes counted, no count
\* exceeds its field, and the other side takes the packet apart as it is.
ParsesBack ==
  b.state = "built" =>
    /\ Total([i \in DOMAIN b.packets |-> b.packets[i].bytes]) = Needed(b)
    /\ \A i \in DOMAIN b.packets : Len(b.packets[i].parts) <= MaxPerPacket
    /\ ParseData(Wire(b.packets), Needed(b))

\* A packet never exceeds the maximum.  (AddSDESSource does not check the
\* first source, so the application can exceed it; the session cannot, since
\* it adds its source right after the report.)
FitsMaximum ==
  user = "session" \/ b.chunks = <<>> => Needed(b) <= MaximumPacketSize

\* A maximum packet size that is large enough for a sender report, the CNAME
\* and any one block, item or BYE, as RTP_MINPACKETSIZE is, lets every packet
\* be built: neither sources nor items block the packets that follow.
NeverTooSoon == ~failed

\* As long as no packet comes after one of the next cycle, each gets its own
\* number, and what is reported as highest and as lost is so.
HighestIsTrue ==
  stats.sentdata /\ ~crossed =>
    /\ ~misplaced
    /\ stats.exthighseqnr = TrueNumber(highest)
    /\ PacketsLost(stats) = highest - first + 1 - stats.packetsreceived

\* A source that is due for a block has sent something since its last one: the
\* fraction of the first block that a packet has of it is defined and fits a
\* byte, however many sources share the packets.
HasNews(s) == src[s].data /\ (rb.firstpacket \/ src[s].fresh)

FractionIsByte ==
  \A s \in remote : HasNews(s) => s \in renewed /\ (s = Observed => FractionLost(stats) \in 0 .. 255)

\* Disagrees with the comment "if the packet isn't full and we skipped some
\* sources that we already got in a previous packet, we can add some of them
\* now" (rtcppacketbuilder.cpp 240-242): no source has two blocks in a packet.
\* The interval of the second block began with the first, so that its fraction
\* is 0 / 0.
ReportedOnce ==
  user = "session" => \A i, j \in DOMAIN b.blocks : b.blocks[i] = b.blocks[j] => i = j

\* The application gets the packets that wait in the order of their numbers,
\* and none twice.
QueueInOrder == \A i, j \in DOMAIN queue : i < j => queue[i] < queue[j]

\* A source that sends before every packet is reported in time, however little
\* fits into a packet: before its next turn every other source comes at most
\* twice, and the items that are due come once.
ReportedInTime ==
  \A s \in remote : unreported[s] <= 2 * (Cardinality(remote) - 1) + Cardinality(Sent)

\* An item that is due is sent with one of the next packets, and the round ends.
SentInTime == \A t \in Items : unsent[t] <= Cardinality(Sent)

\* What a packet takes in, it has room for, and the other side reads; and a
\* packet can always be built.
PacketsAreWhole == ParsesBack /\ FitsMaximum /\ NeverTooSoon

\* What is reported of a source, and handed to the application, is what came,
\* but for the second block that a packet may have of a source.
StatisticsAreTrue == HighestIsTrue /\ FractionIsByte /\ QueueInOrder

\* Small packets share out fairly: no source and no item is left out for long.
NothingStarves == ReportedInTime /\ SentInTime

=============================================================================

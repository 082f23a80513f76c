------------------------------- MODULE RTPSources -------------------------------
(***************************************************************************)
(* The source table of JRTPLIB (rtpsources.cpp, with RTPInternalSourceData *)
(* and RTPSourceData): who takes part in the session, from which addresses *)
(* each SSRC is accepted, who is validated, who sends, who has left, and   *)
(* when a silent source is forgotten.                                      *)
(*                                                                         *)
(* The table is one value, so that the parts of a compound RTCP packet can *)
(* be applied to it one after the other.  An address is a host and a port  *)
(* of it, Own (the NULL address) stands for this session.  Times are kept  *)
(* as ages, which stop growing when the delay they are compared with has   *)
(* passed; a time that was never set has that age.                         *)
(* Of an RTP packet the table needs its SSRC, its CSRCs, and whether its   *)
(* sequence number continues the packet before it; RTPSourceStats has      *)
(* the numbers themselves.                                                 *)
(***************************************************************************)
EXTENDS Integers, Sequences, FiniteSets, SequencesExt

CONSTANTS
  SSRC,             \* identifiers of participants
  OwnSSRC,          \* the one this session has first
  Address,          \* of other participants: records with a host and a port
  CName,            \* canonical names
  Probation,        \* "none", "discard" or "store"
  ProbationCount,   \* RTP_PROBATIONCOUNT
  MaxProbationPackets,  \* RTPINTERNALSOURCEDATA_MAXPROBATIONPACKETS
  MemberTimeout, SenderTimeoutDelay, ByeTimeout, NoteTimeoutDelay,  \* the delays, in ticks
  MaxQueue,         \* bound on the packets that wait in a source
  MaxPackets        \* bound on the packets received

ASSUME SourcesAssumption ==
  /\ OwnSSRC \in SSRC
  /\ \A a \in Address : a.host \notin {"own", "none"}
  /\ Probation \in {"none", "discard", "store"}
  /\ ProbationCount \in Nat \ {0}
  /\ MaxProbationPackets \in Nat \ {0}
  /\ {MemberTimeout, SenderTimeoutDelay, ByeTimeout, NoteTimeoutDelay} \subseteq Nat
  /\ MaxQueue \in Nat /\ MaxQueue >= MaxProbationPackets
  /\ MaxPackets \in Nat

VARIABLES
  table,     \* the RTPSources object, see Table
  sender,    \* who sent the packet that the last step processed (Unset: none)
  received   \* packets received so far

vars == <<table, sender, received>>

Own == [host |-> "own", port |-> "own"]
Unset == [host |-> "none", port |-> "none"]
NoName == "none"

Source == [rtp : Address \cup {Own, Unset}, rtcp : Address \cup {Own, Unset},
           own : BOOLEAN, csrc : BOOLEAN, validated : BOOLEAN, sender : BOOLEAN, bye : BOOLEAN,
           cname : CName \cup {NoName}, note : BOOLEAN, data : BOOLEAN,
           probation : 0 .. ProbationCount, queue : 0 .. MaxQueue,
           heard : 0 .. MemberTimeout + 1, heardRTP : 0 .. SenderTimeoutDelay + 1,
           byeAge : 0 .. ByeTimeout + 1, noteAge : 0 .. NoteTimeoutDelay + 1]

NewSource == [rtp |-> Unset, rtcp |-> Unset,
              own |-> FALSE, csrc |-> FALSE, validated |-> FALSE, sender |-> FALSE, bye |-> FALSE,
              cname |-> NoName, note |-> FALSE, data |-> FALSE,
              probation |-> 0, queue |-> 0,
              heard |-> MemberTimeout + 1, heardRTP |-> SenderTimeoutDelay + 1,
              byeAge |-> ByeTimeout + 1, noteAge |-> NoteTimeoutDelay + 1]

\* listed: keys of sourcelist; src: their data; total, senders, active: the
\* counters; announced: sources with OnNewSource and no OnRemoveSource yet;
\* owncollision: the flag of RTPSessionSources; ok: no error was returned.
Table == [listed : SUBSET SSRC, src : [SSRC -> Source],
          total : Nat, senders : Nat, active : Int,
          announced : SUBSET SSRC, owncollision : BOOLEAN, ok : BOOLEAN]

EmptyTable == [listed |-> {}, src |-> [s \in SSRC |-> NewSource],
               total |-> 0, senders |-> 0, active |-> 0,
               announced |-> {}, owncollision |-> FALSE, ok |-> TRUE]

IsActive(x) == x.validated /\ ~x.bye

TypeOK ==
  /\ table \in Table
  /\ \A s \in table.listed : ~table.src[s].validated => table.src[s].queue <= MaxProbationPackets
  /\ sender \in Address \cup {Own, Unset}
  /\ received \in 0 .. MaxPackets

-----------------------------------------------------------------------------
(* Helpers on a table. *)

Set(T, s, x) == [T EXCEPT !.src[s] = x]

\* The counters after source s became x.
Recounted(T, s, x) ==
  [Set(T, s, x) EXCEPT !.senders = @ + IF x.sender /\ ~T.src[s].sender THEN 1 ELSE 0,
                       !.active = @ + (IF IsActive(x) THEN 1 ELSE 0)
                                     - (IF IsActive(T.src[s]) THEN 1 ELSE 0)]

Obtain(T, s) ==
  IF s \in T.listed THEN T
  ELSE [T EXCEPT !.listed = @ \cup {s}, !.src[s] = NewSource, !.total = @ + 1]

Announced(T, s) == [T EXCEPT !.announced = @ \cup {s}]

\* CheckCollision, as a condition: does the source accept this sender?
Agrees(x, from, isrtp) ==
  LET addr == IF isrtp THEN x.rtp ELSE x.rtcp
      other == IF isrtp THEN x.rtcp ELSE x.rtp
  IN IF addr # Unset THEN addr = from
     ELSE other # Unset => other.host = from.host

\* ... and its effect: the first address is stored, a collision is reported.
WithAddress(x, from, isrtp) ==
  IF isrtp THEN [x EXCEPT !.rtp = IF @ = Unset THEN from ELSE @]
           ELSE [x EXCEPT !.rtcp = IF @ = Unset THEN from ELSE @]

Collided(T, s) == [T EXCEPT !.owncollision = @ \/ T.src[s].own]

-----------------------------------------------------------------------------
(* Our own source. *)

CreateOwnSSRC(T, s) ==
  Announced([Obtain(T, s) EXCEPT !.src[s] = [NewSource EXCEPT !.own = TRUE, !.validated = TRUE,
                                                               !.rtp = Own, !.rtcp = Own],
                                 !.active = @ + 1], s)

\* Mutant: the sender count is not lowered.
DeleteOwnKeepsSender(T, s) ==
  [T EXCEPT !.listed = @ \ {s}, !.src[s] = NewSource, !.total = @ - 1,
            !.active = @ - IF IsActive(T.src[s]) THEN 1 ELSE 0,
            !.announced = @ \ {s}]

DeleteOwnSSRC(T, s) ==
  [T EXCEPT !.listed = @ \ {s}, !.src[s] = NewSource, !.total = @ - 1,
            !.senders = @ - IF T.src[s].sender THEN 1 ELSE 0,
            !.active = @ - IF IsActive(T.src[s]) THEN 1 ELSE 0,
            !.announced = @ \ {s}]

SentRTPPacket(T, s) ==
  Recounted(T, s, [T.src[s] EXCEPT !.sender = TRUE, !.heard = 0, !.heardRTP = 0])

-----------------------------------------------------------------------------
(* RTP packets. *)

\* RTPSourceStats::ProcessPacket: the probation count and whether the packet
\* is accepted; one that does not continue the last starts probation again.
Applies(x) == ~x.validated /\ Probation # "none"
ProbationAfter(x, next) ==
  IF x.data \/ ~Applies(x) THEN x.probation
  ELSE IF x.probation > 0 /\ next THEN x.probation - 1 ELSE ProbationCount
Accepts(x, next) == x.data \/ ~Applies(x) \/ (x.probation = 1 /\ next)

\* RTPInternalSourceData::ProcessRTPPacket.  A source that is not validated
\* makes room in its queue; a packet it already has is dropped (dup).
Processed(x, next, dup) ==
  LET accept == Accepts(x, next)
      stats == [x EXCEPT !.heard = 0, !.probation = ProbationAfter(x, next),
                         !.data = @ \/ accept,
                         !.heardRTP = IF accept /\ ~x.own THEN 0 ELSE @]
      kept == accept \/ Probation = "store"
      validated == x.validated \/ accept
      room == IF ~validated /\ x.queue = MaxProbationPackets THEN x.queue - 1 ELSE x.queue
  IN IF ~kept THEN stats
     ELSE [stats EXCEPT !.validated = validated,
                        !.sender = IF validated /\ ~x.own THEN TRUE ELSE @,
                        !.queue = IF dup THEN room ELSE room + 1]

\* One contributing source of a packet.  One that is made here has no address
\* and was never heard of; one that exists is only marked, and not counted.
OneCSRC(T, s, from) ==
  IF s \notin T.listed
  THEN LET M == Obtain(T, s)
       IN Announced(Recounted(M, s, [M.src[s] EXCEPT !.csrc = TRUE, !.validated = TRUE]), s)
  ELSE IF Agrees(T.src[s], from, TRUE)
       THEN Set(T, s, [WithAddress(T.src[s], from, TRUE) EXCEPT !.csrc = TRUE, !.validated = TRUE])
       ELSE Collided(T, s)

ProcessRTPPacket(T, p, from) ==
  LET M == Obtain(T, p.ssrc)
      x == M.src[p.ssrc]
      created == p.ssrc \notin T.listed
      P == Recounted(M, p.ssrc, Processed(WithAddress(x, from, TRUE), p.next, p.dup))
      A == IF created THEN Announced(P, p.ssrc) ELSE P
  IN IF ~created /\ ~Agrees(x, from, TRUE) THEN Collided(T, p.ssrc)
     ELSE IF A.src[p.ssrc].validated
          THEN FoldLeft(LAMBDA U, c : OneCSRC(U, c, from), A, p.csrcs)
          ELSE A

-----------------------------------------------------------------------------
(* RTCP packets: the parts of a compound packet, as far as the table tells   *)
(* them apart.  A "report" stands for an SR, an RR, an SDES chunk without     *)
(* items and all items but the two below; APP and unknown packets change     *)
(* nothing.                                                                  *)

Kinds == {"report", "cname", "note", "illegal", "bye"}

\* What a part does to the source it names.
Heard(x, q) ==
  CASE q.kind = "bye" -> [x EXCEPT !.heard = 0, !.bye = TRUE, !.byeAge = 0]
    [] q.kind = "note" -> [x EXCEPT !.heard = 0, !.note = TRUE, !.noteAge = 0]
    [] q.kind = "cname" -> [x EXCEPT !.heard = 0, !.validated = @ \/ x.cname = NoName,
                                     !.cname = IF @ = NoName THEN q.name ELSE @]
    [] OTHER -> [x EXCEPT !.heard = 0]

\* Mutant: whether the source was known is not looked at, nor the collision.
FromAnybody(T, q, from) ==
  LET M == Obtain(T, q.ssrc)
  IN Announced(Recounted(M, q.ssrc, Heard(WithAddress(M.src[q.ssrc], from, FALSE), q)), q.ssrc)

\* GetRTCPSourceData and the change it is called for.
ProcessInfo(T, q, from) ==
  LET M == Obtain(T, q.ssrc)
      x == M.src[q.ssrc]
  IN IF ~Agrees(x, from, FALSE) THEN Collided(T, q.ssrc)
     ELSE Announced(Recounted(M, q.ssrc, Heard(WithAddress(x, from, FALSE), q)), q.ssrc)

\* A BYE for our own SSRC is ignored, but for the address it may set.
ProcessBYE(T, q, from) ==
  IF q.ssrc \in T.listed /\ T.src[q.ssrc].own
  THEN IF Agrees(T.src[q.ssrc], from, FALSE) THEN T ELSE Collided(T, q.ssrc)
  ELSE ProcessInfo(T, q, from)

\* An item of an unknown type is an error, and the rest is not looked at.
OnePart(T, q, from) ==
  CASE ~T.ok -> T
    [] T.ok /\ q.kind = "illegal" -> [T EXCEPT !.ok = FALSE]
    [] T.ok /\ q.kind = "bye" -> ProcessBYE(T, q, from)
    [] OTHER -> ProcessInfo(T, q, from)

ProcessRTCPCompoundPacket(T, parts, from) ==
  FoldLeft(LAMBDA U, q : OnePart(U, q, from), T, parts)

-----------------------------------------------------------------------------
(* Time. *)

\* Mutant: a source that was never validated is not removed.
SilentIfValid(T) ==
  {s \in T.listed : ~T.src[s].own /\ T.src[s].validated /\ T.src[s].heard > MemberTimeout}

\* Sources that a member timeout, or one after a BYE, removes.
Silent(T) == {s \in T.listed : ~T.src[s].own /\ T.src[s].heard > MemberTimeout}
Gone(T) == {s \in T.listed : ~T.src[s].own /\ T.src[s].bye /\ T.src[s].byeAge > ByeTimeout}

Counted(T) ==
  [T EXCEPT !.total = Cardinality(T.listed),
            !.senders = Cardinality({s \in T.listed : T.src[s].sender}),
            !.active = Cardinality({s \in T.listed : IsActive(T.src[s])})]

Without(T, S) ==
  [T EXCEPT !.listed = @ \ S, !.announced = @ \ S,
            !.src = [s \in SSRC |-> IF s \in S THEN NewSource ELSE T.src[s]]]

Timeout(T) == Counted(Without(T, Silent(T)))
BYETimeout(T) == Counted(Without(T, Gone(T)))

SenderTimeout(T) ==
  Counted([T EXCEPT !.src = [s \in SSRC |->
             [T.src[s] EXCEPT !.sender = @ /\ T.src[s].heardRTP <= SenderTimeoutDelay]]])

NoteTimeout(T) ==
  Counted([T EXCEPT !.src = [s \in SSRC |->
             [T.src[s] EXCEPT !.note = @ /\ T.src[s].noteAge <= NoteTimeoutDelay]]])

\* MultipleTimeouts, which the session calls, looks at each source once; the
\* four above are what SweepIsFourTimeouts compares it with.
MultipleTimeouts(T) ==
  LET kept == T.listed \ (Gone(T) \cup Silent(T))
      Aged(x) == [x EXCEPT !.sender = @ /\ x.heardRTP <= SenderTimeoutDelay,
                           !.note = @ /\ x.noteAge <= NoteTimeoutDelay]
  IN Counted([T EXCEPT !.listed = kept, !.announced = @ \cap kept,
                       !.src = [s \in SSRC |-> IF s \in kept THEN Aged(T.src[s]) ELSE NewSource]])

Older(age, delay) == IF age <= delay THEN age + 1 ELSE age

Aged(T) ==
  [T EXCEPT !.src = [s \in SSRC |->
     IF s \in T.listed
     THEN [T.src[s] EXCEPT !.heard = Older(@, MemberTimeout),
                           !.heardRTP = Older(@, SenderTimeoutDelay),
                           !.byeAge = Older(@, ByeTimeout), !.noteAge = Older(@, NoteTimeoutDelay)]
     ELSE T.src[s]]]

-----------------------------------------------------------------------------
(* The state machine. *)

Sender == Address \cup {Own}
OwnSources == {s \in table.listed : table.src[s].own}

RTPPacket == [ssrc : SSRC, csrcs : {<<>>} \cup {<<c>> : c \in SSRC},
              next : BOOLEAN, dup : BOOLEAN]
Part == [kind : Kinds \ {"cname"}, ssrc : SSRC, name : {NoName}]
          \cup [kind : {"cname"}, ssrc : SSRC, name : CName]
\* A valid compound packet begins with a report.
Compound == UNION {{<<r>>} \cup {<<r, p>> : p \in Part} :
                   r \in [kind : {"report"}, ssrc : SSRC, name : {NoName}]}

Init ==
  /\ table = CreateOwnSSRC(EmptyTable, OwnSSRC)
  /\ sender = Unset
  /\ received = 0

\* ProcessRawPacket: each packet begins with the collision flag cleared.
Fresh == [table EXCEPT !.owncollision = FALSE, !.ok = TRUE]

Receive(from) ==
  /\ received < MaxPackets
  /\ received' = received + 1
  /\ sender' = from

NoPacket == sender' = Unset /\ UNCHANGED received

\* A packet of ours that comes back has sender Own; sequence numbers count as
\* the ones it had, and only what waits in a queue can be there twice.
ReceiveRTP(p, from) ==
  /\ Receive(from)
  /\ p.dup => table.src[p.ssrc].queue > 0
  /\ table' = ProcessRTPPacket(Fresh, p, from)
  /\ table'.src[p.ssrc].queue <= MaxQueue

ReceiveRTCP(parts, from) ==
  /\ Receive(from)
  /\ table' = ProcessRTCPCompoundPacket(Fresh, parts, from)

\* RTPSession::SendPacket.
SendRTPPacket ==
  /\ \E s \in OwnSources : table' = SentRTPPacket(table, s)
  /\ NoPacket

\* The session answers a collision with a new SSRC that is not in the table.
ChangeSSRC ==
  /\ table.owncollision
  /\ \E s \in OwnSources, new \in SSRC \ table.listed :
       table' = CreateOwnSSRC(DeleteOwnSSRC([table EXCEPT !.owncollision = FALSE], s), new)
  /\ NoPacket

\* GetNextPacket: the application takes a packet of a validated source.
TakePacket ==
  /\ \E s \in table.listed :
       /\ table.src[s].validated /\ table.src[s].queue > 0
       /\ table' = [table EXCEPT !.src[s].queue = @ - 1]
  /\ NoPacket

Sweep == table' = MultipleTimeouts(table) /\ NoPacket
Tick == table' = Aged(table) /\ NoPacket

Next ==
  \/ \E p \in RTPPacket, from \in Sender : ReceiveRTP(p, from)
  \/ \E parts \in Compound, from \in Sender : ReceiveRTCP(parts, from)
  \/ SendRTPPacket \/ ChangeSSRC \/ TakePacket \/ Sweep \/ Tick

\* ProcessPolledData sweeps at each poll, and time passes.
Fairness == WF_vars(Sweep) /\ WF_vars(Tick)

Spec == Init /\ [][Next]_vars /\ Fairness

-----------------------------------------------------------------------------
(* Properties. *)

\* The counters that are kept by increments agree with the table between the
\* sweeps that count it again: RTCP intervals are computed from them.
CountsAgree ==
  /\ table.total = Cardinality(table.listed)
  /\ table.senders = Cardinality({s \in table.listed : table.src[s].sender})

\* The active count is never too high.  It may be too low until the next
\* sweep: a known source that a CSRC list validates is not counted.
ActiveNeverOver ==
  table.active <= Cardinality({s \in table.listed : IsActive(table.src[s])})

\* OnNewSource was called for exactly the sources of the table, and
\* OnRemoveSource for those that left it, whichever packet or sweep it was.
AnnouncedAreListed == table.announced = table.listed

\* The RTP and the RTCP address of a source are of one host: nobody can join
\* his RTCP to another's RTP under one SSRC, in either order.
SameHost ==
  \A s \in table.listed :
    LET x == table.src[s]
    IN x.rtp # Unset /\ x.rtcp # Unset => x.rtp.host = x.rtcp.host

\* Nothing that is received or swept removes, ends or renames our own source.
OwnStaysActive ==
  \E s \in table.listed :
    /\ OwnSources = {s}
    /\ IsActive(table.src[s])
    /\ table.src[s].rtp = Own /\ table.src[s].rtcp = Own

\* The single sweep is the four timeouts, one after the other.
SweepIsFourTimeouts ==
  MultipleTimeouts(table) = SenderTimeout(Timeout(BYETimeout(NoteTimeout(table))))

\* What the table counts, and what it announced, is what it lists, whether
\* sources leave one by one or in the single sweep.
SourcesCounted == CountsAgree /\ ActiveNeverOver /\ AnnouncedAreListed /\ SweepIsFourTimeouts

\* Who a source is, whether it is valid and whether it has left changes only
\* by packets from the host its addresses are known to be of, so that nobody
\* ends, validates or names another participant.
OnlyOwnHostChanges ==
  [][\A s \in table.listed \cap table'.listed :
       LET x == table.src[s]
           y == table'.src[s]
       IN <<x.rtp, x.rtcp, x.validated, x.csrc, x.cname, x.bye, x.data, x.probation>>
            # <<y.rtp, y.rtcp, y.validated, y.csrc, y.cname, y.bye, y.data, y.probation>>
          => \A a \in {x.rtp, x.rtcp} \ {Unset} : a.host = sender'.host]_vars

\* A source belongs to its host, and our own to nobody else.
SourcesKeepHost == []SameHost /\ []OwnStaysActive /\ OnlyOwnHostChanges

\* When no more packets arrive, only our own source remains, whatever the
\* others were: validated, on probation, sending, or gone.
SilentSourceRemoved == <>[](\A s \in table.listed : table.src[s].own)

=============================================================================

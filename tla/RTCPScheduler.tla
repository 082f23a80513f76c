----------------------------- MODULE RTCPScheduler -----------------------------
(***************************************************************************)
(* RTCPScheduler: when the next RTCP packet of a session is due.           *)
(*                                                                         *)
(* Times are ticks relative to the current time: "next" is the time to     *)
(* nextrtcptime, 0 once it is reached, and "since" the time that has       *)
(* passed since prevrtcptime, which need not be told apart beyond Horizon. *)
(* The interval is the larger of a minimum and the number of members times *)
(* the time that one packet takes of the bandwidth (Share), times a random *)
(* factor: the operators return the set of the states that may follow.     *)
(***************************************************************************)
EXTENDS Integers

CONSTANTS
  MaxMembers,    \* bound on the active members, and on the BYEs heard while ours waits
  MinInterval,   \* the minimum interval
  Share,         \* the time one packet takes of the bandwidth
  FewMembers,    \* members up to which a BYE may be sent at once (50)
  ImmediateBYE   \* RequestImmediateBYE

ASSUME SchedulerAssumption ==
  /\ {MaxMembers, MinInterval, Share, FewMembers} \subseteq Nat \ {0}
  /\ ImmediateBYE \in BOOLEAN

Larger(a, b) == IF a > b THEN a ELSE b

\* The random factor lies between 0.5 / 1.21828 and 1.5 / 1.21828.
Randomised(td) == (td * 41 + 99) \div 100 .. (td * 123) \div 100

\* CalculateDeterministicInterval; the minimum is halved until RTCP was sent.
Deterministic(s, members) ==
  Larger(IF s.hassentrtcp THEN MinInterval ELSE MinInterval \div 2, members * Share)

Intervals(s, members) == Randomised(Deterministic(s, members))

\* CalculateBYETransmissionInterval.
BYEIntervals(s) ==
  IF s.sendbyenow THEN {0} ELSE Randomised(Larger(MinInterval \div 2, s.byemembers * Share))

Horizon == (Larger(MinInterval, MaxMembers * Share) * 123) \div 100

Scheduler ==
  [firstcall : BOOLEAN, hassentrtcp : BOOLEAN, byescheduled : BOOLEAN, sendbyenow : BOOLEAN,
   next : 0 .. Horizon, since : 0 .. Horizon, pmembers : 0 .. MaxMembers, byemembers : 1 .. MaxMembers]

\* Reset.
NewScheduler ==
  [firstcall |-> TRUE, hassentrtcp |-> FALSE, byescheduled |-> FALSE, sendbyenow |-> FALSE,
   next |-> 0, since |-> 0, pmembers |-> 1, byemembers |-> 1]

\* A tick of the clock.
Ticked(s) == [s EXCEPT !.next = IF @ > 0 THEN @ - 1 ELSE 0, !.since = IF @ < Horizon THEN @ + 1 ELSE @]

Scheduled(s, members) == {[s EXCEPT !.next = t] : t \in Intervals(s, members)}

\* What both GetTransmissionDelay and IsTime do first.
FirstCall(s, members) ==
  Scheduled([s EXCEPT !.firstcall = FALSE, !.since = 0, !.pmembers = members], members)

GetTransmissionDelay(s, members) == IF s.firstcall THEN FirstCall(s, members) ELSE {s}

No(s) == [istime |-> FALSE, sched |-> s]
Yes(s) == [istime |-> TRUE, sched |-> s]

\* Mutant: prevrtcptime moves although it is not time.
MovesPrevious(s, members) ==
  CASE s.firstcall -> {No(t) : t \in FirstCall(s, members)}
    [] ~s.firstcall /\ s.next > 0 -> {No(s)}
    [] OTHER ->
         UNION {IF t <= s.since
                THEN {Yes(u) : u \in Scheduled([s EXCEPT !.byescheduled = FALSE, !.since = 0,
                                                         !.pmembers = members], members)}
                ELSE {No([s EXCEPT !.next = t - s.since, !.since = 0, !.pmembers = members])} :
                t \in IF s.byescheduled THEN BYEIntervals(s) ELSE Intervals(s, members)}

\* Timer reconsideration: when nextrtcptime is reached, the interval is
\* computed again, for the present members, and may turn out to be longer.
IsTime(s, members) ==
  CASE s.firstcall -> {No(t) : t \in FirstCall(s, members)}
    [] ~s.firstcall /\ s.next > 0 -> {No(s)}
    [] OTHER ->
         UNION {IF t <= s.since
                THEN {Yes(u) : u \in Scheduled([s EXCEPT !.byescheduled = FALSE, !.since = 0,
                                                         !.pmembers = members], members)}
                ELSE {No([s EXCEPT !.next = t - s.since, !.pmembers = members])} :
                t \in IF s.byescheduled THEN BYEIntervals(s) ELSE Intervals(s, members)}

\* ActiveMemberDecrease and PerformReverseReconsideration.
ActiveMemberDecrease(s, members) ==
  IF members >= s.pmembers \/ s.firstcall THEN s
  ELSE [s EXCEPT !.next = (members * @) \div s.pmembers, !.since = (members * @) \div s.pmembers,
                 !.pmembers = members]

\* A compound packet with a BYE counts while our own BYE waits; the others
\* only have their size averaged.
AnalyseIncomingBYE(s) ==
  IF s.byescheduled THEN [s EXCEPT !.byemembers = @ + 1] ELSE s

AnalyseOutgoing(s) == [s EXCEPT !.hassentrtcp = TRUE]

ScheduleBYEPacket(s, members) ==
  IF s.byescheduled THEN {s}
  ELSE LET b == [s EXCEPT !.firstcall = FALSE, !.byescheduled = TRUE, !.byemembers = 1, !.since = 0,
                          !.pmembers = IF s.firstcall THEN members ELSE @,
                          !.sendbyenow = ImmediateBYE /\ members < FewMembers]
       IN {[b EXCEPT !.next = t] : t \in BYEIntervals(b)}

=============================================================================

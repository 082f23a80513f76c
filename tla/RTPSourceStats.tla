---------------------------- MODULE RTPSourceStats -----------------------------
(***************************************************************************)
(* RTPSourceStats: what is known of a source from the sequence numbers of  *)
(* its RTP packets, and the queue of the packets that wait to be taken.    *)
(*                                                                         *)
(* A packet carries the low Cycle part of its number.  The high part is a  *)
(* count of cycles that this end keeps, and numbers are kept modulo        *)
(* ExtMod, as unsigned integers are.                                       *)
(***************************************************************************)
EXTENDS Integers, Sequences

CONSTANTS
  Cycle,  \* 2^16
  ExtMod   \* 2^32

ASSUME SequenceAssumption ==
  /\ {Cycle, ExtMod} \subseteq Nat \ {0, 1}
  /\ ExtMod % Cycle = 0 /\ ExtMod > 2 * Cycle

Ext == 0 .. ExtMod - 1
Stats == [sentdata : BOOLEAN, numcycles : Ext, baseseqnr : Ext, exthighseqnr : Ext,
          savedextseqnr : Ext, packetsreceived : Ext, numnewpackets : Ext]

NewStats == [sentdata |-> FALSE, numcycles |-> 0, baseseqnr |-> 0, exthighseqnr |-> 0,
             savedextseqnr |-> 0, packetsreceived |-> 0, numnewpackets |-> 0]

Plus(a, b) == (a + b) % ExtMod

\* ACCEPTPACKETCODE: the base is the number before the first one.
FirstPacket(x, seq) ==
  LET base == IF seq = 0 THEN Cycle - 1 ELSE seq - 1
  IN [sentdata |-> TRUE, numcycles |-> IF seq = 0 THEN Cycle ELSE x.numcycles,
      baseseqnr |-> base, exthighseqnr |-> base + 1, savedextseqnr |-> base,
      packetsreceived |-> Plus(x.packetsreceived, 1), numnewpackets |-> Plus(x.numnewpackets, 1)]

\* Mutant: a wrap that would be detected at any distance.
WrapsAlways(x, seq) == seq < x.exthighseqnr % Cycle

\* Is a smaller number one of the next cycle?  It is if it is nearer that way.
Wraps(x, seq) ==
  LET max == x.exthighseqnr % Cycle
  IN seq < max /\ (seq - max) % Cycle < (max - seq) % Cycle

\* The number that the packet gets.
Extended(x, seq) ==
  CASE ~x.sentdata -> IF seq = 0 THEN Cycle ELSE seq
    [] x.sentdata /\ Wraps(x, seq) -> Plus(x.numcycles, Cycle + seq)
    [] OTHER -> Plus(x.numcycles, seq)

\* ProcessPacket of a source that is not on probation.
ProcessPacket(x, seq) ==
  IF ~x.sentdata THEN FirstPacket(x, seq)
  ELSE [x EXCEPT !.packetsreceived = Plus(@, 1), !.numnewpackets = Plus(@, 1),
                 !.numcycles = IF Wraps(x, seq) THEN Plus(@, Cycle) ELSE @,
                 !.exthighseqnr = IF seq >= @ % Cycle \/ Wraps(x, seq) THEN Extended(x, seq) ELSE @]

StartNewInterval(x) == [x EXCEPT !.numnewpackets = 0, !.savedextseqnr = x.exthighseqnr]

\* FillInReportBlocks: packets expected and received since the last report ...
Expected(x) == (x.exthighseqnr - x.savedextseqnr) % ExtMod

\* ... and the fraction lost, in 256ths; 0 / 0, when nothing was expected nor
\* received, is not a number, and what it converts to is not defined: 256.
FractionLost(x) ==
  CASE Expected(x) < x.numnewpackets -> 0
    [] Expected(x) = 0 /\ x.numnewpackets = 0 -> 256
    [] OTHER -> ((Expected(x) - x.numnewpackets) * 256) \div Expected(x)

\* The cumulative number of packets lost, a signed number of ExtMod.
PacketsLost(x) ==
  LET diff == (x.exthighseqnr - x.baseseqnr - x.packetsreceived) % ExtMod
  IN IF 2 * diff >= ExtMod THEN diff - ExtMod ELSE diff

-----------------------------------------------------------------------------
(* The queue of RTPInternalSourceData. *)

\* ProcessRTPPacket: from the end, after the first smaller number; a packet
\* with a number that is there is dropped.
Insert(queue, n) ==
  LET smaller == {i \in DOMAIN queue : queue[i] < n}
      after == IF smaller = {} THEN 0 ELSE CHOOSE i \in smaller : \A j \in smaller : j <= i
  IN IF \E i \in DOMAIN queue : queue[i] = n THEN queue
     ELSE SubSeq(queue, 1, after) \o <<n>> \o SubSeq(queue, after + 1, Len(queue))

=============================================================================

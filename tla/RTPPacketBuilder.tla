---------------------------- MODULE RTPPacketBuilder ----------------------------
(***************************************************************************)
(* RTPPacketBuilder (rtppacketbuilder.cpp): the SSRC, sequence number and  *)
(* timestamp of what a session sends, the CSRCs and defaults that were     *)
(* set, and the timestamp that goes with the wall clock in reports.  A     *)
(* builder is a record; each function of it is an operator from the old to *)
(* the new builder.  Of the packet count only "none yet" matters.          *)
(***************************************************************************)
EXTENDS RTPPacket

CONSTANTS
  Cycle    \* the values of a sequence number, and of a timestamp

\* GetRandom32 and GetRandom16 are the choices of the action that calls it.
CreateNewSSRC(b, ssrc, timestamp, seqnr) ==
  [b EXCEPT !.ssrc = ssrc, !.timestamp = timestamp, !.seqnr = seqnr, !.numpackets = FALSE]

NewBuilder ==
  [init |-> FALSE, max |-> 0, csrcs |-> <<>>, payloadtype |-> None, mark |-> None,
   timestampinc |-> None, ssrc |-> 0, timestamp |-> 0, seqnr |-> 0, numpackets |-> FALSE,
   lasttimestamp |-> None]

InitBuilder(max, ssrc, timestamp, seqnr) ==
  CreateNewSSRC([NewBuilder EXCEPT !.init = TRUE, !.max = max], ssrc, timestamp, seqnr)

\* What a destroyed builder still holds, Init overwrites or the first packet.
DestroyBuilder == NewBuilder

\* A full list and a CSRC that is there are errors.
AddCSRC(b, c) ==
  IF Len(b.csrcs) >= MaxCSRCs \/ \E i \in DOMAIN b.csrcs : b.csrcs[i] = c THEN b
  ELSE [b EXCEPT !.csrcs = Append(@, c)]

\* The last CSRC takes the place of the deleted one.
DeleteCSRC(b, c) ==
  LET n == Len(b.csrcs)
  IN IF \A i \in DOMAIN b.csrcs : b.csrcs[i] # c THEN b
     ELSE [b EXCEPT !.csrcs = [i \in 1 .. n - 1 |-> IF @[i] = c THEN @[n] ELSE @[i]]]

ClearCSRCList(b) == [b EXCEPT !.csrcs = <<>>]

SetDefaultPayloadType(b, pt) == [b EXCEPT !.payloadtype = pt]
SetDefaultMark(b, m) == [b EXCEPT !.mark = m]
SetDefaultTimestampIncrement(b, inc) == [b EXCEPT !.timestampinc = inc]

IncrementTimestamp(b, inc) == [b EXCEPT !.timestamp = (@ + inc) % Cycle]
IncrementTimestampDefault(b) ==
  IF b.timestampinc = None THEN b ELSE IncrementTimestamp(b, b.timestampinc)

\* BuildPacket without arguments of its own needs all three defaults.
DefaultsSet(b) == None \notin {b.payloadtype, b.mark, b.timestampinc}

Fits(b, pt, words, len) == Buildable(pt, b.csrcs, words, len, b.max)

ThePacket(b, pt, mark, words, len) ==
  BuildPacket(pt, mark, b.csrcs, words, len, b.seqnr, b.timestamp, b.ssrc)

\* PrivateBuildPacket, once the packet is built; lastrtptimestamp and
\* prevrtptimestamp are always the same.
AfterPacket(b, inc) ==
  [b EXCEPT !.lasttimestamp = IF ~b.numpackets \/ b.timestamp # @ THEN b.timestamp ELSE @,
            !.numpackets = TRUE,
            !.timestamp = (@ + inc) % Cycle,
            !.seqnr = (@ + 1) % Cycle]

=============================================================================

------------------------------- MODULE RTPPacket -------------------------------
(***************************************************************************)
(* RTPPacket (rtppacket.cpp): building an RTP packet, and the checks that  *)
(* decide whether received bytes are one.  Lengths are in 32-bit words;    *)
(* the payload is its length.  A packet on the wire is a record of its     *)
(* header fields, of what follows them, and of the length of it all.       *)
(***************************************************************************)
EXTENDS Naturals, Sequences

CONSTANTS
  None,        \* what is not set or not given
  MaxCSRCs,    \* RTP_MAXCSRCS
  WordCycle    \* the values of the 16-bit length of a header extension

HeaderLength == 3
LooksLikeRTCP == {72, 73}   \* SR and RR without their high bit

\* The words of a header extension; its length is cut to 16 bits.
ExtensionWords(words) == IF words = None THEN 0 ELSE words % WordCycle
ExtensionLength(words) == IF words = None THEN 0 ELSE 1 + ExtensionWords(words)

PacketLength(csrcs, words, len) == HeaderLength + Len(csrcs) + ExtensionLength(words) + len

\* What BuildPacket does not refuse.
Buildable(pt, csrcs, words, len, max) ==
  /\ Len(csrcs) <= MaxCSRCs
  /\ pt <= 127 /\ pt \notin LooksLikeRTCP
  /\ PacketLength(csrcs, words, len) <= max

BuildPacket(pt, mark, csrcs, words, len, seqnr, timestamp, ssrc) ==
  [version |-> 2, padding |-> FALSE, pad |-> 0, extension |-> words # None,
   extwords |-> ExtensionWords(words), marker |-> mark, payloadtype |-> pt, csrcs |-> csrcs,
   sequencenumber |-> seqnr, timestamp |-> timestamp, ssrc |-> ssrc,
   length |-> PacketLength(csrcs, words, len)]

\* payloadlength, negative when the headers promise more than there is.
PayloadOffset(p) ==
  HeaderLength + Len(p.csrcs) + (IF p.extension THEN 1 + p.extwords ELSE 0)

\* ParseRawPacket: is it a valid packet?
Parses(p) ==
  /\ p.length >= HeaderLength
  /\ p.version = 2
  /\ ~(p.marker /\ p.payloadtype \in LooksLikeRTCP)
  /\ p.padding => p.pad > 0
  /\ p.length >= PayloadOffset(p) + p.pad

PayloadLength(p) == p.length - PayloadOffset(p) - p.pad

=============================================================================

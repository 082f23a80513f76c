----------------------- MODULE RTCPCompoundPacketBuilder -----------------------
(***************************************************************************)
(* RTCPCompoundPacketBuilder: report blocks, SDES chunks, APP and BYE      *)
(* packets are collected while there is room for them, and EndBuild lays   *)
(* them out; RTCPCompoundPacket, on the other side, takes them apart.      *)
(*                                                                         *)
(* The builder counts the bytes that it will need, the layout uses them:   *)
(* the two are written separately in the code, and here.  Of an SSRC only  *)
(* the name counts, of an item or of data the length.  A call that the     *)
(* code refuses has no effect: the conditions are the operators Fits...    *)
(***************************************************************************)
EXTENDS Integers, Sequences, FiniteSets

CONSTANTS
  MaximumPacketSize,  \* maximumpacketsize, in bytes
  MaxPerPacket        \* what the 5 bits of a count can say: 31

ASSUME BuilderAssumption ==
  /\ MaximumPacketSize \in Nat
  /\ MaxPerPacket \in Nat \ {0}

\* Sizes: RTCPCommonHeader, an SSRC, RTCPSenderReport, RTCPReceiverReport, RTCPSDESHeader.
HeaderBytes == 4
SSRCBytes == 4
SenderInfoBytes == 20
BlockBytes == 24
ItemBytes == 2

Aligned(n) == 4 * ((n + 3) \div 4)
Total(sizes) ==
  LET sum[i \in 0 .. Len(sizes)] == IF i = 0 THEN 0 ELSE sum[i - 1] + sizes[i]
  IN sum[Len(sizes)]

\* Packets for n blocks, or chunks.
PacketsFor(n) == n \div MaxPerPacket + IF n % MaxPerPacket = 0 THEN 0 ELSE 1

\* headerlength: of the report, 0 before it is started; blocks: SSRCs of the
\* blocks; chunks: for each SDES source the lengths of its items; apps and
\* byes: the packets.  packets is what EndBuild has made.
NewBuilder == [state |-> "new", isSR |-> FALSE, headerlength |-> 0,
               blocks |-> <<>>, chunks |-> <<>>, apps |-> <<>>, byes |-> <<>>, packets |-> <<>>]

InitBuild(b) == [b EXCEPT !.state = "building"]

-----------------------------------------------------------------------------
(* Counting. *)

\* Report::NeededBytesWithExtraReportBlock, for n blocks with the extra one.
BlocksNeed(b, n) ==
  n * BlockBytes + PacketsFor(n) * (HeaderBytes + SSRCBytes) + IF b.isSR THEN SenderInfoBytes ELSE 0

ReportNeeds(b) ==
  CASE Len(b.blocks) > 0 -> BlocksNeed(b, Len(b.blocks))
    [] Len(b.blocks) = 0 /\ b.headerlength > 0 -> HeaderBytes + b.headerlength
    [] OTHER -> 0

\* Mutant: the zero byte that ends the items of a chunk is not counted.
ChunkNeedsNoEnd(items) == Aligned(Total(items)) + SSRCBytes

\* SDESSource::NeededBytes.
ChunkNeeds(items) == Aligned(Total(items) + 1) + SSRCBytes

\* SDES::NeededBytes for these chunks.
SDESNeeds(chunks) ==
  Total([i \in DOMAIN chunks |-> ChunkNeeds(chunks[i])]) + PacketsFor(Len(chunks)) * HeaderBytes

\* SDES::NeededBytesWithExtraSource: 0 for the first one.
ExtraSourceNeeds(chunks) ==
  IF chunks = <<>> THEN 0 ELSE SDESNeeds(Append(chunks, <<>>))

WithItem(chunks, bytes) == [chunks EXCEPT ![Len(chunks)] = Append(@, bytes)]

\* All that the compound packet needs, but for the report, or for the SDES.
OtherThanReport(b) == Total(b.byes) + Total(b.apps) + SDESNeeds(b.chunks)
OtherThanSDES(b) == Total(b.byes) + Total(b.apps) + ReportNeeds(b)
Needed(b) == Total(b.byes) + Total(b.apps) + SDESNeeds(b.chunks) + ReportNeeds(b)

-----------------------------------------------------------------------------
(* Adding. *)

\* sizeleft is unsigned: it is huge when there is too much already.
FitsReport(b, sr) ==
  /\ b.state = "building" /\ b.headerlength = 0
  /\ \/ OtherThanReport(b) > MaximumPacketSize
     \/ HeaderBytes + SSRCBytes + (IF sr THEN SenderInfoBytes ELSE 0)
          <= MaximumPacketSize - OtherThanReport(b)

\* StartSenderReport, StartReceiverReport.
StartReport(b, sr) ==
  [b EXCEPT !.isSR = sr, !.headerlength = SSRCBytes + IF sr THEN SenderInfoBytes ELSE 0]

FitsReportBlock(b) ==
  /\ b.state = "building" /\ b.headerlength > 0
  /\ OtherThanReport(b) + BlocksNeed(b, Len(b.blocks) + 1) <= MaximumPacketSize

AddReportBlock(b, s) == [b EXCEPT !.blocks = Append(@, s)]

FitsSDESSource(b) ==
  /\ b.state = "building"
  /\ OtherThanSDES(b) + ExtraSourceNeeds(b.chunks) <= MaximumPacketSize

AddSDESSource(b) == [b EXCEPT !.chunks = Append(@, <<>>)]

\* AddSDESNormalItem; for a private item the length is that of its prefix, of
\* its value and of one byte.
FitsSDESItem(b, length) ==
  /\ b.state = "building" /\ b.chunks # <<>>
  /\ OtherThanSDES(b) + SDESNeeds(WithItem(b.chunks, ItemBytes + length)) <= MaximumPacketSize

AddSDESItem(b, length) == [b EXCEPT !.chunks = WithItem(@, ItemBytes + length)]

BYEBytes(ssrcs, reason) ==
  HeaderBytes + SSRCBytes * ssrcs + IF reason = 0 THEN 0 ELSE Aligned(1 + reason)

FitsBYE(b, ssrcs, reason) ==
  /\ b.state = "building" /\ ssrcs <= MaxPerPacket
  /\ Needed(b) + BYEBytes(ssrcs, reason) <= MaximumPacketSize

AddBYEPacket(b, ssrcs, reason) == [b EXCEPT !.byes = Append(@, BYEBytes(ssrcs, reason))]

APPBytes(data) == HeaderBytes + 2 * SSRCBytes + data

FitsAPP(b, data) ==
  /\ b.state = "building" /\ data % 4 = 0
  /\ Needed(b) + APPBytes(data) <= MaximumPacketSize

AddAPPPacket(b, data) == [b EXCEPT !.apps = Append(@, APPBytes(data))]

-----------------------------------------------------------------------------
(* Laying out. *)

Packet(type, parts, bytes) == [type |-> type, parts |-> parts, bytes |-> bytes]

\* The i-th part of at most MaxPerPacket elements.
Part(s, i) ==
  SubSeq(s, (i - 1) * MaxPerPacket + 1, IF i * MaxPerPacket < Len(s) THEN i * MaxPerPacket ELSE Len(s))

\* The first report is the one that was started, the others are receiver reports.
Reports(b) ==
  [i \in 1 .. IF b.blocks = <<>> THEN 1 ELSE (Len(b.blocks) + MaxPerPacket - 1) \div MaxPerPacket |->
     Packet(IF i = 1 /\ b.isSR THEN "SR" ELSE "RR", Part(b.blocks, i),
            HeaderBytes + (IF i = 1 THEN b.headerlength ELSE SSRCBytes)
              + BlockBytes * Len(Part(b.blocks, i)))]

\* Each item, a zero byte, and zeroes up to a multiple of four in the packet.
ChunkEnd(offset, items) == Aligned(offset + SSRCBytes + Total(items) + 1)
SDESEnd(chunks) ==
  LET end[i \in 0 .. Len(chunks)] == IF i = 0 THEN HeaderBytes ELSE ChunkEnd(end[i - 1], chunks[i])
  IN end[Len(chunks)]

SDESPackets(b) ==
  [i \in 1 .. (Len(b.chunks) + MaxPerPacket - 1) \div MaxPerPacket |->
     Packet("SDES", Part(b.chunks, i), SDESEnd(Part(b.chunks, i)))]

Data(type, sizes) == [i \in DOMAIN sizes |-> Packet(type, <<>>, sizes[i])]

\* EndBuild: needs a report.
CanEnd(b) == b.state = "building" /\ b.headerlength > 0

EndBuild(b) ==
  [b EXCEPT !.state = "built",
            !.packets = Reports(b) \o SDESPackets(b) \o Data("APP", b.apps) \o Data("BYE", b.byes)]

-----------------------------------------------------------------------------
(* Taking apart. *)

\* Where each packet starts, and the length its header tells, in words less one.
Wire(packets) ==
  [i \in DOMAIN packets |->
     [packet |-> packets[i],
      at |-> Total([j \in 1 .. i - 1 |-> packets[j].bytes]),
      length |-> packets[i].bytes \div 4 - 1]]

\* RTCPSRPacket, RTCPRRPacket and RTCPSDESPacket know the format of their bytes.
KnownFormat(p, bytes) ==
  CASE p.type = "SR" -> bytes = HeaderBytes + SSRCBytes + SenderInfoBytes + BlockBytes * Len(p.parts)
    [] p.type = "RR" -> bytes = HeaderBytes + SSRCBytes + BlockBytes * Len(p.parts)
    [] p.type = "SDES" -> bytes = HeaderBytes + Total([i \in DOMAIN p.parts |-> ChunkNeeds(p.parts[i])])
    [] OTHER -> bytes >= HeaderBytes

\* The loop of ParseData: behind the packet that begins here, if it is one.
WordsAt(wire, i) == 4 * (wire[i].length + 1)
PastPacket(wire, len, at) ==
  LET here == {i \in DOMAIN wire : /\ wire[i].at = at /\ at + WordsAt(wire, i) <= len
                                   /\ KnownFormat(wire[i].packet, WordsAt(wire, i))}
  IN CASE len - at < HeaderBytes -> at
       [] len - at >= HeaderBytes /\ here = {} -> len + 1
       [] OTHER -> at + WordsAt(wire, CHOOSE i \in here : TRUE)

\* RTCPCompoundPacket::ParseData of len bytes: a report comes first, each
\* header tells where the next one is, and no byte is left.
ParseData(wire, len) ==
  LET after[n \in 0 .. Len(wire)] == IF n = 0 THEN 0 ELSE PastPacket(wire, len, after[n - 1])
  IN /\ len >= HeaderBytes
     /\ wire[1].packet.type \in {"SR", "RR"}
     /\ after[Len(wire)] = len

=============================================================================

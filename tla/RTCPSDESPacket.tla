----------------------------- MODULE RTCPSDESPacket -----------------------------
(***************************************************************************)
(* An SDES packet, byte by byte: how its chunks are laid out, when its     *)
(* format is known, and how a reader goes from chunk to chunk and from     *)
(* item to item.  bytes is what follows the common header, without the     *)
(* padding of a last packet; count is the header's count of chunks.        *)
(*                                                                         *)
(* A chunk is an SSRC of four bytes, items of a type, a length and as many *)
(* bytes, a zero, and zeroes up to a multiple of four.  The value of a     *)
(* private item is a length, a prefix of that length, and the rest.        *)
(***************************************************************************)
EXTENDS Integers, Sequences, SequencesExt

SSRCLength == 4
ItemHeader == 2
Types == <<"CNAME", "NAME", "EMAIL", "PHONE", "LOC", "TOOL", "NOTE", "PRIV">>

ToWord(n) == 4 * ((n + 3) \div 4)
Zeros(n) == [i \in 1 .. n |-> 0]

\* EndBuild of the sender: items are records of an id and data.
LaidItems(items) ==
  FlattenSeq([i \in DOMAIN items |-> <<items[i].id, Len(items[i].data)>> \o items[i].data])
LaidChunk(c) ==
  LET used == Zeros(3) \o <<c.ssrc>> \o LaidItems(c.items) \o <<0>>
  IN used \o Zeros(ToWord(Len(used)) - Len(used))
Laid(chunks) ==
  [count |-> Len(chunks), bytes |-> FlattenSeq([i \in DOMAIN chunks |-> LaidChunk(chunks[i])])]

-----------------------------------------------------------------------------
Byte(p, at) == p.bytes[at + 1]
NextItem(p, at) == at + ItemHeader + Byte(p, at + 1)

\* Is there an item here, and does it end within the packet?
HasItem(p, at) ==
  /\ at < Len(p.bytes) /\ Byte(p, at) # 0
  /\ at + ItemHeader <= Len(p.bytes) /\ NextItem(p, at) <= Len(p.bytes)

\* Where the loops over the items of a chunk are, step by step, until they end.
PastItem(p, at) == IF HasItem(p, at) THEN NextItem(p, at) ELSE at
ItemAt(p, first) ==
  LET At[k \in 0 .. Len(p.bytes)] == IF k = 0 THEN first ELSE PastItem(p, At[k - 1])
  IN At
ItemsEnd(p, first) == ItemAt(p, first)[Len(p.bytes)]

\* GotoFirstItem and GotoNextItem in the chunk whose items begin here.
ItemsFrom(p, first) ==
  LET At == ItemAt(p, first)
      n == CHOOSE k \in DOMAIN At : ~HasItem(p, At[k]) /\ \A j \in 0 .. k - 1 : HasItem(p, At[j])
  IN [k \in 1 .. n |-> At[k - 1]]

\* GotoNextChunk: behind the items, a zero byte and its padding.
NextChunk(p, chunk) == ToWord(ItemsEnd(p, chunk + SSRCLength) + 1)

\* GotoFirstChunk and GotoNextChunk, count times; then the end.
ChunkAt(p) ==
  LET At[n \in 0 .. p.count] == IF n = 0 THEN 0 ELSE NextChunk(p, At[n - 1])
  IN At
ChunksOf(p) == [n \in 1 .. p.count |-> ChunkAt(p)[n - 1]]

\* The constructor: every item ends within the packet, and count chunks fill it.
KnownFormat(p) ==
  LET Total == Len(p.bytes)
      Whole(at) ==
        LET end == ItemsEnd(p, at + SSRCLength)
        IN /\ at + 2 * SSRCLength <= Total
           /\ end < Total /\ Byte(p, end) = 0 /\ ToWord(end + 1) <= Total
  IN (\A n \in DOMAIN ChunksOf(p) : Whole(ChunksOf(p)[n])) /\ ChunkAt(p)[p.count] = Total

ChunkSSRC(p, chunk) == Byte(p, chunk + 3)
ItemType(p, at) == IF Byte(p, at) \in DOMAIN Types THEN Types[Byte(p, at)] ELSE "Unknown"
ItemData(p, at) == SubSeq(p.bytes, at + ItemHeader + 1, NextItem(p, at))

\* GetPRIVPrefixLength and its neighbours: nothing, if the item is too short.
HasPrefix(p, at) ==
  LET data == ItemData(p, at) IN data # <<>> /\ Head(data) <= Len(data) - 1
PRIVPrefix(p, at) ==
  LET data == ItemData(p, at) IN IF HasPrefix(p, at) THEN SubSeq(data, 2, Head(data) + 1) ELSE <<>>
PRIVValue(p, at) ==
  LET data == ItemData(p, at) IN IF HasPrefix(p, at) THEN SubSeq(data, Head(data) + 2, Len(data)) ELSE <<>>

\* An item as it is heard; "none" stands for a chunk without items.
SDESItem(ssrcs) ==
  [ssrc : ssrcs, type : ToSet(Types) \cup {"none", "Unknown"}, data : Seq(Nat), prefix : Seq(Nat), value : Seq(Nat)]

\* A chunk without items tells of its source.
Nothing(ssrc) == [ssrc |-> ssrc, type |-> "none", data |-> <<>>, prefix |-> <<>>, value |-> <<>>]

HeardChunk(p, chunk) ==
  LET items == ItemsFrom(p, chunk + SSRCLength)
  IN IF items = <<>> THEN <<Nothing(ChunkSSRC(p, chunk))>>
     ELSE [i \in DOMAIN items |->
             [ssrc |-> ChunkSSRC(p, chunk), type |-> ItemType(p, items[i]), data |-> ItemData(p, items[i]),
              prefix |-> PRIVPrefix(p, items[i]), value |-> PRIVValue(p, items[i])]]

\* What ProcessRTCPCompoundPacket hears, item by item.
Delivered(p) ==
  IF KnownFormat(p) THEN FlattenSeq([i \in DOMAIN ChunksOf(p) |-> HeardChunk(p, ChunksOf(p)[i])]) ELSE <<>>

-----------------------------------------------------------------------------
\* What a sender lays out, and what it says with it, item by item: a private
\* item says nothing if its prefix does not fit.
SDESChunk(ssrcs) == [ssrc : ssrcs, items : Seq([id : Nat \ {0}, data : Seq(Nat)])]

Says(ssrc, item) ==
  LET d == item.data
      whole == Len(d) > 0 /\ d[1] < Len(d)
  IN [ssrc |-> ssrc, type |-> IF item.id \in DOMAIN Types THEN Types[item.id] ELSE "Unknown", data |-> d,
      prefix |-> IF whole THEN SubSeq(d, 2, d[1] + 1) ELSE <<>>,
      value |-> IF whole THEN SubSeq(d, d[1] + 2, Len(d)) ELSE <<>>]

SaidChunk(c) ==
  IF c.items = <<>> THEN <<Nothing(c.ssrc)>> ELSE [i \in DOMAIN c.items |-> Says(c.ssrc, c.items[i])]
Said(chunks) == FlattenSeq([i \in DOMAIN chunks |-> SaidChunk(chunks[i])])

=============================================================================

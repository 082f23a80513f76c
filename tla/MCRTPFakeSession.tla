--------------------------- MODULE MCRTPFakeSession ---------------------------
(* A small instance of RTPFakeSession: hosts 1 and 3, and SSRCs 1 and 3, are *)
(* in one bucket of the tables.                                              *)
EXTENDS RTPFakeSession

MCDestination == {<<1, 5>>, <<2, 5>>, <<3, 5>>}

Received(s, padding, pad, extension, len) ==
  [version |-> 2, padding |-> padding, pad |-> pad, extension |-> extension, extwords |-> 1,
   marker |-> FALSE, payloadtype |-> 8, csrcs |-> <<>>, sequencenumber |-> 0, timestamp |-> 0,
   ssrc |-> s, length |-> len]

\* Packets of each source, one that is too short for its extension, one that
\* is padded with nothing, and one that is our own.
MCDatagram ==
  {[from |-> <<3, 5>>, packet |-> Received(s, FALSE, 0, FALSE, 4)] : s \in SSRC}
    \cup {[from |-> <<3, 5>>, packet |-> Received(2, FALSE, 0, TRUE, 4)],
          [from |-> <<3, 5>>, packet |-> Received(2, TRUE, 0, FALSE, 4)],
          [from |-> <<1, 5>>, packet |-> Received(1, FALSE, 0, FALSE, 4)]}

From3(chunks) == [from |-> <<3, 5>>, packet |-> Laid(chunks), chunks |-> chunks]
Chunk(s, items) == [ssrc |-> s, items |-> items]
Item(id, data) == [id |-> id, data |-> data]

\* Items of every kind, empty ones, ones that end at a multiple of four,
\* private ones that are too short for their prefix, and one of no known type.
MCItems ==
  {<<Item(8, <<1, 1, 2>>)>>,
   <<Item(8, <<0, 1>>), Item(8, <<2, 1, 2>>)>>,
   <<Item(1, <<>>), Item(1, <<2, 2>>), Item(8, <<1, 1>>)>>,
   <<Item(1, <<1>>), Item(4, <<1>>), Item(4, <<>>), Item(8, <<4, 1>>)>>}

MCSDESDatagram ==
  {From3(<<Chunk(1, items)>>) : items \in MCItems}
    \cup {From3(<<Chunk(1, items), Chunk(3, <<Item(1, <<3>>)>>)>>) :
            items \in {<<>>, <<Item(4, <<1, 1>>)>>, <<Item(7, <<1>>), Item(9, <<1>>), Item(7, <<2>>)>>}}
    \cup {[From3(<<Chunk(1, <<Item(1, <<4>>)>>)>>) EXCEPT !.packet.bytes = @ \o <<0, 0, 0, 0>>, !.chunks = <<>>],
          [From3(<<Chunk(1, <<Item(1, <<4>>)>>)>>) EXCEPT !.packet.bytes[6] = 3, !.chunks = <<>>],
          [From3(<<Chunk(1, <<Item(1, <<4>>)>>)>>) EXCEPT !.packet.count = 2, !.chunks = <<>>]}
=============================================================================

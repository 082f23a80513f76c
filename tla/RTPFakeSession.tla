----------------------------- MODULE RTPFakeSession -----------------------------
(***************************************************************************)
(* An RTPSession without a poll thread over an RTPFakeTransmitter: how a   *)
(* session is created, fails to be created and is destroyed; what it       *)
(* builds and sends; what it reads when the application calls Poll; how    *)
(* the application walks through the sources.  One thread does it all, but *)
(* the callback of the transmitter runs inside a send.                     *)
(*                                                                         *)
(* A behaviour exercises one part of the interface, so that the parts'     *)
(* states add up and do not multiply; creating and destroying belong to    *)
(* all of them.  Collisions, the RTCP timer and BYE packets are in         *)
(* RTPSession; counts, owners and time-outs of sources in RTPSources.      *)
(***************************************************************************)
EXTENDS RTPFakeTransmitter, RTPPacketBuilder, RTCPSDESPacket, RTCPSDESInfo

CONSTANTS
  Destination,   \* hosts and ports that packets are sent to
  Host,          \* hosts that packets come from
  SSRC,          \* identifiers of other participants
  OwnSSRC,       \* what GetRandom32 returns for our own
  Datagram,      \* what is received: an address, and an RTP packet
  SDESDatagram,  \* or an address, an SDES packet, and the chunks it was made from
  MaxTold,       \* bound: items told by a source
  CSRC, PayloadType, Length, Words, Increment, \* arguments of the application
  MinSize,       \* RTP_MINPACKETSIZE
  Size,          \* sizes that the application asks for
  Portbase,
  Parts

ASSUME FakeSessionAssumption ==
  /\ {MaxCSRCs, WordCycle, Cycle, HashSize, MinSize, MaxTransSize} \subseteq Nat \ {0}
  /\ Destination \subseteq Nat \X Nat /\ Host \subseteq Nat /\ 0 \notin Port
  /\ SSRC \subseteq Nat /\ OwnSSRC \in Nat \ SSRC
  /\ None \notin SSRC \cup {OwnSSRC} \cup Host
  /\ None \notin Destination /\ WILD \notin Destination /\ WILD # None
  /\ None \notin Datagram /\ None \notin SDESDatagram
  /\ \A d \in Datagram \cup SDESDatagram : d.from \in Host \X Port
  /\ \A d \in Datagram : d.packet.ssrc \in SSRC
  /\ \A d \in SDESDatagram :
       \/ d.chunks \in Seq(SDESChunk(SSRC)) /\ d.packet = Laid(d.chunks)
       \/ d.chunks = <<>> /\ ~KnownFormat(d.packet)
  /\ PayloadType \subseteq 0 .. 255 /\ Length \subseteq Nat /\ Words \subseteq Nat
  /\ Size \subseteq Nat
  /\ MinSize <= MaxTransSize
  /\ Parts \subseteq {"destinations", "filter", "sources", "packets", "sdes"}

VARIABLES
  part,         \* the part of the interface that is used
  created,
  deletes,      \* deletetransmitter: the session made its transmitter
  maxpacksize,
  builder,      \* packetbuilder
  rtcpmax,      \* maxpacketsize of rtcpbuilder, 0 when it is not initialised
  sources,      \* the source table: has each source data?
  localIPs,
  infos,        \* what is known of the sources
  told,         \* what each source has told of itself since it is known
  privwalk,     \* the application's walk through private items
  at,           \* what the session is doing
  out,          \* the RTP packet that is being sent
  asked,        \* the length of its payload
  before,       \* the number of the packet before it
  walk          \* the application's walk through the sources

sizes == <<maxpacksize, rtcpmax>>
session == <<created, deletes, maxpacksize, rtcpmax>>
sent == <<out, asked, before>>
described == <<infos, told, privwalk>>
vars == <<part, transVars, session, builder, sources, localIPs, described, at, sent, walk>>

NoWalk == [kind |-> "no", seen |-> <<>>, expected |-> {}]
NoPrivWalk == [ssrc |-> None, seen |-> <<>>, expected |-> {}, ended |-> FALSE]
NoInfos == [s \in {} |-> NewInfo]

TypeOK ==
  /\ part \in Parts /\ created \in BOOLEAN /\ deletes \in BOOLEAN
  /\ builder.init \in BOOLEAN /\ Len(builder.csrcs) <= MaxCSRCs
  /\ {builder.timestamp, builder.seqnr} \subseteq 0 .. Cycle - 1
  /\ DOMAIN sources.elements \subseteq SSRC \cup {OwnSSRC}
  /\ D!Elements(destinations) \subseteq Destination
  /\ H!Elements(acceptignore.keys) \subseteq Host
  /\ DOMAIN acceptignore.elements = H!Elements(acceptignore.keys)
  /\ \A h \in DOMAIN acceptignore.elements : acceptignore.elements[h] \in PortInfo
  /\ sending \in {"no", "rtp", "rtcp"} /\ disturbed \in {"no", "moved", "cleared"}
  /\ calling => sending # "no"
  /\ at \in {"idle", "sending", "process", "sweep", "report"}
  /\ walk.kind \in {"no", "all", "data", "end"}

Init ==
  /\ TransInit
  /\ part \in Parts /\ created = FALSE /\ deletes = FALSE
  /\ maxpacksize = 0 /\ rtcpmax = 0 /\ builder = NewBuilder
  /\ sources = H!EmptyMap /\ localIPs = <<>>
  /\ infos = NoInfos /\ told = [s \in SSRC |-> <<>>] /\ privwalk = NoPrivWalk
  /\ at = "idle" /\ out = None /\ asked = 0 /\ before = None /\ walk = NoWalk

-----------------------------------------------------------------------------
(* Creating and destroying. *)

\* Stages of InternalCreate that can fail, in their order.
Stage == {"builder", "own", "mode", "cname", "rtcp", "parameters"}

WithOwn(table) == H!MapAddElement(H!MapGotoElement(table, OwnSSRC), OwnSSRC, FALSE)

\* Mutant: the RTCP builder is forgotten when the parameters are refused.
UndoneButRTCP(stage, size) ==
  /\ created' = FALSE
  /\ builder' = IF stage = "builder" THEN builder
                ELSE DestroyBuilder
  /\ sources' = IF stage \in {"builder", "own"} THEN sources ELSE H!MapClear(WithOwn(sources))
  /\ rtcpmax' = IF stage = "parameters" THEN size ELSE 0

\* InternalCreate fails in a stage and takes back what it did before.
Undone(stage, size) ==
  /\ created' = FALSE
  /\ builder' = IF stage = "builder" THEN builder
                ELSE DestroyBuilder
  /\ sources' = IF stage \in {"builder", "own"} THEN sources ELSE H!MapClear(WithOwn(sources))
  /\ rtcpmax' = 0

\* What the stages ask for, beyond memory and names.
CanBeInitialised == ~builder.init /\ ~H!MapHasElement(sources, OwnSSRC) /\ rtcpmax = 0

Initialised(size) ==
  /\ CanBeInitialised
  /\ created' = TRUE
  /\ builder' = InitBuilder(size, OwnSSRC, 0, 0)
  /\ sources' = WithOwn(sources)
  /\ rtcpmax' = size

\* What the DNS says of the host's name.
Names == IF part = "filter" THEN {<<>>, <<1>>, <<1, Loopback>>} ELSE {<<1>>}

\* Create with a transmitter of the session's own: a new one, which refuses
\* a size that is too big, and is deleted when anything fails later.
CreateOwn(size) ==
  /\ at = "idle" /\ ~created /\ ~trans /\ size >= MinSize
  /\ maxpacksize' = size
  /\ \/ /\ deletes' = TRUE
        /\ TransCreate(size)
        /\ \E dns \in Names : localIPs' = LocalIPs(<<>>, dns)
        /\ Initialised(size)
     \/ /\ deletes' = TRUE
        /\ size <= MaxTransSize
        /\ \E stage \in Stage : Undone(stage, size)
        /\ UNCHANGED <<transVars, localIPs>>
     \/ /\ size > MaxTransSize
        /\ UNCHANGED <<deletes, created, builder, sources, rtcpmax, transVars, localIPs>>
  /\ UNCHANGED <<part, described, at, sent, walk>>

\* Create with a transmitter of the application, which takes the session's
\* size and receive mode and outlives it, also if the rest fails.
CreateWith(size) ==
  /\ at = "idle" /\ ~created /\ trans /\ size >= MinSize
  /\ maxpacksize' = size
  /\ transsize' = SizeOf(size)
  /\ \/ deletes' = FALSE /\ size <= MaxTransSize /\ Initialised(size) /\ SetReceiveMode("all")
     \/ /\ deletes' = FALSE /\ size <= MaxTransSize
        /\ \E stage \in Stage :
             /\ Undone(stage, size)
             /\ IF stage \in {"builder", "own", "mode"} THEN UNCHANGED <<receivemode, acceptignore>>
                ELSE SetReceiveMode("all")
     \/ /\ size > MaxTransSize
        /\ UNCHANGED <<deletes, created, builder, sources, rtcpmax, receivemode, acceptignore>>
  /\ UNCHANGED <<part, at, sent, walk, trans, destinations, rawpackets, currentdata, loop, localIPs, described>>

\* The application makes a transmitter itself.
MakeTransmitter ==
  /\ at = "idle" /\ ~created
  /\ TransCreate(MinSize)
  /\ localIPs' = LocalIPs(<<1>>, <<>>)
  /\ UNCHANGED <<part, session, builder, sources, described, at, sent, walk>>

Destroy ==
  /\ at = "idle" /\ created
  /\ created' = FALSE
  /\ IF deletes THEN TransDestroyed ELSE UNCHANGED transVars
  /\ builder' = DestroyBuilder
  /\ rtcpmax' = 0
  /\ sources' = H!MapClear([sources EXCEPT !.keys.cur = None])
  /\ before' = None /\ walk' = NoWalk
  /\ infos' = NoInfos /\ told' = [s \in SSRC |-> <<>>] /\ privwalk' = NoPrivWalk
  /\ UNCHANGED <<part, deletes, maxpacksize, localIPs, at, out, asked>>

-----------------------------------------------------------------------------
(* Sending. *)

KeepsTrans == UNCHANGED <<trans, receivemode, acceptignore, rawpackets, transsize, currentdata>>

\* The packet is built, with what it takes from the builder; the transmitter
\* may still refuse it for its size.
Sends(pt, mark, inc, words, len) ==
  LET p == ThePacket(builder, pt, mark, words, len)
  IN IF ~Fits(builder, pt, words, len) THEN UNCHANGED <<builder, at, sent, destinations, loop>>
     ELSE /\ builder' = AfterPacket(builder, inc)
          /\ IF p.length > transsize THEN UNCHANGED <<at, sent, destinations, loop>>
             ELSE /\ BeginSend("rtp")
                  /\ at' = "sending" /\ out' = p /\ asked' = len
                  /\ UNCHANGED before

\* SendPacket and SendPacketEx with all arguments ...
SendPacket(pt, mark, inc, words, len) ==
  /\ at = "idle" /\ created /\ part \notin {"sources", "sdes"}
  /\ Sends(pt, mark, inc, words, len)
  /\ KeepsTrans
  /\ UNCHANGED <<part, session, sources, localIPs, described, walk>>

\* ... and with the defaults.
SendDefault(words, len) ==
  /\ at = "idle" /\ created /\ part = "packets"
  /\ DefaultsSet(builder)
  /\ Sends(builder.payloadtype, builder.mark, builder.timestampinc, words, len)
  /\ KeepsTrans
  /\ UNCHANGED <<part, session, sources, localIPs, described, walk>>

\* The callback, for a packet of SendPacket or the RTCP packet of Poll ...
Callback ==
  /\ at \in {"sending", "report"}
  /\ Call \/ Return
  /\ KeepsTrans
  /\ UNCHANGED <<part, session, builder, sources, localIPs, described, at, sent, walk>>

\* ... in which the application may send an RTCP packet, ...
SendRTCPInCallback ==
  /\ part = "destinations"
  /\ SendAgain
  /\ KeepsTrans
  /\ UNCHANGED <<part, session, builder, sources, localIPs, described, at, sent, walk>>

\* ... or an RTP packet, which is built in the buffer where the one is that is
\* being sent; one that is refused changes nothing of the loop.
SendInCallback(pt, mark, inc, words, len) ==
  /\ part = "destinations"
  /\ SendAgain
  /\ LET p == ThePacket(builder, pt, mark, words, len)
     IN /\ Fits(builder, pt, words, len) /\ p.length <= transsize
        /\ builder' = AfterPacket(builder, inc)
        /\ before' = IF at = "sending" THEN out.sequencenumber ELSE p.sequencenumber
        /\ IF at = "sending" THEN out' = p /\ asked' = len ELSE UNCHANGED <<out, asked>>
  /\ KeepsTrans
  /\ UNCHANGED <<part, session, sources, localIPs, described, at, walk>>

\* SentRTPPacket and sentpackets follow, or Poll ends.
SendEnds ==
  /\ at \in {"sending", "report"}
  /\ EndSend
  /\ at' = "idle" /\ out' = None /\ asked' = 0
  /\ before' = IF at = "sending" THEN out.sequencenumber ELSE before
  /\ KeepsTrans
  /\ UNCHANGED <<part, session, builder, sources, localIPs, described, walk>>

\* SetDefaultPayloadType and the functions like it, and those of the builder
\* for CSRCs.
Builders ==
  {AddCSRC(builder, c) : c \in CSRC} \cup {DeleteCSRC(builder, c) : c \in CSRC}
    \cup {ClearCSRCList(builder), IncrementTimestampDefault(builder)}
    \cup {SetDefaultPayloadType(builder, pt) : pt \in PayloadType}
    \cup {SetDefaultMark(builder, TRUE)}
    \cup {SetDefaultTimestampIncrement(builder, inc) : inc \in Increment}
    \cup {IncrementTimestamp(builder, inc) : inc \in Increment}

ConfigureBuilder ==
  /\ at = "idle" /\ created /\ part = "packets"
  /\ builder' \in Builders
  /\ UNCHANGED <<part, transVars, session, sources, localIPs, described, at, sent, walk>>

\* Mutant: the transmitter keeps the size that the builder refused.
KeepsRefusedSize(size, ok) ==
  /\ transsize' = SizeOf(size)
  /\ IF size <= MaxTransSize /\ ok
     THEN maxpacksize' = size /\ rtcpmax' = size /\ builder' = [builder EXCEPT !.max = size]
     ELSE UNCHANGED <<maxpacksize, rtcpmax, builder>>

\* The transmitter first; if the builder then has no memory it is set back.
Resized(size, ok) ==
  /\ transsize' = IF ok THEN SizeOf(size) ELSE SizeOf(maxpacksize)
  /\ IF size <= MaxTransSize /\ ok
     THEN maxpacksize' = size /\ rtcpmax' = size /\ builder' = [builder EXCEPT !.max = size]
     ELSE UNCHANGED <<maxpacksize, rtcpmax, builder>>

SetMaximumPacketSize(size, ok) ==
  /\ at = "idle" /\ created /\ part = "packets" /\ size >= MinSize
  /\ Resized(size, ok)
  /\ UNCHANGED <<part, trans, destinations, receivemode, acceptignore, rawpackets, currentdata, loop,
                 created, deletes, sources, localIPs, described, at, sent, walk>>

-----------------------------------------------------------------------------
(* Configuring the transmitter. *)

\* Between the calls of the session, and in the callback of a send.
Destinations ==
  /\ at = "idle" \/ calling
  /\ created /\ part = "destinations"
  /\ \/ \E d \in Destination : AddDestination(d) \/ DeleteDestination(d)
     \/ ClearDestinations
  /\ KeepsTrans
  /\ UNCHANGED <<part, session, builder, sources, localIPs, described, at, sent, walk>>

Filter ==
  /\ at = "idle" /\ created /\ part = "filter"
  /\ \/ \E m \in {"all", "accept", "ignore"} : SetReceiveMode(m)
     \/ \E h \in Host, p \in Port \cup {0} : AddEntry(h, p) \/ DeleteEntry(h, p)
     \/ ClearEntries
  /\ UNCHANGED <<trans, destinations, rawpackets, transsize, currentdata, loop,
                 part, session, builder, sources, localIPs, described, at, sent, walk>>

-----------------------------------------------------------------------------
(* Receiving. *)

\* SetCurrentData and its neighbours.
SetCurrentData(d) ==
  /\ at = "idle" /\ trans /\ currentdata = None /\ part \in {"filter", "sources", "sdes"}
  /\ \A s \in SSRC : Len(told[s]) < MaxTold
  /\ currentdata' = d
  /\ UNCHANGED <<trans, destinations, receivemode, acceptignore, rawpackets, transsize, loop,
                 part, session, builder, sources, localIPs, described, at, sent, walk>>

Poll ==
  /\ at = "idle" /\ created
  /\ TransPoll
  /\ at' = "process" /\ walk' = NoWalk
  /\ UNCHANGED <<trans, destinations, receivemode, transsize, loop,
                 part, session, builder, sources, localIPs, described, sent>>

\* ObtainSourceDataInstance: the source, or a new one.
Obtained(table, s, data) ==
  LET m == H!MapGotoElement(table, s)
  IN IF H!HasCurrentElement(m.keys) THEN m ELSE H!MapAddElement(m, s, data)

\* A packet that is one, and is not ours, finds its source, or makes one.
ProcessPacket ==
  /\ at = "process" /\ rawpackets # <<>> /\ Head(rawpackets) \in Datagram
  /\ rawpackets' = Tail(rawpackets)
  /\ LET d == Head(rawpackets)
     IN sources' = IF Parses(d.packet) /\ ~ComesFromThisTransmitter(localIPs, Portbase, d.from)
                   THEN H!SetCurrentElement(Obtained(sources, d.packet.ssrc, TRUE), TRUE) ELSE sources
  /\ UNCHANGED <<trans, destinations, receivemode, acceptignore, transsize, currentdata, loop,
                 part, session, builder, localIPs, described, at, sent, walk>>

\* One item, in ProcessSDESNormalItem, ProcessSDESPrivateItem or
\* UpdateReceiveTime; a type that is not known is an error.
OneItem(st, item) ==
  LET known == [s \in DOMAIN st.infos \cup {item.ssrc} |->
                  IF s \in DOMAIN st.infos THEN st.infos[s] ELSE NewInfo]
      info == known[item.ssrc]
  IN IF ~st.ok \/ item.type = "Unknown" THEN [st EXCEPT !.ok = FALSE]
     ELSE [ok |-> TRUE,
           sources |-> Obtained(st.sources, item.ssrc, FALSE),
           infos |-> [known EXCEPT ![item.ssrc] =
                        CASE item.type = "none" -> info
                          [] item.type = "PRIV" -> ProcessPrivateSDESItem(info, item.prefix, item.value)
                          [] OTHER -> ProcessSDESItem(info, item.type, item.data)]]

\* All of them, one after the other.
AfterItems(st, items) ==
  LET after[i \in 0 .. Len(items)] == IF i = 0 THEN st ELSE OneItem(after[i - 1], items[i])
  IN after[Len(items)]

\* The ghost: what each source says of itself, up to a type that is not known.
Tells(st, item) ==
  CASE ~st.ok \/ item.type = "Unknown" -> [st EXCEPT !.ok = FALSE]
    [] st.ok /\ item.type = "none" -> st
    [] OTHER -> [st EXCEPT !.told[item.ssrc] = Append(@, item)]
AfterSaying(st, items) ==
  LET after[i \in 0 .. Len(items)] == IF i = 0 THEN st ELSE Tells(after[i - 1], items[i])
  IN after[Len(items)]

\* The SDES packets of a compound packet, item by item.  An error ends Poll
\* before the time-outs, and the packets that were not read wait for the next.
ProcessSDES ==
  /\ at = "process" /\ rawpackets # <<>> /\ Head(rawpackets) \in SDESDatagram
  /\ rawpackets' = Tail(rawpackets)
  /\ LET d == Head(rawpackets)
         st == AfterItems([ok |-> TRUE, sources |-> sources, infos |-> infos], Delivered(d.packet))
     IN IF ComesFromThisTransmitter(localIPs, Portbase, d.from) THEN UNCHANGED <<sources, infos, told, at>>
        ELSE /\ sources' = st.sources /\ infos' = st.infos
             /\ told' = AfterSaying([ok |-> TRUE, told |-> told], Said(d.chunks)).told
             /\ at' = IF st.ok THEN at ELSE "idle"
  /\ UNCHANGED <<trans, destinations, receivemode, acceptignore, transsize, currentdata, loop,
                 part, session, builder, localIPs, privwalk, sent, walk>>

\* MultipleTimeouts, element by element.
BeginSweep ==
  /\ at = "process" /\ rawpackets = <<>>
  /\ sources' = H!MapGotoFirstElement(sources)
  /\ at' = "sweep"
  /\ UNCHANGED <<transVars, part, session, builder, localIPs, described, sent, walk>>

SweepNext(timedout) ==
  /\ at = "sweep" /\ H!HasCurrentElement(sources.keys)
  /\ timedout => sources.keys.cur # OwnSSRC
  /\ IF timedout
     THEN LET s == sources.keys.cur
          IN /\ sources' = H!MapDeleteCurrentElement(sources)
             /\ infos' = [x \in DOMAIN infos \ {s} |-> infos[x]]
             /\ told' = [told EXCEPT ![s] = <<>>]
             /\ privwalk' = IF privwalk.ssrc = s THEN NoPrivWalk ELSE privwalk
     ELSE sources' = H!MapGotoNextElement(sources) /\ UNCHANGED described
  /\ UNCHANGED <<transVars, part, session, builder, localIPs, at, sent, walk>>

\* The RTCP packet, if it is time for one.
SweepEnds ==
  /\ at = "sweep" /\ ~H!HasCurrentElement(sources.keys)
  /\ \/ at' = "idle" /\ UNCHANGED <<destinations, loop>>
     \/ part = "destinations" /\ BeginSend("rtcp") /\ at' = "report"
  /\ KeepsTrans
  /\ UNCHANGED <<part, session, builder, sources, localIPs, described, sent, walk>>

-----------------------------------------------------------------------------
(* The application's walk through the sources. *)

WithData(m) == {s \in DOMAIN m.elements : m.elements[s]}

\* The loops of GotoFirstSourceWithData and its two neighbours, from where the
\* cursor is.
ToData(m, next) ==
  LET path == H!Path(next, m.keys.cur)
      hits == {i \in DOMAIN path : m.elements[path[i]]}
  IN [m EXCEPT !.keys.cur = IF hits = {} THEN None ELSE path[CHOOSE i \in hits : \A j \in hits : i <= j]]

Walked(m, kind, seen, expected) ==
  [kind |-> IF m.keys.cur = None THEN "end" ELSE kind,
   seen |-> IF m.keys.cur = None THEN seen ELSE Append(seen, m.keys.cur), expected |-> expected]

Walking == at = "idle" /\ created /\ part = "sources"
OnlySources == UNCHANGED <<part, transVars, session, builder, localIPs, described, at, sent>>

GotoFirstSource ==
  /\ Walking
  /\ sources' = H!MapGotoFirstElement(sources)
  /\ walk' = Walked(sources', "all", <<>>, DOMAIN sources.elements)
  /\ OnlySources

GotoNextSource ==
  /\ Walking
  /\ sources' = H!MapGotoNextElement(sources)
  /\ walk' = IF walk.kind = "all" THEN Walked(sources', "all", walk.seen, walk.expected) ELSE NoWalk
  /\ OnlySources

GotoFirstSourceWithData ==
  /\ Walking
  /\ sources' = ToData(H!MapGotoFirstElement(sources), sources.keys.listnext)
  /\ walk' = Walked(sources', "data", <<>>, WithData(sources))
  /\ OnlySources

\* Mutant: the loop tests the source where it begins.
NextWithDataOrThis ==
  /\ Walking
  /\ sources' = ToData(sources, sources.keys.listnext)
  /\ walk' = IF walk.kind = "data" /\ Len(walk.seen) < 4
             THEN Walked(sources', "data", walk.seen, walk.expected) ELSE NoWalk
  /\ OnlySources

GotoNextSourceWithData ==
  /\ Walking
  /\ sources' = ToData(H!MapGotoNextElement(sources), sources.keys.listnext)
  /\ walk' = IF walk.kind = "data" THEN Walked(sources', "data", walk.seen, walk.expected) ELSE NoWalk
  /\ OnlySources

GotoPreviousSource ==
  /\ Walking
  /\ sources' = H!MapGotoPreviousElement(sources)
  /\ walk' = NoWalk
  /\ OnlySources

GotoPreviousSourceWithData ==
  /\ Walking
  /\ sources' = ToData(H!MapGotoPreviousElement(sources), sources.keys.listprev)
  /\ walk' = NoWalk
  /\ OnlySources

\* A search by SSRC moves the cursor of a walk.
GetSourceInfo(s) ==
  /\ Walking
  /\ sources' = H!MapGotoElement(sources, s)
  /\ walk' = NoWalk
  /\ OnlySources

\* The last packet of the current source.
GetNextPacket ==
  /\ Walking /\ H!HasCurrentElement(sources.keys)
  /\ sources' = H!SetCurrentElement(sources, FALSE)
  /\ UNCHANGED walk
  /\ OnlySources

-----------------------------------------------------------------------------
(* The application's walk through the private items of a source, which goes *)
(* on over calls of Poll.                                                   *)

PrefixesOf(info) == {info.privitems[i].prefix : i \in DOMAIN info.privitems}

AsksFor(s) ==
  /\ at = "idle" /\ created /\ part = "sdes" /\ s \in DOMAIN infos
  /\ sources' = H!MapGotoElement(sources, s)
  /\ UNCHANGED <<part, transVars, session, builder, localIPs, told, at, sent, walk>>

SDES_GotoFirstPrivateValue(s) ==
  /\ AsksFor(s)
  /\ infos' = [infos EXCEPT ![s] = GotoFirstPrivateValue(@)]
  /\ privwalk' = [ssrc |-> s, seen |-> <<>>, expected |-> PrefixesOf(infos[s]), ended |-> FALSE]

SDES_GetNextPrivateValue(s) ==
  /\ AsksFor(s) /\ privwalk.ssrc = s /\ ~privwalk.ended
  /\ IF HasNextPrivateValue(infos[s])
     THEN /\ infos' = [infos EXCEPT ![s] = GetNextPrivateValue(@)]
          /\ privwalk' = [privwalk EXCEPT !.seen = Append(@, NextPrivateValue(infos[s]).prefix)]
     ELSE privwalk' = [privwalk EXCEPT !.ended = TRUE] /\ UNCHANGED infos

-----------------------------------------------------------------------------
\* In the parts that are not about packets they are all alike, and so are the
\* sizes; in the one about accepting and ignoring only one source is heard.
SomeDatagram ==
  CASE part = "filter" -> {d \in Datagram : d.packet.ssrc = 1}
    [] part = "sdes" -> SDESDatagram
    [] OTHER -> Datagram
SomeSize == IF part = "packets" THEN Size ELSE {MinSize}
SomePacket ==
  IF part = "packets" THEN PayloadType \X {FALSE} \X Increment \X (Words \cup {None}) \X Length
  ELSE {<<8, FALSE, 0, None, 1>>}

Next ==
  \/ \E size \in SomeSize : CreateOwn(size) \/ CreateWith(size)
  \/ MakeTransmitter
  \/ Destroy
  \/ \E a \in SomePacket : SendPacket(a[1], a[2], a[3], a[4], a[5])
  \/ \E words \in Words \cup {None}, len \in Length : SendDefault(words, len)
  \/ Callback
  \/ SendRTCPInCallback
  \/ \E a \in SomePacket : SendInCallback(a[1], a[2], a[3], a[4], a[5])
  \/ SendEnds
  \/ ConfigureBuilder
  \/ \E size \in Size, ok \in BOOLEAN : SetMaximumPacketSize(size, ok)
  \/ Destinations
  \/ Filter
  \/ \E d \in SomeDatagram : SetCurrentData(d)
  \/ Poll
  \/ ProcessPacket
  \/ ProcessSDES
  \/ BeginSweep
  \/ \E timedout \in BOOLEAN : SweepNext(timedout)
  \/ SweepEnds
  \/ GotoFirstSource \/ GotoNextSource \/ GotoPreviousSource
  \/ GotoFirstSourceWithData \/ GotoNextSourceWithData \/ GotoPreviousSourceWithData
  \/ \E s \in SSRC : GetSourceInfo(s)
  \/ GetNextPacket
  \/ \E s \in SSRC : SDES_GotoFirstPrivateValue(s) \/ SDES_GetNextPrivateValue(s)

Spec == Init /\ [][Next]_vars

-----------------------------------------------------------------------------
(* Properties. *)

\* The hash tables keep their two structures in step: forwards, backwards and by
\* bucket they have the same elements, whatever a callback does in the middle of
\* a loop; and a cursor that a loop will follow points to one of them or nowhere,
\* unless the callback cleared the table under it.
TablesWhole ==
  /\ D!Whole(destinations) /\ H!Whole(acceptignore.keys) /\ H!Whole(sources.keys)
  /\ sending # "no" /\ disturbed # "cleared" => destinations.cur \in D!Elements(destinations) \cup {None}
  /\ created => sources.keys.cur \in H!Elements(sources.keys) \cup {None}

\* A packet goes once to every destination, also when the callbacks add others
\* in the middle of the loop, which has no copy of the list; and this is all
\* that they may do to the table, whose cursor is the loop's.
EachDestinationOnce ==
  sending # "no" /\ disturbed = "no" =>
    /\ \A d \in DOMAIN called : called[d] <= 1
    /\ ~D!HasCurrentElement(destinations) => \A d \in stayed : called[d] = 1

\* A Create that failed, at whatever stage, and a Destroy leave nothing that
\* would make the next Create fail.
CreateCanBeRetried == ~created => CanBeInitialised

\* What is sent is what was asked for: the other side's parser accepts it and
\* finds the payload; the packets are numbered without a gap, so that none was
\* built and then refused; and the timestamp for reports is the packet's.
PacketsGoOut ==
  sending = "rtp" =>
    /\ Parses(out) /\ PayloadLength(out) = asked
    /\ before # None => out.sequencenumber = (before + 1) % Cycle
    /\ builder.lasttimestamp = out.timestamp

\* A walk through the sources, or through those with data, comes to each of
\* them once, also if it takes their data on the way.
WalkSeesEverySource ==
  walk.kind = "end" =>
    /\ \A i, j \in DOMAIN walk.seen : walk.seen[i] = walk.seen[j] => i = j
    /\ {walk.seen[i] : i \in DOMAIN walk.seen} = walk.expected

\* The places where an item of a type was said, and where it was no empty text.
Of(said, t) == {i \in DOMAIN said : said[i].type = t}
Real(said, t) == {i \in Of(said, t) : said[i].data # <<>>}

FirstIsKept(info, said) ==
  \A t \in KeptItem :
    \/ Real(said, t) = {} /\ info.items[t] = <<>>
    \/ \E i \in Real(said, t) : info.items[t] = said[i].data /\ \A j \in Real(said, t) : i <= j

LastIsKept(info, said) ==
  \A t \in ReplacedItem :
    \/ Of(said, t) = {} /\ info.items[t] = <<>>
    \/ \E i \in Of(said, t) : info.items[t] = said[i].data /\ \A j \in Of(said, t) : j <= i

PrivateIsKept(info, said) ==
  /\ \A i \in Of(said, "PRIV") : said[i].prefix \notin PrefixesOf(info) => Len(info.privitems) = MaxPrivItems
  /\ \A i \in DOMAIN info.privitems :
       \E k \in Of(said, "PRIV") :
         /\ info.privitems[i] = [prefix |-> said[k].prefix, value |-> said[k].value]
         /\ \A j \in Of(said, "PRIV") : said[j].prefix = said[k].prefix => j <= k

\* What the session knows of a source is what its chunks said, over all packets
\* since the source is known: the name and the tool said first, the telephone
\* number said last, and every private prefix once, with the value said last,
\* unless there was no room for it.
KnownIsSaid ==
  /\ DOMAIN infos \subseteq SSRC
  /\ \A s \in DOMAIN infos :
       /\ FirstIsKept(infos[s], told[s]) /\ LastIsKept(infos[s], told[s]) /\ PrivateIsKept(infos[s], told[s])
       /\ \A i, j \in DOMAIN infos[s].privitems :
            infos[s].privitems[i].prefix = infos[s].privitems[j].prefix => i = j

\* A walk through the private items of a source comes once to each that was
\* there when it began, also if packets add and change items on the way.
PrivateWalkSeesAll ==
  /\ \A i, j \in DOMAIN privwalk.seen : privwalk.seen[i] = privwalk.seen[j] => i = j
  /\ privwalk.ended => privwalk.expected = ToSet(privwalk.seen)

\* The tables serve the loops that run over them.
TablesServe == TablesWhole /\ EachDestinationOnce

\* Both walks of the application see everything, over whatever happens on the way.
WalksSeeAll == WalkSeesEverySource /\ PrivateWalkSeesAll

=============================================================================

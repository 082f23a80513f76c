--------------------------- MODULE RTPFakeTransmitter ---------------------------
(***************************************************************************)
(* RTPFakeTransmitter: a transmitter without sockets.  The application     *)
(* hands it what was received through its parameters and Poll, and it      *)
(* hands every packet to a callback of the application, once for each      *)
(* destination.  It is not for several threads, but the callback runs in   *)
(* the middle of the loop over the destinations and may call it again: add *)
(* and delete destinations, clear them, send another packet.               *)
(*                                                                         *)
(* The tables are those of RTPHashTable, pointer by pointer; NULL is the   *)
(* None of RTPPacket.  A host is a natural number, its address; port 0 in  *)
(* a call means all its ports.                                             *)
(***************************************************************************)
EXTENDS RTPPacket, FiniteSets

CONSTANTS
  WILD,          \* a pointer to nothing
  HashSize,      \* RTPFAKETRANS_HASHSIZE
  Port,          \* ports that packets come from
  MaxTransSize   \* RTPFAKETRANS_MAXPACKSIZE

HostIndex(h) == h % HashSize
DestinationIndex(d) == d[1] % HashSize
D == INSTANCE RTPHashTable WITH NULL <- None, GetIndex <- DestinationIndex
H == INSTANCE RTPHashTable WITH NULL <- None, GetIndex <- HostIndex

VARIABLES
  trans,         \* is there a transmitter, and was it created?
  destinations,
  receivemode,   \* "all", "accept" or "ignore"
  acceptignore,  \* acceptignoreinfo
  rawpackets,    \* rawpacketlist
  transsize,     \* maxpacksize
  currentdata,   \* the datagram in the parameters
  sending,       \* the socket that the packet of the send loop is for
  calling,       \* is the application in the callback of that loop?
  called,        \* how often, up to twice, the loop has called back for a destination
  stayed,        \* the destinations that are in the list since it began
  disturbed      \* the worst that callbacks did to the cursor: "no", "moved" or "cleared"

loop == <<sending, calling, called, stayed, disturbed>>
transVars == <<trans, destinations, receivemode, acceptignore, rawpackets, transsize,
               currentdata, loop>>

PortInfo == [all : BOOLEAN, ports : SUBSET Port]

TransInit ==
  /\ trans = FALSE
  /\ destinations = D!EmptyTable /\ acceptignore = H!EmptyMap
  /\ receivemode = "all" /\ rawpackets = <<>> /\ transsize = 0
  /\ currentdata = None
  /\ sending = "no" /\ calling = FALSE /\ called = [d \in {} |-> 0] /\ stayed = {}
  /\ disturbed = "no"

\* Create, with a size that is not too big and parameters of this kind.  A
\* second Create is an error, and so is a thread safe transmitter in Init.
TransCreate(size) ==
  /\ ~trans /\ size <= MaxTransSize
  /\ trans' = TRUE /\ transsize' = size /\ receivemode' = "all"
  /\ UNCHANGED <<destinations, acceptignore, rawpackets, currentdata, loop>>

\* Destroy, from the destructor; the parameters are deleted too.
TransDestroyed ==
  /\ trans' = FALSE
  /\ destinations' = D!EmptyTable /\ acceptignore' = H!EmptyMap
  /\ rawpackets' = <<>> /\ currentdata' = None
  /\ UNCHANGED <<receivemode, transsize, loop>>

\* SetMaximumPacketSize, where size is not too big.
SizeOf(size) == IF size <= MaxTransSize THEN size ELSE transsize

-----------------------------------------------------------------------------
(* Sending. *)

\* SendRTPData and SendRTCPData: GotoFirstElement, and then ...
BeginSend(what) ==
  /\ trans /\ sending = "no"
  /\ destinations' = D!GotoFirstElement(destinations)
  /\ sending' = what
  /\ called' = [d \in D!Elements(destinations) |-> 0]
  /\ stayed' = D!Elements(destinations)
  /\ UNCHANGED <<calling, disturbed>>

\* ... for each destination the callback, which a freed one gets something of,
Call ==
  /\ sending # "no" /\ ~calling /\ D!HasCurrentElement(destinations)
  /\ calling' = TRUE
  /\ called' = IF destinations.cur = WILD THEN called
               ELSE [x \in DOMAIN called \cup {destinations.cur} |->
                      LET n == IF x \in DOMAIN called THEN called[x] ELSE 0
                      IN IF x = destinations.cur /\ n < 2 THEN n + 1 ELSE n]
  /\ UNCHANGED <<destinations, sending, stayed, disturbed>>

\* ... and GotoNextElement, which reads anything from one that was freed.
Return ==
  /\ calling
  /\ calling' = FALSE
  /\ IF destinations.cur = WILD
     THEN \E c \in D!Elements(destinations) \cup {None, WILD} :
            destinations' = [destinations EXCEPT !.cur = c]
     ELSE destinations' = D!GotoNextElement(destinations)
  /\ UNCHANGED <<sending, called, stayed, disturbed>>

EndSend ==
  /\ sending # "no" /\ ~calling /\ ~D!HasCurrentElement(destinations)
  /\ sending' = "no" /\ called' = [d \in {} |-> 0] /\ stayed' = {} /\ disturbed' = "no"
  /\ UNCHANGED <<destinations, calling>>

\* Another packet, sent in the callback: a loop of its own to the end of the
\* list, with the one cursor that the table has.
SendAgain ==
  /\ calling
  /\ destinations' = [destinations EXCEPT !.cur = None]
  /\ disturbed' = "moved"
  /\ UNCHANGED <<sending, calling, called, stayed>>

AddDestination(d) ==
  /\ trans
  /\ destinations' = D!AddElement(destinations, d)
  /\ UNCHANGED loop

\* The search moves the cursor, and the deletion moves it on.
DeleteDestination(d) ==
  /\ trans
  /\ destinations' = D!DeleteElement(destinations, d)
  /\ stayed' = stayed \ {d}
  /\ disturbed' = IF calling THEN "moved" ELSE disturbed
  /\ UNCHANGED <<sending, calling, called>>

ClearDestinations ==
  /\ trans
  /\ destinations' = D!Clear(destinations)
  /\ stayed' = {}
  /\ disturbed' = IF calling THEN "cleared" ELSE disturbed
  /\ UNCHANGED <<sending, calling, called>>

-----------------------------------------------------------------------------
(* Accepting and ignoring. *)

\* Clear, without deleting the PortInfos.
SetReceiveMode(m) ==
  /\ trans
  /\ receivemode' = m
  /\ acceptignore' = IF m # receivemode THEN H!MapClear(acceptignore) ELSE acceptignore

\* ProcessAddAcceptIgnoreEntry: the search leaves the cursor on the entry.
AddedToEntry(inf, p) ==
  CASE p = 0 -> [all |-> TRUE, ports |-> {}]
    [] p # 0 /\ inf.all -> inf
    [] OTHER -> [inf EXCEPT !.ports = @ \cup {p}]

AddEntry(h, p) ==
  LET m == H!MapGotoElement(acceptignore, h)
  IN /\ trans /\ receivemode # "all"
     /\ acceptignore' =
          IF H!HasCurrentElement(m.keys) THEN H!SetCurrentElement(m, AddedToEntry(H!GetCurrentElement(m), p))
          ELSE H!MapAddElement(m, h, AddedToEntry([all |-> FALSE, ports |-> {}], p))
     /\ UNCHANGED receivemode

\* ProcessDeleteAcceptIgnoreEntry; deleting what is not there is an error.
DeletedFromEntry(inf, p) ==
  CASE p = 0 -> [all |-> FALSE, ports |-> {}]
    [] p # 0 /\ inf.all -> [inf EXCEPT !.ports = @ \cup {p}]
    [] OTHER -> [inf EXCEPT !.ports = @ \ {p}]

DeleteEntry(h, p) ==
  LET m == H!MapGotoElement(acceptignore, h)
  IN /\ trans /\ receivemode # "all"
     /\ acceptignore' =
          IF H!HasCurrentElement(m.keys) THEN H!SetCurrentElement(m, DeletedFromEntry(H!GetCurrentElement(m), p))
          ELSE m
     /\ UNCHANGED receivemode

\* ClearAcceptIgnoreInfo: the loop deletes the PortInfos and leaves the cursor
\* at the end.
ClearEntries ==
  /\ trans /\ receivemode # "all"
  /\ acceptignore' = H!MapClear([acceptignore EXCEPT !.keys.cur = None])
  /\ UNCHANGED receivemode

\* ShouldAcceptData; the search moves the cursor.
Found(a) == H!MapGotoElement(acceptignore, a[1])
Selected(a) ==
  /\ H!HasCurrentElement(Found(a).keys)
  /\ LET inf == H!GetCurrentElement(Found(a)) IN inf.all # (a[2] \in inf.ports)

ShouldAcceptData(a) ==
  CASE receivemode = "all" -> TRUE
    [] receivemode = "accept" -> Selected(a)
    [] receivemode = "ignore" -> ~Selected(a)

\* FakePoll, and SetCurrentData(NULL).
TransPoll ==
  /\ trans
  /\ currentdata' = None
  /\ IF currentdata = None THEN UNCHANGED <<rawpackets, acceptignore>>
     ELSE /\ rawpackets' = IF ShouldAcceptData(currentdata.from) THEN Append(rawpackets, currentdata)
                           ELSE rawpackets
          /\ acceptignore' = IF receivemode = "all" THEN acceptignore ELSE Found(currentdata.from)

-----------------------------------------------------------------------------
(* The local addresses. *)

Loopback == 127

\* CreateLocalIPList, when the parameters give none: what the DNS says of the
\* host's name, and the loopback address.
LocalIPs(given, dns) ==
  IF given # <<>> THEN given
  ELSE IF \E i \in DOMAIN dns : dns[i] = Loopback THEN dns ELSE Append(dns, Loopback)

\* Our own packets come from one of our addresses and ports.
ComesFromThisTransmitter(ips, portbase, a) ==
  (\E i \in DOMAIN ips : ips[i] = a[1]) /\ a[2] \in {portbase, portbase + 1}

=============================================================================

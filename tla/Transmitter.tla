------------------------------ MODULE Transmitter ------------------------------
(***************************************************************************)
(* RTPUDPv4Transmitter: destinations, multicast groups, the addresses that *)
(* packets are accepted from, the packets that were read, and a thread     *)
(* that waits for data while others use the transmitter or destroy it.     *)
(*                                                                         *)
(* Every function takes mainmutex for its whole length, but for            *)
(* WaitForIncomingData, which holds waitmutex alone while it is in         *)
(* select(): what runs under mainmutex is one action here.  A host stands  *)
(* for its IP address; port 0 in a call means all its ports.               *)
(***************************************************************************)
EXTENDS Integers, Sequences, FiniteSets

CONSTANTS
  Host, Port,   \* hosts and their ports that packets come from
  Group,        \* multicast groups
  MaxPending,   \* bound on the datagrams of a socket that were not read yet
  MaxQueue,     \* bound on the packets that wait for GetNextPacket
  MaxAborts     \* bound on the bytes in the pipe of the abort descriptors

ASSUME TransmitterAssumption ==
  /\ 0 \notin Port
  /\ {MaxPending, MaxQueue, MaxAborts} \subseteq Nat /\ MaxAborts > 0

VARIABLES
  created,       \* Create succeeded, Destroy was not called
  receivemode,   \* "all", "accept" or "ignore"
  acceptignore,  \* entries by host: acceptignoreinfo
  destinations,  \* hosts that are sent to
  groups,        \* multicastgroups
  member,        \* groups that the kernel receives for each socket
  arrived,       \* hosts and ports of datagrams that a socket has received
  rawpackets,    \* rawpacketlist
  waiting,       \* waitingfordata
  waitmutex,     \* who holds waitmutex, "free" if nobody does
  pipe,          \* bytes in the pipe
  waiter,        \* WaitForIncomingData of the one thread that waits
  asked          \* addresses the application asked to accept or ignore

lists == <<receivemode, acceptignore, asked, destinations, groups, member>>
waits == <<waiting, waitmutex, pipe, waiter>>
transVars == <<created, lists, arrived, rawpackets, waits>>

Sock == {"rtp", "rtcp"}
HostPort == Host \X Port
Entry == [all : BOOLEAN, ports : SUBSET Port]
Known == DOMAIN acceptignore

TransTypeOK ==
  /\ created \in BOOLEAN
  /\ receivemode \in {"all", "accept", "ignore"}
  /\ Known \subseteq Host /\ acceptignore \in [Known -> Entry]
  /\ asked \subseteq HostPort
  /\ destinations \subseteq Host
  /\ groups \subseteq Group
  /\ member \in [Sock -> SUBSET Group]
  /\ \A s \in Sock : arrived[s] \in Seq(HostPort) /\ Len(arrived[s]) <= MaxPending
  /\ rawpackets \in Seq(HostPort \X Sock) /\ Len(rawpackets) <= MaxQueue
  /\ waiting \in BOOLEAN
  /\ waitmutex \in {"free", "waiter", "destroy"}
  /\ pipe \in 0 .. MaxAborts
  /\ waiter \in {"no", "select", "ready", "aborted"}

NoEntries == [h \in {} |-> [all |-> FALSE, ports |-> {}]]
NoneArrived == [s \in Sock |-> <<>>]
NoMember == [s \in Sock |-> {}]

TransInit ==
  /\ created = FALSE
  /\ receivemode = "all" /\ acceptignore = NoEntries /\ asked = {}
  /\ destinations = {} /\ groups = {} /\ member = NoMember
  /\ arrived = NoneArrived /\ rawpackets = <<>>
  /\ waiting = FALSE /\ waitmutex = "free" /\ pipe = 0 /\ waiter = "no"

\* A Create that fails closes what it has opened, and changes nothing.
Create ==
  /\ ~created
  /\ created' = TRUE
  /\ receivemode' = "all"
  /\ pipe' = 0
  /\ waiting' = FALSE
  /\ UNCHANGED <<acceptignore, asked, destinations, groups, member, arrived, rawpackets,
                 waitmutex, waiter>>

FlushPackets == rawpackets' = <<>>

\* Destroy until it releases mainmutex.  A waiter is woken by a byte, and by
\* the closing of the sockets; Destroy then takes waitmutex to await its end.
BeginDestroy ==
  /\ created
  /\ created' = FALSE
  /\ acceptignore' = NoEntries /\ asked' = {}
  /\ destinations' = {} /\ groups' = {} /\ member' = NoMember
  /\ arrived' = NoneArrived
  /\ FlushPackets
  /\ pipe' = IF waiting /\ pipe < MaxAborts THEN pipe + 1 ELSE pipe
  /\ UNCHANGED <<receivemode, waiting, waitmutex, waiter>>

\* The waiter has ended, if there was one.
CanEndDestroy == ~waiting \/ waitmutex = "free"

-----------------------------------------------------------------------------
(* Waiting. *)

\* WaitForIncomingData up to select(); an error returns at once.
CanWait == created /\ ~waiting

BeginWait ==
  /\ CanWait /\ waitmutex = "free"
  /\ waiting' = TRUE
  /\ waitmutex' = "waiter"
  /\ waiter' = "select"
  /\ UNCHANGED <<created, lists, arrived, rawpackets, pipe>>

\* select() returns: for a byte in the pipe, for data, or at the timeout; its
\* descriptors may have been closed.
SelectReturns ==
  /\ waiter = "select"
  /\ waiter' = IF pipe > 0 THEN "aborted" ELSE "ready"
  /\ UNCHANGED <<created, lists, arrived, rawpackets, waiting, waitmutex, pipe>>

\* One byte is read, when select() has seen it: of two AbortWaits in one wait
\* the second ends the next.
EndWait ==
  /\ waiter \in {"ready", "aborted"}
  /\ waiting' = FALSE
  /\ waitmutex' = "free"
  /\ pipe' = IF created /\ waiter = "aborted" THEN pipe - 1 ELSE pipe
  /\ waiter' = "no"
  /\ UNCHANGED <<created, lists, arrived, rawpackets>>

\* AbortWait does nothing, but for an error code, when nobody waits.
AbortWait ==
  /\ pipe < MaxAborts
  /\ pipe' = IF created /\ waiting THEN pipe + 1 ELSE pipe
  /\ UNCHANGED <<created, lists, arrived, rawpackets, waiting, waitmutex, waiter>>

-----------------------------------------------------------------------------
(* Receiving. *)

\* Mutant: the ports of an entry for all ports are not exceptions.
SelectedAll(entries, a) ==
  /\ a[1] \in DOMAIN entries
  /\ (entries[a[1]].all \/ a[2] \in entries[a[1]].ports)

\* Is the address selected by the entries?  The ports of an entry are the ones
\* it selects or, if it is for all ports, the exceptions.
Selected(entries, a) ==
  /\ a[1] \in DOMAIN entries
  /\ entries[a[1]].all # (a[2] \in entries[a[1]].ports)

ShouldAcceptData(a) ==
  CASE receivemode = "all" -> TRUE
    [] receivemode = "accept" -> Selected(acceptignore, a)
    [] receivemode = "ignore" -> ~Selected(acceptignore, a)

\* The network.
DatagramArrives(s, a) ==
  /\ created /\ Len(arrived[s]) < MaxPending
  /\ arrived' = [arrived EXCEPT ![s] = Append(@, a)]
  /\ UNCHANGED <<created, lists, rawpackets, waits>>

Accepted(s) == [i \in 1 .. Len(SelectSeq(arrived[s], ShouldAcceptData)) |->
                  <<SelectSeq(arrived[s], ShouldAcceptData)[i], s>>]

\* Poll reads the RTP socket until it is empty, then the RTCP socket.
Poll ==
  /\ created
  /\ rawpackets' = rawpackets \o Accepted("rtp") \o Accepted("rtcp")
  /\ Len(rawpackets') <= MaxQueue
  /\ arrived' = NoneArrived
  /\ UNCHANGED <<created, lists, waits>>

GetNextPacket ==
  /\ created /\ rawpackets # <<>>
  /\ rawpackets' = Tail(rawpackets)
  /\ UNCHANGED <<created, lists, arrived, waits>>

-----------------------------------------------------------------------------
(* Accepting and ignoring. *)

SetReceiveMode(m) ==
  /\ created
  /\ receivemode' = m
  /\ acceptignore' = IF m # receivemode THEN NoEntries ELSE acceptignore
  /\ asked' = IF m # receivemode THEN {} ELSE asked
  /\ UNCHANGED <<created, destinations, groups, member, arrived, rawpackets, waits>>

With(h, e) == [x \in Known \cup {h} |-> IF x = h THEN e ELSE acceptignore[x]]

\* ProcessAddAcceptIgnoreEntry.  A port that is an exception of an entry for
\* all ports stays one.
AddedEntry(h, p) ==
  CASE p = 0 -> [all |-> TRUE, ports |-> {}]
    [] p # 0 /\ h \notin Known -> [all |-> FALSE, ports |-> {p}]
    [] p # 0 /\ h \in Known /\ acceptignore[h].all -> acceptignore[h]
    [] OTHER -> [acceptignore[h] EXCEPT !.ports = @ \cup {p}]

\* ProcessDeleteAcceptIgnoreEntry; the entry of the host remains.
DeletedEntry(h, p) ==
  CASE p = 0 -> [all |-> FALSE, ports |-> {}]
    [] p # 0 /\ acceptignore[h].all -> [acceptignore[h] EXCEPT !.ports = @ \cup {p}]
    [] OTHER -> [acceptignore[h] EXCEPT !.ports = @ \ {p}]

Ports(p) == IF p = 0 THEN Port ELSE {p}

\* A list is changed by its own functions, and only in its own mode.
Lists(mode, entries, addresses) ==
  /\ created /\ receivemode = mode
  /\ acceptignore' = entries
  /\ asked' = addresses
  /\ UNCHANGED <<created, receivemode, destinations, groups, member, arrived, rawpackets, waits>>

AddTo(mode, h, p) ==
  Lists(mode, With(h, AddedEntry(h, p)), asked \cup ({h} \X Ports(p)))

\* A host or a port that is not in the list is an error.
DeleteFrom(mode, h, p) ==
  /\ h \in Known
  /\ p # 0 => Selected(acceptignore, <<h, p>>)
  /\ Lists(mode, With(h, DeletedEntry(h, p)), asked \ ({h} \X Ports(p)))

AddToAcceptList(h, p) == AddTo("accept", h, p)
AddToIgnoreList(h, p) == AddTo("ignore", h, p)
DeleteFromAcceptList(h, p) == DeleteFrom("accept", h, p)
DeleteFromIgnoreList(h, p) == DeleteFrom("ignore", h, p)
ClearAcceptList == Lists("accept", NoEntries, {})
ClearIgnoreList == Lists("ignore", NoEntries, {})

-----------------------------------------------------------------------------
(* Sending and multicast groups. *)

SetDestinations(D) ==
  /\ created
  /\ destinations' = D
  /\ UNCHANGED <<created, receivemode, acceptignore, asked, groups, member, arrived, rawpackets, waits>>

\* Adding what is there and deleting what is not are errors.
AddDestination(h) == h \notin destinations /\ SetDestinations(destinations \cup {h})
DeleteDestination(h) == h \in destinations /\ SetDestinations(destinations \ {h})
ClearDestinations == SetDestinations({})

Grouped(G, M) ==
  /\ created
  /\ groups' = G
  /\ member' = M
  /\ UNCHANGED <<created, receivemode, acceptignore, asked, destinations, arrived, rawpackets, waits>>

\* The kernel may refuse either socket.
JoinMulticastGroup(g, ok) ==
  /\ g \notin groups
  /\ IF ok["rtp"] /\ ok["rtcp"]
     THEN Grouped(groups \cup {g}, [s \in Sock |-> member[s] \cup {g}])
     ELSE Grouped(groups, member)

LeaveMulticastGroup(g) ==
  /\ g \in groups
  /\ Grouped(groups \ {g}, [s \in Sock |-> member[s] \ {g}])

LeaveAllMulticastGroups == Grouped({}, [s \in Sock |-> member[s] \ groups])

\* What the application may call at any time.
Configure ==
  \/ \E m \in {"all", "accept", "ignore"} : SetReceiveMode(m)
  \/ \E h \in Host, p \in Port \cup {0} :
       \/ AddToAcceptList(h, p) \/ DeleteFromAcceptList(h, p)
       \/ AddToIgnoreList(h, p) \/ DeleteFromIgnoreList(h, p)
  \/ ClearAcceptList \/ ClearIgnoreList
  \/ \E h \in Host : AddDestination(h) \/ DeleteDestination(h)
  \/ ClearDestinations
  \/ \E g \in Group, ok \in [Sock -> BOOLEAN] : JoinMulticastGroup(g, ok)
  \/ \E g \in Group : LeaveMulticastGroup(g)
  \/ LeaveAllMulticastGroups

=============================================================================

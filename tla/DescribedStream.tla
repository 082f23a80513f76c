--------------------------- MODULE DescribedStream ---------------------------
(***************************************************************************)
(* From a description to a playing stream: the client (AFDRTSPClient.cpp   *)
(* over RTSPClient.cpp) and the server (RTSPServer.cpp) exchange requests  *)
(* whose URLs the client makes from the description and the server takes   *)
(* apart again.  One connection, in order and reliable; MediaSession says  *)
(* what the client makes of the description.                               *)
(*                                                                         *)
(* A URL is the sequence of its path segments, the last one empty when it  *)
(* ends with a '/'; a stream name is such a sequence too, <<>> for "".     *)
(* The server's response to PLAY lacks the empty line that ends its        *)
(* headers, so for the client it ends with the response after it.          *)
(*                                                                         *)
(* What the client does on a connection that the server has closed, and    *)
(* other clients of the server, are modelled in StreamClient and           *)
(* ServerSessions.                                                         *)
(***************************************************************************)
EXTENDS MediaSession, FiniteSetsExt

CONSTANTS
  Cases,          \* [url, table, described, flags]: what the client is asked to
                  \* play, the stream names the server knows already, the [lines,
                  \* duration] its describe callback gives, and sendSetupCommand's
                  \* [tcp, force], both FALSE in AFDRTSPClient.cpp
  ServerAddress,  \* the server's own address
  GroupAddresses, \* multicast addresses
  ClientPort,     \* setClientPortNum, one port for all
  ServerPort(_),  \* what the setup callback gives for each SETUP
  Plays,          \* [start, end, scale] of rtsp_resume, rtsp_seek and rtsp_fast
  MaxRequests     \* bound on the requests of the application after PLAY

VARIABLES
  url,        \* the URL the client was created with
  flags,      \* how the client asks for its transport
  described,  \* the description of that stream
  table,      \* names in fServerMediaSessions; each has the one track "track1"
  ours,       \* fOurServerMediaSession of the server's client session
  told,       \* each callback for this client, in order: [command, stream], and
              \* what the setup and play callbacks are given and give
  requests,   \* requests on their way
  responses,  \* responses on their way
  buffer,     \* fResponseBuffer: CSeqs of the responses in it that do not end
  awaiting,   \* fRequestsAwaitingResponse
  cseq,       \* fCSeq
  base,       \* fBaseURL
  session,    \* scs.session, or None
  index,      \* the subsession scs.iter is at; 0 before the description
  length,     \* scs.duration
  phase,      \* where the chain of requests is, or what became of it
  called      \* the last handler called: [request, code]

server  == <<described, table, ours, told>>
client  == <<url, flags, base, session, index, length, phase>>
engine  == <<buffer, awaiting, cseq, called>>
network == <<requests, responses>>
vars == <<server, client, engine, network>>

Commands == {"DESCRIBE", "SETUP", "PLAY", "PAUSE", "TEARDOWN"}

-----------------------------------------------------------------------------
(* URLs. *)

Name(path) == IF path = <<"">> THEN <<>> ELSE path

\* parseRTSPRequestString: what is behind the last '/', and what is before it.
Suffix(u) == Last(u)
PreSuffix(u) == Name(Front(u))

\* urlTotalSuffix of handleCmd_DESCRIBE.
TotalSuffix(u) == IF PreSuffix(u) = <<>> THEN Name(<<Suffix(u)>>) ELSE u

\* rtspURL and the '/' that Content-Base has behind it.
ContentBase(name) == IF name = <<>> THEN <<"", "">> ELSE Append(name, "")

\* sessionURL.
SessionURL(b, s) ==
  IF s.control \in {None, Relative(<<"*">>)} THEN b ELSE s.control.path

\* constructSubsessionURL; for raw UDP the control path is dropped after that.
SubsessionURL(b, s, sub) ==
  LET prefix == SessionURL(b, s)
      suffix == IF sub.control = None \/ sub.proto = "UDP" THEN <<"">>
                ELSE sub.control.path
  IN  IF sub.control # None /\ sub.control.absolute THEN suffix
      ELSE IF Last(prefix) = "" THEN Front(prefix) \o suffix
      ELSE prefix \o suffix

-----------------------------------------------------------------------------
(* Headers of the requests, made by sendRequest and parsed by the server. *)

\* connectionEndpointAddress.
EndpointAddress(s, sub) == IF sub.endpoint # None THEN sub.endpoint ELSE s.endpoint

\* "Transport:" of SETUP; n SETUPs were sent before.
Transport(s, sub, n) ==
  LET address == EndpointAddress(s, sub) IN
  [protocol  |-> IF sub.proto = "UDP" THEN "RAW" ELSE "RTP",
   tcp       |-> flags.tcp,
   multicast |-> /\ ~flags.tcp
                 /\ address \in GroupAddresses \/ (address = None /\ flags.force),
   ports     |-> IF flags.tcp THEN <<2 * n, 2 * n + 1>>
                 ELSE <<sub.clientPort, sub.clientPort + 1>>]

\* "Scale:" and "Range:" of PLAY: None when there is no such header.
Headers(play) ==
  [scale |-> IF play.scale = 1 THEN None ELSE play.scale,
   range |-> IF play.start < 0 THEN None
             ELSE [start |-> play.start, end |-> IF play.end < 0 THEN None ELSE play.end]]

\* parseTransportHeader: raw UDP over TCP is none of the modes it knows.
StreamingMode(t) ==
  CASE t.tcp /\ t.protocol = "RTP" -> "RTP_TCP"
    [] ~t.tcp /\ t.protocol = "RAW" -> "RAW_UDP"
    [] OTHER -> "RTP_UDP"

ClientPortOf(t) == IF t.tcp THEN 0 ELSE t.ports[1]

\* What Port::num() gives on a little-endian machine.
NetworkOrder(port) == (port % 256) * 256 + port \div 256

\* "Transport:" of the response, always unicast: one pair of channels or ports.
Offer(t, port) ==
  IF StreamingMode(t) = "RTP_TCP"
  THEN [source |-> ServerAddress, channels |-> t.ports, clientPort |-> None,
        serverPort |-> None]
  ELSE [source |-> ServerAddress, channels |-> None, clientPort |-> ClientPortOf(t),
        serverPort |-> port]

\* testScaleFactor: "Support scale = 1 only".
TestScaleFactor(scale) == 1

\* parseRangeHeader: a time that is not given is 0.
TimesOf(range) ==
  IF range = None THEN [start |-> 0, end |-> 0]
  ELSE [range EXCEPT !.end = IF @ = None THEN 0 ELSE @]

\* What the play callback is given: a range is put the right way around.
PlayArguments(h) ==
  LET range == TimesOf(h.range)
      swaps == range.start > range.end /\ range.end > 0
  IN  [scale |-> TestScaleFactor(h.scale),
       start |-> IF swaps THEN range.end ELSE range.start,
       end   |-> IF swaps THEN range.start ELSE range.end]

-----------------------------------------------------------------------------
(* The server. *)

Init ==
  /\ \E c \in Cases :
       url = c.url /\ table = c.table /\ described = c.described /\ flags = c.flags
  /\ ours = None
  /\ told = <<>>
  /\ requests = <<>> /\ responses = <<>>
  /\ buffer = <<>> /\ awaiting = <<>> /\ cseq = 1
  /\ base = url
  /\ session = None
  /\ index = 0
  /\ length = 0
  /\ phase = "start"
  /\ called = None

Other == [kind |-> "other"]

\* generateSDPDescription: the session-level lines, then the application's.
Description(app) ==
  LET RangeLine(end) == <<[kind |-> "range", start |-> 0, end |-> end]>>
  IN  <<Other, Other, [kind |-> "s", text |-> "AnFengDe Description"],
        [kind |-> "i", text |-> "AnFengDe Info"], Other, Other, Other,
        [kind |-> "control", path |-> Relative(<<"*">>)],
        [kind |-> "filter", address |-> ServerAddress], Other>>
      \o (IF app.duration > 0 THEN RangeLine(app.duration)
          ELSE IF app.duration = 0 THEN RangeLine(None) ELSE <<>>)
      \o <<Other, Other>> \o app.lines

Receives(commands) == requests # <<>> /\ Head(requests).command \in commands

\* A response of the server; ended is whether an empty line ends its headers.
Responds(code, ended, content) ==
  /\ requests' = Tail(requests)
  /\ responses' = Append(responses,
       content @@ [cseq |-> Head(requests).cseq, code |-> code, ended |-> ended])
  /\ UNCHANGED <<described, client, engine>>

\* handleCmd_DESCRIBE: a session is looked up by the whole suffix and, when it is
\* not found, created and named by the last segment.  addServerMediaSession lets
\* a new session of a known name replace the old one and then removes the name.
\* The callback may not know the URL.
HandleDESCRIBE ==
  LET u == Head(requests).url
      found == TotalSuffix(u) \in table
      name == IF found THEN TotalSuffix(u) ELSE Name(<<Suffix(u)>>)
  IN  /\ Receives({"DESCRIBE"})
      /\ \/ /\ table' = IF ~found /\ name \in table THEN table \ {name}
                        ELSE table \cup {name}
            /\ Responds(200, TRUE, [base |-> ContentBase(name),
                                    lines |-> Description(described)])
         \/ Responds(404, TRUE, <<>>) /\ UNCHANGED table
      /\ UNCHANGED <<ours, told>>

\* Mutant: a URL without a track is always taken for a stream's name.
TargetBySuffix(u, held) ==
  IF Suffix(u) = "" THEN [stream |-> <<>>, track |-> ""]
  ELSE [stream |-> PreSuffix(u), track |-> Suffix(u)]

\* The stream and the track a SETUP names.  Without a '/' there is only a stream,
\* unless some stream is named "".
Target(u, held) ==
  IF held = None /\ PreSuffix(u) = <<>> /\ <<>> \notin table
  THEN [stream |-> Name(<<Suffix(u)>>), track |-> ""]
  ELSE [stream |-> PreSuffix(u), track |-> Suffix(u)]

\* handleCmd_SETUP: 404 when the stream or the track is not known or when the
\* callback refuses it; a 404 deletes the client session.
HandleSETUP ==
  LET u == Head(requests).url
      held == IF ours = PreSuffix(u) THEN ours ELSE None
      target == Target(u, held)
      known == target.stream \in table /\ target.track \in {"", "track1"}
  IN  /\ Receives({"SETUP"})
      /\ \/ /\ known
            /\ ours' = target.stream
            /\ told' = Append(told,
                 [command |-> "SETUP", stream |-> target.stream,
                  port |-> NetworkOrder(ClientPortOf(Head(requests).transport)),
                  given |-> ServerPort(Len(told))])
            /\ Responds(200, TRUE,
                 [transport |-> Offer(Head(requests).transport, ServerPort(Len(told)))])
         \/ /\ ours' = None
            /\ told' = IF known THEN Append(told, [command |-> "refused",
                                                   stream |-> target.stream])
                       ELSE told
            /\ Responds(404, TRUE, <<>>)
      /\ UNCHANGED table

\* handleCmd_withinSession: is u an aggregated operation on stream s, one on its
\* track, or neither?
Operation(u, s) ==
  LET pre == PreSuffix(u)
      suffix == Suffix(u)
  IN  IF suffix # "" /\ s = pre
        THEN IF suffix = "track1" THEN "track" ELSE "unknown"
      ELSE IF \/ s = Name(<<suffix>>)
              \/ suffix = "" /\ s = pre
              \/ suffix # "" /\ pre # <<>> /\ s = Append(pre, suffix)
        THEN "aggregated"
      ELSE "unknown"

\* handleCmd_PLAY, PAUSE and TEARDOWN: 405 before any SETUP.  The headers of the
\* response to PLAY do not end.  TEARDOWN deletes the client session.
HandleWithinSession ==
  LET request == Head(requests)
      code == IF ours = None THEN 405
              ELSE IF Operation(request.url, ours) = "unknown" THEN 404 ELSE 200
  IN  /\ Receives({"PLAY", "PAUSE", "TEARDOWN"})
      /\ told' = IF code # 200 THEN told
                 ELSE Append(told,
                        [command |-> request.command, stream |-> ours]
                          @@ IF request.command = "PLAY"
                             THEN PlayArguments(request.headers) ELSE <<>>)
      /\ ours' = IF code = 404 \/ request.command = "TEARDOWN" THEN None ELSE ours
      /\ Responds(code, code # 200 \/ request.command # "PLAY", <<>>)
      /\ UNCHANGED table

-----------------------------------------------------------------------------
(* The client. *)

\* sendRequest: rest is what remains to be answered.
Send(rest, command, u, content) ==
  LET request == content @@ [cseq |-> cseq + 1, command |-> command, url |-> u] IN
  /\ requests' = Append(requests, request)
  /\ awaiting' = Append(rest, request)
  /\ cseq' = cseq + 1

SendNothing(rest) == awaiting' = rest /\ UNCHANGED <<requests, cseq>>

\* rtsp_play, once OPTIONS is answered.
StartDescribe ==
  /\ phase = "start"
  /\ phase' = "asked"
  /\ Send(awaiting, "DESCRIBE", url, <<>>)
  /\ UNCHANGED <<server, url, flags, base, session, index, length, responses, buffer, called>>

PlayLength(s) == s.end - s.start

SendSETUP(rest, b, s, i) ==
  Send(rest, "SETUP", SubsessionURL(b, s, s.subs[i]),
       [transport |-> Transport(s, s.subs[i], i - 1)])

\* PLAY from the start, to the end, at the normal speed: also sent by rtsp_resume
\* and rtsp_seek from another position, by rtsp_fast at another speed.
SendPLAY(rest, b, s, play) ==
  Send(rest, "PLAY", SessionURL(b, s), [play |-> play, headers |-> Headers(play)])

FromStart == [start |-> 0, end |-> -1, scale |-> 1]

\* setupNextSubsession: SETUP for subsession i of s, whose port was set, or PLAY
\* behind the last.
SetupNextSubsession(rest, b, s, i) ==
  IF i <= Len(s.subs)
  THEN LET ported == [s EXCEPT !.subs[i].clientPort = ClientPort] IN
       /\ SendSETUP(rest, b, ported, i)
       /\ session' = ported
       /\ phase' = "setting up"
       /\ UNCHANGED length
  ELSE /\ SendPLAY(rest, b, s, FromStart)
       /\ session' = s
       /\ phase' = "playing"
       /\ length' = PlayLength(s)

ContinueAfterDESCRIBE(rest, response) ==
  LET parsed == IF response.code = 200 THEN CreateNew(response.lines) ELSE None IN
  /\ base' = IF response.code = 200 THEN response.base ELSE base
  /\ IF parsed = None \/ parsed.subs = <<>>
     THEN /\ session' = parsed
          /\ phase' = "undescribed"
          /\ SendNothing(rest)
          /\ UNCHANGED <<index, length>>
     ELSE /\ index' = 1
          /\ SetupNextSubsession(rest, response.base, parsed, 1)

\* Mutant: the server's port is the one behind "client_port=".
TakesClientPort(t) ==
  [channels   |-> IF t.channels = None THEN <<255, 255>> ELSE t.channels,
   serverPort |-> IF t.clientPort = None THEN 0 ELSE t.clientPort]

\* parseTransportParams: without a server's port, it is the client's.
TransportParams(t) ==
  [channels   |-> IF t.channels = None THEN <<255, 255>> ELSE t.channels,
   serverPort |-> IF t.serverPort # None THEN t.serverPort
                  ELSE IF t.clientPort # None THEN t.clientPort ELSE 0]

HandleSETUPResponse(sub, t) == TransportParams(t) @@ [sub EXCEPT !.endpoint = t.source]

ContinueAfterSETUP(rest, response) ==
  /\ UNCHANGED base
  /\ IF response.code = 200
     THEN /\ index' = index + 1
          /\ SetupNextSubsession(rest, base,
               [session EXCEPT !.subs[index] = HandleSETUPResponse(@, response.transport)],
               index + 1)
     ELSE /\ phase' = "refused"
          /\ SendNothing(rest)
          /\ UNCHANGED <<session, index, length>>

\* continueAfterPLAY, PAUSE and TEARDOWN send nothing.
ContinueAfterOther(rest) ==
  SendNothing(rest) /\ UNCHANGED <<base, session, index, length, phase>>

\* One "CSeq:" line: the requests before it are dropped, and so is one behind it.
MatchCSeq(match, c) ==
  LET rest == SelectSeq(match.awaiting, LAMBDA r : r.cseq >= c)
      hit == rest # <<>> /\ Head(rest).cseq = c
  IN  [awaiting |-> IF rest = <<>> THEN <<>> ELSE Tail(rest),
       found |-> IF hit THEN Head(rest) ELSE match.found]

Matched(cseqs) ==
  FoldLeft(MatchCSeq, [awaiting |-> awaiting, found |-> None], cseqs)

\* handleResponseBytes.  Responses that do not end pile up in the buffer; with the
\* first that ends they are taken for one response, with the status of the first.
ReceiveUnended ==
  /\ responses # <<>> /\ ~Head(responses).ended
  /\ buffer' = Append(buffer, Head(responses).cseq)
  /\ responses' = Tail(responses)
  /\ UNCHANGED <<server, client, requests, awaiting, cseq, called>>

ReceiveEnd ==
  LET response == Head(responses)
      match == Matched(Append(buffer, response.cseq))
      code == IF buffer = <<>> THEN response.code ELSE 200
  IN  /\ responses # <<>> /\ response.ended
      /\ responses' = Tail(responses)
      /\ buffer' = <<>>
      /\ called' = [request |-> match.found, code |-> code, answer |-> response]
      /\ CASE match.found.command = "DESCRIBE" ->
                ContinueAfterDESCRIBE(match.awaiting, response)
           [] match.found.command = "SETUP" ->
                ContinueAfterSETUP(match.awaiting, response)
           [] OTHER -> ContinueAfterOther(match.awaiting)
      /\ UNCHANGED <<server, url, flags>>

\* rtsp_pause, rtsp_resume and its like, and rtsp_stop, called after PLAY was sent.
Asked == cseq - (index + 2)

RtspControl(command) ==
  /\ phase = "playing"
  /\ Asked < MaxRequests
  /\ IF command = "PLAY" THEN \E play \in Plays : SendPLAY(awaiting, base, session, play)
     ELSE Send(awaiting, command, SessionURL(base, session), <<>>)
  /\ phase' = IF command = "TEARDOWN" THEN "stopped" ELSE phase
  /\ UNCHANGED <<server, url, flags, base, session, index, length, responses, buffer, called>>

Next ==
  \/ StartDescribe
  \/ HandleDESCRIBE
  \/ HandleSETUP
  \/ HandleWithinSession
  \/ ReceiveUnended
  \/ ReceiveEnd
  \/ \E command \in {"PAUSE", "PLAY", "TEARDOWN"} : RtspControl(command)

Spec == Init /\ [][Next]_vars

-----------------------------------------------------------------------------
(* Properties. *)

\* Addresses and times are values of the constants; the lines of a description
\* and what is made of them are left to ParserIsSectionwise.
TypeOK ==
  /\ ours = None \/ ours \in Seq(STRING)
  /\ \A r \in ToSet(requests) \cup ToSet(awaiting) :
       r.command \in Commands /\ r.cseq \in 1 .. cseq /\ Len(r.url) > 0
  /\ ToSet(buffer) \subseteq {r.cseq : r \in ToSet(awaiting)}
  /\ index \in 0 .. (IF session = None THEN 0 ELSE Len(session.subs) + 1)
  /\ length \in Int
  /\ phase \in {"start", "asked", "setting up", "playing", "stopped",
                "refused", "undescribed"}

\* A description by its sections: those of the good "m=" lines in their order,
\* each from its own lines, and the lines before the first "m=".
Starts(lines) == {n \in DOMAIN lines : lines[n].kind = "m"}
EndOf(lines, n) == Min({k \in Starts(lines) : k > n} \cup {Len(lines) + 1}) - 1
OwnLines(lines, n) == (n + 1) .. EndOf(lines, n)
GoodStarts(lines) == {n \in Starts(lines) : lines[n].proto # "bad"}

LastOf(lines, ns, kind, default) ==
  LET found == {k \in ns : /\ lines[k].kind = kind
                           /\ kind = "filter" => lines[k].address # None}
  IN  IF found = {} THEN default ELSE lines[Max(found)]

Latest(lines, ns) ==
  Max({0} \cup {lines[k].end : k \in {k \in ns : IsRange(lines[k])}})

\* Is the parameter given this value in one of the lines?
GivenIn(lines, ns, name, value) ==
  \E k \in ns : /\ lines[k].kind = "fmtp"
               /\ \E p \in ToSet(lines[k].params) :
                    /\ Field(p.name) = name
                    /\ p.value = value \/ p.value = None \/ p.name \in Booleans

\* No value is missing that the parser would take from another line.
Complete(lines, n) ==
  \A k \in OwnLines(lines, n) :
    /\ lines[k].kind = "control" => lines[k].path # None
    /\ lines[k].kind = "rtpmap" => lines[k].freq # None

\* MediaSession.hh's promise of a session of subsessions: each complete section
\* gives the subsession its own lines say, with the session's source filter when
\* it has none; no section changes another or what the session's lines say, but
\* for the end of the whole, which is the latest end of any.  The lines of a bad
\* section are skipped (MediaSession.cpp:135-283).
ParserIsSectionwise ==
  phase = "setting up" /\ index = 1 =>
    LET lines == Description(described)
        starts == SetToSortSeq(GoodStarts(lines), <)
        header == 2 .. EndOf(lines, 0)
        filter == LastOf(lines, header, "filter", [address |-> None]).address
    IN
    /\ Len(session.subs) = Len(starts)
    /\ session.description = LastOf(lines, header, "i", [text |-> None]).text
    /\ session.endpoint = LastOf(lines, header, "c", [address |-> None]).address
    /\ session.end =
         Latest(lines, header \cup UNION {OwnLines(lines, n) : n \in GoodStarts(lines)})
    /\ \A i \in DOMAIN starts :
         LET n == starts[i]
             own == OwnLines(lines, n)
             sub == session.subs[i]
             Of(kind, default) == LastOf(lines, own, kind, default)
             map == LastOf(lines, {k \in own : /\ lines[k].kind = "rtpmap"
                                              /\ lines[k].fmt = lines[n].fmt},
                           "rtpmap", StaticFormat(lines[n].fmt))
         IN  Complete(lines, n) =>
               /\ sub.medium = lines[n].medium /\ sub.fmt = lines[n].fmt
               /\ <<sub.codec, sub.freq>> = <<map.codec, map.freq>>
               /\ sub.control = Of("control", [path |-> None]).path
               /\ sub.endpoint = Of("c", [address |-> None]).address
               /\ sub.filter = Of("filter", [address |-> filter]).address
               /\ sub.end = Latest(lines, own)
               /\ \A name \in DOMAIN sub.fmtp : GivenIn(lines, own, name, sub.fmtp[name])

\* The stream the server described to the client.
Described == Name(Front(base))

\* Does a section's control path lead to the track of the described stream?
NamesItsTrack(sub) ==
  \/ sub.proto = "UDP"
  \/ sub.control \in {None, Relative(<<"track1">>)}
  \/ sub.control.absolute /\ sub.control.path = Append(Described, "track1")

\* The URL the client makes of Content-Base and a control path leads the server
\* to the track it described, whatever the shape of the first URL: a SETUP fails
\* only when the callback refuses it, the section names another track, or the
\* DESCRIBE itself removed the name (RTSPServer.cpp:67-76).
RefusedForCause ==
  phase = "refused" =>
    \/ \E t \in ToSet(told) : t.command = "refused"
    \/ ~NamesItsTrack(session.subs[index])
    \/ Described \notin table

\* A handler is given the answer to its own request, also when it comes behind
\* responses that did not end (RTSPClient.cpp:1347-1375).
AnsweredIsAsked ==
  called # None => called.request.cseq = called.answer.cseq

\* Both ends mean the same transport for each section: the client holds the port
\* or the channels of the answer to this section's own SETUP, and the server's
\* application was told the client's port (in network byte order, although
\* AFDRTSPServerCallBack.h says no such thing).  With raw UDP over the RTSP
\* connection they differ: the server takes it for RTP over UDP to port 0
\* (RTSPServer.cpp:702-710).
TransportAgreed ==
  phase = "playing" =>
    \A i \in DOMAIN session.subs :
      LET sub == session.subs[i] IN
      /\ sub.endpoint = ServerAddress
      /\ IF flags.tcp
         THEN sub.proto = "RTP" => sub.channels = <<2 * (i - 1), 2 * (i - 1) + 1>>
         ELSE /\ sub.serverPort = told[i].given
              /\ told[i].port = NetworkOrder(ClientPort)

\* Both ends agree on which answer belongs to which request, and on what the
\* requests arranged.
ExchangeAgrees == AnsweredIsAsked /\ TransportAgreed

=============================================================================

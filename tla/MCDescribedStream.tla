------------------------- MODULE MCDescribedStream -------------------------
(***************************************************************************)
(* The instance of DescribedStream for TLC: every description of one       *)
(* section with at most two lines, of one section with one line behind one *)
(* more line for the session, and of two sections with at most one line.   *)
(***************************************************************************)
EXTENDS DescribedStream

M(medium, proto, fmt) ==
  [kind |-> "m", medium |-> medium, proto |-> proto, fmt |-> fmt, port |-> 5004]

MediaLines ==
  {M("audio", "RTP", 0), M("video", "RTP", 96), M("video", "UDP", 33),
   M("audio", "bad", 0)}

Map(fmt, codec, freq) ==
  [kind |-> "rtpmap", fmt |-> fmt, codec |-> codec, freq |-> freq]
Control(path) == [kind |-> "control", path |-> path]
RangeOf(start, end) == [kind |-> "range", start |-> start, end |-> end]
C(address, ttl) == [kind |-> "c", address |-> address, ttl |-> ttl]
From(address) == [kind |-> "filter", address |-> address]

Matching == Map(96, "H264", 90000)
Track1   == Control(Relative(<<"track1">>))

\* Lines every section may have, and those that only short descriptions have.
CommonLines ==
  {Matching, Map(97, "H263", 8000), Track1, RangeOf(0, 7), C("group", 127),
   From("sender")}
RareLines ==
  {Map(96, "H264", None), Control(Relative(<<"track2">>)), Control(None),
   Control([absolute |-> TRUE, path |-> <<"a", "track1">>]),
   RangeOf(3, 4), C("host", None), [kind |-> "i", text |-> "title"],
   [kind |-> "invalid"]}
AnyLines == CommonLines \cup RareLines

HeadLines == {C("group", 127), RangeOf(1, 9), From(None), From("sender"),
              [kind |-> "i", text |-> "title"]}

UpTo1(lines) == {<<>>} \cup {<<l>> : l \in lines}
UpTo2(lines) == UpTo1(lines) \cup {<<k, l>> : k \in lines, l \in lines}

Sections(bodies) == {<<m>> \o b : m \in MediaLines, b \in bodies}

\* A raw UDP section with an absolute control path would be asked for with an
\* empty URL.
HasURL(section) ==
  section[1].proto = "UDP" => \A n \in 2 .. Len(section) :
    section[n].kind = "control" => section[n].path # None /\ ~section[n].path.absolute

OneSection == {s \in Sections(UpTo2(AnyLines)) : HasURL(s)}
Headed == {<<h>> \o s : h \in HeadLines, s \in {s \in Sections(UpTo1(AnyLines)) : HasURL(s)}}
TwoSections ==
  {r \o s : r \in Sections(UpTo1(CommonLines)), s \in Sections(UpTo1(CommonLines))}

Fmtp(params) == [kind |-> "fmtp", params |-> params]
Sets(name, value) == [name |-> name, value |-> value]
DetailLines ==
  {Fmtp(<<Sets("sizelength", 13), Sets("constantsize", 4), Sets("config", "1190")>>),
   Fmtp(<<Sets("crc", None), Sets("cpresent", 2), Sets("sizelength", None)>>),
   [kind |-> "b", kbps |-> 512],
   [kind |-> "dimensions", width |-> 65536 + 640, height |-> 480],
   [kind |-> "framerate", thousandths |-> 29970]}
Detailed == Sections(UpTo2(DetailLines \cup {Matching}))

Given(lines, durations) == [lines : lines, duration : durations]

\* A stream, one below a directory, and one with a '/' behind it.
MCURLs == {<<"a">>, <<"d", "b">>, <<"a", "">>}

\* No other stream, or one named "" that another client's URL has made.
MCTables == {{}, {<<>>}}

Defaults == [tcp |-> FALSE, force |-> FALSE]

MCCases ==
  [url : {<<"a">>}, table : {{}}, flags : {Defaults},
   described : Given(OneSection, {5})
               \cup Given(Headed \cup TwoSections \cup Detailed, {0})]
  \cup [url : MCURLs, table : MCTables, flags : {Defaults},
        described : Given({s \in Sections(UpTo1(AnyLines)) : HasURL(s)}, {0})
                    \cup Given(Sections(UpTo1(CommonLines)), {-1})]
  \cup [url : {<<"a">>}, table : {{}}, flags : [tcp : BOOLEAN, force : BOOLEAN],
        described : Given(TwoSections, {0})]

\* The server's application gives a pair of ports to each track.
MCServerPort(n) == 6000 + 2 * n

\* rtsp_resume where it was, rtsp_seek, rtsp_fast.
MCPlays == {[start |-> -1, end |-> -1, scale |-> 1], [start |-> 7, end |-> -1, scale |-> 1],
            [start |-> 0, end |-> -1, scale |-> 2]}
=============================================================================

---------------------------- MODULE MediaSession ----------------------------
(***************************************************************************)
(* What a client makes of a session description: MediaSession and          *)
(* MediaSubsession (liveMedia/MediaSession.cpp).                           *)
(*                                                                         *)
(* A description is a sequence of lines and a line is a record of the      *)
(* fields its kind has.  Kinds that no parse function looks at are         *)
(* "other"; a line that is not of the form <letter>= is "invalid".  The    *)
(* scan formats of the parser go on past the end of a line in two places,  *)
(* modelled by ControlPath and Rtpmap: a value that is missing is taken    *)
(* from the lines that follow.                                             *)
(***************************************************************************)
EXTENDS Integers, Sequences, SequencesExt, TLC

CONSTANT None  \* NULL, 0 for an address or a frequency that is not known

\* lookupPayloadFormat: codec and timestamp frequency of the static formats.
StaticFormats ==
  LET Codec(name, freq) == [codec |-> name, freq |-> freq]
  IN  0 :> Codec("PCMU", 8000)   @@ 2 :> Codec("G726-32", 8000)
      @@ 3 :> Codec("GSM", 8000)    @@ 4 :> Codec("G723", 8000)
      @@ 7 :> Codec("LPC", 8000)    @@ 8 :> Codec("PCMA", 8000)
      @@ 9 :> Codec("G722", 8000)   @@ 10 :> Codec("L16", 44100)
      @@ 11 :> Codec("L16", 44100)  @@ 12 :> Codec("QCELP", 8000)
      @@ 14 :> Codec("MPA", 90000)  @@ 15 :> Codec("G728", 8000)
      @@ 18 :> Codec("G729", 8000)  @@ 25 :> Codec("CELB", 90000)
      @@ 28 :> Codec("NV", 90000)   @@ 32 :> Codec("MPV", 90000)
      @@ 33 :> Codec("MP2T", 90000)

StaticFormat(fmt) ==
  IF fmt \in DOMAIN StaticFormats THEN StaticFormats[fmt]
  ELSE [codec |-> None, freq |-> None]

\* guessRTPTimestampFrequency.
GuessedFrequency(medium, codec) ==
  IF codec = "L16" THEN 44100
  ELSE IF codec \in {"MPA", "MPA-ROBUST"} \/ medium = "video" THEN 90000
  ELSE IF medium = "text" THEN 1000 ELSE 8000

\* The constructors.  A subsession starts with its session's source filter.
NewSession ==
  [name |-> None, description |-> None, endpoint |-> None, control |-> None,
   filter |-> None, start |-> 0, end |-> 0, subs |-> <<>>]

NewSubsession(session, line) ==
  [medium |-> line.medium, proto |-> line.proto, fmt |-> line.fmt,
   codec |-> None, freq |-> None, control |-> None, endpoint |-> None,
   filter |-> session.filter, start |-> 0, end |-> 0,
   clientPort |-> line.port, serverPort |-> line.port, channels |-> <<255, 255>>,
   fmtp |-> <<>>, bandwidth |-> 0, width |-> 0, height |-> 0, fps |-> 0]

-----------------------------------------------------------------------------
(* Values that one line gives. *)

Relative(path) == [absolute |-> FALSE, path |-> path]
Spilled == "a line that follows"

\* "a=control: %s": white space is skipped, line ends too, so an empty value
\* becomes the beginning of the next line.
ControlPath(lines, n) ==
  IF lines[n].path # None THEN lines[n].path
  ELSE IF n < Len(lines) THEN Relative(<<Spilled>>) ELSE None

\* The number behind the first '/' of a line: 0 when no digit is behind it, None
\* when the line has no '/'.
BehindSlash(line) ==
  CASE line.kind = "c" -> line.ttl
    [] line.kind = "rtpmap" -> line.freq
    [] line.kind = "m" /\ line.proto = "RTP" -> 0
    [] line.kind = "control" /\ line.path # None /\ line.path.absolute -> 0
    [] OTHER -> None

\* "%[^/]/%u" and, when that finds no number, "%s": a codec without frequency is
\* read up to the first '/' of the description and its frequency behind that.
Rtpmap(lines, n) ==
  LET slashes == {k \in n .. Len(lines) : BehindSlash(lines[k]) # None}
      first == CHOOSE k \in slashes : \A j \in slashes : k <= j
  IN  IF slashes = {} \/ BehindSlash(lines[first]) = 0
      THEN [codec |-> lines[n].codec, freq |-> None]
      ELSE [codec |-> IF first = n THEN lines[n].codec ELSE Spilled,
            freq |-> BehindSlash(lines[first])]

\* "npt = %lg - %lg" must give both numbers.
IsRange(line) == line.kind = "range" /\ line.end # None

\* The parameters of "a=fmtp:" that are looked for, constantsize not among them
\* (its format asks for "constantsize;").
Numbers ==
  {"auxiliarydatasizelength", "constantduration", "crc", "ctsdeltalength",
   "de-interleavebuffersize", "dtsdeltalength", "indexdeltalength", "indexlength",
   "interleaving", "maxdisplacement", "objecttype", "octet-align",
   "profile-level-id", "robust-sorting", "sizelength", "streamstateindication",
   "streamtype"}
Booleans == {"cpresent", "randomaccessindication"}
Strings ==
  {"config", "configuration", "mode", "sprop-parameter-sets", "emphasis",
   "channel-order"}

\* Those that may stand alone, which means 1.
Flags == {"octet-align", "cpresent", "crc", "robust-sorting", "randomaccessindication"}

\* The field a parameter is kept in: two names share fConfig.
Field(name) == IF name = "configuration" THEN "config" ELSE name

\* One parameter of "a=fmtp:", whatever payload format the line is about.
Parameter(fields, p) ==
  CASE p.value # None /\ p.name \in Numbers \cup Strings ->
         (Field(p.name) :> p.value) @@ fields
    [] p.value # None /\ p.name \in Booleans ->
         (p.name :> IF p.value = 0 THEN 0 ELSE 1) @@ fields
    [] p.value = None /\ p.name \in Flags -> (p.name :> 1) @@ fields
    [] OTHER -> fields

Later(time, other) == IF other > time THEN other ELSE time

\* parseSourceFilterAttribute: a name without an address leaves the filter alone.
Filter(old, line) == IF line.address = None THEN old ELSE line.address

\* A control path that could be read replaces the old one.
ControlOf(old, lines, n) ==
  IF ControlPath(lines, n) = None THEN old ELSE ControlPath(lines, n)

\* parseSDPLine: "<letter>=...".
WellFormed(line) == line.kind # "invalid"

-----------------------------------------------------------------------------
(* initializeWithSDP. *)

\* A line before the first "m=".
SessionLine(session, lines, n) ==
  LET line == lines[n] IN
  CASE line.kind = "s" -> [session EXCEPT !.name = line.text]
    [] line.kind = "i" -> [session EXCEPT !.description = line.text]
    [] line.kind = "c" -> [session EXCEPT !.endpoint = line.address]
    [] line.kind = "control" ->
         [session EXCEPT !.control = ControlOf(@, lines, n)]
    [] IsRange(line) ->
         [session EXCEPT !.start = Later(@, line.start), !.end = Later(@, line.end)]
    [] line.kind = "filter" -> [session EXCEPT !.filter = Filter(@, line)]
    [] OTHER -> session

\* Mutant: every rtpmap of a section is taken for the section's own format.
AnyFormat(sub, line) == TRUE

MatchesFormat(sub, line) == line.fmt = sub.fmt

\* parseSDPAttribute_range of the last subsession: a range that widens that of the
\* subsession also widens that of the session.
Widened(session, line) ==
  LET last == Len(session.subs)
      sub  == session.subs[last]
  IN  [session EXCEPT !.subs[last].start = Later(@, line.start),
                      !.subs[last].end   = Later(@, line.end),
                      !.start = IF line.start > sub.start THEN Later(@, line.start) ELSE @,
                      !.end   = IF line.end > sub.end THEN Later(@, line.end) ELSE @]

\* parseSDPAttribute_fmtp: one parameter after the other.
Parameters(sub, line) == [sub EXCEPT !.fmtp = FoldLeft(Parameter, @, line.params)]

\* parseSDPAttribute_x_dimensions keeps 16 bits of each.
Dimensions(sub, line) ==
  [sub EXCEPT !.width = line.width % 65536, !.height = line.height % 65536]

\* parseSDPAttribute_framerate drops the fraction.
FrameRate(sub, line) == [sub EXCEPT !.fps = line.thousandths \div 1000]

\* A line of the section of the last subsession.
SubsessionLine(session, lines, n) ==
  LET line == lines[n]
      last == Len(session.subs)
      sub  == session.subs[last]
      Becomes(new) == [session EXCEPT !.subs[last] = new]
  IN
  CASE line.kind = "c" -> Becomes([sub EXCEPT !.endpoint = line.address])
    [] line.kind = "rtpmap" /\ MatchesFormat(sub, line) ->
         Becomes([sub EXCEPT !.codec = Rtpmap(lines, n).codec,
                             !.freq  = Rtpmap(lines, n).freq])
    [] line.kind = "control" ->
         Becomes([sub EXCEPT !.control = ControlOf(@, lines, n)])
    [] IsRange(line) -> Widened(session, line)
    [] line.kind = "filter" -> Becomes([sub EXCEPT !.filter = Filter(@, line)])
    [] line.kind = "fmtp" -> Becomes(Parameters(sub, line))
    [] line.kind = "b" -> Becomes([sub EXCEPT !.bandwidth = line.kbps])
    [] line.kind = "dimensions" -> Becomes(Dimensions(sub, line))
    [] line.kind = "framerate" -> Becomes(FrameRate(sub, line))
    [] OTHER -> session

\* What is done when a section ends: a codec by static format, a frequency by
\* guess.  A codec that stays unknown fails the whole description.
Codec(sub) ==
  IF sub.codec # None THEN [codec |-> sub.codec, freq |-> sub.freq]
  ELSE StaticFormat(sub.fmt)

EndSection(parse) ==
  LET last  == Len(parse.session.subs)
      sub   == parse.session.subs[last]
      codec == Codec(sub).codec
      freq  == IF Codec(sub).freq # None THEN Codec(sub).freq
               ELSE GuessedFrequency(sub.medium, codec)
  IN  IF parse.at # "media" THEN parse
      ELSE IF codec = None THEN [parse EXCEPT !.ok = FALSE]
      ELSE [parse EXCEPT !.session.subs[last] =
              [sub EXCEPT !.codec = codec, !.freq = freq]]

\* A line "m=" that is bad makes no subsession, and its section is skipped.
StartSection(parse, line) ==
  IF line.proto = "bad" THEN [parse EXCEPT !.at = "bad section"]
  ELSE [parse EXCEPT !.at = "media",
                     !.session.subs = Append(@, NewSubsession(parse.session, line))]

\* One line: it ends the section before it, or belongs to the current one.  The
\* first line of all is tested for its form only.
ParseLine(lines, parse, n) ==
  LET line == lines[n] IN
  IF ~parse.ok THEN parse
  ELSE CASE ~WellFormed(line) -> [parse EXCEPT !.ok = FALSE]
         [] line.kind = "m" -> StartSection(EndSection(parse), line)
         [] OTHER ->
              CASE parse.at = "session" /\ n > 1 ->
                     [parse EXCEPT !.session = SessionLine(@, lines, n)]
                [] parse.at = "media" ->
                     [parse EXCEPT !.session = SubsessionLine(@, lines, n)]
                [] OTHER -> parse

\* MediaSession::createNew: NULL unless the whole description is understood.
CreateNew(lines) ==
  LET start == [at |-> "session", ok |-> TRUE, session |-> NewSession]
      parse == EndSection(FoldLeftDomain(LAMBDA p, n : ParseLine(lines, p, n),
                                         start, lines))
  IN  IF parse.ok THEN parse.session ELSE None

=============================================================================

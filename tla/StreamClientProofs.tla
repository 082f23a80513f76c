-------------------------- MODULE StreamClientProofs --------------------------
(***************************************************************************)
(* For every set of clients and every bound: types; commands in a session  *)
(* only while there is one, and none without a session that is ever built  *)
(* (CommandsHaveSession); and, if the application calls rtsp_play once per *)
(* client, one command of the chain at a time (PlayFollowsSetups).  If it  *)
(* sends no PLAY of its own either, no timer outlives its client           *)
(* (ScheduledIsLive).                                                      *)
(*                                                                         *)
(* The invariants speak of the three places a command can be: the queues,  *)
(* connectionHandler1's local queue and the handler being called.  Has and *)
(* Single say what is in a queue; the step proofs use them only through    *)
(* the lemmas below.                                                       *)
(***************************************************************************)
EXTENDS StreamClient, TLAPS

Has(q, S) == \E i \in DOMAIN q : q[i] \in S
Single(q) == \A i, j \in DOMAIN q : q[i] \in Chain /\ q[j] \in Chain => i = j

LEMMA HasEmpty == \A S : ~Has(<<>>, S)
BY DEF Has

LEMMA SingleEmpty == Single(<<>>)
BY DEF Single

\* A queue has what it had, and what was appended.
LEMMA HasAppend ==
  ASSUME NEW q \in Seq(Command), NEW x \in Command, NEW S
  PROVE  Has(Append(q, x), S) <=> Has(q, S) \/ x \in S
<1> DEFINE a == Append(q, x)
<1>1. DOMAIN a = 1 .. Len(q) + 1 /\ DOMAIN q = 1 .. Len(q) /\ Len(q) \in Nat
  OBVIOUS
<1>2. a[Len(q) + 1] = x /\ \A i \in 1 .. Len(q) : a[i] = q[i]
  OBVIOUS
<1> HIDE DEF a
<1>3. Has(a, S) <=> Has(q, S) \/ x \in S
  BY <1>1, <1>2 DEF Has
<1>4. QED
  BY <1>3 DEF a

\* ... and what it has is its head or in its tail.
LEMMA HasTail ==
  ASSUME NEW q \in Seq(Command), q # <<>>, NEW S
  PROVE  Has(q, S) <=> Head(q) \in S \/ Has(Tail(q), S)
<1> DEFINE t == Tail(q)
<1>1. /\ DOMAIN t = 1 .. Len(q) - 1 /\ DOMAIN q = 1 .. Len(q)
      /\ Len(q) \in Nat /\ Len(q) > 0 /\ Head(q) = q[1]
  OBVIOUS
<1>2. \A i \in 1 .. Len(q) - 1 : t[i] = q[i + 1]
  OBVIOUS
<1> HIDE DEF t
<1>3. ASSUME Has(q, S) PROVE Head(q) \in S \/ Has(t, S)
  <2>1. PICK i \in 1 .. Len(q) : q[i] \in S
    BY <1>1, <1>3 DEF Has
  <2>2. CASE i = 1
    BY <2>1, <2>2, <1>1
  <2>3. CASE i # 1
    <3>1. i - 1 \in 1 .. Len(q) - 1 /\ t[i - 1] = q[i]
      BY <2>1, <2>3, <1>1, <1>2
    <3>2. QED
      BY <3>1, <2>1, <1>1 DEF Has
  <2>4. QED
    BY <2>2, <2>3
<1>4. ASSUME Has(t, S) PROVE Has(q, S)
  BY <1>4, <1>1, <1>2 DEF Has
<1>5. ASSUME Head(q) \in S PROVE Has(q, S)
  BY <1>5, <1>1 DEF Has
<1>6. QED
  BY <1>3, <1>4, <1>5 DEF t

\* Appending a command of the chain to a queue without one.
LEMMA SingleAppend ==
  ASSUME NEW q \in Seq(Command), NEW x \in Command, Single(q),
         x \in Chain => ~Has(q, Chain)
  PROVE  Single(Append(q, x))
<1> DEFINE a == Append(q, x)
<1>1. DOMAIN a = 1 .. Len(q) + 1 /\ DOMAIN q = 1 .. Len(q) /\ Len(q) \in Nat
  OBVIOUS
<1>2. a[Len(q) + 1] = x /\ \A i \in 1 .. Len(q) : a[i] = q[i]
  OBVIOUS
<1> HIDE DEF a
<1>3. Single(a)
  BY <1>1, <1>2 DEF Has, Single
<1>4. QED
  BY <1>3 DEF a

LEMMA SingleTail ==
  ASSUME NEW q \in Seq(Command), q # <<>>, Single(q)
  PROVE  Single(Tail(q)) /\ (Head(q) \in Chain => ~Has(Tail(q), Chain))
<1> DEFINE t == Tail(q)
<1>1. /\ DOMAIN t = 1 .. Len(q) - 1 /\ DOMAIN q = 1 .. Len(q)
      /\ Len(q) \in Nat /\ Len(q) > 0 /\ Head(q) = q[1]
  OBVIOUS
<1>2. \A i \in 1 .. Len(q) - 1 : t[i] = q[i + 1]
  OBVIOUS
<1> HIDE DEF t
<1>3. Single(t)
  BY <1>1, <1>2 DEF Single
<1>4. Head(q) \in Chain => ~Has(t, Chain)
  BY <1>1, <1>2 DEF Single, Has
<1>5. QED
  BY <1>3, <1>4 DEF t

-----------------------------------------------------------------------------
(* Types. *)

\* streamTimerTask names a task that is scheduled, of a client that exists.
TokenNamesTask == \A c \in Client : token[c] => tasks[c] > 0 /\ life[c] # "closed"

\* connectionHandler1 runs for a client.
LoopHasOwner == mode # "idle" => owner \in Client

TypeInv == TypeOK /\ TokenNamesTask /\ LoopHasOwner

\* What sendRequest may change.
LEMMA SendEffect ==
  ASSUME TypeOK, NEW c \in Client, NEW cmd \in Command, Send(c, cmd)
  PROVE  /\ link' \in [Client -> {"none", "connecting", "open", "ended", "refused"}]
         /\ awaiting' \in [Client -> Seq(Command)]
         /\ running' \in Call \cup {None}
         /\ \A d \in Client : d # c => awaiting'[d] = awaiting[d]
         /\ \/ /\ running' = None
               /\ awaiting'[c] = awaiting[c] \/ awaiting'[c] = Append(awaiting[c], cmd)
            \/ /\ running' = [client |-> c, command |-> cmd, ok |-> FALSE]
               /\ awaiting'[c] = awaiting[c]
<1>1. CASE Queued(c, cmd)
  <2>1. PICK l \in {"connecting", "open"} : link' = [link EXCEPT ![c] = l]
    BY <1>1 DEF Queued
  <2>2. awaiting[c] \in Seq(Command) /\ Append(awaiting[c], cmd) \in Seq(Command)
    BY DEF TypeOK
  <2>3. awaiting' = [awaiting EXCEPT ![c] = Append(awaiting[c], cmd)] /\ running' = None
    BY <1>1 DEF Queued
  <2>4. QED
    BY <2>1, <2>2, <2>3 DEF TypeOK
<1>2. CASE SentInVain(c, cmd)
  BY <1>2 DEF SentInVain, TypeOK
<1>3. CASE FailsAtOnce(c, cmd)
  BY <1>3 DEF FailsAtOnce, TypeOK, Call
<1>4. QED
  BY <1>1, <1>2, <1>3 DEF Send

LEMMA CloseTypes ==
  ASSUME TypeInv, NEW c \in Client, NEW s, NEW tok \in BOOLEAN, NEW n \in Nat,
         tok => n > 0, Close(c, s, tok, n)
  PROVE  /\ life' \in [Client -> {"unused", "live", "closed", "orphaned"}]
         /\ session' \in [Client -> {"none", "unending", "finite"}]
         /\ tasks' \in [Client -> Nat]
         /\ token' \in [Client -> BOOLEAN]
         /\ link' \in [Client -> {"none", "connecting", "open", "ended", "refused"}]
         /\ awaiting' \in [Client -> Seq(Command)]
         /\ running' \in Call \cup {None}
         /\ UNCHANGED <<left, timed, started, setUp>>
         /\ TokenNamesTask'
<1>1. UNCHANGED <<left, timed, started, setUp>> /\ running' = None
  BY DEF Close
<1>2. tasks' \in [Client -> Nat]
  BY DEF Close, TypeInv, TypeOK
<1>3. TokenNamesTask'
  BY DEF Close, TypeInv, TypeOK, TokenNamesTask
<1>4. QED
  BY <1>1, <1>2, <1>3 DEF Close, TypeInv, TypeOK

LEMMA SetupNextTypes ==
  ASSUME TypeInv, NEW c \in Client, NEW s \in {"none", "unending", "finite"},
         NEW n \in 0 .. MaxTracks, SetupNext(c, s, n)
  PROVE  /\ session' \in [Client -> {"none", "unending", "finite"}]
         /\ left' \in [Client -> 0 .. MaxTracks]
         /\ timed' \in [Client -> BOOLEAN]
         /\ link' \in [Client -> {"none", "connecting", "open", "ended", "refused"}]
         /\ awaiting' \in [Client -> Seq(Command)]
         /\ running' \in Call \cup {None}
         /\ UNCHANGED <<life, timer, started, setUp>>
<1>1. Send(c, "PLAY") \/ Send(c, "SETUP")
  BY DEF SetupNext
<1>2. "PLAY" \in Command /\ "SETUP" \in Command
  BY DEF Command, Chain
<1>3. /\ link' \in [Client -> {"none", "connecting", "open", "ended", "refused"}]
      /\ awaiting' \in [Client -> Seq(Command)]
      /\ running' \in Call \cup {None}
  BY <1>1, <1>2, SendEffect DEF TypeInv
<1>4. /\ left' \in [Client -> 0 .. MaxTracks]
      /\ timed' \in [Client -> BOOLEAN]
  <2>1. CASE n = 0
    BY <2>1 DEF SetupNext, NoneLeft, TypeInv, TypeOK
  <2>2. CASE n # 0
    <3>1. n - 1 \in 0 .. MaxTracks
      BY <2>2, StreamAssumption
    <3>2. QED
      BY <2>2, <3>1 DEF SetupNext, NoneLeft, TypeInv, TypeOK
  <2>3. QED
    BY <2>1, <2>2
<1>5. QED
  BY <1>3, <1>4 DEF SetupNext, TypeInv, TypeOK

\* What a call of the application sends is no command of the chain, is in a session
\* or comes too early for one, and is a PLAY if the application asked for that.
Resumes == {"RESUME", "earlyRESUME"}

LEMMA RequestIs ==
  ASSUME NEW c \in Client, NEW cmd \in Controls
  PROVE  /\ Request(c, cmd) \in Command /\ Request(c, cmd) \notin Chain
         /\ IF session[c] = "none" THEN Request(c, cmd) \in Early ELSE Request(c, cmd) \in Control
         /\ Request(c, cmd) \in Resumes => "RESUME" \in Controls
<1>1. cmd \in {"PAUSE", "RESUME", "TEARDOWN"}
  BY StreamAssumption
<1>2. QED
  BY <1>1 DEF Request, Unsessioned, Command, Chain, Control, Early, Resumes

LEMMA TypeInit == Init => TypeInv
BY StreamAssumption DEF Init, TypeInv, TypeOK, TokenNamesTask, LoopHasOwner

\* The handlers keep the types: what they leave alone, and the lemmas above.
LEMMA HandlersTypes ==
  ASSUME TypeInv, NEW c \in Client, Handlers(c)
  PROVE  TypeInv'
<1> USE DEF TypeInv
<1> SUFFICES TypeOK' /\ TokenNamesTask'
  <2>1. UNCHANGED looped
    BY DEF Handlers, ContinueAfterOPTIONS, ContinueAfterDESCRIBE, ContinueAfterSETUP,
           ContinueAfterPLAY, ContinueAfterPAUSEorTEARDOWN
  <2>2. QED
    BY <2>1 DEF looped, LoopHasOwner
<1>0. "DESCRIBE" \in Command
  BY DEF Command, Chain
<1>1. CASE ContinueAfterOPTIONS(c)
  <2>1. Send(c, "DESCRIBE") /\ UNCHANGED <<library, life, stream, timer, looped, asked>>
    BY <1>1 DEF ContinueAfterOPTIONS
  <2>2. TypeOK'
    BY <2>1, <1>0, SendEffect DEF TypeOK, stream, timer, looped, asked
  <2>3. QED
    BY <2>1, <2>2 DEF TokenNamesTask, timer
<1>2. CASE \E s \in {"none", "unending", "finite"}, n \in 0 .. MaxTracks :
             SetupNext(c, s, n) /\ UNCHANGED <<library, looped, asked>>
  <2>1. PICK s \in {"none", "unending", "finite"}, n \in 0 .. MaxTracks :
             SetupNext(c, s, n) /\ UNCHANGED <<library, looped, asked>>
    BY <1>2
  <2>2. TypeOK'
    BY <2>1, SetupNextTypes DEF TypeOK, timer, looped, asked
  <2>3. TokenNamesTask'
    BY <2>1, SetupNextTypes DEF TokenNamesTask, timer
  <2>4. QED
    BY <2>2, <2>3
<1>3. CASE \E s : Close(c, s, token[c], tasks[c]) /\ UNCHANGED <<library, looped, asked>>
  <2>1. PICK s : Close(c, s, token[c], tasks[c]) /\ UNCHANGED <<library, looped, asked>>
    BY <1>3
  <2>2. token[c] \in BOOLEAN /\ tasks[c] \in Nat /\ (token[c] => tasks[c] > 0)
    BY DEF TypeOK, TokenNamesTask
  <2>3. QED
    BY <2>1, <2>2, CloseTypes DEF TypeOK, looped, asked
<1>4. CASE ContinueAfterDESCRIBE(c)
  BY <1>2, <1>3, <1>4, StreamAssumption DEF ContinueAfterDESCRIBE, BadDescription, Shutdown
<1>5. CASE ContinueAfterSETUP(c)
  <2>1. session[c] \in {"none", "unending", "finite"} /\ left[c] \in 0 .. MaxTracks
    BY DEF TypeOK
  <2>2. QED
    BY <1>2, <1>5, <2>1 DEF ContinueAfterSETUP, AfterSetup
<1>6. CASE ContinueAfterPLAY(c)
  <2>1. CASE running.ok
    <3>1. /\ tasks' = [tasks EXCEPT ![c] = IF timed[c] THEN @ + 1 ELSE @]
          /\ token' = [token EXCEPT ![c] = @ \/ timed[c]]
          /\ started' = [started EXCEPT ![c] = TRUE]
          /\ running' = None
          /\ UNCHANGED <<life, session, left, timed, setUp, link, awaiting, library, looped, asked>>
          /\ life[c] = "live"
      BY <1>6, <2>1 DEF ContinueAfterPLAY, Calling
    <3>2. tasks' \in [Client -> Nat] /\ token' \in [Client -> BOOLEAN]
      BY <3>1 DEF TypeOK
    <3>3. TypeOK'
      BY <3>1, <3>2 DEF TypeOK, looped, asked
    <3>4. TokenNamesTask'
      <4> SUFFICES ASSUME NEW d \in Client, token'[d] PROVE tasks'[d] > 0 /\ life'[d] # "closed"
        BY DEF TokenNamesTask
      <4>1. CASE d = c /\ timed[c]
        BY <4>1, <3>1 DEF TypeOK
      <4>2. CASE d # c \/ ~timed[c]
        BY <4>2, <3>1 DEF TypeOK, TokenNamesTask
      <4>3. QED
        BY <4>1, <4>2
    <3>5. QED
      BY <3>3, <3>4
  <2>2. CASE ~running.ok
    BY <1>3, <1>6, <2>2 DEF ContinueAfterPLAY, Shutdown
  <2>3. QED
    BY <2>1, <2>2
<1>7. CASE ContinueAfterPAUSEorTEARDOWN(c)
  BY <1>7 DEF ContinueAfterPAUSEorTEARDOWN, HandlerReturns, TypeOK, TokenNamesTask, stream,
              timer, looped, asked
<1>8. QED
  BY <1>1, <1>4, <1>5, <1>6, <1>7 DEF Handlers

\* ... and so does every other step.
LEMMA TypeStep == TypeInv /\ [Next]_vars => TypeInv'
<1> SUFFICES ASSUME TypeInv, [Next]_vars PROVE TypeInv'
  OBVIOUS
<1> USE DEF TypeInv
<1> SUFFICES ASSUME Next PROVE TypeInv'
  BY DEF vars, stream, timer, looped, asked, TypeOK, TokenNamesTask, LoopHasOwner
<1>1. CASE ClientInit
  BY <1>1 DEF ClientInit, TypeOK, TokenNamesTask, LoopHasOwner, stream, timer, looped, asked
<1>2. CASE ClientCleanup
  BY <1>2 DEF ClientCleanup, TypeOK, TokenNamesTask, LoopHasOwner, stream, timer, looped, asked
<1>3. CASE HandlerOfClosed
  BY <1>3 DEF HandlerOfClosed, HandlerReturns, TypeOK, TokenNamesTask, LoopHasOwner, stream,
              timer, looped, asked
<1>4. CASE ResumeNext
  <2>1. /\ mode = "resuming" /\ tmp # <<>> /\ tmp' = Tail(tmp)
        /\ UNCHANGED <<library, life, stream, timer, mode, owner, asked>>
    BY <1>4 DEF ResumeNext
  <2>2. Head(tmp) \in Command /\ Tail(tmp) \in Seq(Command) /\ owner \in Client
    BY <2>1 DEF TypeOK, LoopHasOwner
  <2>3. CASE UNCHANGED <<link, awaiting, running>>
    BY <2>1, <2>2, <2>3 DEF TypeOK, TokenNamesTask, LoopHasOwner, stream, timer, asked
  <2>4. CASE Send(owner, Head(tmp))
    <3>1. TypeOK'
      BY <2>1, <2>2, <2>4, SendEffect DEF TypeOK, stream, timer, asked
    <3>2. QED
      BY <2>1, <3>1 DEF TokenNamesTask, LoopHasOwner, timer
  <2>5. QED
    BY <1>4, <2>3, <2>4 DEF ResumeNext
<1>5. CASE FailNext
  <2>1. /\ mode = "failing" /\ tmp # <<>> /\ tmp' = Tail(tmp)
        /\ running' = [client |-> owner, command |-> Head(tmp), ok |-> FALSE]
        /\ UNCHANGED <<library, life, stream, timer, link, awaiting, mode, owner, asked>>
    BY <1>5 DEF FailNext
  <2>2. Head(tmp) \in Command /\ Tail(tmp) \in Seq(Command) /\ owner \in Client
    BY <2>1 DEF TypeOK, LoopHasOwner
  <2>3. running' \in Call
    BY <2>1, <2>2 DEF Call
  <2>4. QED
    BY <2>1, <2>2, <2>3 DEF TypeOK, TokenNamesTask, LoopHasOwner, stream, timer, asked
<1>6. CASE ConnectionHandlerReturns
  <2>1. /\ mode' = "idle" /\ owner' = None /\ owner \in Client
        /\ link' = [link EXCEPT ![owner] = IF mode = "failing" THEN "none" ELSE @]
        /\ UNCHANGED <<library, life, stream, timer, awaiting, running, tmp, asked>>
    BY <1>6 DEF ConnectionHandlerReturns, LoopHasOwner
  <2>2. QED
    BY <2>1 DEF TypeOK, TokenNamesTask, LoopHasOwner, stream, timer, asked
<1>7. ASSUME NEW c \in Client, CreateNew(c) PROVE TypeInv'
  BY <1>7 DEF CreateNew, TypeOK, TokenNamesTask, LoopHasOwner, stream, timer, looped, asked
<1>8. ASSUME NEW c \in Client, RtspPlay(c) PROVE TypeInv'
  <2>1. Send(c, "OPTIONS") /\ UNCHANGED <<library, life, stream, timer, looped, controls>>
    BY <1>8 DEF RtspPlay
  <2>2. "OPTIONS" \in Command
    BY DEF Command, Chain
  <2>3. opened' \in [Client -> 0 .. MaxOpens]
    <3>1. opened[c] \in 0 .. MaxOpens /\ opened[c] < MaxOpens
      BY <1>8 DEF RtspPlay, TypeOK
    <3>2. opened[c] + 1 \in 0 .. MaxOpens
      BY <3>1, StreamAssumption
    <3>3. QED
      BY <1>8, <3>2 DEF RtspPlay, TypeOK
  <2>4. TypeOK'
    BY <2>1, <2>2, <2>3, SendEffect DEF TypeOK, stream, timer, looped
  <2>5. QED
    BY <2>1, <2>4 DEF TokenNamesTask, LoopHasOwner, timer, looped
<1>9. ASSUME NEW c \in Client, NEW cmd \in Controls, RtspControl(c, cmd) PROVE TypeInv'
  <2>1. Send(c, Request(c, cmd)) /\ UNCHANGED <<library, life, stream, timer, looped, opened>>
    BY <1>9 DEF RtspControl
  <2>2. Request(c, cmd) \in Command
    BY RequestIs
  <2>3. controls' \in [Client -> 0 .. MaxControls]
    <3>1. controls[c] \in 0 .. MaxControls /\ controls[c] < MaxControls
      BY <1>9 DEF RtspControl, TypeOK
    <3>2. controls[c] + 1 \in 0 .. MaxControls
      BY <3>1, StreamAssumption
    <3>3. QED
      BY <1>9, <3>2 DEF RtspControl, TypeOK
  <2>4. TypeOK'
    BY <2>1, <2>2, <2>3, SendEffect DEF TypeOK, stream, timer, looped
  <2>5. QED
    BY <2>1, <2>4 DEF TokenNamesTask, LoopHasOwner, timer, looped
<1>10. ASSUME NEW c \in Client, StreamTimer(c) PROVE TypeInv'
  <2>1. UNCHANGED <<library, looped, asked>> /\ tasks[c] \in Nat /\ tasks[c] > 0
    BY <1>10 DEF StreamTimer, TypeOK
  <2>2. tasks[c] - 1 \in Nat
    BY <2>1
  <2>3. CASE Close(c, session[c], TokenReset(c), tasks[c] - 1)
    <3>1. Close(c, session[c], FALSE, tasks[c] - 1)
      BY <2>3 DEF TokenReset
    <3>2. QED
      BY <2>1, <2>2, <3>1, CloseTypes DEF TypeOK, LoopHasOwner, looped, asked
  <2>4. CASE /\ life[c] = "closed"
             /\ tasks' = [tasks EXCEPT ![c] = @ - 1]
             /\ UNCHANGED <<life, stream, token, link, awaiting, running>>
    <3>1. tasks' \in [Client -> Nat]
      BY <2>2, <2>4 DEF TypeOK
    <3>2. TokenNamesTask'
      BY <2>4 DEF TokenNamesTask, TypeOK
    <3>3. QED
      BY <2>1, <2>4, <3>1, <3>2 DEF TypeOK, LoopHasOwner, stream, looped, asked
  <2>5. QED
    BY <1>10, <2>3, <2>4 DEF StreamTimer
<1>11. ASSUME NEW c \in Client, NEW ok \in BOOLEAN, Answered(c, ok) PROVE TypeInv'
  <2>1. /\ awaiting[c] # <<>> /\ awaiting' = [awaiting EXCEPT ![c] = Tail(@)]
        /\ running' = [client |-> c, command |-> Head(awaiting[c]), ok |-> ok]
        /\ UNCHANGED <<library, life, session, left, timed, started, timer, link, looped, asked>>
        /\ setUp' \in [Client -> BOOLEAN]
    BY <1>11 DEF Answered, TypeOK
  <2>2. Head(awaiting[c]) \in Command /\ Tail(awaiting[c]) \in Seq(Command)
    BY <2>1 DEF TypeOK
  <2>3. running' \in Call
    BY <2>1, <2>2 DEF Call
  <2>4. awaiting' \in [Client -> Seq(Command)]
    BY <2>1, <2>2 DEF TypeOK
  <2>5. QED
    BY <2>1, <2>3, <2>4 DEF TypeOK, TokenNamesTask, LoopHasOwner, stream, timer, looped, asked
<1>12. ASSUME NEW c \in Client, NEW made \in BOOLEAN, ConnectionHandler(c, made) PROVE TypeInv'
  <2>1. /\ link' = [link EXCEPT ![c] = IF made THEN "open" ELSE "refused"]
        /\ mode' = (IF made THEN "resuming" ELSE "failing") /\ owner' = c
        /\ tmp' = awaiting[c] /\ awaiting' = [awaiting EXCEPT ![c] = <<>>]
        /\ UNCHANGED <<library, life, stream, timer, running, asked>>
    BY <1>12 DEF ConnectionHandler
  <2>2. awaiting' \in [Client -> Seq(Command)] /\ tmp' \in Seq(Command)
    BY <2>1 DEF TypeOK
  <2>3. link' \in [Client -> {"none", "connecting", "open", "ended", "refused"}]
    BY <2>1 DEF TypeOK
  <2>4. mode' \in {"idle", "resuming", "failing"} /\ owner' \in Client
    BY <2>1
  <2>5. UNCHANGED <<library, life, session, left, timed, started, setUp, tasks, token, running, opened,
                    controls>>
    BY <2>1 DEF stream, timer, asked
  <2>6. TypeOK'
    BY <2>2, <2>3, <2>4, <2>5 DEF TypeOK
  <2>7. QED
    BY <2>4, <2>5, <2>6 DEF TokenNamesTask, LoopHasOwner
<1>13. ASSUME NEW c \in Client, ConnectionEnds(c) \/ ReadEnd(c) PROVE TypeInv'
  <2>1. CASE ConnectionEnds(c)
    BY <2>1 DEF ConnectionEnds, TypeOK, TokenNamesTask, LoopHasOwner, stream, timer, looped, asked
  <2>2. CASE ReadEnd(c)
    BY <2>2 DEF ReadEnd, TypeOK, TokenNamesTask, LoopHasOwner, stream, timer, looped, asked
  <2>3. QED
    BY <1>13, <2>1, <2>2
<1>14. QED
  BY <1>1, <1>2, <1>3, <1>4, <1>5, <1>6, <1>7, <1>8, <1>9, <1>10, <1>11, <1>12, <1>13,
     HandlersTypes DEF Next

\* The types are right in every reachable state, the number of a client's timers
\* and its token among them.
THEOREM StreamTypeCorrect == Spec => []TypeOK
<1>1. TypeInv => TypeOK
  BY DEF TypeInv
<1>2. QED
  BY TypeInit, TypeStep, <1>1, PTL DEF Spec

-----------------------------------------------------------------------------
(* What is outstanding, place by place. *)

RunningIn(c, S) == running # None /\ running.client = c /\ running.command \in S

InTmp(c, S) == owner = c /\ Has(tmp, S)

Held(c, S) == Has(awaiting[c], S) \/ InTmp(c, S) \/ RunningIn(c, S)

\* Nothing is outstanding for a handle that was not yet given out.
Fresh(c) ==
  life[c] = "unused" => awaiting[c] = <<>> /\ owner # c /\ (running = None \/ running.client # c)

SessionHeld(c) == life[c] = "live" /\ Held(c, InSession) => session[c] # "none"

NoResume(c) == life[c] = "live" /\ "RESUME" \notin Controls => ~Held(c, Resumes)

\* One command of the chain, in one place; its PLAY once nothing is left.
ChainOnce(c) ==
  life[c] = "live" =>
    /\ Single(awaiting[c]) /\ (owner = c => Single(tmp))
    /\ Has(awaiting[c], Chain) => ~InTmp(c, Chain) /\ ~RunningIn(c, Chain)
    /\ InTmp(c, Chain) => ~RunningIn(c, Chain)
    /\ Held(c, Chain) => opened[c] # 0
    /\ Held(c, {"PLAY"}) => left[c] = 0

\* At most one timer, named by the token, once the chain is through.
OneTimer(c) ==
  /\ life[c] \in {"closed", "unused"} => tasks[c] = 0
  /\ life[c] = "live" =>
       \/ tasks[c] = 0
       \/ tasks[c] = 1 /\ token[c] /\ session[c] # "none" /\ ~Held(c, Chain) /\ opened[c] # 0

ClientInv(c) ==
  /\ Fresh(c) /\ SessionHeld(c) /\ NoResume(c)
  /\ MaxOpens = 1 => ChainOnce(c)
  /\ MaxOpens = 1 /\ "RESUME" \notin Controls => OneTimer(c)

StreamInv == TypeInv /\ \A c \in Client : ClientInv(c)

\* A smaller set is in fewer queues.
LEMMA HasSubset ==
  ASSUME NEW q, NEW S, NEW T, S \subseteq T, Has(q, S)
  PROVE  Has(q, T)
BY DEF Has

LEMMA HeldSubset ==
  ASSUME NEW c, NEW S, NEW T, S \subseteq T, Held(c, S)
  PROVE  Held(c, T)
BY HasSubset DEF Held, InTmp, RunningIn

\* A step that gives a client nothing new: requests of it are at most taken away.
Untouched(d) ==
  /\ awaiting'[d] = awaiting[d] \/ awaiting'[d] = <<>>
  /\ owner' = d => owner = d /\ (tmp' = tmp \/ (tmp # <<>> /\ tmp' = Tail(tmp)))
  /\ running' = running \/ running' = None \/ running'.client # d
  /\ life'[d] = life[d] \/ life'[d] = "orphaned"
  /\ session'[d] = session[d] /\ left'[d] = left[d] /\ opened'[d] = opened[d]
  /\ tasks'[d] = tasks[d] /\ token'[d] = token[d]

LEMMA UntouchedSafe ==
  ASSUME TypeInv, NEW d \in Client, ClientInv(d), Untouched(d)
  PROVE  ClientInv(d)'
<1>0. CASE life'[d] = "orphaned"
  BY <1>0 DEF ClientInv, Fresh, SessionHeld, NoResume, ChainOnce, OneTimer
<1> SUFFICES ASSUME life'[d] = life[d] PROVE ClientInv(d)'
  BY <1>0 DEF Untouched
<1>1. \A S : Has(awaiting'[d], S) => Has(awaiting[d], S)
  BY HasEmpty DEF Untouched
<1>2. \A S : InTmp(d, S)' => InTmp(d, S)
  <2> SUFFICES ASSUME NEW S, owner' = d, Has(tmp', S) PROVE owner = d /\ Has(tmp, S)
    BY DEF InTmp
  <2>1. CASE tmp' = tmp
    BY <2>1 DEF Untouched
  <2>2. CASE tmp # <<>> /\ tmp' = Tail(tmp)
    BY <2>2, HasTail DEF Untouched, TypeInv, TypeOK
  <2>3. QED
    BY <2>1, <2>2 DEF Untouched
<1>3. \A S : RunningIn(d, S)' => RunningIn(d, S)
  BY DEF Untouched, RunningIn
<1>4. \A S : Held(d, S)' => Held(d, S)
  BY <1>1, <1>2, <1>3 DEF Held
<1>5. Fresh(d)'
  BY DEF ClientInv, Fresh, Untouched
<1>6. SessionHeld(d)' /\ NoResume(d)'
  BY <1>4 DEF ClientInv, SessionHeld, NoResume, Untouched
<1>7. ASSUME MaxOpens = 1 PROVE ChainOnce(d)'
  <2> SUFFICES ASSUME life[d] = "live" PROVE ChainOnce(d)'
    BY DEF ChainOnce
  <2>1. ChainOnce(d)
    BY <1>7 DEF ClientInv
  <2>2. Single(awaiting'[d])
    BY <2>1, SingleEmpty DEF ChainOnce, Untouched
  <2>3. owner' = d => Single(tmp')
    BY <2>1, SingleTail DEF ChainOnce, Untouched, TypeInv, TypeOK
  <2>4. QED
    BY <2>1, <2>2, <2>3, <1>1, <1>2, <1>3, <1>4 DEF ChainOnce, Untouched
<1>8. OneTimer(d) => OneTimer(d)'
  BY <1>4 DEF OneTimer, Untouched
<1>9. QED
  BY <1>5, <1>6, <1>7, <1>8 DEF ClientInv

\* sendRequest(cmd) for c, called where no other command of the chain is
\* outstanding if cmd is one, and not before there is a session if cmd needs it.
LEMMA SendSafe ==
  ASSUME TypeInv, NEW c \in Client, NEW cmd \in Command, ClientInv(c), Send(c, cmd),
         life[c] = "live", life'[c] = "live",
         owner' = c => owner = c /\ (tmp' = tmp \/ (tmp # <<>> /\ tmp' = Tail(tmp))),
         cmd \in InSession \/ session[c] # "none" => session'[c] # "none",
         cmd \in Resumes => "RESUME" \in Controls,
         tasks'[c] = tasks[c], token'[c] = token[c],
         MaxOpens = 1 /\ (opened[c] # 0 \/ cmd \in Chain) => opened'[c] # 0,
         left'[c] = left[c] \/ cmd \in Chain,
         MaxOpens = 1 /\ cmd = "PLAY" => left'[c] = 0,
         MaxOpens = 1 /\ cmd \in Chain => ~Has(awaiting[c], Chain) /\ ~InTmp(c, Chain)',
         MaxOpens = 1 /\ "RESUME" \notin Controls /\ cmd \in Chain => tasks[c] = 0
  PROVE  ClientInv(c)'
<1>1. \A S : Has(awaiting'[c], S) => Has(awaiting[c], S) \/ (cmd \in S /\ running' = None)
  <2> SUFFICES ASSUME NEW S, Has(awaiting'[c], S), ~Has(awaiting[c], S)
               PROVE  cmd \in S /\ running' = None
    OBVIOUS
  <2>1. running' = None /\ awaiting'[c] = Append(awaiting[c], cmd)
    BY SendEffect DEF TypeInv
  <2>2. QED
    BY <2>1, HasAppend DEF TypeInv, TypeOK
<1>2. \A S : InTmp(c, S)' => InTmp(c, S)
  <2> SUFFICES ASSUME NEW S, owner' = c, Has(tmp', S) PROVE owner = c /\ Has(tmp, S)
    BY DEF InTmp
  <2>1. QED
    BY HasTail DEF TypeInv, TypeOK
<1>3. \A S : RunningIn(c, S)' => cmd \in S /\ awaiting'[c] = awaiting[c]
  <2>1. CASE running' = None
    BY <2>1 DEF RunningIn
  <2>2. CASE /\ running' = [client |-> c, command |-> cmd, ok |-> FALSE]
             /\ awaiting'[c] = awaiting[c]
    BY <2>2 DEF RunningIn
  <2>3. QED
    BY <2>1, <2>2, SendEffect DEF TypeInv
<1>4. \A S : Held(c, S)' => Held(c, S) \/ cmd \in S
  BY <1>1, <1>2, <1>3 DEF Held
<1>5. Fresh(c)' /\ SessionHeld(c)' /\ NoResume(c)'
  BY <1>4 DEF ClientInv, Fresh, SessionHeld, NoResume
<1>6. ASSUME MaxOpens = 1 PROVE ChainOnce(c)'
  <2>1. ChainOnce(c)
    BY <1>6 DEF ClientInv
  <2>2. Single(awaiting'[c])
    <3>1. CASE awaiting'[c] = awaiting[c]
      BY <3>1, <2>1 DEF ChainOnce
    <3>2. CASE awaiting'[c] = Append(awaiting[c], cmd)
      BY <3>2, <2>1, <1>6, SingleAppend DEF ChainOnce, TypeInv, TypeOK
    <3>3. QED
      BY <3>1, <3>2, SendEffect DEF TypeInv
  <2>3. owner' = c => Single(tmp')
    BY <2>1, SingleTail DEF ChainOnce, TypeInv, TypeOK
  <2>4. Has(awaiting'[c], Chain) => ~InTmp(c, Chain)' /\ ~RunningIn(c, Chain)'
    <3> SUFFICES ASSUME Has(awaiting'[c], Chain)
                 PROVE  ~InTmp(c, Chain)' /\ ~RunningIn(c, Chain)'
      OBVIOUS
    <3>1. CASE cmd \in Chain
      BY <3>1, <1>1, <1>6 DEF RunningIn
    <3>2. CASE cmd \notin Chain
      BY <3>2, <1>1, <1>2, <1>3, <2>1 DEF ChainOnce
    <3>3. QED
      BY <3>1, <3>2
  <2>5. InTmp(c, Chain)' => ~RunningIn(c, Chain)'
    BY <1>3, <1>6
  <2>6. Held(c, Chain)' => opened'[c] # 0
    BY <1>4, <1>6, <2>1 DEF ChainOnce
  <2>7. Held(c, {"PLAY"})' => left'[c] = 0
    <3> SUFFICES ASSUME Held(c, {"PLAY"})', cmd # "PLAY" PROVE left'[c] = 0
      BY <1>6
    <3>1. cmd \notin Chain
      <4> SUFFICES ASSUME cmd \in Chain PROVE FALSE
        OBVIOUS
      <4>1. ~RunningIn(c, {"PLAY"})'
        BY <1>3
      <4>2. ~InTmp(c, {"PLAY"})'
        BY <1>6, HasSubset DEF InTmp, Chain
      <4>3. ~Has(awaiting'[c], {"PLAY"})
        BY <1>1, <1>6, HasSubset DEF Chain
      <4>4. QED
        BY <4>1, <4>2, <4>3 DEF Held
    <3>2. QED
      BY <3>1, <1>4, <2>1 DEF ChainOnce
  <2>8. QED
    BY <2>2, <2>3, <2>4, <2>5, <2>6, <2>7 DEF ChainOnce, Held
<1>7. ASSUME MaxOpens = 1, "RESUME" \notin Controls PROVE OneTimer(c)'
  BY <1>4, <1>7 DEF ClientInv, OneTimer
<1>8. QED
  BY <1>5, <1>6, <1>7 DEF ClientInv

\* A client that is closed is owed nothing but that its timer is gone.
LEMMA CloseSafe ==
  ASSUME TypeInv, NEW c \in Client, ClientInv(c), NEW s, NEW tok, NEW n,
         Close(c, s, tok, n),
         MaxOpens = 1 /\ "RESUME" \notin Controls =>
           (n = 0 /\ ~tok) \/ (n = 1 /\ tok /\ s # "none")
  PROVE  ClientInv(c)'
<1>1. life'[c] = "closed"
  BY DEF Close, TypeInv, TypeOK
<1>2. tasks'[c] = IF s # "none" /\ tok THEN n - 1 ELSE n
  BY DEF Close, TypeInv, TypeOK
<1>3. MaxOpens = 1 /\ "RESUME" \notin Controls => OneTimer(c)'
  BY <1>1, <1>2 DEF OneTimer
<1>4. QED
  BY <1>1, <1>3 DEF ClientInv, Fresh, SessionHeld, NoResume, ChainOnce

\* Closing one client leaves the others alone.
LEMMA CloseOther ==
  ASSUME TypeInv, NEW c \in Client, NEW s, NEW tok, NEW n, Close(c, s, tok, n),
         UNCHANGED <<looped, asked>>, NEW d \in Client, d # c
  PROVE  Untouched(d)
BY DEF Close, Untouched, looped, asked, TypeInv, TypeOK

\* setupNextSubsession called by the handler of a command of the chain.
LEMMA SetupNextSafe ==
  ASSUME TypeInv, NEW c \in Client, ClientInv(c), RunningIn(c, Chain), life[c] = "live",
         NEW s \in {"unending", "finite"}, NEW n \in 0 .. MaxTracks, SetupNext(c, s, n),
         UNCHANGED <<library, looped, asked>>
  PROVE  ClientInv(c)'
<1>1. life' = life /\ tasks' = tasks /\ token' = token /\ session'[c] # "none"
  BY DEF SetupNext, timer, TypeInv, TypeOK
<1>2. owner' = owner /\ tmp' = tmp /\ opened' = opened
  BY DEF looped, asked
<1>3. MaxOpens = 1 => ~Has(awaiting[c], Chain) /\ ~InTmp(c, Chain)'
  BY <1>2 DEF ClientInv, ChainOnce, InTmp
<1>4. MaxOpens = 1 => opened[c] # 0
  BY DEF ClientInv, ChainOnce, Held
<1>5. MaxOpens = 1 /\ "RESUME" \notin Controls => tasks[c] = 0
  BY DEF ClientInv, OneTimer, Held
<1>6. \/ Send(c, "PLAY") /\ left'[c] = 0
      \/ Send(c, "SETUP")
  BY DEF SetupNext, NoneLeft, TypeInv, TypeOK
<1>7. /\ {"PLAY", "SETUP"} \subseteq Chain /\ {"PLAY", "SETUP"} \subseteq Command
      /\ "PLAY" \notin Resumes /\ "SETUP" \notin Resumes
  BY DEF Chain, Command, Resumes
<1>8. CASE Send(c, "PLAY") /\ left'[c] = 0
  BY <1>1, <1>2, <1>3, <1>4, <1>5, <1>7, <1>8, SendSafe
<1>9. CASE Send(c, "SETUP")
  BY <1>1, <1>2, <1>3, <1>4, <1>5, <1>7, <1>9, SendSafe
<1>10. QED
  BY <1>6, <1>8, <1>9

LEMMA SetupNextOther ==
  ASSUME TypeInv, NEW c \in Client, NEW s, NEW n, SetupNext(c, s, n),
         UNCHANGED <<library, looped, asked>>, NEW d \in Client, d # c
  PROVE  Untouched(d)
<1>1. PICK cmd \in {"PLAY", "SETUP"} : Send(c, cmd)
  BY DEF SetupNext
<1>2. cmd \in Command
  BY DEF Command, Chain
<1>3. awaiting'[d] = awaiting[d] /\ (running' = None \/ running'.client # d)
  BY <1>1, <1>2, SendEffect DEF TypeInv
<1>4. QED
  BY <1>3 DEF SetupNext, Untouched, timer, looped, asked, TypeInv, TypeOK

\* What holds of the client whose handler runs.
LEMMA CallingFacts ==
  ASSUME TypeInv, NEW c \in Client, NEW cmd \in Command, ClientInv(c), Calling(c, cmd)
  PROVE  /\ life[c] = "live"
         /\ \A S : cmd \in S => RunningIn(c, S) /\ Held(c, S)
         /\ cmd \in InSession => session[c] # "none"
         /\ MaxOpens = 1 /\ cmd \in Chain =>
              ~Has(awaiting[c], Chain) /\ ~InTmp(c, Chain) /\ opened[c] # 0
         /\ MaxOpens = 1 /\ cmd = "PLAY" => left[c] = 0
         /\ cmd \in Resumes => "RESUME" \in Controls
         /\ MaxOpens = 1 /\ "RESUME" \notin Controls /\ cmd \in Chain =>
              tasks[c] = 0 /\ ~token[c]
<1>1. life[c] = "live" /\ \A S : cmd \in S => RunningIn(c, S) /\ Held(c, S)
  BY DEF Calling, RunningIn, Held
<1>2. cmd \in InSession => session[c] # "none"
  BY <1>1 DEF ClientInv, SessionHeld
<1>3. MaxOpens = 1 /\ cmd \in Chain =>
        ~Has(awaiting[c], Chain) /\ ~InTmp(c, Chain) /\ opened[c] # 0
  BY <1>1 DEF ClientInv, ChainOnce
<1>4. MaxOpens = 1 /\ cmd = "PLAY" => left[c] = 0
  BY <1>1 DEF ClientInv, ChainOnce
<1>5. cmd \in Resumes => "RESUME" \in Controls
  BY <1>1 DEF ClientInv, NoResume
<1>6. MaxOpens = 1 /\ "RESUME" \notin Controls /\ cmd \in Chain => tasks[c] = 0
  BY <1>1 DEF ClientInv, OneTimer
<1>7. tasks[c] = 0 => ~token[c]
  BY DEF TypeInv, TypeOK, TokenNamesTask
<1>8. QED
  BY <1>1, <1>2, <1>3, <1>4, <1>5, <1>6, <1>7

\* The handlers of c keep the invariant of every client d.
LEMMA HandlersSafe ==
  ASSUME TypeInv, NEW c \in Client, ClientInv(c), Handlers(c), NEW d \in Client, ClientInv(d)
  PROVE  ClientInv(d)'
<1>0. /\ Chain \subseteq Command /\ Chain = {"OPTIONS", "DESCRIBE", "SETUP", "PLAY"}
      /\ Control \subseteq Command /\ Early \subseteq Command
      /\ "DESCRIBE" \notin InSession /\ "SETUP" \in InSession /\ "PLAY" \in InSession
      /\ Chain \cap Resumes = {}
  BY DEF Chain, Command, InSession, Control, Early, Resumes
<1>1. CASE ContinueAfterOPTIONS(c)
  <2>1. /\ Calling(c, "OPTIONS") /\ Send(c, "DESCRIBE")
        /\ UNCHANGED <<library, life, stream, timer, looped, asked>>
    BY <1>1 DEF ContinueAfterOPTIONS
  <2>2. CASE d = c
    <3>1. MaxOpens = 1 => ~Has(awaiting[c], Chain) /\ ~InTmp(c, Chain)' /\ opened[c] # 0
      BY <1>0, <2>1, CallingFacts DEF looped, InTmp
    <3>2. MaxOpens = 1 /\ "RESUME" \notin Controls => tasks[c] = 0
      BY <1>0, <2>1, CallingFacts
    <3>3. life[c] = "live" /\ "DESCRIBE" \in Command /\ "DESCRIBE" \in Chain
      BY <1>0, <2>1 DEF Calling
    <3>4. QED
      BY <1>0, <2>1, <2>2, <3>1, <3>2, <3>3, SendSafe DEF stream, timer, looped, asked
  <2>3. CASE d # c
    <3>1. awaiting'[d] = awaiting[d] /\ (running' = None \/ running'.client # d)
      BY <1>0, <2>1, <2>3, SendEffect DEF TypeInv
    <3>2. Untouched(d)
      BY <2>1, <3>1 DEF Untouched, stream, timer, looped, asked
    <3>3. QED
      BY <3>2, UntouchedSafe
  <2>4. QED
    BY <2>2, <2>3
<1>2. CASE ContinueAfterDESCRIBE(c)
  <2>1. Calling(c, "DESCRIBE") /\ UNCHANGED <<library, looped, asked>>
    BY <1>2 DEF ContinueAfterDESCRIBE
  <2>2. RunningIn(c, Chain) /\ life[c] = "live"
    BY <1>0, <2>1, CallingFacts
  <2>3. CASE \E s \in {"unending", "finite"}, n \in 1 .. MaxTracks : SetupNext(c, s, n)
    <3>1. PICK s \in {"unending", "finite"}, n \in 1 .. MaxTracks : SetupNext(c, s, n)
      BY <2>3
    <3>2. n \in 0 .. MaxTracks
      BY StreamAssumption
    <3>3. CASE d = c
      BY <2>1, <2>2, <3>1, <3>2, <3>3, SetupNextSafe
    <3>4. CASE d # c
      BY <2>1, <3>1, <3>4, SetupNextOther, UntouchedSafe
    <3>5. QED
      BY <3>3, <3>4
  <2>4. CASE \E s : Close(c, s, token[c], tasks[c])
    <3>1. PICK s : Close(c, s, token[c], tasks[c])
      BY <2>4
    <3>2. MaxOpens = 1 /\ "RESUME" \notin Controls => tasks[c] = 0 /\ ~token[c]
      BY <1>0, <2>1, CallingFacts
    <3>3. CASE d = c
      BY <3>1, <3>2, <3>3, CloseSafe
    <3>4. CASE d # c
      BY <2>1, <3>1, <3>4, CloseOther, UntouchedSafe
    <3>5. QED
      BY <3>3, <3>4
  <2>5. QED
    BY <1>2, <2>3, <2>4 DEF ContinueAfterDESCRIBE, BadDescription, Shutdown
<1>3. CASE ContinueAfterSETUP(c)
  <2>1. /\ Calling(c, "SETUP") /\ UNCHANGED <<library, looped, asked>>
        /\ SetupNext(c, session[c], left[c])
    BY <1>3 DEF ContinueAfterSETUP, AfterSetup
  <2>2. RunningIn(c, Chain) /\ life[c] = "live" /\ session[c] # "none"
    BY <1>0, <2>1, CallingFacts
  <2>3. session[c] \in {"unending", "finite"} /\ left[c] \in 0 .. MaxTracks
    BY <2>2 DEF TypeInv, TypeOK
  <2>4. CASE d = c
    BY <2>1, <2>2, <2>3, <2>4, SetupNextSafe
  <2>5. CASE d # c
    BY <2>1, <2>5, SetupNextOther, UntouchedSafe
  <2>6. QED
    BY <2>4, <2>5
<1>4. CASE ContinueAfterPLAY(c)
  <2>1. /\ UNCHANGED <<library, looped, asked>>
        /\ \E cmd \in {"PLAY", "RESUME", "earlyRESUME"} : Calling(c, cmd)
    BY <1>4 DEF ContinueAfterPLAY
  <2>2. PICK cmd \in {"PLAY", "RESUME", "earlyRESUME"} : Calling(c, cmd)
    BY <2>1
  <2>3. cmd \in Command /\ (cmd = "PLAY" \/ cmd \in Resumes)
    BY <1>0 DEF Control, Early, Resumes
  <2>4. life[c] = "live"
    BY <2>2, <2>3, CallingFacts
  <2>5. MaxOpens = 1 /\ "RESUME" \notin Controls =>
          /\ session[c] # "none"
          /\ tasks[c] = 0 /\ ~token[c] /\ opened[c] # 0
          /\ ~Has(awaiting[c], Chain) /\ ~InTmp(c, Chain)
    BY <1>0, <2>2, <2>3, CallingFacts
  <2>6. CASE running.ok
    <3>1. /\ tasks' = [tasks EXCEPT ![c] = IF timed[c] THEN @ + 1 ELSE @]
          /\ token' = [token EXCEPT ![c] = @ \/ timed[c]]
          /\ running' = None
          /\ UNCHANGED <<life, session, left, timed, setUp, link, awaiting>>
      BY <1>4, <2>6 DEF ContinueAfterPLAY
    <3>2. CASE d = c
      <4>1. \A S : Held(c, S)' => Has(awaiting[c], S) \/ InTmp(c, S)
        BY <2>1, <3>1 DEF Held, InTmp, RunningIn, looped
      <4>2. \A S : Held(c, S)' => Held(c, S)
        BY <4>1 DEF Held
      <4>3. Fresh(c)' /\ SessionHeld(c)' /\ NoResume(c)'
        BY <4>2, <3>1, <3>2, <2>4 DEF ClientInv, Fresh, SessionHeld, NoResume
      <4>4. MaxOpens = 1 => ChainOnce(c)'
        BY <4>2, <2>1, <3>1, <3>2 DEF ClientInv, ChainOnce, InTmp, RunningIn, looped, asked
      <4>5. ASSUME MaxOpens = 1, "RESUME" \notin Controls PROVE OneTimer(c)'
        <5>1. CASE timed[c]
          <6>1. tasks'[c] = 1 /\ token'[c]
            BY <2>5, <3>1, <4>5, <5>1 DEF TypeInv, TypeOK
          <6>2. ~Held(c, Chain)' /\ opened'[c] # 0 /\ session'[c] # "none"
            BY <2>1, <2>5, <3>1, <4>1, <4>5 DEF asked
          <6>3. QED
            BY <2>4, <3>1, <6>1, <6>2 DEF OneTimer
        <5>2. CASE ~timed[c]
          <6>1. tasks'[c] = 0
            BY <2>5, <3>1, <4>5, <5>2 DEF TypeInv, TypeOK
          <6>2. QED
            BY <2>4, <3>1, <6>1 DEF OneTimer
        <5>3. QED
          BY <5>1, <5>2
      <4>6. QED
        BY <3>2, <4>3, <4>4, <4>5 DEF ClientInv
    <3>3. CASE d # c
      <4>1. Untouched(d)
        BY <2>1, <3>1, <3>3 DEF Untouched, looped, asked, TypeInv, TypeOK
      <4>2. QED
        BY <4>1, UntouchedSafe
    <3>4. QED
      BY <3>2, <3>3
  <2>7. CASE ~running.ok
    <3>1. Close(c, session[c], token[c], tasks[c])
      BY <1>4, <2>7 DEF ContinueAfterPLAY, Shutdown
    <3>2. CASE d = c
      BY <2>5, <3>1, <3>2, CloseSafe
    <3>3. CASE d # c
      BY <2>1, <3>1, <3>3, CloseOther, UntouchedSafe
    <3>4. QED
      BY <3>2, <3>3
  <2>8. QED
    BY <2>6, <2>7
<1>5. CASE ContinueAfterPAUSEorTEARDOWN(c)
  <2>1. Untouched(d)
    BY <1>5 DEF ContinueAfterPAUSEorTEARDOWN, HandlerReturns, Untouched, stream, timer, looped,
                asked
  <2>2. QED
    BY <2>1, UntouchedSafe
<1>6. QED
  BY <1>1, <1>2, <1>3, <1>4, <1>5 DEF Handlers

\* A request of d moves from one place to another.
LEMMA MoveSafe ==
  ASSUME NEW d \in Client, ClientInv(d), life'[d] = life[d], life[d] # "unused",
         session'[d] = session[d], left'[d] = left[d], opened'[d] = opened[d],
         tasks'[d] = tasks[d], token'[d] = token[d],
         \A S : Held(d, S)' => Held(d, S),
         MaxOpens = 1 /\ ChainOnce(d) /\ life[d] = "live" =>
           /\ Single(awaiting'[d]) /\ (owner' = d => Single(tmp'))
           /\ Has(awaiting'[d], Chain) => ~InTmp(d, Chain)' /\ ~RunningIn(d, Chain)'
           /\ InTmp(d, Chain)' => ~RunningIn(d, Chain)'
  PROVE  ClientInv(d)'
<1>1. Fresh(d)' /\ SessionHeld(d)' /\ NoResume(d)'
  BY DEF ClientInv, Fresh, SessionHeld, NoResume
<1>2. MaxOpens = 1 => ChainOnce(d)'
  BY DEF ClientInv, ChainOnce
<1>3. MaxOpens = 1 /\ "RESUME" \notin Controls => OneTimer(d)'
  BY DEF ClientInv, OneTimer
<1>4. QED
  BY <1>1, <1>2, <1>3 DEF ClientInv

LEMMA StreamInit == Init => StreamInv
<1> SUFFICES ASSUME Init PROVE StreamInv
  OBVIOUS
<1>1. TypeInv
  BY TypeInit
<1>2. ASSUME NEW c \in Client PROVE ClientInv(c)
  BY <1>2, StreamAssumption DEF Init, ClientInv, Fresh, SessionHeld, NoResume, ChainOnce, OneTimer
<1>3. QED
  BY <1>1, <1>2 DEF StreamInv

\* One step per action; the clients it does not concern by UntouchedSafe.
LEMMA StreamStep == StreamInv /\ [Next]_vars => StreamInv'
<1> SUFFICES ASSUME StreamInv, [Next]_vars PROVE StreamInv'
  OBVIOUS
<1>0. TypeInv /\ TypeInv'
  BY TypeStep DEF StreamInv
<1> SUFFICES ASSUME NEW d \in Client PROVE ClientInv(d)'
  BY <1>0 DEF StreamInv
<1>a. ClientInv(d)
  BY DEF StreamInv
<1>b. (Untouched(d) => ClientInv(d)') /\ \A c \in Client : ClientInv(c)
  BY <1>0, <1>a, UntouchedSafe DEF StreamInv
<1>c. /\ "OPTIONS" \in Command /\ "OPTIONS" \in Chain /\ "OPTIONS" \notin InSession
      /\ "OPTIONS" \notin Resumes
  BY DEF Command, Chain, InSession, Control, Resumes
<1>1. CASE UNCHANGED vars
  BY <1>1, <1>b DEF vars, stream, timer, looped, asked, Untouched
<1>2. CASE ClientInit
  BY <1>2, <1>b DEF ClientInit, stream, timer, looped, asked, Untouched
<1>3. CASE ClientCleanup
  BY <1>0, <1>3, <1>b DEF ClientCleanup, stream, timer, looped, asked, Untouched
<1>4. CASE HandlerOfClosed
  BY <1>4, <1>b DEF HandlerOfClosed, HandlerReturns, stream, timer, looped, asked, Untouched
<1>5. CASE ResumeNext
  <2>1. /\ mode = "resuming" /\ tmp # <<>> /\ tmp' = Tail(tmp) /\ running = None
        /\ UNCHANGED <<library, life, stream, timer, mode, owner, asked>>
    BY <1>5 DEF ResumeNext
  <2>2. Head(tmp) \in Command /\ owner \in Client /\ tmp \in Seq(Command)
    <3>1. tmp \in Seq(Command)
      BY <1>0 DEF TypeInv, TypeOK
    <3>2. owner \in Client
      BY <1>0, <2>1 DEF TypeInv, LoopHasOwner
    <3>3. QED
      BY <2>1, <3>1, <3>2
  <2>3. CASE UNCHANGED <<link, awaiting, running>>
    BY <2>1, <2>3, <1>b DEF Untouched, stream, timer, asked
  <2>4. CASE life[owner] = "live" /\ Send(owner, Head(tmp))
    <3>1. CASE d = owner
      <4>1. \A S : Head(tmp) \in S => Held(d, S) /\ InTmp(d, S)
        BY <2>1, <2>2, <3>1, HasTail DEF Held, InTmp
      <4>2. Head(tmp) \in InSession => session[d] # "none"
        BY <1>a, <2>4, <3>1, <4>1 DEF ClientInv, SessionHeld
      <4>3. Head(tmp) \in Resumes => "RESUME" \in Controls
        BY <1>a, <2>4, <3>1, <4>1 DEF ClientInv, NoResume
      <4>4. MaxOpens = 1 /\ Head(tmp) \in Chain =>
              ~Has(awaiting[d], Chain) /\ ~InTmp(d, Chain)' /\ opened[d] # 0
        BY <1>a, <2>1, <2>2, <2>4, <3>1, <4>1, SingleTail DEF ClientInv, ChainOnce, InTmp
      <4>5. MaxOpens = 1 /\ Head(tmp) = "PLAY" => left[d] = 0
        BY <1>a, <2>4, <3>1, <4>1 DEF ClientInv, ChainOnce
      <4>6. MaxOpens = 1 /\ "RESUME" \notin Controls /\ Head(tmp) \in Chain => tasks[d] = 0
        BY <1>a, <2>4, <3>1, <4>1 DEF ClientInv, OneTimer
      <4>7. life' = life /\ session' = session /\ left' = left /\ opened' = opened
            /\ tasks' = tasks /\ token' = token /\ owner' = owner
        BY <2>1 DEF stream, timer, asked
      <4>8. QED
        BY <1>0, <1>a, <2>1, <2>2, <2>4, <3>1, <4>2, <4>3, <4>4, <4>5, <4>6, <4>7, SendSafe
    <3>2. CASE d # owner
      <4>1. awaiting'[d] = awaiting[d] /\ (running' = None \/ running'.client # d)
        BY <1>0, <2>2, <2>4, <3>2, SendEffect DEF TypeInv
      <4>2. QED
        BY <2>1, <3>2, <4>1, <1>b DEF Untouched, stream, timer, asked
    <3>3. QED
      BY <3>1, <3>2
  <2>5. QED
    BY <1>5, <2>3, <2>4 DEF ResumeNext
<1>6. CASE FailNext
  <2>1. /\ mode = "failing" /\ tmp # <<>> /\ tmp' = Tail(tmp) /\ running = None
        /\ running' = [client |-> owner, command |-> Head(tmp), ok |-> FALSE]
        /\ UNCHANGED <<library, life, stream, timer, link, awaiting, mode, owner, asked>>
    BY <1>6 DEF FailNext
  <2>2. tmp \in Seq(Command)
    BY <1>0 DEF TypeInv, TypeOK
  <2>3. CASE d = owner
    <3>1. \A S : (InTmp(d, S)' => InTmp(d, S)) /\ (RunningIn(d, S)' => InTmp(d, S))
      BY <2>1, <2>2, <2>3, HasTail DEF InTmp, RunningIn
    <3>2. \A S : Held(d, S)' => Held(d, S)
      BY <2>1, <3>1 DEF Held
    <3>3. life[d] # "unused"
      BY <1>a, <2>3 DEF ClientInv, Fresh
    <3>4. ChainOnce(d) /\ life[d] = "live" =>
            /\ Single(awaiting'[d]) /\ (owner' = d => Single(tmp'))
            /\ Has(awaiting'[d], Chain) => ~InTmp(d, Chain)' /\ ~RunningIn(d, Chain)'
            /\ InTmp(d, Chain)' => ~RunningIn(d, Chain)'
      BY <2>1, <2>2, <2>3, <3>1, SingleTail DEF ChainOnce, InTmp, RunningIn
    <3>5. QED
      BY <1>a, <2>1, <3>2, <3>3, <3>4, MoveSafe DEF stream, timer, asked
  <2>4. CASE d # owner
    BY <2>1, <2>4, <1>b DEF Untouched, stream, timer, asked
  <2>5. QED
    BY <2>3, <2>4
<1>7. CASE ConnectionHandlerReturns
  <2>1. owner' # d
    BY <1>7, StreamAssumption DEF ConnectionHandlerReturns
  <2>2. QED
    BY <1>7, <2>1, <1>b DEF ConnectionHandlerReturns, Untouched, stream, timer, asked
<1>8. ASSUME NEW c \in Client, CreateNew(c) PROVE ClientInv(d)'
  <2>1. /\ life[c] = "unused" /\ life' = [life EXCEPT ![c] = "live"]
        /\ UNCHANGED <<library, stream, timer, link, awaiting, running, looped, asked>>
    BY <1>8 DEF CreateNew
  <2>2. CASE d = c
    <3>1. awaiting[d] = <<>> /\ owner # d /\ \A S : ~RunningIn(d, S)
      BY <1>a, <2>1, <2>2 DEF ClientInv, Fresh, RunningIn
    <3>2. \A S : ~Held(d, S)'
      BY <2>1, <3>1, HasEmpty DEF Held, InTmp, RunningIn, looped
    <3>3. Fresh(d)' /\ SessionHeld(d)' /\ NoResume(d)'
      BY <1>0, <2>1, <2>2, <3>2 DEF Fresh, SessionHeld, NoResume, TypeInv, TypeOK
    <3>4. ChainOnce(d)'
      BY <2>1, <3>1, <3>2, SingleEmpty DEF ChainOnce, Held, looped
    <3>5. MaxOpens = 1 /\ "RESUME" \notin Controls => OneTimer(d)'
      <4>1. OneTimer(d) => tasks'[d] = 0 /\ life'[d] = "live"
        BY <1>0, <2>1, <2>2 DEF OneTimer, timer, TypeInv, TypeOK
      <4>2. QED
        BY <1>a, <4>1 DEF ClientInv, OneTimer
    <3>6. QED
      BY <3>3, <3>4, <3>5 DEF ClientInv
  <2>3. CASE d # c
    BY <1>0, <2>1, <2>3, <1>b DEF Untouched, stream, timer, looped, asked, TypeInv, TypeOK
  <2>4. QED
    BY <2>2, <2>3
<1>9. ASSUME NEW c \in Client, RtspPlay(c) PROVE ClientInv(d)'
  <2>1. /\ life[c] = "live" /\ running = None /\ opened[c] < MaxOpens
        /\ opened' = [opened EXCEPT ![c] = @ + 1]
        /\ Send(c, "OPTIONS")
        /\ UNCHANGED <<library, life, stream, timer, looped, controls>>
    BY <1>9 DEF RtspPlay, LoopIdle
  <2>2. opened'[c] # 0 /\ \A e \in Client : e # c => opened'[e] = opened[e]
    <3>1. opened[c] \in 0 .. MaxOpens /\ opened \in [Client -> 0 .. MaxOpens]
      BY <1>0 DEF TypeInv, TypeOK
    <3>2. opened[c] + 1 # 0
      BY <3>1, StreamAssumption
    <3>3. QED
      BY <2>1, <3>1, <3>2
  <2>3. CASE d = c
    <3>1. MaxOpens = 1 => opened[c] = 0
      BY <1>0, <2>1 DEF TypeInv, TypeOK
    <3>2. MaxOpens = 1 => ~Held(c, Chain)
      BY <1>b, <2>1, <3>1 DEF ClientInv, ChainOnce
    <3>3. MaxOpens = 1 => ~Has(awaiting[c], Chain) /\ ~InTmp(c, Chain)'
      BY <2>1, <3>2 DEF Held, InTmp, looped
    <3>4. MaxOpens = 1 /\ "RESUME" \notin Controls => tasks[c] = 0
      BY <1>b, <2>1, <3>1 DEF ClientInv, OneTimer
    <3>5. QED
      BY <1>0, <1>b, <1>c, <2>1, <2>2, <2>3, <3>3, <3>4, SendSafe DEF stream, timer, looped
  <2>4. CASE d # c
    <3>1. awaiting'[d] = awaiting[d] /\ (running' = None \/ running'.client # d)
      BY <1>0, <1>c, <2>1, <2>4, SendEffect DEF TypeInv
    <3>2. QED
      BY <2>1, <2>2, <2>4, <3>1, <1>b DEF Untouched, stream, timer, looped
  <2>5. QED
    BY <2>3, <2>4
<1>10. ASSUME NEW c \in Client, NEW cmd \in Controls, RtspControl(c, cmd) PROVE ClientInv(d)'
  <2> DEFINE r == Request(c, cmd)
  <2>1. /\ life[c] = "live" /\ Send(c, r)
        /\ UNCHANGED <<library, life, stream, timer, looped, opened>>
    BY <1>10 DEF RtspControl
  <2>2. r \in Command /\ r \notin Chain
    BY RequestIs
  <2>3. /\ r # "PLAY" /\ (r \in Resumes => "RESUME" \in Controls)
        /\ r \in InSession => session[c] # "none"
    <3>1. r \in Early => r \notin InSession
      BY DEF Early, InSession, Control
    <3>2. QED
      BY <2>2, <3>1, RequestIs DEF Chain
  <2> HIDE DEF r
  <2>4. CASE d = c
    BY <1>0, <1>b, <2>1, <2>2, <2>3, <2>4, SendSafe DEF stream, timer, looped
  <2>5. CASE d # c
    <3>1. awaiting'[d] = awaiting[d] /\ (running' = None \/ running'.client # d)
      BY <1>0, <2>1, <2>2, <2>5, SendEffect DEF TypeInv
    <3>2. QED
      BY <2>1, <2>5, <3>1, <1>b DEF Untouched, stream, timer, looped
  <2>6. QED
    BY <2>4, <2>5
<1>11. ASSUME NEW c \in Client, Handlers(c) PROVE ClientInv(d)'
  BY <1>0, <1>a, <1>b, <1>11, HandlersSafe
<1>12. ASSUME NEW c \in Client, StreamTimer(c) PROVE ClientInv(d)'
  <2>1. UNCHANGED <<library, looped, asked>> /\ tasks[c] \in Nat /\ tasks[c] > 0
    BY <1>0, <1>12 DEF StreamTimer, TypeInv, TypeOK
  <2>2. CASE life[c] = "live" /\ Close(c, session[c], FALSE, tasks[c] - 1)
    <3>1. CASE d = c
      <4>1. MaxOpens = 1 /\ "RESUME" \notin Controls => tasks[c] - 1 = 0
        BY <1>b, <2>1, <2>2 DEF ClientInv, OneTimer
      <4>2. QED
        BY <1>0, <1>b, <2>2, <3>1, <4>1, CloseSafe
    <3>2. CASE d # c
      BY <1>0, <1>b, <2>1, <2>2, <3>2, CloseOther
    <3>3. QED
      BY <3>1, <3>2
  <2>3. CASE /\ life[c] = "closed"
             /\ tasks' = [tasks EXCEPT ![c] = @ - 1]
             /\ UNCHANGED <<life, stream, token, link, awaiting, running>>
    <3>1. CASE d = c
      <4>1. ~(MaxOpens = 1 /\ "RESUME" \notin Controls)
        BY <1>b, <2>1, <2>3 DEF ClientInv, OneTimer
      <4>2. QED
        BY <2>3, <3>1, <4>1 DEF ClientInv, Fresh, SessionHeld, NoResume, ChainOnce
    <3>2. CASE d # c
      BY <1>0, <1>b, <2>1, <2>3, <3>2 DEF Untouched, stream, looped, asked, TypeInv, TypeOK
    <3>3. QED
      BY <3>1, <3>2
  <2>4. QED
    BY <1>12, <2>2, <2>3 DEF StreamTimer, TokenReset
<1>13. ASSUME NEW c \in Client, NEW ok \in BOOLEAN, Answered(c, ok) PROVE ClientInv(d)'
  <2>1. /\ life[c] = "live" /\ running = None /\ awaiting[c] # <<>>
        /\ awaiting' = [awaiting EXCEPT ![c] = Tail(@)]
        /\ running' = [client |-> c, command |-> Head(awaiting[c]), ok |-> ok]
        /\ UNCHANGED <<library, life, session, left, timed, started, timer, link, looped, asked>>
    BY <1>13 DEF Answered, LoopIdle
  <2>2. awaiting[c] \in Seq(Command) /\ awaiting'[c] = Tail(awaiting[c])
    BY <1>0, <2>1 DEF TypeInv, TypeOK
  <2>3. CASE d = c
    <3>1. \A S : /\ Has(awaiting'[c], S) => Has(awaiting[c], S)
                 /\ RunningIn(c, S)' => Has(awaiting[c], S)
                 /\ InTmp(c, S)' = InTmp(c, S)
      BY <2>1, <2>2, HasTail DEF RunningIn, InTmp, looped
    <3>2. \A S : Held(c, S)' => Held(c, S)
      BY <3>1 DEF Held
    <3>3. ChainOnce(c) /\ life[c] = "live" =>
            /\ Single(awaiting'[c]) /\ (owner' = c => Single(tmp'))
            /\ Has(awaiting'[c], Chain) => ~InTmp(c, Chain)' /\ ~RunningIn(c, Chain)'
            /\ InTmp(c, Chain)' => ~RunningIn(c, Chain)'
      BY <2>1, <2>2, <3>1, SingleTail DEF ChainOnce, RunningIn, looped
    <3>4. QED
      BY <1>b, <2>1, <2>3, <3>2, <3>3, MoveSafe DEF stream, timer, asked
  <2>4. CASE d # c
    BY <1>0, <1>b, <2>1, <2>4 DEF Untouched, stream, timer, looped, asked, TypeInv, TypeOK
  <2>5. QED
    BY <2>3, <2>4
<1>14. ASSUME NEW c \in Client, NEW made \in BOOLEAN, ConnectionHandler(c, made)
       PROVE  ClientInv(d)'
  <2>1. /\ life[c] = "live" /\ running = None /\ owner' = c /\ tmp' = awaiting[c]
        /\ awaiting' = [awaiting EXCEPT ![c] = <<>>]
        /\ UNCHANGED <<library, life, stream, timer, running, asked>>
    BY <1>14 DEF ConnectionHandler, LoopIdle
  <2>2. awaiting'[c] = <<>>
    BY <1>0, <2>1 DEF TypeInv, TypeOK
  <2>3. CASE d = c
    <3>1. \A S : /\ ~Has(awaiting'[c], S)
                 /\ ~RunningIn(c, S)'
                 /\ InTmp(c, S)' => Has(awaiting[c], S)
      BY <2>1, <2>2, HasEmpty DEF RunningIn, InTmp
    <3>2. \A S : Held(c, S)' => Held(c, S)
      BY <3>1 DEF Held
    <3>3. ChainOnce(c) /\ life[c] = "live" =>
            /\ Single(awaiting'[c]) /\ (owner' = c => Single(tmp'))
            /\ Has(awaiting'[c], Chain) => ~InTmp(c, Chain)' /\ ~RunningIn(c, Chain)'
            /\ InTmp(c, Chain)' => ~RunningIn(c, Chain)'
      BY <2>1, <2>2, <3>1, SingleEmpty DEF ChainOnce
    <3>4. QED
      BY <1>b, <2>1, <2>3, <3>2, <3>3, MoveSafe DEF stream, timer, asked
  <2>4. CASE d # c
    BY <1>0, <1>b, <2>1, <2>4 DEF Untouched, stream, timer, asked, TypeInv, TypeOK
  <2>5. QED
    BY <2>3, <2>4
<1>15. ASSUME NEW c \in Client, ConnectionEnds(c) \/ ReadEnd(c) PROVE ClientInv(d)'
  <2>1. awaiting'[d] = awaiting[d] \/ awaiting'[d] = <<>>
    BY <1>0, <1>15 DEF ConnectionEnds, ReadEnd, TypeInv, TypeOK
  <2>2. UNCHANGED <<library, life, stream, timer, running, looped, asked>>
    BY <1>15 DEF ConnectionEnds, ReadEnd
  <2>3. QED
    BY <1>b, <2>1, <2>2 DEF Untouched, stream, timer, looped, asked
<1>16. QED
  BY <1>1, <1>2, <1>3, <1>4, <1>5, <1>6, <1>7, <1>8, <1>9, <1>10, <1>11, <1>12, <1>13, <1>14,
     <1>15 DEF Next

-----------------------------------------------------------------------------
(* The properties, of Outstanding as a whole. *)

LEMMA HasConcat ==
  ASSUME NEW p \in Seq(Command), NEW q \in Seq(Command), NEW S, Has(p \o q, S)
  PROVE  Has(p, S) \/ Has(q, S)
<1> DEFINE a == p \o q
<1>1. /\ DOMAIN a = 1 .. Len(p) + Len(q) /\ Len(p) \in Nat /\ Len(q) \in Nat
      /\ DOMAIN p = 1 .. Len(p) /\ DOMAIN q = 1 .. Len(q)
  OBVIOUS
<1>2. \A i \in 1 .. Len(p) + Len(q) : a[i] = IF i <= Len(p) THEN p[i] ELSE q[i - Len(p)]
  OBVIOUS
<1>3. PICK i \in 1 .. Len(p) + Len(q) : a[i] \in S
  BY <1>1 DEF Has
<1> HIDE DEF a
<1>4. CASE i <= Len(p)
  BY <1>1, <1>2, <1>3, <1>4 DEF Has
<1>5. CASE ~(i <= Len(p))
  <2>1. i - Len(p) \in 1 .. Len(q) /\ q[i - Len(p)] \in S
    BY <1>1, <1>2, <1>3, <1>5
  <2>2. QED
    BY <1>1, <2>1 DEF Has
<1>6. QED
  BY <1>4, <1>5

LEMMA SingleConcat ==
  ASSUME NEW p \in Seq(Command), NEW q \in Seq(Command), Single(p), Single(q),
         ~(Has(p, Chain) /\ Has(q, Chain))
  PROVE  Single(p \o q)
<1> DEFINE a == p \o q
<1>1. /\ DOMAIN a = 1 .. Len(p) + Len(q) /\ Len(p) \in Nat /\ Len(q) \in Nat
      /\ DOMAIN p = 1 .. Len(p) /\ DOMAIN q = 1 .. Len(q)
  OBVIOUS
<1>2. \A i \in 1 .. Len(p) + Len(q) : a[i] = IF i <= Len(p) THEN p[i] ELSE q[i - Len(p)]
  OBVIOUS
<1> HIDE DEF a
<1>3. SUFFICES ASSUME NEW i \in 1 .. Len(p) + Len(q), NEW j \in 1 .. Len(p) + Len(q),
                      a[i] \in Chain, a[j] \in Chain
               PROVE  i = j
  BY <1>1 DEF Single, a
<1>4. CASE i <= Len(p) /\ j <= Len(p)
  BY <1>1, <1>2, <1>3, <1>4 DEF Single
<1>5. CASE ~(i <= Len(p)) /\ ~(j <= Len(p))
  <2>1. /\ i - Len(p) \in 1 .. Len(q) /\ q[i - Len(p)] \in Chain
        /\ j - Len(p) \in 1 .. Len(q) /\ q[j - Len(p)] \in Chain
    BY <1>1, <1>2, <1>3, <1>5
  <2>2. i - Len(p) = j - Len(p)
    BY <1>1, <2>1 DEF Single
  <2>3. QED
    BY <1>1, <2>2
<1>6. \A k \in 1 .. Len(p) + Len(q) : a[k] \in Chain =>
        (k <= Len(p) => Has(p, Chain)) /\ (~(k <= Len(p)) => Has(q, Chain))
  <2> SUFFICES ASSUME NEW k \in 1 .. Len(p) + Len(q), a[k] \in Chain
               PROVE  (k <= Len(p) => Has(p, Chain)) /\ (~(k <= Len(p)) => Has(q, Chain))
    OBVIOUS
  <2>1. CASE k <= Len(p)
    BY <1>1, <1>2, <2>1 DEF Has
  <2>2. CASE ~(k <= Len(p))
    <3>1. k - Len(p) \in 1 .. Len(q) /\ q[k - Len(p)] \in Chain
      BY <1>1, <1>2, <2>2
    <3>2. QED
      BY <1>1, <2>2, <3>1 DEF Has
  <2>3. QED
    BY <2>1, <2>2
<1>7. QED
  BY <1>3, <1>4, <1>5, <1>6

\* The three places of a client's commands, as sequences.
TmpPart(c) == IF owner = c THEN tmp ELSE <<>>
RunPart(c) == IF running # None /\ running.client = c THEN <<running.command>> ELSE <<>>

LEMMA PartsHeld ==
  ASSUME TypeOK, NEW c \in Client
  PROVE  /\ Outstanding(c) = awaiting[c] \o TmpPart(c) \o RunPart(c)
         /\ awaiting[c] \in Seq(Command) /\ TmpPart(c) \in Seq(Command)
         /\ RunPart(c) \in Seq(Command) /\ Single(RunPart(c))
         /\ \A S : (Has(TmpPart(c), S) => InTmp(c, S)) /\ (Has(RunPart(c), S) => RunningIn(c, S))
<1>1. Outstanding(c) = awaiting[c] \o TmpPart(c) \o RunPart(c)
  BY DEF Outstanding, TmpPart, RunPart
<1>2. awaiting[c] \in Seq(Command) /\ TmpPart(c) \in Seq(Command)
  BY DEF TypeOK, TmpPart
<1>3. \A S : Has(TmpPart(c), S) => InTmp(c, S)
  BY HasEmpty DEF TmpPart, InTmp
<1>4. CASE running # None /\ running.client = c
  <2>1. RunPart(c) = <<running.command>> /\ running.command \in Command
    BY <1>4 DEF RunPart, TypeOK, Call
  <2>2. RunPart(c) \in Seq(Command) /\ Single(RunPart(c))
    BY <2>1 DEF Single
  <2>3. \A S : Has(RunPart(c), S) => RunningIn(c, S)
    BY <1>4, <2>1 DEF Has, RunningIn
  <2>4. QED
    BY <1>1, <1>2, <1>3, <2>2, <2>3
<1>5. CASE ~(running # None /\ running.client = c)
  BY <1>1, <1>2, <1>3, <1>5, HasEmpty, SingleEmpty DEF RunPart
<1>6. QED
  BY <1>4, <1>5

LEMMA OutstandingHeld ==
  ASSUME TypeOK, NEW c \in Client, NEW S, Has(Outstanding(c), S)
  PROVE  Held(c, S)
<1>1. Has((awaiting[c] \o TmpPart(c)) \o RunPart(c), S)
  BY PartsHeld
<1>2. awaiting[c] \o TmpPart(c) \in Seq(Command)
  BY PartsHeld
<1>3. Has(awaiting[c] \o TmpPart(c), S) \/ Has(RunPart(c), S)
  BY <1>1, <1>2, PartsHeld, HasConcat
<1>4. QED
  BY <1>3, PartsHeld, HasConcat DEF Held

LEMMA OutstandingOnce ==
  ASSUME TypeOK, NEW c \in Client, life[c] = "live", ChainOnce(c)
  PROVE  Single(Outstanding(c))
<1>1. Single(TmpPart(c))
  BY SingleEmpty DEF TmpPart, ChainOnce
<1>2. Single(awaiting[c] \o TmpPart(c))
  BY <1>1, PartsHeld, SingleConcat DEF ChainOnce
<1>3. awaiting[c] \o TmpPart(c) \in Seq(Command)
  BY PartsHeld
<1>4. ~(Has(awaiting[c] \o TmpPart(c), Chain) /\ Has(RunPart(c), Chain))
  BY PartsHeld, HasConcat DEF ChainOnce
<1>5. Single((awaiting[c] \o TmpPart(c)) \o RunPart(c))
  BY <1>2, <1>3, <1>4, PartsHeld, SingleConcat
<1>6. QED
  BY <1>5, PartsHeld

\* If rtsp_play is called once per client, its commands follow one another, and
\* PLAY comes when every subsession was offered.
THEOREM ChainInOrder ==
  ASSUME MaxOpens = 1
  PROVE  Spec => []PlayFollowsSetups
<1>1. StreamInv => PlayFollowsSetups
  <2> SUFFICES ASSUME StreamInv, NEW c \in Client, life[c] = "live",
                      NEW i \in DOMAIN Outstanding(c)
               PROVE  /\ Outstanding(c)[i] = "PLAY" => left[c] = 0
                      /\ \A j \in DOMAIN Outstanding(c) :
                           Outstanding(c)[i] \in Chain /\ Outstanding(c)[j] \in Chain => i = j
    BY DEF PlayFollowsSetups
  <2>1. TypeOK /\ ChainOnce(c)
    BY DEF StreamInv, TypeInv, ClientInv
  <2>2. ASSUME Outstanding(c)[i] = "PLAY" PROVE left[c] = 0
    <3>1. Has(Outstanding(c), {"PLAY"})
      BY <2>2 DEF Has
    <3>2. QED
      BY <2>1, <3>1, OutstandingHeld DEF ChainOnce
  <2>3. Single(Outstanding(c))
    BY <2>1, OutstandingOnce
  <2>4. QED
    BY <2>2, <2>3 DEF Single
<1>2. QED
  BY StreamInit, StreamStep, <1>1, PTL DEF Spec

\* If, besides, the application sends no PLAY of its own, no timer is left behind
\* for a deleted client: resume and seek are what it takes to break this.
THEOREM TimersEndWithClient ==
  ASSUME MaxOpens = 1, "RESUME" \notin Controls
  PROVE  Spec => []ScheduledIsLive
<1>1. StreamInv => ScheduledIsLive
  BY DEF StreamInv, ClientInv, OneTimer, ScheduledIsLive
<1>2. QED
  BY StreamInit, StreamStep, <1>1, PTL DEF Spec

-----------------------------------------------------------------------------
(* No client plays what was not set up. *)

\* Commands that need a session id.
NeedsId == Command \ {"OPTIONS", "DESCRIBE", "SETUP"}

\* Only a request that was sent with a session id awaits a response on an open
\* connection; requests wait for nothing without a connection; and while requests
\* are told of a failure, the socket is the broken one.
IdInv(c) ==
  /\ started[c] => setUp[c]
  /\ link[c] = "open" /\ Has(awaiting[c], NeedsId) => setUp[c]
  /\ link[c] \in {"none", "ended", "refused"} => awaiting[c] = <<>>
  /\ running # None /\ running.client = c /\ running.ok /\ running.command \in NeedsId
       => setUp[c]
  /\ mode = "failing" /\ owner = c =>
       link[c] = "refused" \/ (link[c] = "none" /\ life[c] = "closed")

LEMMA IdSend ==
  ASSUME TypeOK, NEW c \in Client, NEW cmd \in Command, NEW d \in Client, IdInv(d),
         Send(c, cmd), UNCHANGED <<life, started, setUp, mode, owner>>,
         life[c] = "live"
  PROVE  IdInv(d)'
<1>1. cmd \in NeedsId /\ Prepared(c, cmd) => setUp[c]
  BY DEF NeedsId, Prepared
<1>2. awaiting[c] \in Seq(Command) /\ link \in [Client -> {"none", "connecting", "open", "ended", "refused"}]
  BY DEF TypeOK
<1>3. CASE d # c
  <2>1. awaiting'[d] = awaiting[d] /\ link'[d] = link[d]
    BY <1>3 DEF Send, Queued, SentInVain, FailsAtOnce, TypeOK
  <2>2. running' = None \/ running'.client = c
    BY DEF Send, Queued, SentInVain, FailsAtOnce
  <2>3. QED
    BY <1>3, <2>1, <2>2 DEF IdInv
<1>4. CASE d = c /\ Queued(c, cmd)
  <2>1. PICK l \in {"connecting", "open"} :
          /\ link[c] \in {"none", l} /\ (l = "open" => Prepared(c, cmd))
          /\ link' = [link EXCEPT ![c] = l]
    BY <1>4 DEF Queued
  <2>2. link'[c] = l /\ awaiting'[c] = Append(awaiting[c], cmd) /\ running' = None
    BY <1>4, <2>1, <1>2 DEF Queued, TypeOK
  <2>3. Has(awaiting'[c], NeedsId) => Has(awaiting[c], NeedsId) \/ cmd \in NeedsId
    BY <1>2, <2>2, HasAppend
  <2>4. link[c] = "none" => ~Has(awaiting[c], NeedsId)
    BY <1>4, HasEmpty DEF IdInv
  <2>5. l = "open" /\ Has(awaiting'[c], NeedsId) => setUp[c]
    BY <1>1, <1>4, <2>1, <2>3, <2>4 DEF IdInv
  <2>6. ~(mode = "failing" /\ owner = c)
    BY <1>4, <2>1 DEF IdInv
  <2>7. QED
    BY <1>4, <2>2, <2>5, <2>6 DEF IdInv
<1>5. CASE d = c /\ SentInVain(c, cmd)
  BY <1>5 DEF SentInVain, IdInv
<1>6. CASE d = c /\ FailsAtOnce(c, cmd)
  <2>1. running'.ok = FALSE /\ awaiting' = awaiting
    BY <1>6 DEF FailsAtOnce
  <2>2. CASE UNCHANGED link
    BY <1>6, <2>1, <2>2 DEF IdInv
  <2>3. CASE link[c] \in {"none", "open"} /\ link' = [link EXCEPT ![c] = "open"]
    <3>1. link'[c] = "open"
      BY <2>3, <1>2
    <3>2. Has(awaiting[c], NeedsId) => setUp[c]
      BY <1>6, <2>3, HasEmpty DEF IdInv
    <3>3. ~(mode = "failing" /\ owner = c)
      BY <1>6, <2>3 DEF IdInv
    <3>4. QED
      BY <1>6, <2>1, <3>1, <3>2, <3>3 DEF IdInv
  <2>4. QED
    BY <1>6, <2>2, <2>3 DEF FailsAtOnce
<1>7. QED
  BY <1>3, <1>4, <1>5, <1>6 DEF Send

LEMMA IdClose ==
  ASSUME TypeOK, NEW c \in Client, NEW s, NEW tok, NEW n, NEW d \in Client, IdInv(d),
         Close(c, s, tok, n), UNCHANGED looped
  PROVE  IdInv(d)'
<1>1. CASE d = c
  <2>1. /\ life'[c] = "closed" /\ link'[c] = "none" /\ awaiting'[c] = <<>> /\ running' = None
        /\ started'[c] = started[c] /\ setUp'[c] = setUp[c]
    BY DEF Close, TypeOK
  <2>2. QED
    BY <1>1, <2>1 DEF IdInv
<1>2. CASE d # c
  <2>1. /\ life'[d] = life[d] /\ link'[d] = link[d] /\ awaiting'[d] = awaiting[d]
        /\ running' = None /\ started' = started /\ setUp' = setUp
    BY <1>2 DEF Close, TypeOK
  <2>2. QED
    BY <2>1 DEF IdInv, looped
<1>3. QED
  BY <1>1, <1>2

LEMMA IdHandlers ==
  ASSUME TypeInv, NEW c \in Client, Handlers(c), NEW d \in Client, IdInv(d)
  PROVE  IdInv(d)'
<1>0. TypeOK /\ life[c] = "live" /\ UNCHANGED looped
  BY DEF TypeInv, Handlers, ContinueAfterOPTIONS, ContinueAfterDESCRIBE, ContinueAfterSETUP,
         ContinueAfterPLAY, ContinueAfterPAUSEorTEARDOWN, Calling
<1>1. CASE \E cmd \in {"DESCRIBE", "SETUP", "PLAY"} :
             Send(c, cmd) /\ UNCHANGED <<life, started, setUp>>
  <2>1. {"DESCRIBE", "SETUP", "PLAY"} \subseteq Command
    BY DEF Command, Chain
  <2>2. QED
    BY <1>0, <1>1, <2>1, IdSend DEF looped
<1>2. CASE \E s : Close(c, s, token[c], tasks[c])
  BY <1>0, <1>2, IdClose
<1>3. CASE ContinueAfterOPTIONS(c)
  BY <1>1, <1>3 DEF ContinueAfterOPTIONS, stream
<1>4. CASE \E s, n : SetupNext(c, s, n)
  BY <1>1, <1>4 DEF SetupNext
<1>5. CASE ContinueAfterDESCRIBE(c)
  BY <1>2, <1>4, <1>5 DEF ContinueAfterDESCRIBE, BadDescription, Shutdown
<1>6. CASE ContinueAfterSETUP(c)
  BY <1>4, <1>6 DEF ContinueAfterSETUP, AfterSetup
<1>7. CASE ContinueAfterPLAY(c)
  <2>1. CASE running.ok
    <3>1. /\ running # None /\ running.client = c /\ running.command \in NeedsId
          /\ started' = [started EXCEPT ![c] = TRUE] /\ running' = None
          /\ UNCHANGED <<life, setUp, link, awaiting>>
      BY <1>7, <2>1 DEF ContinueAfterPLAY, Calling, NeedsId, Command, Chain, Control, Early
    <3>2. QED
      BY <1>0, <2>1, <3>1 DEF IdInv, looped, TypeOK
  <2>2. CASE ~running.ok
    BY <1>2, <1>7, <2>2 DEF ContinueAfterPLAY, Shutdown
  <2>3. QED
    BY <2>1, <2>2
<1>8. CASE ContinueAfterPAUSEorTEARDOWN(c)
  BY <1>0, <1>8 DEF ContinueAfterPAUSEorTEARDOWN, HandlerReturns, IdInv, stream, looped
<1>9. QED
  BY <1>3, <1>5, <1>6, <1>7, <1>8 DEF Handlers

LEMMA IdStep ==
  ASSUME TypeInv, NEW d \in Client, IdInv(d), [Next]_vars
  PROVE  IdInv(d)'
<1> USE DEF TypeInv
<1>0. CASE UNCHANGED vars
  BY <1>0 DEF vars, stream, looped, IdInv
<1>1. CASE ClientInit
  BY <1>1 DEF ClientInit, stream, looped, IdInv
<1>2. CASE ClientCleanup
  BY <1>2 DEF ClientCleanup, LoopIdle, stream, looped, IdInv
<1>3. CASE HandlerOfClosed
  BY <1>3 DEF HandlerOfClosed, HandlerReturns, stream, looped, IdInv
<1>4. CASE ResumeNext
  <2>1. mode = "resuming" /\ tmp # <<>> /\ UNCHANGED <<life, started, setUp, mode, owner>>
    BY <1>4 DEF ResumeNext, stream
  <2>2. owner \in Client /\ Head(tmp) \in Command
    BY <2>1 DEF TypeOK, LoopHasOwner
  <2>3. CASE life[owner] = "live" /\ Send(owner, Head(tmp))
    BY <2>1, <2>2, <2>3, IdSend
  <2>4. CASE UNCHANGED <<link, awaiting, running>>
    BY <2>1, <2>4 DEF IdInv
  <2>5. QED
    BY <1>4, <2>3, <2>4 DEF ResumeNext
<1>5. CASE FailNext
  BY <1>5 DEF FailNext, stream, IdInv
<1>6. CASE ConnectionHandlerReturns
  <2>1. /\ mode' = "idle" /\ running = None /\ owner \in Client
        /\ link' = [link EXCEPT ![owner] = IF mode = "failing" THEN "none" ELSE @]
        /\ UNCHANGED <<life, started, setUp, awaiting, running>>
    BY <1>6 DEF ConnectionHandlerReturns, LoopHasOwner, stream
  <2>2. CASE d = owner /\ mode = "failing"
    BY <2>1, <2>2 DEF IdInv, TypeOK
  <2>3. CASE ~(d = owner /\ mode = "failing")
    BY <2>1, <2>3 DEF IdInv, TypeOK
  <2>4. QED
    BY <2>2, <2>3
<1>7. ASSUME NEW c \in Client, CreateNew(c) PROVE IdInv(d)'
  BY <1>7 DEF CreateNew, stream, looped, IdInv, TypeOK
<1>8. ASSUME NEW c \in Client, RtspPlay(c) \/ \E cmd \in Controls : RtspControl(c, cmd)
      PROVE  IdInv(d)'
  <2>1. /\ \E cmd \in Command : Send(c, cmd)
        /\ life[c] = "live" /\ UNCHANGED <<life, started, setUp, mode, owner>>
    BY <1>8, RequestIs DEF RtspPlay, RtspControl, stream, looped, Command, Chain
  <2>2. QED
    BY <2>1, IdSend
<1>9. ASSUME NEW c \in Client, StreamTimer(c) PROVE IdInv(d)'
  <2>1. CASE UNCHANGED <<life, stream, token, link, awaiting, running>>
    BY <1>9, <2>1 DEF StreamTimer, stream, looped, IdInv
  <2>2. CASE \E s, tok, n : Close(c, s, tok, n)
    BY <1>9, <2>2, IdClose DEF StreamTimer
  <2>3. QED
    BY <1>9, <2>1, <2>2 DEF StreamTimer
<1>10. ASSUME NEW c \in Client, NEW ok \in BOOLEAN, Answered(c, ok) PROVE IdInv(d)'
  <2>1. PICK id \in BOOLEAN : setUp' = [setUp EXCEPT ![c] = @ \/ id]
    BY <1>10 DEF Answered
  <2>2. /\ link[c] = "open" /\ awaiting[c] # <<>>
        /\ awaiting' = [awaiting EXCEPT ![c] = Tail(@)]
        /\ running' = [client |-> c, command |-> Head(awaiting[c]), ok |-> ok]
        /\ UNCHANGED <<life, started, link, mode, owner>>
    BY <1>10 DEF Answered, looped
  <2>3. awaiting[c] \in Seq(Command)
    BY DEF TypeOK
  <2>4. Has(awaiting[c], NeedsId) <=> Head(awaiting[c]) \in NeedsId \/ Has(Tail(awaiting[c]), NeedsId)
    BY <2>2, <2>3, HasTail
  <2>5. CASE d = c
    <3>1. setUp[c] => setUp'[c]
      BY <2>1 DEF TypeOK
    <3>2. awaiting'[c] = Tail(awaiting[c])
      BY <2>2 DEF TypeOK
    <3>3. QED
      BY <2>2, <2>4, <2>5, <3>1, <3>2 DEF IdInv
  <2>6. CASE d # c
    BY <2>1, <2>2, <2>6 DEF IdInv, TypeOK
  <2>7. QED
    BY <2>5, <2>6
<1>11. ASSUME NEW c \in Client, NEW made \in BOOLEAN, ConnectionHandler(c, made)
       PROVE  IdInv(d)'
  <2>1. /\ link' = [link EXCEPT ![c] = IF made THEN "open" ELSE "refused"]
        /\ mode' = (IF made THEN "resuming" ELSE "failing") /\ owner' = c
        /\ awaiting' = [awaiting EXCEPT ![c] = <<>>]
        /\ UNCHANGED <<life, started, setUp, running>>
    BY <1>11 DEF ConnectionHandler, stream
  <2>2. CASE d = c
    <3>1. awaiting'[c] = <<>> /\ link'[c] = (IF made THEN "open" ELSE "refused")
      BY <2>1 DEF TypeOK
    <3>2. ~Has(awaiting'[c], NeedsId)
      BY <3>1, HasEmpty
    <3>3. QED
      BY <2>1, <2>2, <3>1, <3>2 DEF IdInv
  <2>3. CASE d # c
    BY <2>1, <2>3 DEF IdInv, TypeOK
  <2>4. QED
    BY <2>2, <2>3
<1>12. ASSUME NEW c \in Client, ConnectionEnds(c) \/ ReadEnd(c) PROVE IdInv(d)'
  <2>1. CASE ConnectionEnds(c)
    BY <2>1 DEF ConnectionEnds, stream, looped, IdInv, TypeOK
  <2>2. CASE ReadEnd(c)
    BY <2>2 DEF ReadEnd, LoopIdle, stream, looped, IdInv, TypeOK
  <2>3. QED
    BY <1>12, <2>1, <2>2
<1>13. QED
  BY <1>0, <1>1, <1>2, <1>3, <1>4, <1>5, <1>6, <1>7, <1>8, <1>9, <1>10, <1>11, <1>12,
     IdHandlers DEF Next

\* A client reports that it plays only after a SETUP brought it a session id, for
\* any number of calls of rtsp_play and of requests of the application.
THEOREM PlaysWhatWasSetUp == Spec => []PlayingIsSetUp
<1> DEFINE Ids == TypeInv /\ \A c \in Client : IdInv(c)
<1>1. Init => Ids
  BY TypeInit DEF Init, IdInv
<1>2. Ids /\ [Next]_vars => Ids'
  BY TypeStep, IdStep
<1>3. Ids => PlayingIsSetUp
  BY DEF IdInv, PlayingIsSetUp
<1>4. QED
  BY <1>1, <1>2, <1>3, PTL DEF Spec

-----------------------------------------------------------------------------
(* No request without a session is built. *)

\* The session id comes after the session; a request without a session waits for a
\* connection at most, and where the id is set there is none left.
EarlyInv(c) ==
  /\ life[c] = "unused" => ~setUp[c]
  /\ life[c] = "live" /\ session[c] = "none" => ~setUp[c]
  /\ life[c] = "live" /\ Held(c, Early) => ~setUp[c]
  /\ Has(awaiting[c], Early) => link[c] = "connecting"
  /\ mode = "idle" => owner = None

LEMMA EarlySend ==
  ASSUME TypeOK, NEW c \in Client, NEW cmd \in Command, NEW d \in Client, EarlyInv(d), IdInv(d),
         Send(c, cmd), UNCHANGED <<life, setUp, mode, owner>>, life[c] = "live",
         cmd \in Early => ~setUp[c], session'[d] = "none" => session[d] = "none",
         \A S : InTmp(d, S)' => InTmp(d, S)
  PROVE  EarlyInv(d)'
<1>1. cmd \in Early /\ Prepared(c, cmd) => setUp[c]
  BY DEF Early, Prepared
<1>2. awaiting[c] \in Seq(Command) /\ link \in [Client -> {"none", "connecting", "open", "ended", "refused"}]
  BY DEF TypeOK
<1>3. CASE d # c
  <2>1. awaiting'[d] = awaiting[d] /\ link'[d] = link[d]
    BY <1>3 DEF Send, Queued, SentInVain, FailsAtOnce, TypeOK
  <2>2. running' = None \/ running'.client = c
    BY DEF Send, Queued, SentInVain, FailsAtOnce
  <2>3. QED
    BY <1>3, <2>1, <2>2 DEF EarlyInv, Held, RunningIn
<1>4. CASE d = c /\ Queued(c, cmd)
  <2>1. PICK l \in {"connecting", "open"} :
          /\ link[c] \in {"none", l} /\ (l = "open" => Prepared(c, cmd))
          /\ link' = [link EXCEPT ![c] = l]
    BY <1>4 DEF Queued
  <2>2. link'[c] = l /\ awaiting'[c] = Append(awaiting[c], cmd) /\ running' = None
    BY <1>4, <2>1, <1>2 DEF Queued, TypeOK
  <2>3. Has(awaiting'[c], Early) => Has(awaiting[c], Early) \/ cmd \in Early
    BY <1>2, <2>2, HasAppend
  <2>4. link[c] = "none" => ~Has(awaiting[c], Early)
    BY <1>4, HasEmpty DEF IdInv
  <2>5. Has(awaiting'[c], Early) => l = "connecting"
    BY <1>1, <1>4, <2>1, <2>3, <2>4 DEF EarlyInv
  <2>6. Held(c, Early)' => ~setUp[c]
    BY <1>4, <2>2, <2>3 DEF EarlyInv, Held, RunningIn
  <2>7. QED
    BY <1>4, <2>2, <2>5, <2>6 DEF EarlyInv
<1>5. CASE d = c /\ SentInVain(c, cmd)
  BY <1>5 DEF SentInVain, EarlyInv, Held, RunningIn
<1>6. CASE d = c /\ FailsAtOnce(c, cmd)
  <2>1. running' = [client |-> c, command |-> cmd, ok |-> FALSE] /\ awaiting' = awaiting
    BY <1>6 DEF FailsAtOnce
  <2>2. Held(c, Early)' => ~setUp[c]
    BY <1>6, <2>1 DEF EarlyInv, Held, RunningIn
  <2>3. Has(awaiting[c], Early) => link'[c] = "connecting"
    <3>1. CASE UNCHANGED link
      BY <1>6, <3>1 DEF EarlyInv
    <3>2. CASE link[c] \in {"none", "open"}
      BY <1>6, <3>2 DEF EarlyInv
    <3>3. QED
      BY <1>6, <3>1, <3>2 DEF FailsAtOnce
  <2>4. QED
    BY <1>6, <2>1, <2>2, <2>3 DEF EarlyInv
<1>7. QED
  BY <1>3, <1>4, <1>5, <1>6 DEF Send

LEMMA EarlyClose ==
  ASSUME TypeOK, NEW c \in Client, NEW s, NEW tok, NEW n, NEW d \in Client, EarlyInv(d),
         Close(c, s, tok, n), UNCHANGED looped
  PROVE  EarlyInv(d)'
<1>1. CASE d = c
  <2>1. life'[c] = "closed" /\ awaiting'[c] = <<>>
    BY DEF Close, TypeOK
  <2>2. ~Has(awaiting'[c], Early)
    BY <2>1, HasEmpty
  <2>3. QED
    BY <1>1, <2>1, <2>2 DEF EarlyInv, looped
<1>2. CASE d # c
  <2>1. /\ life'[d] = life[d] /\ link'[d] = link[d] /\ awaiting'[d] = awaiting[d]
        /\ running' = None /\ setUp' = setUp /\ session'[d] = session[d]
    BY <1>2 DEF Close, TypeOK
  <2>2. QED
    BY <2>1 DEF EarlyInv, Held, InTmp, RunningIn, looped
<1>3. QED
  BY <1>1, <1>2

LEMMA EarlyHandlers ==
  ASSUME TypeInv, NEW c \in Client, Handlers(c), NEW d \in Client, EarlyInv(d), IdInv(d),
         ClientInv(c)
  PROVE  EarlyInv(d)'
<1>0. /\ TypeOK /\ life[c] = "live" /\ UNCHANGED looped
      /\ \A S : InTmp(d, S)' => InTmp(d, S)
  BY DEF TypeInv, Handlers, ContinueAfterOPTIONS, ContinueAfterDESCRIBE, ContinueAfterSETUP,
         ContinueAfterPLAY, ContinueAfterPAUSEorTEARDOWN, Calling, InTmp, looped
<1>1. CASE \E cmd \in {"DESCRIBE", "SETUP", "PLAY"} :
             /\ Send(c, cmd) /\ UNCHANGED <<life, setUp>>
             /\ session'[d] = "none" => session[d] = "none"
  <2>1. /\ {"DESCRIBE", "SETUP", "PLAY"} \subseteq Command
        /\ {"DESCRIBE", "SETUP", "PLAY"} \cap Early = {}
    BY DEF Command, Chain, Early
  <2>2. QED
    BY <1>0, <1>1, <2>1, EarlySend DEF looped
<1>2. CASE \E s : Close(c, s, token[c], tasks[c])
  BY <1>0, <1>2, EarlyClose
<1>3. CASE ContinueAfterOPTIONS(c)
  BY <1>1, <1>3 DEF ContinueAfterOPTIONS, stream
<1>4. CASE \E s, n : s # "none" /\ SetupNext(c, s, n)
  <2>1. PICK s, n : s # "none" /\ SetupNext(c, s, n)
    BY <1>4
  <2>2. session'[d] = "none" => session[d] = "none"
    BY <1>0, <2>1 DEF SetupNext, TypeOK
  <2>3. QED
    BY <1>1, <2>1, <2>2 DEF SetupNext
<1>5. CASE ContinueAfterDESCRIBE(c)
  BY <1>2, <1>4, <1>5 DEF ContinueAfterDESCRIBE, BadDescription, Shutdown
<1>6. CASE ContinueAfterSETUP(c)
  <2>1. "SETUP" \in Command /\ "SETUP" \in InSession
    BY DEF Command, Chain, InSession
  <2>2. session[c] # "none"
    BY <1>6, <2>1, CallingFacts DEF ContinueAfterSETUP
  <2>3. QED
    BY <1>4, <1>6, <2>2 DEF ContinueAfterSETUP, AfterSetup
<1>7. CASE running' = None /\ UNCHANGED <<life, session, setUp, link, awaiting>>
  BY <1>0, <1>7 DEF EarlyInv, Held, InTmp, RunningIn, looped
<1>8. CASE ContinueAfterPLAY(c)
  BY <1>2, <1>7, <1>8 DEF ContinueAfterPLAY, Shutdown
<1>9. CASE ContinueAfterPAUSEorTEARDOWN(c)
  BY <1>7, <1>9 DEF ContinueAfterPAUSEorTEARDOWN, HandlerReturns, stream
<1>10. QED
  BY <1>3, <1>5, <1>6, <1>8, <1>9 DEF Handlers

LEMMA EarlyStep ==
  ASSUME TypeInv, NEW d \in Client, EarlyInv(d), IdInv(d), \A c \in Client : ClientInv(c),
         [Next]_vars
  PROVE  EarlyInv(d)'
<1> USE DEF TypeInv
<1>a. tmp # <<>> /\ tmp' = Tail(tmp) /\ owner' = owner => \A S : InTmp(d, S)' => InTmp(d, S)
  BY HasTail DEF InTmp, TypeOK
<1>b. CASE /\ UNCHANGED <<life, session, setUp, link, awaiting, mode, owner, tmp>>
           /\ running' = running \/ running' = None
  BY <1>b DEF EarlyInv, Held, InTmp, RunningIn
<1>0. CASE UNCHANGED vars
  BY <1>0, <1>b DEF vars, stream, looped
<1>1. CASE ClientInit
  BY <1>1, <1>b DEF ClientInit, stream, looped
<1>2. CASE ClientCleanup
  <2>1. /\ life'[d] = (IF life[d] = "live" THEN "orphaned" ELSE life[d])
        /\ UNCHANGED <<session, setUp, link, awaiting, running, mode, owner, tmp>>
    BY <1>2 DEF ClientCleanup, stream, looped
  <2>2. QED
    BY <2>1 DEF EarlyInv
<1>3. CASE HandlerOfClosed
  BY <1>3, <1>b DEF HandlerOfClosed, HandlerReturns, stream, looped
<1>4. CASE ResumeNext
  <2>1. /\ mode = "resuming" /\ tmp # <<>> /\ tmp' = Tail(tmp)
        /\ UNCHANGED <<life, session, setUp, mode, owner>>
    BY <1>4 DEF ResumeNext, stream
  <2>2. owner \in Client /\ tmp \in Seq(Command) /\ Head(tmp) \in Command
    BY <2>1 DEF TypeOK, LoopHasOwner
  <2>3. CASE life[owner] = "live" /\ Send(owner, Head(tmp))
    <3>1. CASE Head(tmp) \in Early /\ d = owner
      <4>1. Held(d, Early)
        BY <2>1, <2>2, <3>1, HasTail DEF Held, InTmp
      <4>2. QED
        BY <1>a, <2>1, <2>2, <2>3, <3>1, <4>1, EarlySend DEF EarlyInv
    <3>2. CASE Head(tmp) \notin Early
      BY <1>a, <2>1, <2>2, <2>3, <3>2, EarlySend
    <3>3. CASE d # owner
      <4>1. awaiting'[d] = awaiting[d] /\ link'[d] = link[d]
        BY <2>2, <2>3, <3>3 DEF Send, Queued, SentInVain, FailsAtOnce, TypeOK
      <4>2. running' = None \/ running'.client = owner
        BY <2>3 DEF Send, Queued, SentInVain, FailsAtOnce
      <4>3. QED
        BY <2>1, <3>3, <4>1, <4>2 DEF EarlyInv, Held, InTmp, RunningIn
    <3>4. QED
      BY <3>1, <3>2, <3>3
  <2>4. CASE UNCHANGED <<link, awaiting, running>>
    BY <1>a, <2>1, <2>4 DEF EarlyInv, Held, RunningIn
  <2>5. QED
    BY <1>4, <2>3, <2>4 DEF ResumeNext
<1>5. CASE FailNext
  <2>1. /\ mode = "failing" /\ tmp # <<>> /\ tmp' = Tail(tmp)
        /\ running' = [client |-> owner, command |-> Head(tmp), ok |-> FALSE]
        /\ UNCHANGED <<life, session, setUp, link, awaiting, mode, owner>>
    BY <1>5 DEF FailNext, stream
  <2>2. tmp \in Seq(Command)
    BY DEF TypeOK
  <2>3. RunningIn(d, Early)' => InTmp(d, Early)
    BY <2>1, <2>2, HasTail DEF RunningIn, InTmp
  <2>4. QED
    BY <1>a, <2>1, <2>3 DEF EarlyInv, Held
<1>6. CASE ConnectionHandlerReturns
  <2>1. /\ mode # "idle" /\ mode' = "idle" /\ owner' = None /\ owner \in Client
        /\ link' = [link EXCEPT ![owner] = IF mode = "failing" THEN "none" ELSE @]
        /\ UNCHANGED <<life, session, setUp, awaiting, running, tmp>>
    BY <1>6 DEF ConnectionHandlerReturns, LoopHasOwner, stream
  <2>2. Has(awaiting[d], Early) => link'[d] = "connecting"
    <3>1. CASE d = owner /\ mode = "failing"
      BY <2>1, <3>1 DEF EarlyInv, IdInv
    <3>2. CASE ~(d = owner /\ mode = "failing")
      BY <2>1, <3>2 DEF EarlyInv, TypeOK
    <3>3. QED
      BY <3>1, <3>2
  <2>3. owner' # d
    BY <2>1, StreamAssumption
  <2>4. QED
    BY <2>1, <2>2, <2>3 DEF EarlyInv, Held, InTmp, RunningIn
<1>7. ASSUME NEW c \in Client, CreateNew(c) PROVE EarlyInv(d)'
  <2>1. /\ life[c] = "unused" /\ life' = [life EXCEPT ![c] = "live"]
        /\ UNCHANGED <<session, setUp, link, awaiting, running, mode, owner, tmp>>
    BY <1>7 DEF CreateNew, stream, looped
  <2>2. QED
    BY <2>1 DEF EarlyInv, Held, InTmp, RunningIn, TypeOK
<1>8. ASSUME NEW c \in Client, RtspPlay(c) \/ \E cmd \in Controls : RtspControl(c, cmd)
      PROVE  EarlyInv(d)'
  <2>1. /\ life[c] = "live" /\ UNCHANGED <<life, session, setUp, mode, owner, tmp>>
        /\ \A S : InTmp(d, S)' => InTmp(d, S)
    BY <1>8 DEF RtspPlay, RtspControl, stream, looped, InTmp
  <2>2. CASE RtspPlay(c)
    <3>1. "OPTIONS" \in Command /\ "OPTIONS" \notin Early
      BY DEF Command, Chain, Early
    <3>2. QED
      BY <2>1, <2>2, <3>1, EarlySend DEF RtspPlay
  <2>3. ASSUME NEW cmd \in Controls, RtspControl(c, cmd) PROVE EarlyInv(d)'
    <3> DEFINE r == Request(c, cmd)
    <3>1. Send(c, r) /\ r \in Command /\ (r \in Early => session[c] = "none")
      <4>1. r \in Control => r \notin Early
        BY DEF Control, Early
      <4>2. QED
        BY <2>3, <4>1, RequestIs DEF RtspControl
    <3> HIDE DEF r
    <3>2. CASE d = c
      <4>1. r \in Early => ~setUp[c]
        BY <2>1, <3>1, <3>2 DEF EarlyInv
      <4>2. QED
        BY <2>1, <3>1, <4>1, EarlySend
    <3>3. CASE d # c
      <4>1. awaiting'[d] = awaiting[d] /\ link'[d] = link[d]
        BY <3>1, <3>3 DEF Send, Queued, SentInVain, FailsAtOnce, TypeOK
      <4>2. running' = None \/ running'.client = c
        BY <3>1 DEF Send, Queued, SentInVain, FailsAtOnce
      <4>3. QED
        BY <2>1, <3>3, <4>1, <4>2 DEF EarlyInv, Held, RunningIn
    <3>4. QED
      BY <3>2, <3>3
  <2>4. QED
    BY <1>8, <2>2, <2>3
<1>9. ASSUME NEW c \in Client, StreamTimer(c) PROVE EarlyInv(d)'
  <2>1. CASE UNCHANGED <<life, stream, token, link, awaiting, running>>
    BY <1>9, <2>1, <1>b DEF StreamTimer, stream, looped
  <2>2. CASE \E s, tok, n : Close(c, s, tok, n)
    BY <1>9, <2>2, EarlyClose DEF StreamTimer
  <2>3. QED
    BY <1>9, <2>1, <2>2 DEF StreamTimer
<1>10. ASSUME NEW c \in Client, NEW ok \in BOOLEAN, Answered(c, ok) PROVE EarlyInv(d)'
  <2>1. PICK id \in BOOLEAN : /\ id => Head(awaiting[c]) = "SETUP"
                              /\ setUp' = [setUp EXCEPT ![c] = @ \/ id]
    BY <1>10 DEF Answered
  <2>2. /\ life[c] = "live" /\ link[c] = "open" /\ awaiting[c] # <<>> /\ mode = "idle"
        /\ awaiting' = [awaiting EXCEPT ![c] = Tail(@)]
        /\ running' = [client |-> c, command |-> Head(awaiting[c]), ok |-> ok]
        /\ UNCHANGED <<life, session, link, mode, owner, tmp>>
    BY <1>10 DEF Answered, looped, LoopIdle
  <2>3. awaiting[c] \in Seq(Command)
    BY DEF TypeOK
  <2>4. CASE d = c
    <3>1. awaiting'[c] = Tail(awaiting[c])
      BY <2>2 DEF TypeOK
    <3>2. ~Has(awaiting[c], Early)
      BY <2>2, <2>4 DEF EarlyInv
    <3>3. ~Has(awaiting'[c], Early) /\ ~RunningIn(c, Early)'
      BY <2>2, <2>3, <3>1, <3>2, HasTail DEF RunningIn
    <3>4. ~InTmp(c, Early)'
      BY <2>2, <2>4, StreamAssumption DEF EarlyInv, InTmp
    <3>5. id => session[c] # "none"
      <4> SUFFICES ASSUME id PROVE session[c] # "none"
        OBVIOUS
      <4>1. Head(awaiting[c]) \in InSession
        BY <2>1 DEF InSession
      <4>2. Held(c, InSession)
        BY <2>2, <2>3, <4>1, HasTail DEF Held
      <4>3. QED
        BY <2>2, <4>2 DEF ClientInv, SessionHeld
    <3>6. session[c] = "none" => setUp'[c] = setUp[c]
      BY <2>1, <3>5 DEF TypeOK
    <3>7. QED
      BY <2>2, <2>4, <3>3, <3>4, <3>6 DEF EarlyInv, Held
  <2>5. CASE d # c
    <3>1. setUp'[d] = setUp[d] /\ awaiting'[d] = awaiting[d] /\ running'.client # d
      BY <2>1, <2>2, <2>5 DEF TypeOK
    <3>2. QED
      BY <2>2, <3>1 DEF EarlyInv, Held, InTmp, RunningIn
  <2>6. QED
    BY <2>4, <2>5
<1>11. ASSUME NEW c \in Client, NEW made \in BOOLEAN, ConnectionHandler(c, made)
       PROVE  EarlyInv(d)'
  <2>1. /\ running = None /\ mode = "idle" /\ mode' # "idle" /\ owner' = c /\ tmp' = awaiting[c]
        /\ link' = [link EXCEPT ![c] = IF made THEN "open" ELSE "refused"]
        /\ awaiting' = [awaiting EXCEPT ![c] = <<>>]
        /\ UNCHANGED <<life, session, setUp, running>>
    BY <1>11 DEF ConnectionHandler, LoopIdle, stream
  <2>2. CASE d = c
    <3>1. awaiting'[c] = <<>>
      BY <2>1 DEF TypeOK
    <3>2. ~Has(awaiting'[c], Early) /\ ~RunningIn(c, Early)'
      BY <2>1, <3>1, HasEmpty DEF RunningIn
    <3>3. Held(c, Early)' => Held(c, Early)
      BY <2>1, <3>2 DEF Held, InTmp
    <3>4. QED
      BY <2>1, <2>2, <3>2, <3>3 DEF EarlyInv
  <2>3. CASE d # c
    <3>1. awaiting'[d] = awaiting[d] /\ link'[d] = link[d]
      BY <2>1, <2>3 DEF TypeOK
    <3>2. QED
      BY <2>1, <2>3, <3>1 DEF EarlyInv, Held, InTmp, RunningIn
  <2>4. QED
    BY <2>2, <2>3
<1>12. ASSUME NEW c \in Client, ConnectionEnds(c) \/ ReadEnd(c) PROVE EarlyInv(d)'
  <2>1. /\ UNCHANGED <<life, session, setUp, running, mode, owner, tmp>>
        /\ link[c] # "connecting" /\ link' = [link EXCEPT ![c] = link'[c]]
        /\ awaiting'[d] = awaiting[d] \/ awaiting'[d] = <<>>
    BY <1>12 DEF ConnectionEnds, ReadEnd, LoopIdle, stream, looped, TypeOK
  <2>2. Has(awaiting'[d], Early) => Has(awaiting[d], Early)
    BY <2>1, HasEmpty
  <2>3. Has(awaiting'[d], Early) => link'[d] = "connecting"
    BY <2>1, <2>2 DEF EarlyInv, TypeOK
  <2>4. QED
    BY <2>1, <2>2, <2>3 DEF EarlyInv, Held, InTmp, RunningIn
<1>13. QED
  BY <1>0, <1>1, <1>2, <1>3, <1>4, <1>5, <1>6, <1>7, <1>8, <1>9, <1>10, <1>11, <1>12,
     EarlyHandlers DEF Next

\* A command that refers to a session, sent by the chain or by the application, is
\* outstanding only while there is one; and what the application asks for before
\* there is one is refused, at once or after the connection is made, without NULL
\* being dereferenced, whenever it asks.
THEOREM CommandsFollowDescribe == Spec => []CommandsHaveSession
<1> DEFINE Inv == StreamInv /\ \A c \in Client : IdInv(c) /\ EarlyInv(c)
<1>1. Init => Inv
  <2> SUFFICES ASSUME Init, NEW c \in Client PROVE IdInv(c) /\ EarlyInv(c)
    BY StreamInit
  <2>1. ~Has(awaiting[c], Early) /\ ~InTmp(c, Early) /\ ~RunningIn(c, Early)
    BY HasEmpty DEF Init, InTmp, RunningIn
  <2>2. QED
    BY <2>1 DEF Init, IdInv, EarlyInv, Held
<1>2. Inv /\ [Next]_vars => Inv'
  BY StreamStep, IdStep, EarlyStep DEF StreamInv
<1>3. Inv => CommandsHaveSession
  <2> SUFFICES ASSUME Inv, NEW c \in Client, life[c] = "live"
               PROVE  /\ session[c] = "none" => ~setUp[c]
                      /\ \A i \in DOMAIN Outstanding(c) :
                           /\ Outstanding(c)[i] \in InSession => session[c] # "none"
                           /\ Outstanding(c)[i] \in Early => ~setUp[c]
                      /\ \A i \in DOMAIN awaiting[c] :
                           awaiting[c][i] \in Early => link[c] = "connecting"
    BY DEF CommandsHaveSession
  <2>1. TypeOK /\ EarlyInv(c) /\ SessionHeld(c)
    BY DEF StreamInv, TypeInv, ClientInv
  <2>2. \A S : \A i \in DOMAIN Outstanding(c) : Outstanding(c)[i] \in S => Held(c, S)
    BY <2>1, OutstandingHeld DEF Has
  <2>3. \A i \in DOMAIN awaiting[c] : awaiting[c][i] \in Early => Has(awaiting[c], Early)
    BY DEF Has
  <2>4. QED
    BY <2>1, <2>2, <2>3 DEF EarlyInv, SessionHeld
<1>4. QED
  BY <1>1, <1>2, <1>3, PTL DEF Spec

=============================================================================

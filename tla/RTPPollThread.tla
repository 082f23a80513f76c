----------------------------- MODULE RTPPollThread -----------------------------
(***************************************************************************)
(* A session's poll thread (RTPPollThread) over its transmitter, from      *)
(* RTPSession::Create to Destroy, with the application's thread, which     *)
(* configures the transmitter and in the end stops the poll thread: it     *)
(* sets stop, calls AbortWait, waits at most five seconds, and then kills. *)
(*                                                                         *)
(* Between its test of stop and WaitForIncomingData the poll thread does   *)
(* not wait yet, and AbortWait is lost: only the end of the RTCP delay     *)
(* wakes it then.  A delay is short if it ends within the five seconds.    *)
(***************************************************************************)
EXTENDS Transmitter

CONSTANTS
  Delays,     \* subset of {"short", "long"}: RTCP delays of this session
  MaxCreates  \* bound on the sessions

ASSUME PollThreadAssumption ==
  /\ Delays \subseteq {"short", "long"} /\ Delays # {}
  /\ MaxCreates \in Nat

VARIABLES
  caller,    \* what the application's thread does
  thread,    \* what the poll thread does
  stopping,  \* RTPPollThread::stop
  delay,     \* how long the poll thread waits at most
  sessions   \* sessions created so far

pollVars == <<transVars, caller, thread, stopping, delay, sessions>>

PollTypeOK ==
  /\ TransTypeOK
  /\ caller \in {"idle", "open", "aborting", "awaiting", "destroying", "ending"}
  /\ thread \in {"none", "delay", "wait", "waiting", "poll", "process", "check", "killed"}
  /\ stopping \in BOOLEAN
  /\ delay \in Delays
  /\ sessions \in 0 .. MaxCreates

PollInit ==
  /\ TransInit
  /\ caller = "idle" /\ thread = "none" /\ stopping = FALSE /\ delay \in Delays /\ sessions = 0

Running == thread \notin {"none", "killed"}

-----------------------------------------------------------------------------
(* The application. *)

\* RTPSession::Create makes the transmitter and starts the thread, which goes
\* through its first test of stop before Start returns, or at once after.
CreateSession ==
  /\ caller = "idle" /\ sessions < MaxCreates
  /\ Create
  /\ caller' = "open" /\ thread' = "delay" /\ stopping' = FALSE
  /\ sessions' = sessions + 1
  /\ UNCHANGED delay

ConfigureSession ==
  /\ caller = "open" /\ Configure
  /\ UNCHANGED <<caller, thread, stopping, delay, sessions>>

\* ~RTPPollThread calls Stop, which returns at once if the thread has ended.
BeginStop ==
  /\ caller = "open"
  /\ caller' = IF Running THEN "aborting" ELSE "destroying"
  /\ stopping' = Running
  /\ UNCHANGED <<transVars, thread, delay, sessions>>

StopAborts ==
  /\ caller = "aborting"
  /\ AbortWait
  /\ caller' = "awaiting"
  /\ UNCHANGED <<thread, stopping, delay, sessions>>

\* Mutant: Stop returns without waiting for the thread.
StopReturnsAtOnce ==
  /\ caller = "awaiting"
  /\ caller' = "destroying" /\ stopping' = FALSE
  /\ UNCHANGED <<transVars, thread, delay, sessions>>

StopReturns ==
  /\ caller = "awaiting" /\ ~Running
  /\ caller' = "destroying" /\ stopping' = FALSE
  /\ UNCHANGED <<transVars, thread, delay, sessions>>

\* Five seconds are over, and the thread is still in select().
Kill ==
  /\ caller = "awaiting"
  /\ waiter = "select" /\ delay = "long" /\ pipe = 0
  /\ thread' = "killed"
  /\ UNCHANGED <<transVars, caller, stopping, delay, sessions>>

\* The transmitter is destroyed with the session.
DestroyBegins ==
  /\ caller = "destroying"
  /\ BeginDestroy
  /\ caller' = "ending"
  /\ UNCHANGED <<thread, stopping, delay, sessions>>

DestroyEnds ==
  /\ caller = "ending" /\ CanEndDestroy
  /\ caller' = "idle"
  /\ thread' = "none"
  /\ UNCHANGED <<transVars, stopping, delay, sessions>>

-----------------------------------------------------------------------------
(* The poll thread. *)

ComputeDelay ==
  /\ thread = "delay"
  /\ thread' = "wait" /\ delay' \in Delays
  /\ UNCHANGED <<transVars, caller, stopping, sessions>>

\* The only one who waits: WaitForIncomingData has no error to return.
ThreadWaits ==
  /\ thread = "wait"
  /\ BeginWait
  /\ thread' = "waiting"
  /\ UNCHANGED <<caller, stopping, delay, sessions>>

ThreadWakes ==
  /\ thread = "waiting"
  /\ SelectReturns
  /\ UNCHANGED <<caller, thread, stopping, delay, sessions>>

ThreadReturns ==
  /\ thread = "waiting"
  /\ EndWait
  /\ thread' = "poll"
  /\ UNCHANGED <<caller, stopping, delay, sessions>>

\* Mutant: only the RTP socket is polled.
PollsOnlyRTP ==
  /\ thread = "poll"
  /\ created
  /\ rawpackets' = rawpackets \o Accepted("rtp")
  /\ arrived' = [arrived EXCEPT !["rtp"] = <<>>]
  /\ thread' = "process"
  /\ UNCHANGED <<created, lists, waits, caller, stopping, delay, sessions>>

ThreadPolls ==
  /\ thread = "poll"
  /\ Poll
  /\ thread' = "process"
  /\ UNCHANGED <<caller, stopping, delay, sessions>>

\* ProcessPolledData takes one packet after the other; an error ends the thread.
ThreadProcesses ==
  /\ thread = "process"
  /\ \/ GetNextPacket /\ thread' \in {"process", "none"}
     \/ rawpackets = <<>> /\ thread' = "check" /\ UNCHANGED transVars
  /\ UNCHANGED <<caller, stopping, delay, sessions>>

TestStop ==
  /\ thread = "check"
  /\ thread' = IF stopping THEN "none" ELSE "delay"
  /\ UNCHANGED <<transVars, caller, stopping, delay, sessions>>

Arrival ==
  /\ \E s \in Sock, a \in HostPort : DatagramArrives(s, a)
  /\ UNCHANGED <<caller, thread, stopping, delay, sessions>>

Thread == ComputeDelay \/ ThreadWaits \/ ThreadWakes \/ ThreadReturns \/ ThreadPolls
            \/ ThreadProcesses \/ TestStop
StopAndDestroy == StopAborts \/ StopReturns \/ DestroyBegins \/ DestroyEnds

PollNext == CreateSession \/ ConfigureSession \/ BeginStop \/ Kill \/ Arrival \/ Thread \/ StopAndDestroy

\* Threads go on, select() returns at its timeout; nobody has to call Destroy.
PollFairness == WF_pollVars(Thread) /\ WF_pollVars(StopAndDestroy)

PollSpec == PollInit /\ [][PollNext]_pollVars /\ PollFairness

-----------------------------------------------------------------------------
(* Properties. *)

\* An address is selected only if the application asked for it and did not
\* take it back, in whatever order it named ports and whole hosts.
SelectedWasAsked == \A a \in HostPort : Selected(acceptignore, a) => a \in asked

\* The flag and the mutex of the waiter go together.
WaitingHoldsMutex == waiting <=> waitmutex = "waiter"

\* The transmitter is destroyed when nobody waits in it, or a thread that was
\* killed there: Destroy would close the descriptors of its select(), and
\* unlock mainmutex twice.
DestroyedAlone ==
  caller \in {"destroying", "ending"} => ~Running /\ (waiter = "no" \/ thread = "killed")

\* Destroy returns, whatever the RTCP delay, unless Stop finds the thread
\* between its test of stop and its wait: AbortWait is lost then, the thread
\* may be killed, and Destroy waits for waitmutex without end.
DestroyReturns ==
  (caller = "aborting" /\ thread \notin {"delay", "wait"}) ~> caller = "idle"

\* While the thread runs, what a socket received is read.
ArrivedIsRead == \A s \in Sock : arrived[s] # <<>> ~> (arrived[s] = <<>> \/ ~Running)

\* The thread does its work and can be ended.
ThreadServes == ArrivedIsRead /\ DestroyReturns

=============================================================================

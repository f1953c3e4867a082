---------------------------- MODULE StreamAttempt ----------------------------
(***************************************************************************)
(* One streaming attempt of a request: the loop that copies server-sent    *)
(* events from the upstream to the client, the watchdog that shares a      *)
(* mutex with it, and the judgement of the handler when the loop returns.  *)
(*                                                                         *)
(* Sources: internal/gateway/stream_watchdog.go, gateway.go                *)
(* (proxyDelayedStreamControlled) and v3.go (the streaming branch).        *)
(* Three threads interleave: the loop, the goroutines that time.AfterFunc  *)
(* starts, and the environment.  Each critical section of the mutex is one *)
(* action, and so is each blocking read and write.  Time is counted down,  *)
(* so no bound on its length is needed.                                    *)
(***************************************************************************)
EXTENDS Integers

CONSTANTS
  FirstOutput, \* first_output_timeout_seconds
  Idle,        \* stream_idle_timeout_seconds
  MaxLines,    \* bound: lines the upstream sends before it falls silent
  MaxExpiring  \* bound: expire() goroutines that wait for the mutex at once

ASSUME TimeoutAssumption == FirstOutput \in Nat \ {0} /\ Idle \in Nat \ {0}
ASSUME BoundAssumption == MaxLines \in Nat /\ MaxExpiring \in Nat \ {0}

VARIABLES
  loop,     \* the copy loop and the handler around it
  dog,      \* the fields of streamWatchdog
  timer,    \* time left on its timer, Off when fired or stopped
  expiring, \* expire() goroutines started and not yet past the mutex
  cancels,  \* an expire() goroutine is about to call cancel
  ctx,      \* the attempt's context is cancelled
  pipe,     \* what the next read finds
  lines,    \* lines the upstream may still send
  silence,  \* how long the upstream has sent nothing, up to Idle
  client    \* the downstream connection

vars == <<loop, dog, timer, expiring, cancels, ctx, pipe, lines, silence, client>>

Off == -1

Phase == {"first_output", "stream_idle"}

\* first/activity: the line is read and the watchdog not yet told;
\* wrote: bytes may have reached the client; committed: what the loop returns.
LoopState ==
  [pc: {"read", "first", "activity", "write", "returned", "judge", "done"},
   wrote: BOOLEAN, committed: BOOLEAN,
   err: {"none", "early_eof", "overflow", "read", "write", "timeout"},
   verdict: {"none", "success", "cancelled", "charged_cancelled", "failed", "retry"}]

TypeOK ==
  /\ loop \in LoopState
  /\ dog \in [phase: Phase, fired: Phase \union {"none"}, stopped: BOOLEAN]
  /\ timer \in {Off} \union 0..FirstOutput \union 0..Idle
  /\ expiring \in 0..MaxExpiring
  /\ cancels \in BOOLEAN /\ ctx \in BOOLEAN
  /\ pipe \in {"empty", "keepalive", "semantic", "eof", "broken"}
  /\ lines \in 0..MaxLines
  /\ silence \in 0..Idle
  /\ client \in {"connected", "broken", "cancelled"}

\* newStreamWatchdog, and the response headers have arrived in time.
Init ==
  /\ loop = [pc |-> "read", wrote |-> FALSE, committed |-> FALSE, err |-> "none",
             verdict |-> "none"]
  /\ dog = [phase |-> "first_output", fired |-> "none", stopped |-> FALSE]
  /\ timer \in 1..FirstOutput
  /\ expiring = 0
  /\ cancels = FALSE /\ ctx = FALSE
  /\ pipe = "empty"
  /\ lines = MaxLines
  /\ silence = 0
  /\ client = "connected"

-----------------------------------------------------------------------------
(* The copy loop *)

\* ReadSlice returns a line: buffered while nothing is committed, unless it is
\* the first semantic one.
ReadLine ==
  /\ loop.pc = "read"
  /\ pipe \in {"keepalive", "semantic"}
  /\ pipe' = "empty"
  /\ loop' = [loop EXCEPT !.pc = IF loop.committed THEN "activity"
                                 ELSE IF pipe = "semantic" THEN "first" ELSE "read"]
  /\ UNCHANGED <<dog, timer, expiring, cancels, ctx, lines, silence, client>>

Return(err) == [loop EXCEPT !.pc = "returned", !.err = err]

\* A line over 64 KiB, or 256 KiB of keepalives before the first output.
ReadOverflows ==
  /\ loop.pc = "read"
  /\ pipe \in {"keepalive", "semantic"}
  /\ pipe' = "empty"
  /\ loop' = Return("overflow")
  /\ UNCHANGED <<dog, timer, expiring, cancels, ctx, lines, silence, client>>

ReadEnds ==
  /\ loop.pc = "read"
  /\ \/ pipe = "eof" /\ loop' = Return(IF loop.committed THEN "none" ELSE "early_eof")
     \/ (pipe = "broken" \/ ctx) /\ loop' = Return("read")
  /\ UNCHANGED <<dog, timer, expiring, cancels, ctx, pipe, lines, silence, client>>

\* Mutant: the new timeout is added to what is left of the old one.
SemanticOutputExtends ==
  /\ loop.pc = "first"
  /\ loop' = [loop EXCEPT !.pc = "write"]
  /\ IF dog.stopped \/ dog.fired # "none" THEN UNCHANGED <<dog, timer>>
     ELSE dog' = [dog EXCEPT !.phase = "stream_idle"] /\ timer' = timer + Idle
  /\ UNCHANGED <<expiring, cancels, ctx, pipe, lines, silence, client>>

\* Mutant: the timer is stopped and not rearmed.
SemanticOutputDisarms ==
  /\ loop.pc = "first"
  /\ loop' = [loop EXCEPT !.pc = "write"]
  /\ IF dog.stopped \/ dog.fired # "none" THEN UNCHANGED <<dog, timer>>
     ELSE dog' = [dog EXCEPT !.phase = "stream_idle"] /\ timer' = Off
  /\ UNCHANGED <<expiring, cancels, ctx, pipe, lines, silence, client>>

\* semanticOutput() and activity(), under the mutex.
SemanticOutput ==
  /\ loop.pc = "first"
  /\ loop' = [loop EXCEPT !.pc = "write"]
  /\ IF dog.stopped \/ dog.fired # "none" THEN UNCHANGED <<dog, timer>>
     ELSE dog' = [dog EXCEPT !.phase = "stream_idle"] /\ timer' = Idle
  /\ UNCHANGED <<expiring, cancels, ctx, pipe, lines, silence, client>>

Activity ==
  /\ loop.pc = "activity"
  /\ loop' = [loop EXCEPT !.pc = "write"]
  /\ timer' = IF dog.stopped \/ dog.fired # "none" \/ dog.phase # "stream_idle" THEN timer ELSE Idle
  /\ UNCHANGED <<dog, expiring, cancels, ctx, pipe, lines, silence, client>>

\* The write blocks until the client reads or its connection breaks.
Write ==
  /\ loop.pc = "write"
  /\ client = "connected"
  /\ loop' = [loop EXCEPT !.pc = "read", !.wrote = TRUE, !.committed = TRUE]
  /\ UNCHANGED <<dog, timer, expiring, cancels, ctx, pipe, lines, silence, client>>

\* Mutant: a failed first write is reported as nothing committed.
WriteFailsUncommitted ==
  /\ loop.pc = "write"
  /\ client # "connected"
  /\ loop' = [Return("write") EXCEPT !.wrote = TRUE]
  /\ UNCHANGED <<dog, timer, expiring, cancels, ctx, pipe, lines, silence, client>>

WriteFails ==
  /\ loop.pc = "write"
  /\ client # "connected"
  /\ loop' = [Return("write") EXCEPT !.wrote = TRUE, !.committed = TRUE]
  /\ UNCHANGED <<dog, timer, expiring, cancels, ctx, pipe, lines, silence, client>>

-----------------------------------------------------------------------------
(* The handler, once the loop has returned *)

\* Mutant: what the watchdog did is ignored.
ErrorAfterStopIgnored == loop.err

\* A timeout takes the place of whatever the loop returned.
ErrorAfterStop == IF dog.fired # "none" THEN "timeout" ELSE loop.err

Stopped == [dog EXCEPT !.stopped = TRUE]

\* stop() under the mutex, then attemptCancel().
Stop ==
  /\ loop.pc = "returned"
  /\ dog' = Stopped
  /\ timer' = Off
  /\ loop' = [loop EXCEPT !.pc = "judge", !.err = ErrorAfterStop]
  /\ ctx' = TRUE
  /\ UNCHANGED <<expiring, cancels, pipe, lines, silence, client>>

\* r.Context().Err() is read here, after stop().
Verdict ==
  IF loop.err = "none" THEN "success"
  ELSE IF client = "cancelled" \/ loop.err = "write"
       THEN IF loop.committed THEN "charged_cancelled" ELSE "cancelled"
       ELSE IF loop.committed THEN "failed" ELSE "retry"

\* success, failed and retry are recorded on the target; success, failed and
\* charged_cancelled settle the request with a charge; retry goes on to the
\* next site.
Judge ==
  /\ loop.pc = "judge"
  /\ loop' = [loop EXCEPT !.pc = "done", !.verdict = Verdict]
  /\ UNCHANGED <<dog, timer, expiring, cancels, ctx, pipe, lines, silence, client>>

-----------------------------------------------------------------------------
(* The watchdog's goroutines *)

\* The runtime starts expire() in a goroutine of its own.
TimerFires ==
  /\ timer = 0
  /\ expiring < MaxExpiring
  /\ timer' = Off
  /\ expiring' = expiring + 1
  /\ UNCHANGED <<loop, dog, cancels, ctx, pipe, lines, silence, client>>

\* The critical section of expire().
Expire ==
  /\ expiring > 0
  /\ expiring' = expiring - 1
  /\ IF dog.stopped \/ dog.fired # "none" THEN UNCHANGED <<dog, cancels>>
     ELSE dog' = [dog EXCEPT !.fired = dog.phase] /\ cancels' = TRUE
  /\ UNCHANGED <<loop, timer, ctx, pipe, lines, silence, client>>

\* cancel(), after the mutex is released.
Cancel ==
  /\ cancels
  /\ cancels' = FALSE
  /\ ctx' = TRUE
  /\ UNCHANGED <<loop, dog, timer, expiring, pipe, lines, silence, client>>

-----------------------------------------------------------------------------
(* Upstream, client and time *)

UpstreamSends ==
  /\ pipe = "empty"
  /\ \/ lines > 0 /\ lines' = lines - 1 /\ pipe' \in {"keepalive", "semantic"}
     \/ UNCHANGED lines /\ pipe' \in {"eof", "broken"}
  /\ silence' = 0
  /\ UNCHANGED <<loop, dog, timer, expiring, cancels, ctx, client>>

\* Writes fail first; the server notices and cancels the request's context.
ClientLeaves ==
  /\ \/ client = "connected" /\ client' \in {"broken", "cancelled"}
     \/ client = "broken" /\ client' = "cancelled"
  /\ ctx' = (ctx \/ client' = "cancelled")
  /\ UNCHANGED <<loop, dog, timer, expiring, cancels, pipe, lines, silence>>

\* The request's own deadline.
DeadlinePasses ==
  /\ ~ctx
  /\ ctx' = TRUE
  /\ UNCHANGED <<loop, dog, timer, expiring, cancels, pipe, lines, silence, client>>

\* The runtime's timers are on time; its goroutines may be late.
Tick ==
  /\ timer # 0
  /\ timer' = IF timer = Off THEN Off ELSE timer - 1
  /\ silence' = IF pipe = "empty" /\ silence < Idle THEN silence + 1 ELSE silence
  /\ UNCHANGED <<loop, dog, expiring, cancels, ctx, pipe, lines, client>>

-----------------------------------------------------------------------------

LoopNext ==
  ReadLine \/ ReadOverflows \/ ReadEnds \/ SemanticOutput \/ Activity
  \/ Write \/ WriteFails \/ Stop \/ Judge

DogNext == TimerFires \/ Expire \/ Cancel

Next == LoopNext \/ DogNext \/ UpstreamSends \/ ClientLeaves \/ DeadlinePasses \/ Tick

\* Goroutines that can run do run, time passes, and a blocked write ends (the
\* client reads on or its connection breaks).  The upstream owes nothing, and
\* the deadline of the request may be far away.
Fairness == WF_vars(LoopNext) /\ WF_vars(TimerFires) /\ WF_vars(Expire)
            /\ WF_vars(Cancel) /\ WF_vars(Tick)

Spec == Init /\ [][Next]_vars /\ Fairness

-----------------------------------------------------------------------------
(* Properties *)

\* An attempt is tried again elsewhere, or ended without a charge, only if not
\* one byte may have reached the client.
OnlySilentAttemptsRetry ==
  loop.verdict \in {"retry", "cancelled"} => ~loop.wrote

\* A stream that the watchdog has cut is never taken for a complete one, even
\* when the upstream ended it in the same instant.
CutIsNeverSuccess ==
  loop.verdict = "success" => dog.fired = "none" /\ pipe = "eof" /\ ~cancels

\* A stalled upstream is cut off without the help of the request's deadline.
StalledStreamEnds == <>(loop.pc = "done")

\* The timeout that is reported as "upstream stream exceeded the configured
\* idle timeout" happened: the upstream was silent that long.
IdleCutIsDeserved ==
  [][dog.fired = "none" /\ dog'.fired = "stream_idle" => silence >= Idle]_vars

=============================================================================

---------------------------- MODULE LegacyGateway ----------------------------
(***************************************************************************)
(* Requests and probes of a route that has not been migrated: the walk of  *)
(* a request over the targets of its route, the circuit of each target in  *)
(* target_health, and how a request is answered and settled.               *)
(*                                                                         *)
(* Sources: internal/gateway/gateway.go (serveInference after it found no  *)
(* published model), internal/gateway/probe.go, internal/store/health.go   *)
(* and internal/routing/routing.go.  A transaction is one action; the      *)
(* clock its caller read before it is up to MaxWait old.                   *)
(***************************************************************************)
EXTENDS Integers, Sequences, FiniteSets

CONSTANTS
  Route,         \* the targets of a route by position
  Requests, Probes,
  Budgets,       \* values of max_attempts
  Threshold,     \* failure_threshold
  FailureWindow, \* failure_window_seconds
  Cooldown,      \* cooldown_seconds
  RetryAfter,    \* a longer time an upstream asks for in a 429
  Deadline,      \* request_deadline_seconds
  ProbeTimeout,  \* the 15 seconds of a probe
  Slack,         \* the 5 seconds added to a lease
  MaxWait,       \* how long a statement waits for the database
  Horizon,       \* bound of the clock
  NoTime         \* SQL NULL in a time column

ASSUME LegacyAssumption ==
  /\ Route \in Seq(Nat) /\ Requests \intersect Probes = {} /\ NoTime \notin Int
  /\ Threshold \in Nat \ {0, 1} /\ Budgets \subseteq Nat
  /\ {FailureWindow, Cooldown, RetryAfter, Deadline, ProbeTimeout, MaxWait, Horizon} \subseteq Nat
  /\ Slack \in Nat \ {0} /\ RetryAfter >= Cooldown

Targets == {Route[i] : i \in DOMAIN Route}

VARIABLES
  time,
  health,     \* target_health
  credential, \* runtime_state of the credential of a target
  caller,     \* what the goroutine of a request or a probe knows
  trials      \* history: who was let through since the circuit last opened

legacyVars == <<time, health, credential, caller, trials>>

Party == Requests \union Probes

HealthRow == [phase: {"closed", "open", "half_open"}, failures: Nat,
              last: Nat \union {NoTime}, cooldown: Nat \union {NoTime},
              lease: Nat \union {NoTime}, capability: {"unknown", "supported", "unsupported"}]

\* A missing row reads as this one.
FreshHealth == [phase |-> "closed", failures |-> 0, last |-> NoTime, cooldown |-> NoTime,
                lease |-> NoTime, capability |-> "unknown"]

\* "retry": a 429 with Retry-After; "key": a 401; "client": any other status
\* below 500, which is the client's own.
Outcome == {"success", "penalize", "retry", "key", "unsupported", "client"}

\* plan: the candidates that are left; since: the clock at the last step, before a statement;
\* until: when the context of the request or probe ends.
CallerRow == [pc: {"idle", "walk", "flying", "streaming", "landed", "finish", "deferred", "done"},
              plan: Seq(Targets), budget: Nat, stream: BOOLEAN, client: BOOLEAN,
              since: Nat, until: Nat, outcome: Outcome,
              charge: BOOLEAN, answer: {"none", "body", "error"},
              reply: {"none", "stream", "body", "error"}, settled: {"open", "charged", "released"}]

\* Clocks the caller may have read before a statement that runs now.
Stamps(c) == {n \in caller[c].since..time : n >= time - MaxWait}

Target(c) == Head(caller[c].plan)

\* The goroutine of c goes on with these changes of what it knows; "since" is
\* kept while a statement is ahead that may have to wait.
Becomes(c, next) ==
  caller' = [caller EXCEPT ![c] = [next EXCEPT
               !.since = IF next.pc \in {"walk", "landed"} THEN time ELSE 0]]

Finishing(c, charge, answer) ==
  [caller[c] EXCEPT !.pc = "finish", !.charge = charge, !.answer = answer]

-----------------------------------------------------------------------------
(* The beginning of a request and of a probe *)

Candidate(t) ==
  /\ credential[t] = "active" /\ health[t].capability # "unsupported"
  /\ ~(health[t].phase = "open" /\ health[t].cooldown > time)

\* The candidates in the order of the route.
OrderedEligible ==
  LET eligible[i \in 0..Len(Route)] ==
        IF i = 0 THEN <<>>
        ELSE IF Candidate(Route[i]) THEN Append(eligible[i - 1], Route[i]) ELSE eligible[i - 1]
  IN eligible[Len(Route)]

\* Admission, with the reservation.
PlanRequest(r, maxAttempts, stream) ==
  LET plan == OrderedEligible IN
  /\ caller[r].pc = "idle"
  /\ Becomes(r, [caller[r] EXCEPT !.pc = "walk", !.plan = plan, !.stream = stream,
                   !.budget = IF maxAttempts > Len(plan) THEN Len(plan) ELSE maxAttempts,
                   !.until = time + Deadline])
  /\ UNCHANGED <<time, health, credential, trials>>

\* probeTarget; an unsupported target is probed too, to find out.
PlanProbe(p, t) ==
  /\ caller[p].pc = "idle"
  /\ credential[t] = "active"
  /\ Becomes(p, [caller[p] EXCEPT !.pc = "walk", !.plan = <<t>>, !.budget = 1,
                                  !.until = time + ProbeTimeout])
  /\ UNCHANGED <<time, health, credential, trials>>

-----------------------------------------------------------------------------
(* Permits *)

\* Mutant: both callers take the lease of a probe.
LeaseOfProbe(c) == ProbeTimeout + Slack

Lease(c) == (IF c \in Requests THEN Deadline ELSE ProbeTimeout) + Slack

Refuses(h, c, now) ==
  \/ h.capability = "unsupported" /\ c \in Requests
  \/ h.phase = "open" /\ h.cooldown # NoTime /\ h.cooldown > now
  \/ h.phase # "closed" /\ h.lease # NoTime /\ h.lease > now

CandidatesLeft(c) ==
  caller[c].pc = "walk" /\ caller[c].plan # <<>> /\ caller[c].budget > 0

\* A probe reads the clock once; its context is as old as that clock.
PermitStamps(c) == IF c \in Probes THEN {caller[c].since} ELSE Stamps(c)

\* A permit that arrives with the deadline is not used, and not given back.
AcquireTargetPermit(c) ==
  LET t == Target(c) IN
  /\ CandidatesLeft(c) /\ caller[c].client /\ time <= caller[c].until
  /\ \E now \in PermitStamps(c) :
       IF Refuses(health[t], c, now)
       THEN /\ Becomes(c, [caller[c] EXCEPT !.plan = Tail(@)])
            /\ UNCHANGED <<health, trials>>
       ELSE /\ Becomes(c, IF time < caller[c].until
                          THEN [caller[c] EXCEPT !.pc = "flying", !.budget = @ - 1]
                          ELSE Finishing(c, FALSE, "error"))
            /\ IF health[t].phase = "closed" THEN UNCHANGED <<health, trials>>
               ELSE /\ health' = [health EXCEPT ![t].phase = "half_open",
                                                ![t].lease = now + Lease(c)]
                    /\ trials' = [trials EXCEPT ![t] = @ \union {c}]
  /\ UNCHANGED <<time, credential>>

\* The database fails, the client has gone or the deadline has passed.
PermitFails(c) ==
  /\ CandidatesLeft(c)
  /\ Becomes(c, Finishing(c, FALSE, "error"))
  /\ UNCHANGED <<time, health, credential, trials>>

NoCandidateLeft(c) ==
  /\ caller[c].pc = "walk" /\ ~(caller[c].plan # <<>> /\ caller[c].budget > 0)
  /\ Becomes(c, Finishing(c, FALSE, "error"))
  /\ UNCHANGED <<time, health, credential, trials>>

-----------------------------------------------------------------------------
(* A call *)

\* The first semantic output is on its way to the client.
StreamCommits(r) ==
  /\ caller[r].pc = "flying" /\ caller[r].stream
  /\ Becomes(r, [caller[r] EXCEPT !.pc = "streaming", !.reply = "stream"])
  /\ UNCHANGED <<time, health, credential, trials>>

CallLands(c, outcome) ==
  /\ Becomes(c, [caller[c] EXCEPT !.pc = "landed", !.outcome = outcome])
  /\ UNCHANGED <<time, health, credential, trials>>

\* A request that could not be built and a response without content penalise
\* the target like a transport failure does.  A stream has succeeded or, after
\* its first output, was interrupted.
CallEnds(r, outcome) ==
  /\ CASE caller[r].pc = "flying" -> ~(caller[r].stream /\ outcome = "success")
       [] caller[r].pc = "streaming" -> outcome \in {"success", "penalize"}
       [] OTHER -> FALSE
  /\ CallLands(r, outcome)

ProbeCallEnds(p, outcome) ==
  /\ caller[p].pc = "flying"
  /\ CallLands(p, outcome)

\* Nobody is blamed; output that was sent is charged.
ClientGone(r) ==
  /\ caller[r].pc \in {"flying", "streaming"}
  /\ ~caller[r].client
  /\ Becomes(r, IF caller[r].reply = "stream" THEN Finishing(r, TRUE, "none")
                ELSE Finishing(r, FALSE, "error"))
  /\ UNCHANGED <<time, health, credential, trials>>

-----------------------------------------------------------------------------
(* What a call reports *)

\* RecordTargetSuccess
AfterSuccess(h) ==
  [h EXCEPT !.phase = "closed", !.failures = 0, !.cooldown = NoTime, !.lease = NoTime,
            !.capability = "supported"]

FailuresAt(h, now) ==
  IF h.last # NoTime /\ now \in h.last..(h.last + FailureWindow) THEN h.failures + 1 ELSE 1

\* RecordTargetFailure.  The phase "open" is not asked for: a failure that was
\* late closes the circuit again if it is the first one since it opened.
AfterFailure(h, now, retry) ==
  IF h.phase = "half_open" \/ retry \/ FailuresAt(h, now) >= Threshold
  THEN [h EXCEPT !.phase = "open", !.failures = 0, !.last = now, !.lease = NoTime,
                 !.cooldown = now + IF retry THEN RetryAfter ELSE Cooldown]
  ELSE [h EXCEPT !.phase = "closed", !.failures = FailuresAt(h, now), !.last = now,
                 !.lease = NoTime, !.cooldown = NoTime]

Recorded(t, outcome, now) ==
  /\ health' = [health EXCEPT ![t] =
       CASE outcome = "success" -> AfterSuccess(@)
         [] outcome = "unsupported" -> [@ EXCEPT !.capability = "unsupported"]
         [] outcome \in {"penalize", "retry"} -> AfterFailure(@, now, outcome = "retry")
         [] OTHER -> @]
  /\ credential' = [credential EXCEPT ![t] =
       CASE outcome = "success" -> "active" [] outcome = "key" -> "invalid" [] OTHER -> @]
  /\ trials' = [trials EXCEPT ![t] = IF outcome \in {"success", "penalize", "retry"} THEN {} ELSE @]

\* Mutant: an interrupted stream is released like any other failure.
SettledBySuccess(c) == caller[c].outcome = "success"

\* What is charged: a success, and a stream of which the client has a part.
Charged(c) == caller[c].outcome = "success" \/ caller[c].reply = "stream"

\* A request goes on after a failure that was recorded and is not the client's.
Reported(c, recorded) ==
  LET k == caller[c] IN
  IF c \in Probes THEN [k EXCEPT !.pc = "done"]
  ELSE IF Charged(c) THEN Finishing(c, TRUE, IF k.stream THEN "none" ELSE "body")
  ELSE IF ~recorded THEN Finishing(c, FALSE, "error")
  ELSE IF k.outcome = "client" THEN Finishing(c, FALSE, "body")
  ELSE [k EXCEPT !.pc = "walk", !.plan = Tail(@)]

\* Under the request's context, or in the three seconds a probe gives itself.
Report(c) ==
  /\ caller[c].pc = "landed"
  /\ caller[c].client
  /\ \E now \in IF c \in Probes THEN {caller[c].until - ProbeTimeout} ELSE Stamps(c) :
       Recorded(Target(c), caller[c].outcome, now)
  /\ Becomes(c, Reported(c, TRUE))
  /\ UNCHANGED time

ReportFails(c) ==
  /\ caller[c].pc = "landed"
  /\ Becomes(c, Reported(c, FALSE))
  /\ UNCHANGED <<time, health, credential, trials>>

-----------------------------------------------------------------------------
(* Settlement and the answer *)

Settlement(c) == IF caller[c].charge THEN "charged" ELSE "released"

Answered(c, answer) == IF caller[c].answer = "none" THEN caller[c].reply ELSE answer

FinishSucceeds(r) ==
  /\ caller[r].pc = "finish"
  /\ Becomes(r, [caller[r] EXCEPT !.pc = "done", !.settled = Settlement(r),
                                  !.reply = Answered(r, caller[r].answer)])
  /\ UNCHANGED <<time, health, credential, trials>>

\* An answer that is still due becomes an error; the deferred call follows.
FinishFails(r) ==
  /\ caller[r].pc = "finish"
  /\ Becomes(r, [caller[r] EXCEPT !.pc = "deferred", !.reply = Answered(r, "error")])
  /\ UNCHANGED <<time, health, credential, trials>>

DeferredFinish(r) ==
  /\ caller[r].pc = "deferred"
  /\ \E s \in {Settlement(r), caller[r].settled} :
       Becomes(r, [caller[r] EXCEPT !.pc = "done", !.settled = s])
  /\ UNCHANGED <<time, health, credential, trials>>

\* A probe that is refused has nothing to settle.
ProbeSkipped(p) ==
  /\ caller[p].pc = "finish"
  /\ Becomes(p, [caller[p] EXCEPT !.pc = "done"])
  /\ UNCHANGED <<time, health, credential, trials>>

-----------------------------------------------------------------------------
(* Environment *)

ClientLeaves(r) ==
  /\ caller[r].client /\ caller[r].pc \notin {"idle", "done"}
  /\ caller' = [caller EXCEPT ![r].client = FALSE]
  /\ UNCHANGED <<time, health, credential, trials>>

\* UpdateUpstream with a new key.
ReplaceSecret(t) ==
  /\ credential[t] # "active"
  /\ credential' = [credential EXCEPT ![t] = "active"]
  /\ UNCHANGED <<time, health, caller, trials>>

\* No call outlives its context, no statement waits longer than MaxWait.
TimePasses ==
  /\ time < Horizon
  /\ \A c \in Party :
       /\ caller[c].pc \in {"flying", "streaming"} => time < caller[c].until
       /\ caller[c].pc \in {"walk", "landed"} => time < caller[c].since + MaxWait
  /\ time' = time + 1
  /\ UNCHANGED <<health, credential, caller, trials>>

Idling(c) == [pc |-> "idle", plan |-> <<>>, budget |-> 0, stream |-> FALSE, client |-> TRUE,
            since |-> 0, until |-> 0, outcome |-> "client", charge |-> FALSE,
            answer |-> "none", reply |-> "none", settled |-> "open"]

LegacyInit ==
  /\ time = 0
  /\ health = [t \in Targets |-> FreshHealth]
  /\ credential = [t \in Targets |-> "active"]
  /\ caller = [c \in Party |-> Idling(c)]
  /\ trials = [t \in Targets |-> {}]

PartyStep(c) ==
  \/ AcquireTargetPermit(c) \/ PermitFails(c) \/ NoCandidateLeft(c)
  \/ Report(c) \/ ReportFails(c)

RequestStep(r) ==
  \/ StreamCommits(r) \/ (\E o \in Outcome : CallEnds(r, o)) \/ ClientGone(r)
  \/ FinishSucceeds(r) \/ FinishFails(r) \/ DeferredFinish(r)
  \/ ClientLeaves(r)
  \/ \E n \in Budgets, s \in BOOLEAN : PlanRequest(r, n, s)

ProbeStep(p) ==
  \/ \E t \in Targets : PlanProbe(p, t)
  \/ \E o \in Outcome : ProbeCallEnds(p, o)
  \/ ProbeSkipped(p)

LegacyNext ==
  \/ \E c \in Party : PartyStep(c)
  \/ \E r \in Requests : RequestStep(r)
  \/ \E p \in Probes : ProbeStep(p)
  \/ \E t \in Targets : ReplaceSecret(t)
  \/ TimePasses

LegacySpec == LegacyInit /\ [][LegacyNext]_legacyVars

-----------------------------------------------------------------------------
(* Properties *)

LegacyTypeOK ==
  /\ time \in 0..Horizon
  /\ health \in [Targets -> HealthRow]
  /\ credential \in [Targets -> {"active", "invalid"}]
  /\ caller \in [Party -> CallerRow]
  /\ trials \in [Targets -> SUBSET Party]

\* "After cooldown, one half-open request is allowed" (architecture.md): until
\* something is recorded about the target, no two calls let through since its
\* circuit opened are under way together, requests and probes with their
\* different deadlines and old clocks alike.
OneTrialPerTarget ==
  \A t \in Targets : \A a, b \in trials[t] :
    (\A c \in {a, b} : caller[c].pc \in {"flying", "streaming"} /\ Target(c) = t) => a = b

\* Who was sent output pays for it, is sent nothing else and is not served by
\* another target; and nobody else pays: through interrupted streams, results
\* that cannot be stored and settlements that fail.
LegacyChargedForOutput ==
  [][\A r \in Requests :
       LET k == caller'[r] IN
       /\ caller[r].reply = "stream" =>
            k.reply = "stream" /\ k.settled # "released" /\ k.pc # "walk"
       /\ k.pc = "done" /\ k.reply = "body" =>
            k.settled = IF k.outcome = "success" THEN "charged" ELSE "released"
       /\ k.settled = "charged" => k.reply = "stream" \/ k.outcome = "success"]_legacyVars

=============================================================================

---------------------------- MODULE TargetCircuit ----------------------------
(***************************************************************************)
(* The circuit breaker of one site target of a published model: one row of *)
(* route_site_target_health, the attempts that ask it for a permit and     *)
(* report to it, and the health policy an administrator may change.        *)
(* Transactions touch one row only, so one target stands for all.          *)
(*                                                                         *)
(* Sources: internal/store/v4_health.go and its callers in                 *)
(* internal/gateway (v3.go, v3_probe.go).  Every caller reads the clock    *)
(* BEFORE the transaction that stores the time, and the transaction may    *)
(* wait for the SQLite write lock in between: a step that reads the clock  *)
(* and the step that uses it are separate actions.                         *)
(*                                                                         *)
(* RetryAfter is left out: it is zero for every event the gateway applies  *)
(* to a target, because a 429 stays local to the credential.               *)
(***************************************************************************)
EXTENDS Integers, FiniteSets

CONSTANTS
  Live,        \* attempts of downstream requests at this target
  Probe,       \* attempts of monitor runs at this target
  Policies,    \* the policies an administrator may choose
  MaxCooldown, \* upper clamp of cooldown_seconds
  Deadline,    \* request_deadline_seconds
  FirstOutput, \* first_output_timeout_seconds
  ProbeKeys,   \* API keys a probe may try one after the other
  Slack,       \* the five seconds both callers add to the lease
  MaxWait,     \* longest wait of a permit for the write lock
  MaxTime,     \* bound of the clock
  NoTime,      \* SQL NULL in a time column
  NoIncident   \* SQL NULL in last_incident_id

Attempt == Live \union Probe

ASSUME AttemptAssumption == NoIncident \notin Attempt /\ Live \intersect Probe = {}
ASSUME NoTimeAssumption == NoTime \notin Int
ASSUME PoliciesAssumption ==
  /\ Policies \subseteq [threshold: Nat \ {0, 1}, window: Nat \ {0}, cooldown: 1..MaxCooldown]
  /\ MaxCooldown \in Nat
ASSUME TimesAssumption ==
  /\ Deadline \in Nat /\ FirstOutput \in Nat /\ ProbeKeys \in Nat
  /\ Slack \in Nat \ {0} /\ MaxWait \in Nat /\ MaxTime \in Nat

VARIABLES
  now,     \* the wall clock
  health,  \* the row of route_site_target_health
  policy,  \* the policy columns of published_models
  attempt, \* what the goroutine of each attempt knows
  trials,  \* history: attempts permitted since the circuit last opened
  blame    \* history: attempts whose failure was counted since the last success

vars == <<now, health, policy, attempt, trials, blame>>

\* A missing row reads as this one.
FreshRow == [phase |-> "closed", failures |-> 0, lastFailure |-> NoTime,
             cooldown |-> NoTime, lease |-> NoTime, capability |-> "unknown",
             incident |-> NoIncident]

HealthRow == [phase: {"closed", "open", "half_open"}, failures: Nat,
              lastFailure: Nat \union {NoTime}, cooldown: Nat \union {NoTime},
              lease: Nat \union {NoTime},
              capability: {"unknown", "supported", "unsupported"},
              incident: Attempt \union {NoIncident}]

Verdict == {"success", "penalize", "unsupported"}

\* asking: has read the clock for a permit; flying: the upstream call is under
\* way; landed: it is over and its verdict known; reporting: has read the clock
\* for the event.  "stamp" is the time read, "due" when the attempt's context
\* cuts the upstream call off.
AttemptRow == [pc: {"idle", "asking", "flying", "landed", "reporting", "done"},
               stamp: Nat, due: Nat, verdict: Verdict \union {"none"}]

At(pc) == [pc |-> pc, stamp |-> 0, due |-> 0, verdict |-> "none"]

TypeOK ==
  /\ now \in 0..MaxTime
  /\ health \in HealthRow
  /\ policy \in Policies
  /\ attempt \in [Attempt -> AttemptRow]
  /\ trials \subseteq Attempt
  /\ blame \subseteq Attempt

Init ==
  /\ now = 0
  /\ health = FreshRow
  /\ policy \in Policies
  /\ attempt = [a \in Attempt |-> At("idle")]
  /\ trials = {}
  /\ blame = {}

-----------------------------------------------------------------------------
(* Permits: AcquireRouteSiteTargetPermit *)

\* Mutant: live requests lease for the first output only.
LeaseOfFirstOutput(a) == FirstOutput

\* The lease argument of the two callers.
Lease(a) == IF a \in Live THEN Deadline + Slack ELSE FirstOutput + Slack

\* When the attempt's context ends the upstream call at the latest: a request
\* has one deadline, a probe has a timeout for each key it tries.
FlightEnd(a) ==
  LET deadline == attempt[a].stamp + Deadline
      keys == now + ProbeKeys * FirstOutput
  IN IF a \in Live \/ deadline < keys THEN deadline ELSE keys

Ask(a) ==
  /\ attempt[a].pc = "idle"
  /\ attempt' = [attempt EXCEPT ![a] = [At("asking") EXCEPT !.stamp = now]]
  /\ UNCHANGED <<now, health, policy, trials, blame>>

\* The transaction runs under the request's context.
InTime(a) == now <= attempt[a].stamp + Deadline

Cooling(a) ==
  health.phase = "open" /\ health.cooldown # NoTime /\ health.cooldown > attempt[a].stamp

Leased(a) == health.lease # NoTime /\ health.lease > attempt[a].stamp

Unsupported(a) == health.capability = "unsupported" /\ a \in Live

PermitRefused(a) ==
  /\ attempt[a].pc = "asking"
  /\ InTime(a)
  /\ Unsupported(a) \/ (health.phase # "closed" /\ (Cooling(a) \/ Leased(a)))
  /\ attempt' = [attempt EXCEPT ![a] = At("done")]
  /\ UNCHANGED <<now, health, policy, trials, blame>>

PermitClosed(a) ==
  /\ attempt[a].pc = "asking"
  /\ InTime(a)
  /\ ~Unsupported(a)
  /\ health.phase = "closed"
  /\ attempt' = [attempt EXCEPT ![a] = [At("flying") EXCEPT !.due = FlightEnd(a)]]
  /\ UNCHANGED <<now, health, policy, trials, blame>>

PermitTrial(a) ==
  /\ attempt[a].pc = "asking"
  /\ InTime(a)
  /\ ~Unsupported(a)
  /\ health.phase # "closed" /\ ~Cooling(a) /\ ~Leased(a)
  /\ health' = [health EXCEPT !.phase = "half_open",
                              !.lease = attempt[a].stamp + Lease(a)]
  /\ attempt' = [attempt EXCEPT ![a] = [At("flying") EXCEPT !.due = FlightEnd(a)]]
  /\ trials' = trials \union {a}
  /\ UNCHANGED <<now, policy, blame>>

-----------------------------------------------------------------------------
(* The upstream call, and the clock read for its report *)

Land(a, verdict) ==
  /\ attempt[a].pc = "flying"
  /\ attempt' = [attempt EXCEPT ![a] = [At("landed") EXCEPT !.verdict = verdict]]
  /\ UNCHANGED <<now, health, policy, trials, blame>>

ReadClock(a) ==
  /\ attempt[a].pc = "landed"
  /\ attempt' = [attempt EXCEPT ![a] = [@ EXCEPT !.pc = "reporting", !.stamp = now]]
  /\ UNCHANGED <<now, health, policy, trials, blame>>

\* No event reaches the row: every key failed locally, the downstream client
\* went away or sent a bad request, the target has no key, the deadline passed
\* between two keys, the write failed, or the process died.
Abandon(a) ==
  /\ attempt[a].pc \in {"asking", "flying", "landed", "reporting"}
  /\ attempt' = [attempt EXCEPT ![a] = At("done")]
  /\ UNCHANGED <<now, health, policy, trials, blame>>

-----------------------------------------------------------------------------
(* Events: ReduceRouteSiteTargetHealth *)

\* Mutant: a success keeps the failure streak.
SuccessKeepsStreak(row) ==
  [row EXCEPT !.phase = "closed", !.cooldown = NoTime, !.lease = NoTime,
              !.capability = "supported"]

\* Mutant: a success leaves the lease of the trial behind.
SuccessKeepsLease(row) ==
  [row EXCEPT !.phase = "closed", !.failures = 0, !.cooldown = NoTime,
              !.capability = "supported"]

AfterSuccess(row) ==
  [row EXCEPT !.phase = "closed", !.failures = 0, !.cooldown = NoTime,
              !.lease = NoTime, !.capability = "supported"]

\* Mutant: the verdict on the model goes into the circuit's column.
UnsupportedPhase(row, a) ==
  [row EXCEPT !.phase = "unsupported", !.incident = a]

AfterUnsupported(row, a) ==
  [row EXCEPT !.capability = "unsupported", !.incident = a]

WithinWindow(row, at) ==
  /\ row.lastFailure # NoTime
  /\ at >= row.lastFailure
  /\ at - row.lastFailure <= policy.window

Failures(row, at) == IF WithinWindow(row, at) THEN row.failures + 1 ELSE 1

Opens(row, at) == row.phase # "closed" \/ Failures(row, at) >= policy.threshold

\* Mutant: each failure starts the cooldown afresh.
RestartedCooldown(row, at) == at + policy.cooldown

\* Mutant: cooldowns add up.
AddedCooldown(row, at) ==
  IF row.cooldown # NoTime THEN row.cooldown + policy.cooldown ELSE at + policy.cooldown

\* Failures extend a cooldown and never cut it short.
CooldownUntil(row, at) ==
  IF row.cooldown # NoTime /\ row.cooldown > at + policy.cooldown
  THEN row.cooldown ELSE at + policy.cooldown

AfterFailure(row, a, at) ==
  IF Opens(row, at)
  THEN [row EXCEPT !.phase = "open", !.failures = 0, !.lastFailure = at, !.incident = a,
                   !.cooldown = CooldownUntil(row, at), !.lease = NoTime]
  ELSE [row EXCEPT !.phase = "closed", !.failures = Failures(row, at), !.lastFailure = at,
                   !.incident = a, !.cooldown = NoTime, !.lease = NoTime]

Reporting(a, verdict) ==
  /\ attempt[a].pc = "reporting"
  /\ attempt[a].verdict = verdict
  /\ attempt' = [attempt EXCEPT ![a] = At("done")]

RecordSuccess(a) ==
  /\ Reporting(a, "success")
  /\ health' = AfterSuccess(health)
  /\ trials' = {} /\ blame' = {}
  /\ UNCHANGED <<now, policy>>

\* A repeated incident changes nothing.
RecordFailure(a) ==
  /\ Reporting(a, "penalize")
  /\ IF health.incident = a
     THEN UNCHANGED <<health, trials, blame>>
     ELSE /\ health' = AfterFailure(health, a, attempt[a].stamp)
          /\ trials' = {} /\ blame' = blame \union {a}
  /\ UNCHANGED <<now, policy>>

RecordUnsupported(a) ==
  /\ Reporting(a, "unsupported")
  /\ health' = IF health.incident = a THEN health ELSE AfterUnsupported(health, a)
  /\ UNCHANGED <<now, policy, trials, blame>>

-----------------------------------------------------------------------------
(* Environment *)

UpdatePublishedModel(p) ==
  /\ policy' = p
  /\ UNCHANGED <<now, health, attempt, trials, blame>>

\* An upstream call does not outlive its context, a wait for the write lock
\* does not exceed MaxWait.
Tick ==
  /\ now < MaxTime
  /\ \A a \in Attempt :
       /\ attempt[a].pc = "flying" => now < attempt[a].due
       /\ attempt[a].pc = "asking" => now < attempt[a].stamp + MaxWait
  /\ now' = now + 1
  /\ UNCHANGED <<health, policy, attempt, trials, blame>>

AttemptNext(a) ==
  \/ Ask(a)
  \/ PermitRefused(a)
  \/ PermitClosed(a)
  \/ PermitTrial(a)
  \/ \E v \in Verdict : Land(a, v)
  \/ ReadClock(a)
  \/ Abandon(a)
  \/ RecordSuccess(a)
  \/ RecordFailure(a)
  \/ RecordUnsupported(a)

Next ==
  \/ \E a \in Attempt : AttemptNext(a)
  \/ \E p \in Policies : UpdatePublishedModel(p)
  \/ Tick

Spec == Init /\ [][Next]_vars

-----------------------------------------------------------------------------
(* Properties *)

\* What the reducer and the permit leave behind always fits together: a
\* cooldown on every circuit that is not closed, a lease in half_open only, a
\* streak on a closed circuit only.  A row without its time would be skipped
\* for ever or never.
RowConsistent ==
  /\ health.phase = "closed" => health.cooldown = NoTime /\ health.lease = NoTime
  /\ health.phase = "open" => health.cooldown # NoTime /\ health.lease = NoTime
  /\ health.phase = "half_open" => health.cooldown # NoTime /\ health.lease # NoTime
  /\ health.phase # "closed" => health.failures = 0

\* A circuit is never taken out of service by one request or one probe: it
\* leaves closed only after two independent failures since the last success.
IndependentFailures ==
  health.phase # "closed" => \E a, b \in blame : a # b

\* A circuit that has opened gives out one trial at a time: until an event is
\* recorded, no two attempts permitted after the cooldown are at the upstream
\* together.
OneTrialPerEpisode ==
  \A a, b \in trials :
    attempt[a].pc = "flying" /\ attempt[b].pc = "flying" => a = b

\* No sequence of failures, policies and stale clocks puts a target out of
\* reach: it can be tried again after one cooldown and one lease at the most.
RecoveryHorizon ==
  /\ health.cooldown # NoTime => health.cooldown <= now + MaxCooldown
  /\ health.lease # NoTime => \/ health.lease <= now + Deadline + Slack
                              \/ health.lease <= now + FirstOutput + Slack

\* A success is stored by this step.
SuccessRecorded ==
  \E a \in Attempt : /\ attempt[a].pc = "reporting" /\ attempt[a].verdict = "success"
                     /\ attempt'[a].pc = "done"

\* Neither a failure with an old clock nor a shorter policy cuts a cooldown
\* short, and no attempt gets through before it ends; only a success may.
CoolingIsRespected ==
  [][health.cooldown # NoTime =>
       \/ SuccessRecorded
       \/ /\ health'.cooldown # NoTime /\ health'.cooldown >= health.cooldown
          /\ health.phase = "open" /\ health.cooldown > now => health'.phase = "open"]_vars

\* "A second independent failure inside the window opens the circuit and starts
\* cooldown" (docs/architecture.md), for the threshold of two.
SecondFailureOpens ==
  [][\A a \in Attempt :
       /\ policy.threshold = 2
       /\ a \in blame' \ blame /\ blame # {}
       /\ attempt[a].stamp - health.lastFailure \in -policy.window..policy.window
       => health'.phase = "open"]_vars

=============================================================================

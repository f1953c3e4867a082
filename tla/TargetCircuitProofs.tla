------------------------- MODULE TargetCircuitProofs -------------------------
(***************************************************************************)
(* Proofs about TargetCircuit, for every set of attempts, every policy and *)
(* every clock.  The inductive invariant is CircuitInv.  Its parts beyond  *)
(* the properties say what the callers guarantee: a clock that was read is *)
(* not in the future (Clocked), a counted failure has a culprit that will  *)
(* not report again (Blamed), and the lease of a trial outlasts its call   *)
(* (Exclusive).                                                            *)
(***************************************************************************)
EXTENDS TargetCircuit, TLAPS

\* The clock an attempt has read is not ahead, and its deadlines hold.
Clocked ==
  \A a \in Attempt :
    /\ attempt[a].stamp <= now
    /\ attempt[a].pc = "asking" => now <= attempt[a].stamp + MaxWait
    /\ attempt[a].pc = "flying" => now <= attempt[a].due

\* A streak has a culprit, and an attempt that was counted has finished.
Blamed ==
  /\ \A a \in blame : attempt[a].pc = "done"
  /\ health.failures # 0 => blame # {}
  /\ IndependentFailures

\* A trial at the upstream holds the lease, which outlasts it.
Exclusive ==
  /\ \A a \in trials : attempt[a].pc \notin {"idle", "asking"}
  /\ \A a \in trials : attempt[a].pc = "flying" =>
       /\ health.phase = "half_open" /\ health.lease # NoTime
       /\ attempt[a].due < health.lease
  /\ OneTrialPerEpisode

\* The row, its times and the clocks.
RowInv == TypeOK /\ Clocked /\ RowConsistent /\ RecoveryHorizon

\* A probe is over before its lease, however long the permit waited: true of a
\* probe with one key when the wait is below the slack of five seconds.
ShortProbe == ProbeKeys * FirstOutput + MaxWait < FirstOutput + Slack

USE NoTimeAssumption, PoliciesAssumption, TimesAssumption, AttemptAssumption

-----------------------------------------------------------------------------
(* What single operators return *)

\* The policy in force, as numbers.
LEMMA PolicyType ==
  ASSUME TypeOK
  PROVE  /\ policy.threshold \in Nat /\ policy.threshold >= 2
         /\ policy.window \in Nat
         /\ policy.cooldown \in Nat /\ policy.cooldown <= MaxCooldown
BY DEF TypeOK

\* The row and the attempts, field by field.
LEMMA FieldType ==
  ASSUME TypeOK
  PROVE  /\ now \in Nat
         /\ health.phase \in {"closed", "open", "half_open"} /\ health.failures \in Nat
         /\ health.lastFailure # NoTime => health.lastFailure \in Nat
         /\ health.cooldown # NoTime => health.cooldown \in Nat
         /\ health.lease # NoTime => health.lease \in Nat
         /\ \A a \in Attempt : attempt[a].stamp \in Nat /\ attempt[a].due \in Nat
BY DEF TypeOK, HealthRow, AttemptRow

\* A new cooldown reaches at least as far as the old one, and no further than
\* the old one or one cooldown from now.
LEMMA CooldownBounds ==
  ASSUME TypeOK, NEW at \in Nat
  PROVE  /\ CooldownUntil(health, at) \in Nat
         /\ health.cooldown # NoTime => CooldownUntil(health, at) >= health.cooldown
         /\ \/ CooldownUntil(health, at) = health.cooldown /\ health.cooldown # NoTime
            \/ CooldownUntil(health, at) = at + policy.cooldown
BY PolicyType, FieldType DEF CooldownUntil

\* The row after a counted failure.
LEMMA FailureRow ==
  ASSUME TypeOK, NEW a \in Attempt, NEW at \in Nat, health' = AfterFailure(health, a, at)
  PROVE  /\ health' \in HealthRow
         /\ health'.lease = NoTime
         /\ Opens(health, at) => /\ health'.phase = "open" /\ health'.failures = 0
                                 /\ health'.cooldown = CooldownUntil(health, at)
         /\ ~Opens(health, at) => health'.phase = "closed" /\ health'.cooldown = NoTime
<1>1. Failures(health, at) \in Nat
  BY FieldType DEF Failures
<1>2. CooldownUntil(health, at) \in Nat /\ health \in HealthRow
  BY CooldownBounds DEF TypeOK
<1>. HIDE DEF Failures, CooldownUntil
<1>. QED
  BY <1>1, <1>2 DEF AfterFailure, HealthRow

\* The row after a success.
LEMMA SuccessRow ==
  ASSUME TypeOK, health' = AfterSuccess(health)
  PROVE  /\ health' \in HealthRow
         /\ health'.phase = "closed" /\ health'.failures = 0
         /\ health'.cooldown = NoTime /\ health'.lease = NoTime
BY DEF TypeOK, AfterSuccess, HealthRow

\* The row after an unsupported model: the circuit is as it was.
LEMMA UnsupportedRow ==
  ASSUME TypeOK, NEW a \in Attempt, health' = AfterUnsupported(health, a)
  PROVE  /\ health' \in HealthRow
         /\ health'.phase = health.phase /\ health'.failures = health.failures
         /\ health'.cooldown = health.cooldown /\ health'.lease = health.lease
BY DEF TypeOK, AfterUnsupported, HealthRow

\* The row after a trial was permitted.
LEMMA TrialRow ==
  ASSUME TypeOK, NEW a \in Attempt, PermitTrial(a)
  PROVE  /\ health' \in HealthRow
         /\ health'.phase = "half_open" /\ health'.lease = attempt[a].stamp + Lease(a)
         /\ health'.cooldown = health.cooldown /\ health'.failures = health.failures
         /\ Lease(a) \in {Deadline + Slack, FirstOutput + Slack}
<1>1. attempt[a].stamp + Lease(a) \in Nat /\ Lease(a) \in {Deadline + Slack, FirstOutput + Slack}
  BY FieldType DEF Lease
<1>. HIDE DEF Lease
<1>. QED
  BY <1>1 DEF PermitTrial, TypeOK, HealthRow

\* When a call ends: after now, and within one deadline or the keys' timeouts.
LEMMA FlightBounds ==
  ASSUME TypeOK, NEW a \in Attempt, InTime(a)
  PROVE  /\ FlightEnd(a) \in Nat
         /\ now <= FlightEnd(a)
         /\ a \in Live => FlightEnd(a) = attempt[a].stamp + Deadline
         /\ FlightEnd(a) <= now + ProbeKeys * FirstOutput \/ a \in Live
<1>. DEFINE keys == ProbeKeys * FirstOutput
<1>1. keys \in Nat
  OBVIOUS
<1>. HIDE DEF keys
<1>2. FlightEnd(a) = IF a \in Live \/ attempt[a].stamp + Deadline < now + keys
                     THEN attempt[a].stamp + Deadline ELSE now + keys
  BY DEF FlightEnd, keys
<1>3. /\ FlightEnd(a) \in Nat /\ now <= FlightEnd(a)
      /\ a \in Live => FlightEnd(a) = attempt[a].stamp + Deadline
      /\ FlightEnd(a) <= now + keys \/ a \in Live
  BY <1>1, <1>2, FieldType DEF InTime
<1>. QED
  BY <1>3 DEF keys

-----------------------------------------------------------------------------
(* The attempt that takes a step *)

\* A step of one attempt writes that attempt's row only, and says how.
LEMMA AttemptStep ==
  ASSUME TypeOK, NEW a \in Attempt, AttemptNext(a)
  PROVE  /\ attempt' \in [Attempt -> AttemptRow]
         /\ \A b \in Attempt \ {a} : attempt'[b] = attempt[b]
         /\ UNCHANGED <<now, policy>>
         /\ attempt[a].pc # "done"
         /\ attempt'[a].stamp \in {0, now}
         /\ attempt'[a].pc # "idle"
         /\ attempt'[a].pc = "asking" => attempt[a].pc = "idle" /\ attempt'[a].stamp = now
         /\ attempt'[a].pc = "flying" => /\ attempt[a].pc = "asking" /\ InTime(a)
                                         /\ attempt'[a].due = FlightEnd(a)
<1>. DEFINE Written(row) == attempt' = [attempt EXCEPT ![a] = row] /\ UNCHANGED <<now, policy>>
<1>1. ASSUME NEW row \in AttemptRow, Written(row)
      PROVE  /\ attempt' \in [Attempt -> AttemptRow] /\ attempt'[a] = row
             /\ \A b \in Attempt \ {a} : attempt'[b] = attempt[b]
             /\ UNCHANGED <<now, policy>>
  BY <1>1 DEF TypeOK
<1>2. /\ At("done") \in AttemptRow /\ At("done").pc = "done" /\ At("done").stamp = 0
  BY DEF At, AttemptRow
<1>3. ASSUME attempt[a].pc # "done", Written(At("done"))
      PROVE  /\ attempt' \in [Attempt -> AttemptRow]
             /\ attempt'[a].pc = "done" /\ attempt'[a].stamp = 0
             /\ \A b \in Attempt \ {a} : attempt'[b] = attempt[b]
             /\ UNCHANGED <<now, policy>>
  BY <1>1, <1>2, <1>3
<1>4. CASE Ask(a)
  <2>. DEFINE row == [At("asking") EXCEPT !.stamp = now]
  <2>1. row \in AttemptRow /\ row.pc = "asking" /\ row.stamp = now
    BY FieldType DEF At, AttemptRow
  <2>2. Written(row) /\ attempt[a].pc = "idle"
    BY <1>4 DEF Ask
  <2>. HIDE DEF row
  <2>. QED
    BY <1>1, <2>1, <2>2
<1>5. CASE PermitClosed(a) \/ PermitTrial(a)
  <2>. DEFINE row == [At("flying") EXCEPT !.due = FlightEnd(a)]
  <2>1. InTime(a) /\ attempt[a].pc = "asking" /\ Written(row)
    BY <1>5 DEF PermitClosed, PermitTrial
  <2>2. FlightEnd(a) \in Nat
    BY <2>1, FlightBounds
  <2>. HIDE DEF FlightEnd
  <2>3. row \in AttemptRow /\ row.pc = "flying" /\ row.due = FlightEnd(a) /\ row.stamp = 0
    BY <2>2 DEF At, AttemptRow
  <2>. HIDE DEF row
  <2>. QED
    BY <1>1, <2>1, <2>3
<1>6. ASSUME NEW v \in Verdict, Land(a, v)
      PROVE  /\ attempt' \in [Attempt -> AttemptRow]
             /\ attempt'[a].pc = "landed" /\ attempt'[a].stamp = 0 /\ attempt[a].pc # "done"
             /\ \A b \in Attempt \ {a} : attempt'[b] = attempt[b]
             /\ UNCHANGED <<now, policy>>
  <2>. DEFINE row == [At("landed") EXCEPT !.verdict = v]
  <2>1. row \in AttemptRow /\ row.pc = "landed" /\ row.stamp = 0
    BY DEF At, AttemptRow, Verdict
  <2>2. Written(row) /\ attempt[a].pc # "done"
    BY <1>6 DEF Land
  <2>. HIDE DEF row
  <2>. QED
    BY <1>1, <2>1, <2>2
<1>7. CASE ReadClock(a)
  <2>. DEFINE row == [attempt[a] EXCEPT !.pc = "reporting", !.stamp = now]
  <2>1. row \in AttemptRow /\ row.pc = "reporting" /\ row.stamp = now
    BY FieldType DEF TypeOK, AttemptRow
  <2>2. Written(row) /\ attempt[a].pc # "done"
    BY <1>7 DEF ReadClock
  <2>. HIDE DEF row
  <2>. QED
    BY <1>1, <2>1, <2>2
<1>8. CASE PermitRefused(a) \/ Abandon(a) \/ RecordSuccess(a) \/ RecordFailure(a)
             \/ RecordUnsupported(a)
  <2>1. Written(At("done")) /\ attempt[a].pc # "done"
    BY <1>8 DEF PermitRefused, Abandon, RecordSuccess, RecordFailure, RecordUnsupported,
                Reporting
  <2>. QED
    BY <1>3, <2>1
<1>. QED
  BY <1>4, <1>5, <1>6, <1>7, <1>8 DEF AttemptNext

\* What a step of one attempt does to the row: nothing, or one of four writes.
LEMMA RowStep ==
  ASSUME TypeOK, NEW a \in Attempt, AttemptNext(a)
  PROVE  \/ UNCHANGED <<health, trials, blame>>
         \/ PermitTrial(a)
         \/ RecordSuccess(a)
         \/ RecordFailure(a) /\ health' = AfterFailure(health, a, attempt[a].stamp)
            /\ trials' = {} /\ blame' = blame \union {a}
         \/ health' = AfterUnsupported(health, a) /\ UNCHANGED <<trials, blame>>
BY DEF AttemptNext, Ask, PermitRefused, PermitClosed, Land, ReadClock, Abandon,
       RecordFailure, RecordUnsupported

-----------------------------------------------------------------------------
(* The invariant of the row *)

\* The initial row is a fresh one.
LEMMA InitInv == Init => RowInv /\ Blamed /\ Exclusive
<1>. SUFFICES ASSUME Init PROVE RowInv /\ Blamed /\ Exclusive
  OBVIOUS
<1>1. \A a \in Attempt : attempt[a].pc = "idle" /\ attempt[a].stamp = 0
  BY DEF Init, At
<1>2. TypeOK
  BY DEF Init, TypeOK, At, AttemptRow, FreshRow, HealthRow
<1>. QED
  BY <1>1, <1>2 DEF Init, FreshRow, RowInv, Clocked, RowConsistent, RecoveryHorizon, Blamed,
     Exclusive, IndependentFailures, OneTrialPerEpisode

\* A step of one attempt keeps the row well-formed and its times near.
LEMMA AttemptKeepsRow ==
  ASSUME RowInv, NEW a \in Attempt, AttemptNext(a)
  PROVE  RowInv'
<1>. USE DEF RowInv
<1>1. /\ attempt' \in [Attempt -> AttemptRow] /\ now' = now /\ policy' = policy
      /\ trials' \subseteq Attempt /\ blame' \subseteq Attempt
  <2>1. attempt' \in [Attempt -> AttemptRow] /\ now' = now /\ policy' = policy
    BY AttemptStep
  <2>2. trials' \subseteq Attempt /\ blame' \subseteq Attempt
    BY RowStep DEF TypeOK, PermitTrial, RecordSuccess
  <2>. QED
    BY <2>1, <2>2
<1>2. attempt[a].stamp \in Nat /\ attempt[a].stamp <= now /\ now \in Nat
  BY FieldType DEF Clocked
<1>3. Clocked'
  <2>1. ASSUME NEW b \in Attempt \ {a}
        PROVE  /\ attempt'[b].stamp <= now'
               /\ attempt'[b].pc = "asking" => now' <= attempt'[b].stamp + MaxWait
               /\ attempt'[b].pc = "flying" => now' <= attempt'[b].due
    BY <1>1, AttemptStep DEF Clocked
  <2>2. /\ attempt'[a].stamp <= now'
        /\ attempt'[a].pc = "asking" => now' <= attempt'[a].stamp + MaxWait
    BY <1>1, <1>2, AttemptStep
  <2>3. attempt'[a].pc = "flying" => now' <= attempt'[a].due
    BY <1>1, AttemptStep, FlightBounds
  <2>. QED
    BY <2>1, <2>2, <2>3 DEF Clocked
<1>4. health' \in HealthRow /\ RowConsistent' /\ RecoveryHorizon'
  <2>1. CASE UNCHANGED health
    BY <1>1, <2>1 DEF TypeOK, RowConsistent, RecoveryHorizon
  <2>2. CASE PermitTrial(a)
    <3>1. health.cooldown # NoTime /\ health.failures = 0
      BY <2>2 DEF PermitTrial, RowConsistent, TypeOK, HealthRow
    <3>2. attempt[a].stamp + Lease(a) # NoTime
      BY <1>2, <2>2, TrialRow
    <3>3. \/ attempt[a].stamp + Lease(a) <= now + Deadline + Slack
          \/ attempt[a].stamp + Lease(a) <= now + FirstOutput + Slack
      BY <1>2, <2>2, TrialRow
    <3>. QED
      BY <1>1, <2>2, <3>1, <3>2, <3>3, TrialRow DEF RowConsistent, RecoveryHorizon
  <2>3. CASE RecordSuccess(a)
    BY <2>3, SuccessRow DEF RecordSuccess, RowConsistent, RecoveryHorizon
  <2>4. CASE health' = AfterFailure(health, a, attempt[a].stamp)
    <3>. DEFINE until == CooldownUntil(health, attempt[a].stamp)
    <3>1. until \in Nat /\ until <= now + MaxCooldown
      BY <1>2, CooldownBounds, PolicyType, FieldType DEF RecoveryHorizon
    <3>2. /\ health' \in HealthRow /\ health'.lease = NoTime
          /\ \/ health'.phase = "open" /\ health'.failures = 0 /\ health'.cooldown = until
             \/ health'.phase = "closed" /\ health'.cooldown = NoTime
      BY <1>2, <2>4, FailureRow
    <3>. HIDE DEF until
    <3>. QED
      BY <1>1, <3>1, <3>2 DEF RowConsistent, RecoveryHorizon
  <2>5. CASE health' = AfterUnsupported(health, a)
    BY <1>1, <2>5, UnsupportedRow DEF RowConsistent, RecoveryHorizon
  <2>. QED
    BY <2>1, <2>2, <2>3, <2>4, <2>5, RowStep
<1>. QED
  BY <1>1, <1>3, <1>4 DEF TypeOK

\* The clock passes within the bounds of the contexts and of the lock waits.
LEMMA TickKeepsRow ==
  ASSUME RowInv, Tick
  PROVE  RowInv'
<1>. USE DEF RowInv
<1>1. /\ now' = now + 1 /\ now' \in 0..MaxTime /\ now \in Nat
      /\ UNCHANGED <<health, policy, attempt, trials, blame>>
  BY DEF Tick, TypeOK
<1>2. Clocked'
  BY <1>1, FieldType DEF Tick, Clocked
<1>3. RecoveryHorizon'
  BY <1>1, FieldType DEF RecoveryHorizon
<1>. QED
  BY <1>1, <1>2, <1>3 DEF TypeOK, RowConsistent

\* Every step keeps the invariant of the row.
LEMMA NextRowInv == RowInv /\ [Next]_vars => RowInv'
<1>. SUFFICES ASSUME RowInv, [Next]_vars PROVE RowInv'
  OBVIOUS
<1>1. ASSUME UNCHANGED <<now, health, attempt, trials, blame>>, policy' \in Policies
      PROVE  RowInv'
  BY <1>1 DEF RowInv, TypeOK, Clocked, RowConsistent, RecoveryHorizon
<1>2. ASSUME NEW p \in Policies, UpdatePublishedModel(p) PROVE RowInv'
  BY <1>1, <1>2 DEF UpdatePublishedModel
<1>3. CASE UNCHANGED vars
  BY <1>1, <1>3 DEF vars, RowInv, TypeOK
<1>. QED
  BY <1>2, <1>3, AttemptKeepsRow, TickKeepsRow DEF Next

-----------------------------------------------------------------------------
(* Independent failures *)

\* A streak of one failure has a culprit, so the failure that opens a closed
\* circuit comes from another attempt.
LEMMA NextBlamed == RowInv /\ Blamed /\ [Next]_vars => Blamed'
<1>. SUFFICES ASSUME RowInv, Blamed, [Next]_vars PROVE Blamed'
  OBVIOUS
<1>. USE DEF RowInv
<1>1. ASSUME UNCHANGED <<health, attempt, blame>> PROVE Blamed'
  BY <1>1 DEF Blamed, IndependentFailures
<1>2. ASSUME NEW a \in Attempt, AttemptNext(a) PROVE Blamed'
  <2>1. \A b \in blame : b # a /\ attempt'[b].pc = "done"
    BY <1>2, AttemptStep DEF Blamed, TypeOK
  <2>2. CASE UNCHANGED <<health, blame>>
    BY <2>1, <2>2 DEF Blamed, IndependentFailures
  <2>3. CASE PermitTrial(a)
    <3>1. blame' = blame /\ health'.failures = health.failures /\ health.phase # "closed"
      BY <2>3, TrialRow DEF PermitTrial
    <3>. QED
      BY <2>1, <3>1 DEF Blamed, IndependentFailures
  <2>4. CASE RecordSuccess(a)
    BY <2>4, SuccessRow DEF RecordSuccess, Blamed, IndependentFailures
  <2>5. CASE RecordFailure(a) /\ health' = AfterFailure(health, a, attempt[a].stamp)
             /\ blame' = blame \union {a}
    <3>1. attempt'[a].pc = "done"
      BY <2>5 DEF RecordFailure, Reporting, TypeOK, At
    <3>2. health'.phase # "closed" => \E b \in blame : b # a
      <4>. SUFFICES ASSUME health'.phase # "closed" PROVE \E b \in blame : TRUE
        BY <2>1
      <4>1. Opens(health, attempt[a].stamp)
        BY <2>5, FailureRow, FieldType
      <4>2. CASE health.phase # "closed"
        BY <4>2 DEF Blamed, IndependentFailures
      <4>3. CASE Failures(health, attempt[a].stamp) >= policy.threshold
        <5>1. health.failures # 0
          BY <4>3, PolicyType DEF Failures
        <5>. QED
          BY <5>1 DEF Blamed
      <4>. QED
        BY <4>1, <4>2, <4>3 DEF Opens
    <3>. QED
      BY <2>1, <2>5, <3>1, <3>2 DEF Blamed, IndependentFailures
  <2>6. CASE health' = AfterUnsupported(health, a) /\ blame' = blame
    BY <2>1, <2>6, UnsupportedRow DEF Blamed, IndependentFailures
  <2>. QED
    BY <1>2, <2>2, <2>3, <2>4, <2>5, <2>6, RowStep
<1>3. ASSUME NEW p \in Policies, UpdatePublishedModel(p) PROVE Blamed'
  BY <1>1, <1>3 DEF UpdatePublishedModel
<1>4. CASE Tick
  BY <1>1, <1>4 DEF Tick
<1>5. CASE UNCHANGED vars
  BY <1>1, <1>5 DEF vars
<1>. QED
  BY <1>2, <1>3, <1>4, <1>5 DEF Next

-----------------------------------------------------------------------------
(* One trial per episode *)

\* The lease of a new trial outlasts its call.
LEMMA LeaseOutlastsFlight ==
  ASSUME ShortProbe, RowInv, NEW a \in Attempt, PermitTrial(a)
  PROVE  FlightEnd(a) < attempt[a].stamp + Lease(a)
<1>. DEFINE keys == ProbeKeys * FirstOutput
<1>1. keys \in Nat /\ keys + MaxWait < FirstOutput + Slack
  BY DEF ShortProbe
<1>2. /\ FlightEnd(a) \in Nat
      /\ a \in Live => FlightEnd(a) = attempt[a].stamp + Deadline
      /\ FlightEnd(a) <= now + keys \/ a \in Live
  BY FlightBounds DEF PermitTrial, RowInv
<1>3. now <= attempt[a].stamp + MaxWait /\ now \in Nat /\ attempt[a].stamp \in Nat
  BY FieldType DEF PermitTrial, RowInv, Clocked
<1>. HIDE DEF keys, FlightEnd
<1>4. CASE a \in Live
  BY <1>2, <1>3, <1>4 DEF Lease
<1>5. CASE a \notin Live
  BY <1>1, <1>2, <1>3, <1>5 DEF Lease
<1>. QED
  BY <1>4, <1>5

\* A trial is given out only when the lease of the last one has run out, and
\* by then the last one is over.
LEMMA NextExclusive == ShortProbe /\ RowInv /\ Exclusive /\ [Next]_vars => Exclusive'
<1>. SUFFICES ASSUME ShortProbe, RowInv, Exclusive, [Next]_vars PROVE Exclusive'
  OBVIOUS
<1>. USE DEF RowInv
<1>1. ASSUME UNCHANGED <<health, attempt, trials>> PROVE Exclusive'
  BY <1>1 DEF Exclusive, OneTrialPerEpisode
<1>2. ASSUME NEW a \in Attempt, AttemptNext(a) PROVE Exclusive'
  <2>1. CASE trials' = {}
    BY <2>1 DEF Exclusive, OneTrialPerEpisode
  <2>2. CASE PermitTrial(a)
    <3>1. \A b \in trials : attempt[b].pc # "flying"
      <4>. SUFFICES ASSUME NEW b \in trials, attempt[b].pc = "flying" PROVE FALSE
        OBVIOUS
      <4>1. /\ health.lease # NoTime /\ attempt[b].due < health.lease
            /\ now <= attempt[b].due /\ attempt[a].stamp <= now
        BY DEF Exclusive, Clocked, TypeOK
      <4>2. health.lease <= attempt[a].stamp
        BY <2>2, <4>1, FieldType DEF PermitTrial, Leased
      <4>. QED
        BY <4>1, <4>2, FieldType DEF TypeOK
    <3>2. \A b \in trials' : attempt'[b].pc = "flying" => b = a
      BY <1>2, <2>2, <3>1, AttemptStep DEF PermitTrial, TypeOK
    <3>3. health'.phase = "half_open" /\ health'.lease = attempt[a].stamp + Lease(a)
      BY <2>2, TrialRow
    <3>4. attempt'[a].pc = "flying" => attempt'[a].due < health'.lease
      BY <1>2, <2>2, <3>3, AttemptStep, LeaseOutlastsFlight
    <3>5. health'.lease # NoTime
      BY <2>2, <3>3, TrialRow, FieldType
    <3>6. \A b \in trials' : attempt'[b].pc \notin {"idle", "asking"}
      <4>1. attempt[a].pc = "asking" /\ trials' = trials \union {a}
        BY <2>2 DEF PermitTrial
      <4>. QED
        BY <1>2, <4>1, AttemptStep DEF Exclusive, TypeOK
    <3>. QED
      BY <3>2, <3>3, <3>4, <3>5, <3>6 DEF Exclusive, OneTrialPerEpisode
  <2>3. CASE trials' = trials /\ health'.phase = health.phase /\ health'.lease = health.lease
             /\ ~PermitTrial(a)
    <3>1. \A b \in trials : attempt'[b].pc \notin {"idle", "asking"}
      BY <1>2, AttemptStep DEF Exclusive, TypeOK
    <3>2. \A b \in trials : attempt'[b].pc = "flying" => attempt'[b] = attempt[b]
      BY <1>2, AttemptStep DEF Exclusive, TypeOK
    <3>. QED
      BY <2>3, <3>1, <3>2 DEF Exclusive, OneTrialPerEpisode
  <2>. QED
    BY <1>2, <2>1, <2>2, <2>3, RowStep, UnsupportedRow DEF RecordSuccess
<1>3. ASSUME NEW p \in Policies, UpdatePublishedModel(p) PROVE Exclusive'
  BY <1>1, <1>3 DEF UpdatePublishedModel
<1>4. CASE Tick
  BY <1>1, <1>4 DEF Tick
<1>5. CASE UNCHANGED vars
  BY <1>1, <1>5 DEF vars
<1>. QED
  BY <1>2, <1>3, <1>4, <1>5 DEF Next

-----------------------------------------------------------------------------
(* Cooling *)

\* The step relation inside CoolingIsRespected.
CoolingStep ==
  health.cooldown # NoTime =>
    \/ SuccessRecorded
    \/ /\ health'.cooldown # NoTime /\ health'.cooldown >= health.cooldown
       /\ health.phase = "open" /\ health.cooldown > now => health'.phase = "open"

\* An attempt with an old clock sees a cooldown that has not ended; a failure
\* can only push the end back.
LEMMA NextCooling == RowInv /\ [Next]_vars => CoolingStep
<1>. SUFFICES ASSUME RowInv, [Next]_vars, health.cooldown # NoTime, ~SuccessRecorded
              PROVE  /\ health'.cooldown # NoTime /\ health'.cooldown >= health.cooldown
                     /\ health.phase = "open" /\ health.cooldown > now => health'.phase = "open"
  BY DEF CoolingStep
<1>. USE DEF RowInv
<1>0. health.cooldown \in Nat /\ health.phase # "closed" /\ now \in Nat
  BY FieldType DEF RowConsistent
<1>1. ASSUME health'.cooldown = health.cooldown, health'.phase = health.phase
      PROVE  /\ health'.cooldown # NoTime /\ health'.cooldown >= health.cooldown
             /\ health.phase = "open" /\ health.cooldown > now => health'.phase = "open"
  BY <1>0, <1>1
<1>2. ASSUME NEW a \in Attempt, AttemptNext(a)
      PROVE  /\ health'.cooldown # NoTime /\ health'.cooldown >= health.cooldown
             /\ health.phase = "open" /\ health.cooldown > now => health'.phase = "open"
  <2>1. CASE PermitTrial(a)
    <3>1. ~Cooling(a) /\ attempt[a].stamp \in Nat /\ attempt[a].stamp <= now
      BY <2>1, FieldType DEF PermitTrial, Clocked
    <3>2. ~(health.phase = "open" /\ health.cooldown > now)
      BY <1>0, <3>1 DEF Cooling
    <3>. QED
      BY <1>0, <2>1, <3>2, TrialRow
  <2>2. CASE RecordSuccess(a)
    <3>1. SuccessRecorded
      BY <2>2 DEF RecordSuccess, Reporting, SuccessRecorded, At, TypeOK
    <3>. QED
      BY <3>1
  <2>3. CASE health' = AfterFailure(health, a, attempt[a].stamp)
    <3>. DEFINE until == CooldownUntil(health, attempt[a].stamp)
    <3>1. attempt[a].stamp \in Nat /\ Opens(health, attempt[a].stamp)
      BY <1>0, FieldType DEF Opens
    <3>2. until \in Nat /\ until >= health.cooldown
      BY <3>1, CooldownBounds
    <3>3. health'.phase = "open" /\ health'.cooldown = until
      BY <2>3, <3>1, FailureRow
    <3>. HIDE DEF until
    <3>. QED
      BY <3>2, <3>3
  <2>4. CASE health' = AfterUnsupported(health, a)
    BY <1>1, <2>4, UnsupportedRow
  <2>. QED
    BY <1>1, <1>2, <2>1, <2>2, <2>3, <2>4, RowStep
<1>3. ASSUME NEW p \in Policies, UpdatePublishedModel(p)
      PROVE  UNCHANGED health
  BY <1>3 DEF UpdatePublishedModel
<1>4. CASE Tick
  BY <1>1, <1>4 DEF Tick
<1>5. CASE UNCHANGED vars
  BY <1>1, <1>5 DEF vars
<1>. QED
  BY <1>1, <1>2, <1>3, <1>4, <1>5 DEF Next

-----------------------------------------------------------------------------
(* Theorems *)

\* The circuit's row and every attempt keep their types, each phase has the
\* times it needs, and no time lies further ahead than one cooldown or lease.
THEOREM RowInvariant == Spec => []RowInv
BY InitInv, NextRowInv, PTL DEF Spec

\* Types.
THEOREM TypeCorrect == Spec => []TypeOK
<1>1. RowInv => TypeOK
  BY DEF RowInv
<1>. QED
  BY <1>1, RowInvariant, PTL

\* Phase, cooldown, lease and streak of the row fit together.
THEOREM RowStaysConsistent == Spec => []RowConsistent
<1>1. RowInv => RowConsistent
  BY DEF RowInv
<1>. QED
  BY <1>1, RowInvariant, PTL

\* No target is put out of reach for longer than one cooldown and one lease.
THEOREM RecoveryIsNear == Spec => []RecoveryHorizon
<1>1. RowInv => RecoveryHorizon
  BY DEF RowInv
<1>. QED
  BY <1>1, RowInvariant, PTL

\* One request or probe alone never takes a target out of service.
THEOREM OpeningNeedsTwo == Spec => []IndependentFailures
<1>1. Blamed => IndependentFailures
  BY DEF Blamed
<1>. QED
  BY <1>1, InitInv, NextBlamed, RowInvariant, PTL DEF Spec

\* Where a probe is over before its lease, an opened circuit gives out one
\* trial at a time until an event is recorded.
THEOREM SingleTrial ==
  ASSUME ShortProbe
  PROVE  Spec => []OneTrialPerEpisode
<1>1. RowInv /\ Exclusive /\ [Next]_vars => Exclusive'
  BY NextExclusive
<1>2. Exclusive => OneTrialPerEpisode
  BY DEF Exclusive
<1>. QED
  BY <1>1, <1>2, InitInv, RowInvariant, PTL DEF Spec

\* Only a success ends a cooldown early.
THEOREM CoolingHolds == Spec => CoolingIsRespected
<1>1. RowInv /\ [Next]_vars => [CoolingStep]_vars
  BY NextCooling
<1>2. Spec => [][CoolingStep]_vars
  BY <1>1, RowInvariant, PTL DEF Spec
<1>. QED
  BY <1>2 DEF CoolingIsRespected, CoolingStep

=============================================================================

------------------------------ MODULE ProbeRuns ------------------------------
(***************************************************************************)
(* Probes of published models: the sweeps of the monitor scheduler, the    *)
(* runs an administrator starts by hand, the rows they leave in probe_runs *)
(* and probe_attempts, and the sweep's expiry of runs nobody finished.     *)
(*                                                                         *)
(* Sources: internal/monitor/scheduler.go, internal/gateway/v3_probe.go,   *)
(* internal/store/v4_runs.go and v4_monitor.go.  An action is one SQL      *)
(* statement or transaction, or one step of a goroutine between two.       *)
(* Times are kept as ages, so no clock has to be bounded.  What a probe    *)
(* reports to the circuit of a target is in TargetCircuit.                 *)
(***************************************************************************)
EXTENDS Integers, FiniteSets

CONSTANTS
  Model,      \* published models
  Target,     \* route target ids; a deleted one is not used again
  Scheduled,  \* runs of the scheduler; an id stands for one run after another
  Manual,     \* runs started by hand, likewise
  NoModel,    \* no model
  Deleted,    \* SQL NULL in route_site_target_id
  Workers,    \* goroutines of a sweep
  MaxKeys,    \* API keys a probe may try at a target
  Deadlines,  \* values of request_deadline_seconds
  Interval,   \* monitor_interval_seconds
  Grace,      \* the 30 seconds of the expiry
  MaxWait,    \* longest wait between the clock a run reads and its insertion
  MaxSettle,  \* longest a run takes to write its results once its time is up
  MaxCrashes  \* bound: restarts of the process

Run == Scheduled \union Manual

MaxDeadline == CHOOSE d \in Deadlines : \A e \in Deadlines : e <= d

ASSUME RunAssumption == Scheduled \intersect Manual = {} /\ NoModel \notin Model
ASSUME TargetAssumption == IsFiniteSet(Target) /\ Deleted \notin Target
ASSUME DeadlinesAssumption ==
  /\ Deadlines \subseteq Nat /\ \E d \in Deadlines : \A e \in Deadlines : e <= d
  /\ Interval \in Nat /\ Grace \in Nat /\ MaxWait \in Nat /\ MaxSettle \in Nat
ASSUME CountsAssumption == Workers \in Nat /\ MaxKeys \in Nat /\ MaxCrashes \in Nat
\* SQLite waits for its lock for 5 seconds, an attempt and its health event are
\* given 3 each and the completion 5.
ASSUME GraceAssumption == MaxWait + MaxSettle < Grace

VARIABLES
  model,   \* published_models: published, monitored, deadline, targets
  since,   \* age of the model's latest run, up to Interval
  row,     \* probe_runs
  tried,   \* probe_attempts: the results of each target of a run
  flight,  \* ProbePublishedModel: the goroutine behind a run
  job,     \* probePublishedTarget: the goroutine of each target of a run
  sched,   \* runV3Due: the list of a sweep and where it is
  crashes, \* number of restarts
  asked,   \* history: the targets a run set out to probe
  won      \* history: the targets of a run whose success was stored

vars == <<model, since, row, tried, flight, job, sched, crashes, asked, won>>

Result == {"success", "failed", "skipped"}

ModelRow == [status: {"monitored", "unmonitored", "deleted"},
             deadline: Deadlines, targets: SUBSET Target]

RunRow == [status: {"none", "running", "success", "partial", "failed", "cancelled"},
           model: Model \union {NoModel}, age: Nat, targets: Nat,
           success: Nat, failure: Nat, skipped: Nat]

\* starting: has read the clock and the route; left: time until the context
\* ends; lag: time spent starting, or since the context ended.
Flight == [pc: {"none", "starting", "probing", "completing"},
           model: Model \union {NoModel}, left: Nat, lag: Nat]

\* storing, checked: around the two statements of InsertProbeAttempt, with the
\* result to be stored and whether another key is tried after it.
Job == [pc: {"queued", "busy", "storing", "checked", "done"},
        keys: Nat, result: Result \union {"none"}, more: BOOLEAN]

NoRun == [status |-> "none", model |-> NoModel, age |-> 0, targets |-> 0,
          success |-> 0, failure |-> 0, skipped |-> 0]
NoFlight == [pc |-> "none", model |-> NoModel, left |-> 0, lag |-> 0]
JobAt(pc, keys) == [pc |-> pc, keys |-> keys, result |-> "none", more |-> FALSE]
NoJobs == [t \in Target |-> JobAt("done", 0)]
NoResults == [t \in Target \union {Deleted} |-> {}]

TypeOK ==
  /\ model \in [Model -> ModelRow]
  /\ since \in [Model -> 0..Interval]
  /\ row \in [Run -> RunRow]
  /\ tried \in [Run -> [Target \union {Deleted} -> SUBSET Result]]
  /\ flight \in [Run -> Flight]
  /\ job \in [Run -> [Target -> Job]]
  /\ sched \in [pc: {"idle", "listing", "queueing"}, queue: SUBSET Model]
  /\ crashes \in 0..MaxCrashes
  /\ asked \in [Run -> SUBSET Target]
  /\ won \in [Run -> SUBSET Target]

Init ==
  /\ model \in [Model -> {[status |-> "monitored", deadline |-> d, targets |-> Target] :
                            d \in Deadlines}]
  /\ since = [m \in Model |-> Interval]
  /\ row = [r \in Run |-> NoRun]
  /\ tried = [r \in Run |-> NoResults]
  /\ flight = [r \in Run |-> NoFlight]
  /\ job = [r \in Run |-> NoJobs]
  /\ sched = [pc |-> "idle", queue |-> {}]
  /\ crashes = 0
  /\ asked = [r \in Run |-> {}]
  /\ won = [r \in Run |-> {}]

Running(r) == row[r].status = "running"

EndFlight(r) == flight' = [flight EXCEPT ![r] = NoFlight]

-----------------------------------------------------------------------------
(* Sweeps of the scheduler: runV3Due *)

\* Mutant: the expiry has no grace period.
StaleWithoutGrace(r) == Running(r) /\ row[r].age >= model[row[r].model].deadline

\* Mutant: runs of models that are not monitored any more are left alone.
StaleOfMonitored(r) ==
  /\ Running(r) /\ model[row[r].model].status = "monitored"
  /\ row[r].age >= model[row[r].model].deadline + Grace

\* The deadline is the one the model has now.
Stale(r) == Running(r) /\ row[r].age >= model[row[r].model].deadline + Grace

ExpireStaleProbeRuns ==
  /\ sched.pc = "idle"
  /\ sched' = [sched EXCEPT !.pc = "listing"]
  /\ row' = [r \in Run |-> IF Stale(r) THEN [row[r] EXCEPT !.status = "cancelled"] ELSE row[r]]
  /\ UNCHANGED <<model, since, tried, flight, job, crashes, asked, won>>

Due(m) ==
  /\ model[m].status = "monitored"
  /\ \A r \in Run : Running(r) => row[r].model # m
  /\ since[m] = Interval

\* The list is a snapshot; a sweep that finds or gets none is over.
ListDuePublishedModels ==
  /\ sched.pc = "listing"
  /\ \/ \E m \in Model : Due(m) /\ sched' = [pc |-> "queueing", queue |-> {n \in Model : Due(n)}]
     \/ sched' = [pc |-> "idle", queue |-> {}]
  /\ UNCHANGED <<model, since, row, tried, flight, job, crashes, asked, won>>

\* ProbePublishedModel up to the insertion of its row: the model must be
\* monitored; chosen are its enabled targets that resolve, or one of them.  The
\* new id takes the place of one whose run has ended.
Begin(r, m, chosen) ==
  /\ flight[r].pc = "none" /\ ~Running(r)
  /\ model[m].status = "monitored"
  /\ chosen # {} /\ chosen \subseteq model[m].targets
  /\ flight' = [flight EXCEPT ![r] = [pc |-> "starting", model |-> m,
                                      left |-> model[m].deadline, lag |-> 0]]
  /\ row' = [row EXCEPT ![r] = NoRun]
  /\ tried' = [tried EXCEPT ![r] = NoResults]
  /\ asked' = [asked EXCEPT ![r] = chosen]
  /\ won' = [won EXCEPT ![r] = {}]

Working == {r \in Scheduled : flight[r].pc # "none"}

\* A worker takes a model off the list and probes it, or cannot: it is no
\* longer monitored, or none of its targets resolves.
TakeModel(m) ==
  /\ sched.pc = "queueing" /\ m \in sched.queue
  /\ Cardinality(Working) < Workers
  /\ sched' = [sched EXCEPT !.queue = @ \ {m}]
  /\ \/ \E r \in Scheduled, chosen \in SUBSET Target : Begin(r, m, chosen)
     \/ UNCHANGED <<row, tried, flight, asked, won>>
  /\ UNCHANGED <<model, since, job, crashes>>

\* Mutant: the sweep does not wait for its workers.
SweepLeavesWorkers ==
  /\ sched.pc = "queueing" /\ sched.queue = {}
  /\ sched' = [sched EXCEPT !.pc = "idle"]
  /\ UNCHANGED <<model, since, row, tried, flight, job, crashes, asked, won>>

\* group.Wait()
SweepEnds ==
  /\ sched.pc = "queueing" /\ sched.queue = {} /\ Working = {}
  /\ sched' = [sched EXCEPT !.pc = "idle"]
  /\ UNCHANGED <<model, since, row, tried, flight, job, crashes, asked, won>>

-----------------------------------------------------------------------------
(* A run: ProbePublishedModel *)

ProbeByHand(r, m, chosen) ==
  /\ r \in Manual
  /\ Begin(r, m, chosen)
  /\ UNCHANGED <<model, since, job, sched, crashes>>

\* The context's time starts here, that of the row when the clock was read.
InsertProbeRun(r) ==
  LET f == flight[r] IN
  /\ f.pc = "starting"
  /\ model[f.model].status # "deleted"
  /\ row' = [row EXCEPT ![r] = [NoRun EXCEPT !.status = "running", !.model = f.model,
                                             !.age = f.lag, !.targets = Cardinality(asked[r])]]
  /\ since' = [since EXCEPT ![f.model] = IF f.lag < @ THEN f.lag ELSE @]
  /\ flight' = [flight EXCEPT ![r].pc = "probing", ![r].lag = 0]
  /\ job' = [job EXCEPT ![r] = [t \in Target |-> IF t \in asked[r] THEN JobAt("queued", MaxKeys)
                                                 ELSE JobAt("done", 0)]]
  /\ UNCHANGED <<model, tried, sched, crashes, asked, won>>

InsertProbeRunFails(r) ==
  /\ flight[r].pc = "starting"
  /\ EndFlight(r)
  /\ UNCHANGED <<model, since, row, tried, job, sched, crashes, asked, won>>

\* The browser leaves, the process is shutting down, or the scheduler's own
\* deadline, from its older copy of the model, is the shorter one.
CancelContext(r) ==
  /\ flight[r].pc = "probing" /\ flight[r].left > 0
  /\ flight' = [flight EXCEPT ![r].left = 0]
  /\ UNCHANGED <<model, since, row, tried, job, sched, crashes, asked, won>>

\* Mutant: group.Wait() is missing.
JobsHandedOut(r) == \A t \in Target : job[r][t].pc = "queued" => flight[r].left = 0

\* Once the context has ended no more jobs are handed out.
JobsOver(r) ==
  \A t \in Target : job[r][t].pc = "done" \/ (job[r][t].pc = "queued" /\ flight[r].left = 0)

WorkersJoin(r) ==
  /\ flight[r].pc = "probing"
  /\ JobsOver(r)
  /\ flight' = [flight EXCEPT ![r].pc = "completing"]
  /\ UNCHANGED <<model, since, row, tried, job, sched, crashes, asked, won>>

Observed(r) == {t \in Target \union {Deleted} : tried[r][t] # {}}
Succeeded(r) == {t \in Observed(r) : "success" \in tried[r][t]}
Failed(r) == {t \in Observed(r) \ Succeeded(r) : "failed" \in tried[r][t]}
Skipped(r) == Observed(r) \ (Succeeded(r) \union Failed(r))

\* Mutant: the verdict looks at the targets that were observed.
VerdictOfObserved(r, targets) ==
  IF Succeeded(r) = Observed(r) THEN "success"
  ELSE IF Succeeded(r) # {} THEN "partial" ELSE "failed"

Verdict(r, targets) ==
  IF targets > 0 /\ Cardinality(Succeeded(r)) = targets THEN "success"
  ELSE IF Succeeded(r) # {} THEN "partial" ELSE "failed"

\* Targets without any attempt count as skipped.
Completed(r) ==
  LET targets == IF Cardinality(Observed(r)) > row[r].targets
                 THEN Cardinality(Observed(r)) ELSE row[r].targets
  IN [row[r] EXCEPT !.status = Verdict(r, targets), !.targets = targets,
        !.success = Cardinality(Succeeded(r)), !.failure = Cardinality(Failed(r)),
        !.skipped = Cardinality(Skipped(r)) + targets - Cardinality(Observed(r))]

CompleteProbeRun(r) ==
  /\ flight[r].pc = "completing"
  /\ row' = IF Running(r) THEN [row EXCEPT ![r] = Completed(r)] ELSE row
  /\ EndFlight(r)
  /\ UNCHANGED <<model, since, tried, job, sched, crashes, asked, won>>

\* The row stays running until a sweep expires it.
CompleteProbeRunFails(r) ==
  /\ flight[r].pc = "completing"
  /\ EndFlight(r)
  /\ UNCHANGED <<model, since, row, tried, job, sched, crashes, asked, won>>

-----------------------------------------------------------------------------
(* A target of a run: probePublishedTarget *)

SetJob(r, t, j) ==
  /\ job' = [job EXCEPT ![r][t] = j]
  /\ UNCHANGED <<model, since, row, flight, sched, crashes, asked>>

Store(r, t, result, more) ==
  SetJob(r, t, [job[r][t] EXCEPT !.pc = "storing", !.result = result, !.more = more])

\* The permit is refused or fails, or the target has no key; or it is granted.
TakePermit(r, t) ==
  /\ flight[r].pc = "probing" /\ job[r][t].pc = "queued"
  /\ \/ Store(r, t, "skipped", FALSE)
     \/ flight[r].left > 0 /\ SetJob(r, t, [job[r][t] EXCEPT !.pc = "busy"])
  /\ UNCHANGED <<tried, won>>

\* Mutant: the loop over the keys runs once too often.
TryKeyBeyondLast(r, t) ==
  /\ job[r][t].pc = "busy"
  /\ Store(r, t, "failed", job[r][t].keys >= 0)
  /\ UNCHANGED <<tried, won>>

\* A key is called; a failure of the key itself leads on to the next one.
TryKey(r, t) ==
  /\ job[r][t].pc = "busy"
  /\ \/ flight[r].left = 0 /\ Store(r, t, "skipped", FALSE)
     \/ Store(r, t, "success", FALSE)
     \/ Store(r, t, "failed", FALSE)
     \/ job[r][t].keys > 1 /\ Store(r, t, "failed", TRUE)
  /\ UNCHANGED <<tried, won>>

\* The first statement of InsertProbeAttempt.
CheckRun(r, t) ==
  /\ job[r][t].pc = "storing"
  /\ Running(r) /\ t \in model[row[r].model].targets
  /\ SetJob(r, t, [job[r][t] EXCEPT !.pc = "checked"])
  /\ UNCHANGED <<tried, won>>

\* The second one, refused by the foreign keys of a run or target deleted
\* between the two.
InsertProbeAttempt(r, t) ==
  LET j == job[r][t] IN
  /\ j.pc = "checked"
  /\ row[r].status # "none" /\ t \in model[row[r].model].targets
  /\ tried' = [tried EXCEPT ![r][t] = @ \union {j.result}]
  /\ won' = [won EXCEPT ![r] = IF j.result = "success" THEN @ \union {t} ELSE @]
  /\ SetJob(r, t, IF j.more THEN JobAt("busy", j.keys - 1) ELSE JobAt("done", 0))

\* Either statement fails, and the target with it.
StoreFails(r, t) ==
  /\ job[r][t].pc \in {"storing", "checked"}
  /\ SetJob(r, t, JobAt("done", 0))
  /\ UNCHANGED <<tried, won>>

-----------------------------------------------------------------------------
(* Administration, time and restarts *)

UpdatePublishedModel(m, status, deadline) ==
  /\ model[m].status # "deleted"
  /\ model' = [model EXCEPT ![m].status = status, ![m].deadline = deadline]
  /\ UNCHANGED <<since, row, tried, flight, job, sched, crashes, asked, won>>

\* ON DELETE CASCADE takes the runs and their attempts along.
DeletePublishedModel(m) ==
  /\ model[m].status # "deleted"
  /\ model' = [model EXCEPT ![m].status = "deleted", ![m].targets = {}]
  /\ row' = [r \in Run |-> IF row[r].model = m THEN NoRun ELSE row[r]]
  /\ tried' = [r \in Run |-> IF row[r].model = m THEN NoResults ELSE tried[r]]
  /\ UNCHANGED <<since, flight, job, sched, crashes, asked, won>>

\* ON DELETE SET NULL keeps the attempts, which then count as of one target.
DeleteRouteSiteTarget(m, t) ==
  /\ t \in model[m].targets
  /\ model' = [model EXCEPT ![m].targets = @ \ {t}]
  /\ tried' = [r \in Run |->
       IF row[r].model = m
       THEN [tried[r] EXCEPT ![Deleted] = @ \union tried[r][t], ![t] = {}]
       ELSE tried[r]]
  /\ UNCHANGED <<since, row, flight, job, sched, crashes, asked, won>>

Winding(r) ==
  flight[r].pc = "completing" \/ (flight[r].pc = "probing" /\ flight[r].left = 0)

Punctual(r) ==
  /\ flight[r].pc = "starting" => flight[r].lag < MaxWait
  /\ Winding(r) => flight[r].lag < MaxSettle

Older(age, bound) == IF age < bound THEN age + 1 ELSE age

Aged(f, r) ==
  IF f.pc = "starting" \/ Winding(r) THEN [f EXCEPT !.lag = @ + 1]
  ELSE IF f.pc = "probing" THEN [f EXCEPT !.left = @ - 1] ELSE f

Tick ==
  /\ \A r \in Run : Punctual(r)
  /\ since' = [m \in Model |-> Older(since[m], Interval)]
  /\ row' = [r \in Run |-> IF Running(r)
                           THEN [row[r] EXCEPT !.age = Older(@, MaxDeadline + Grace)] ELSE row[r]]
  /\ flight' = [r \in Run |-> Aged(flight[r], r)]
  /\ UNCHANGED <<model, tried, job, sched, crashes, asked, won>>

\* Every goroutine is gone; the next process starts with a sweep.
Restart ==
  /\ crashes < MaxCrashes
  /\ crashes' = crashes + 1
  /\ flight' = [r \in Run |-> NoFlight]
  /\ job' = [r \in Run |-> NoJobs]
  /\ sched' = [pc |-> "idle", queue |-> {}]
  /\ UNCHANGED <<model, since, row, tried, asked, won>>

-----------------------------------------------------------------------------

SchedulerNext ==
  \/ ExpireStaleProbeRuns \/ ListDuePublishedModels \/ SweepEnds
  \/ \E m \in Model : TakeModel(m)

JobNext(r, t) ==
  TakePermit(r, t) \/ TryKey(r, t) \/ CheckRun(r, t) \/ InsertProbeAttempt(r, t) \/ StoreFails(r, t)

RunNext(r) ==
  \/ InsertProbeRun(r) \/ InsertProbeRunFails(r) \/ WorkersJoin(r)
  \/ CompleteProbeRun(r) \/ CompleteProbeRunFails(r)
  \/ \E t \in Target : JobNext(r, t)

AdminNext ==
  \/ \E r \in Manual, m \in Model, chosen \in SUBSET Target : ProbeByHand(r, m, chosen)
  \/ \E m \in Model, status \in {"monitored", "unmonitored"}, d \in Deadlines :
       UpdatePublishedModel(m, status, d)
  \/ \E m \in Model : DeletePublishedModel(m)
  \/ \E m \in Model, t \in Target : DeleteRouteSiteTarget(m, t)

Next ==
  \/ SchedulerNext
  \/ \E r \in Run : RunNext(r) \/ CancelContext(r)
  \/ AdminNext \/ Tick \/ Restart

\* The ticker of the scheduler, the goroutines of the runs and time go on; Tick
\* is held back only while a goroutine is about to take a step.
Fairness ==
  /\ WF_vars(SchedulerNext)
  /\ \A r \in Run : WF_vars(RunNext(r))
  /\ SF_vars(Tick)

Spec == Init /\ [][Next]_vars /\ Fairness

-----------------------------------------------------------------------------
(* Properties *)

\* What a run reports is what happened: "success" only if a success of every
\* target it set out to probe was stored, "failed" only if of none, though
\* targets are deleted, stores fail and contexts end meanwhile; and its counts
\* add up to its targets.
VerdictIsHonest ==
  \A r \in Run :
    /\ row[r].status = "success" => won[r] = asked[r]
    /\ row[r].status = "partial" => won[r] # {}
    /\ row[r].status = "failed" => won[r] = {}
    /\ row[r].status \in {"success", "partial", "failed"} =>
         row[r].success + row[r].failure + row[r].skipped = row[r].targets

\* The scheduler never probes a model twice at a time, whatever it has
\* listed, expired and lost track of.
OneScheduledRun ==
  \A q, r \in Working : flight[q].model = flight[r].model => q = r

\* "The grace period is longer than the model-level probe deadline used by the
\* gateway" (v4_monitor.go): the sweep only expires runs nobody is working on.
OnlyDeadRunsExpire ==
  [][\A r \in Run :
       Running(r) /\ row'[r].status = "cancelled" => flight[r].pc = "none"]_vars

\* A run that has ended is not touched again, neither its row by a late
\* completion nor its attempts by a worker that is still busy.
EndedRunsAreClosed ==
  [][\A r \in Run :
       row[r].status \notin {"none", "running"} /\ row'[r].status \notin {"none", "running"} =>
         /\ row'[r] = row[r]
         /\ \A x \in Result : (\E t \in DOMAIN tried'[r] : x \in tried'[r][t]) =>
                              (\E t \in DOMAIN tried[r] : x \in tried[r][t])]_vars

\* No run stays running for ever, after a crash or a completion that was not
\* stored: its model would never be scheduled again.
EveryRunEnds == \A r \in Run : Running(r) ~> ~Running(r)

=============================================================================

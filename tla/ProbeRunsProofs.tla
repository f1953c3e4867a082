--------------------------- MODULE ProbeRunsProofs ---------------------------
(***************************************************************************)
(* Proofs about ProbeRuns, for every set of models, targets and runs and   *)
(* every number of workers, keys and restarts.  RunsInv is inductive and   *)
(* carries the others: Timely relates the age of a row to the time its     *)
(* goroutine has left, and needs one deadline for all models; Closed says  *)
(* that nobody works for a run that has ended; Honest relates what is      *)
(* stored of a run to what happened, through deletions of its targets.     *)
(***************************************************************************)
EXTENDS ProbeRuns, FiniteSetTheorems, TLAPS

\* Another key is only tried while there is one, and what is being stored is a
\* result.
JobsInv ==
  \A r \in Run, t \in Target :
    /\ job[r][t].more => job[r][t].keys > 1
    /\ job[r][t].pc \in {"storing", "checked"} => job[r][t].result \in Result

\* A goroutine and a running row belong to a model.
OfAModel ==
  \A r \in Run :
    /\ flight[r].pc # "none" => flight[r].model \in Model
    /\ Running(r) => row[r].model \in Model

\* A sweep hands out each model once, and the next one starts when all of its
\* workers are back.
SweepInv ==
  /\ OneScheduledRun
  /\ \A r \in Working : flight[r].model \notin sched.queue
  /\ sched.pc # "queueing" => Working = {} /\ sched.queue = {}

RunsInv == TypeOK /\ JobsInv /\ OfAModel /\ SweepInv

\* All models have the same deadline, and keep it.
SameDeadline == \A d, e \in Deadlines : d = e

\* The age of a running row is the wait before its insertion, the time its
\* context has used up and the time since that context ended.
TimelyRun(r) ==
  /\ flight[r].pc = "starting" =>
       ~Running(r) /\ flight[r].left = MaxDeadline /\ flight[r].lag <= MaxWait
  /\ flight[r].pc \in {"probing", "completing"} =>
       /\ flight[r].left <= MaxDeadline /\ flight[r].lag <= MaxSettle
       /\ Running(r) => row[r].age <= MaxWait + (MaxDeadline - flight[r].left) + flight[r].lag
  /\ flight[r].pc = "probing" /\ flight[r].left > 0 => flight[r].lag = 0

Timely == \A r \in Run : TimelyRun(r)

Verdicts == {"success", "partial", "failed"}
Ends == Verdicts \union {"cancelled"}

\* A run whose row has ended in one of the given ways has no goroutine, and a
\* target's goroutine only works while its run is probing.
ClosedRun(r, ends) ==
  /\ row[r].status \in ends => flight[r].pc = "none"
  /\ flight[r].pc # "probing" => \A t \in Target : job[r][t].pc \in {"done", "queued"}

Closed(ends) == \A r \in Run : ClosedRun(r, ends)

\* What is stored of a running run is what happened: a target that is gone has
\* no results of its own, a success that is seen was one, of a target that is
\* gone if it is one of those, and no success is lost.
Tracked(r) ==
  LET present == model[row[r].model].targets IN
  /\ row[r].targets = Cardinality(asked[r])
  /\ \A t \in Target \ present : tried[r][t] = {}
  /\ \A t \in Target : "success" \in tried[r][t] => t \in won[r]
  /\ "success" \in tried[r][Deleted] => \E t \in won[r] : t \notin present
  /\ \A t \in won[r] : "success" \in tried[r][t] \/ "success" \in tried[r][Deleted]

\* A run's verdict, as VerdictIsHonest has it.
HonestVerdict(r) ==
  /\ row[r].status = "success" => won[r] = asked[r]
  /\ row[r].status = "partial" => won[r] # {}
  /\ row[r].status = "failed" => won[r] = {}
  /\ row[r].status \in Verdicts =>
       row[r].success + row[r].failure + row[r].skipped = row[r].targets

HonestRun(r) ==
  /\ flight[r].pc = "starting" =>
       row[r] = NoRun /\ won[r] = {} /\ \A t \in Target \union {Deleted} : tried[r][t] = {}
  /\ flight[r].pc = "probing" => \A t \in Target : job[r][t].pc # "done" => t \in asked[r]
  /\ won[r] \subseteq asked[r]
  /\ Running(r) => Tracked(r)
  /\ HonestVerdict(r)

Honest == \A r \in Run : HonestRun(r)

USE RunAssumption, TargetAssumption, DeadlinesAssumption, CountsAssumption, GraceAssumption

-----------------------------------------------------------------------------
(* What single operators return *)

\* The longest deadline is one of the deadlines.
LEMMA MaxDeadlineType ==
  /\ MaxDeadline \in Deadlines /\ MaxDeadline \in Nat
  /\ \A d \in Deadlines : d <= MaxDeadline
BY DEF MaxDeadline

\* The sets a verdict counts are finite and lie within the observed targets.
LEMMA CountTypes ==
  ASSUME NEW r \in Run
  PROVE  /\ Cardinality(Observed(r)) \in Nat
         /\ Cardinality(Succeeded(r)) \in Nat
         /\ Cardinality(Failed(r)) \in Nat
         /\ Cardinality(Skipped(r)) \in Nat
<1>1. IsFiniteSet(Target \union {Deleted})
  BY FS_EmptySet, FS_AddElement
<1>2. /\ Observed(r) \subseteq Target \union {Deleted}
      /\ Succeeded(r) \subseteq Observed(r)
      /\ Failed(r) \subseteq Observed(r)
      /\ Skipped(r) \subseteq Observed(r)
  BY DEF Observed, Succeeded, Failed, Skipped
<1>3. IsFiniteSet(Observed(r))
  BY <1>1, <1>2, FS_Subset
<1>4. /\ IsFiniteSet(Succeeded(r)) /\ IsFiniteSet(Failed(r)) /\ IsFiniteSet(Skipped(r))
  BY <1>2, <1>3, FS_Subset
<1> QED BY <1>3, <1>4, FS_CardinalityType

\* A completed row is a row, of the same model and age, and not "cancelled".
LEMMA CompletedType ==
  ASSUME TypeOK, NEW r \in Run
  PROVE  /\ Completed(r) \in RunRow
         /\ Completed(r).status \in {"success", "partial", "failed"}
<1> DEFINE targets == IF Cardinality(Observed(r)) > row[r].targets
                      THEN Cardinality(Observed(r)) ELSE row[r].targets
<1>1. row[r] \in RunRow
  BY DEF TypeOK
<1>2. /\ targets \in Nat
      /\ Cardinality(Skipped(r)) + targets - Cardinality(Observed(r)) \in Nat
  BY <1>1, CountTypes DEF RunRow
<1>3. Verdict(r, targets) \in {"success", "partial", "failed"}
  BY DEF Verdict
<1> HIDE DEF targets
<1>4. Completed(r) =
        [row[r] EXCEPT !.status = Verdict(r, targets), !.targets = targets,
           !.success = Cardinality(Succeeded(r)), !.failure = Cardinality(Failed(r)),
           !.skipped = Cardinality(Skipped(r)) + targets - Cardinality(Observed(r))]
  BY DEF Completed, targets
<1> QED BY <1>1, <1>2, <1>3, <1>4, CountTypes DEF RunRow

\* The constant records are what their types say.
LEMMA EmptyTypes ==
  /\ NoRun \in RunRow /\ NoFlight \in Flight
  /\ NoResults \in [Target \union {Deleted} -> SUBSET Result]
  /\ NoJobs \in [Target -> Job]
  /\ \A keys \in Nat, pc \in {"queued", "busy", "done"} : JobAt(pc, keys) \in Job
BY DEF NoRun, NoFlight, NoResults, NoJobs, JobAt, RunRow, Flight, Job, Result

-----------------------------------------------------------------------------
(* The parts of a step *)

\* A target's job is replaced, and nothing else of a run but its results.
LEMMA JobWritten ==
  ASSUME TypeOK, JobsInv, NEW r \in Run, NEW t \in Target, NEW j \in Job,
         SetJob(r, t, j),
         j.more => j.keys > 1,
         j.pc \in {"storing", "checked"} => j.result \in Result,
         tried' \in [Run -> [Target \union {Deleted} -> SUBSET Result]],
         won' \in [Run -> SUBSET Target]
  PROVE  TypeOK' /\ JobsInv'
<1>1. job \in [Run -> [Target -> Job]]
  BY DEF TypeOK
<1>2. job' = [job EXCEPT ![r] = [job[r] EXCEPT ![t] = j]]
  BY DEF SetJob
<1>3. /\ job' \in [Run -> [Target -> Job]]
      /\ job'[r][t] = j
      /\ \A q \in Run, u \in Target : q # r \/ u # t => job'[q][u] = job[q][u]
  BY <1>1, <1>2
<1>4. TypeOK'
  BY <1>3 DEF TypeOK, SetJob
<1>5. JobsInv'
  BY <1>3 DEF JobsInv
<1> QED BY <1>4, <1>5

\* A step of a target's goroutine.
LEMMA JobStep ==
  ASSUME TypeOK, JobsInv, NEW r \in Run, NEW t \in Target, JobNext(r, t)
  PROVE  /\ TypeOK' /\ JobsInv'
         /\ UNCHANGED <<model, since, row, flight, sched, crashes, asked>>
<1> SUFFICES TypeOK' /\ JobsInv'
  BY DEF JobNext, TakePermit, TryKey, CheckRun, InsertProbeAttempt, StoreFails, Store, SetJob
<1>1. /\ job[r][t] \in Job
      /\ tried \in [Run -> [Target \union {Deleted} -> SUBSET Result]]
      /\ won \in [Run -> SUBSET Target]
  <2>1. /\ job \in [Run -> [Target -> Job]]
        /\ tried \in [Run -> [Target \union {Deleted} -> SUBSET Result]]
        /\ won \in [Run -> SUBSET Target]
    BY DEF TypeOK
  <2>2. job[r] \in [Target -> Job]
    BY <2>1
  <2> QED BY <2>1, <2>2
<1>2. /\ job[r][t].more => job[r][t].keys > 1
      /\ job[r][t].pc \in {"storing", "checked"} => job[r][t].result \in Result
  BY DEF JobsInv
<1>3. ASSUME NEW result \in Result, NEW more \in BOOLEAN, Store(r, t, result, more),
             more => job[r][t].keys > 1, UNCHANGED <<tried, won>>
      PROVE  TypeOK' /\ JobsInv'
  <2> DEFINE j == [job[r][t] EXCEPT !.pc = "storing", !.result = result, !.more = more]
  <2>1. j \in Job /\ j.keys = job[r][t].keys /\ j.result = result /\ (j.more <=> more)
    BY <1>1 DEF Job
  <2>2. SetJob(r, t, j)
    BY <1>3 DEF Store
  <2> HIDE DEF j
  <2> QED BY <1>1, <1>3, <2>1, <2>2, JobWritten DEF Store
<1>4. ASSUME NEW pc \in {"busy", "checked"}, SetJob(r, t, [job[r][t] EXCEPT !.pc = pc]),
             pc = "checked" => job[r][t].pc = "storing", UNCHANGED <<tried, won>>
      PROVE  TypeOK' /\ JobsInv'
  <2> DEFINE j == [job[r][t] EXCEPT !.pc = pc]
  <2>1. /\ j \in Job /\ j.pc = pc /\ j.keys = job[r][t].keys
        /\ j.result = job[r][t].result /\ j.more = job[r][t].more
    BY <1>1 DEF Job
  <2>2. SetJob(r, t, j)
    BY <1>4
  <2> HIDE DEF j
  <2> QED BY <1>1, <1>2, <1>4, <2>1, <2>2, JobWritten
<1>5. ASSUME NEW pc \in {"busy", "done"}, NEW keys \in Nat, SetJob(r, t, JobAt(pc, keys)),
             tried' \in [Run -> [Target \union {Deleted} -> SUBSET Result]],
             won' \in [Run -> SUBSET Target]
      PROVE  TypeOK' /\ JobsInv'
  <2>1. JobAt(pc, keys) \in Job /\ ~JobAt(pc, keys).more /\ JobAt(pc, keys).pc = pc
    BY EmptyTypes DEF JobAt
  <2> QED BY <1>5, <2>1, JobWritten
<1>6. CASE TakePermit(r, t)
  BY <1>3, <1>4, <1>6 DEF TakePermit, Result
<1>7. CASE TryKey(r, t)
  BY <1>3, <1>7 DEF TryKey, Result
<1>8. CASE CheckRun(r, t)
  BY <1>4, <1>8 DEF CheckRun
<1>9. CASE InsertProbeAttempt(r, t)
  <2>1. job[r][t].result \in Result /\ job[r][t].keys \in Nat
    BY <1>1, <1>2, <1>9 DEF InsertProbeAttempt, Job
  <2>2. tried' \in [Run -> [Target \union {Deleted} -> SUBSET Result]]
    <3>1. tried' = [tried EXCEPT ![r] =
                     [tried[r] EXCEPT ![t] = tried[r][t] \union {job[r][t].result}]]
      BY <1>9 DEF InsertProbeAttempt
    <3> QED BY <1>1, <2>1, <3>1
  <2>3. won' \in [Run -> SUBSET Target]
    BY <1>1, <1>9 DEF InsertProbeAttempt
  <2>4. CASE job[r][t].more
    <3>1. job[r][t].keys - 1 \in Nat
      BY <1>2, <2>1, <2>4
    <3>2. SetJob(r, t, JobAt("busy", job[r][t].keys - 1))
      BY <1>9, <2>4 DEF InsertProbeAttempt
    <3> QED BY <1>5, <2>2, <2>3, <3>1, <3>2
  <2>5. CASE ~job[r][t].more
    <3>1. SetJob(r, t, JobAt("done", 0))
      BY <1>9, <2>5 DEF InsertProbeAttempt
    <3> QED BY <1>5, <2>2, <2>3, <3>1
  <2> QED BY <2>4, <2>5
<1>10. CASE StoreFails(r, t)
  BY <1>1, <1>5, <1>10 DEF StoreFails
<1> QED BY <1>6, <1>7, <1>8, <1>9, <1>10 DEF JobNext

\* A new run: its goroutine starts, for a model that is not hidden from it.
LEMMA BeginStep ==
  ASSUME TypeOK, NEW r \in Run, NEW m \in Model, NEW chosen, Begin(r, m, chosen)
  PROVE  /\ row' \in [Run -> RunRow]
         /\ tried' \in [Run -> [Target \union {Deleted} -> SUBSET Result]]
         /\ flight' \in [Run -> Flight]
         /\ asked' \in [Run -> SUBSET Target] /\ won' \in [Run -> SUBSET Target]
         /\ flight[r].pc = "none" /\ flight'[r].pc = "starting"
         /\ flight'[r].model = m /\ flight'[r].left = model[m].deadline /\ flight'[r].lag = 0
         /\ row'[r] = NoRun
         /\ \A q \in Run \ {r} : flight'[q] = flight[q] /\ row'[q] = row[q]
<1> DEFINE f == [pc |-> "starting", model |-> m, left |-> model[m].deadline, lag |-> 0]
<1>1. model[m] \in ModelRow /\ model[m].deadline \in Nat
  BY DEF TypeOK, ModelRow
<1>2. f \in Flight
  BY <1>1 DEF Flight
<1>3. flight' = [flight EXCEPT ![r] = f]
  BY DEF Begin
<1>4. /\ f.pc = "starting" /\ f.model = m /\ f.left = model[m].deadline /\ f.lag = 0
  OBVIOUS
<1> HIDE DEF f
<1>5. /\ flight' \in [Run -> Flight] /\ flight'[r] = f
      /\ \A q \in Run \ {r} : flight'[q] = flight[q]
  BY <1>2, <1>3 DEF TypeOK
<1>6. chosen \subseteq Target
  BY <1>1 DEF Begin, ModelRow
<1>7. /\ row' \in [Run -> RunRow] /\ row'[r] = NoRun
      /\ \A q \in Run \ {r} : row'[q] = row[q]
  BY EmptyTypes DEF Begin, TypeOK
<1>8. /\ tried' \in [Run -> [Target \union {Deleted} -> SUBSET Result]]
      /\ asked' \in [Run -> SUBSET Target] /\ won' \in [Run -> SUBSET Target]
  BY <1>6, EmptyTypes DEF Begin, TypeOK
<1> QED BY <1>4, <1>5, <1>7, <1>8 DEF Begin

\* The goroutines of a sweep keep their models, and no new one starts.
LEMMA SweepKept ==
  ASSUME SweepInv, sched' = sched,
         \A r \in Scheduled : flight'[r].pc # "none" =>
           flight[r].pc # "none" /\ flight'[r].model = flight[r].model
  PROVE  SweepInv'
<1>1. Working' \subseteq Working /\ \A r \in Working' : flight'[r].model = flight[r].model
  BY DEF Working
<1> QED BY <1>1 DEF SweepInv, OneScheduledRun

\* The goroutine of one run goes on or ends.
LEMMA FlightWritten ==
  ASSUME TypeOK, SweepInv, NEW r \in Run, NEW f \in Flight,
         flight' = [flight EXCEPT ![r] = f], sched' = sched,
         f.pc # "none" => flight[r].pc # "none" /\ f.model = flight[r].model
  PROVE  /\ flight' \in [Run -> Flight] /\ flight'[r] = f
         /\ \A q \in Run \ {r} : flight'[q] = flight[q]
         /\ SweepInv'
<1>1. flight \in [Run -> Flight]
  BY DEF TypeOK
<1>2. /\ flight' \in [Run -> Flight] /\ flight'[r] = f
      /\ \A q \in Run \ {r} : flight'[q] = flight[q]
  BY <1>1
<1>3. SweepInv'
  BY <1>2, SweepKept DEF Run
<1> QED BY <1>2, <1>3

\* A goroutine that was only stopped: its row and everything else stay.
LEMMA FlightOnly ==
  ASSUME RunsInv, NEW r \in Run, NEW f \in Flight,
         flight' = [flight EXCEPT ![r] = f],
         UNCHANGED <<model, since, row, tried, job, sched, crashes, asked, won>>,
         f.pc # "none" => flight[r].pc # "none" /\ f.model = flight[r].model
  PROVE  RunsInv'
<1>1. /\ flight' \in [Run -> Flight] /\ flight'[r] = f
      /\ \A q \in Run \ {r} : flight'[q] = flight[q]
      /\ SweepInv'
  BY FlightWritten DEF RunsInv
<1>2. TypeOK' /\ JobsInv'
  BY <1>1 DEF RunsInv, TypeOK, JobsInv
<1>3. OfAModel'
  BY <1>1 DEF RunsInv, OfAModel, Running
<1> QED BY <1>1, <1>2, <1>3 DEF RunsInv

\* The insertion of a run's row, which takes over the model and the age.
LEMMA InsertStep ==
  ASSUME RunsInv, NEW r \in Run, InsertProbeRun(r)
  PROVE  /\ RunsInv'
         /\ flight[r].pc = "starting" /\ flight'[r].pc = "probing"
         /\ flight'[r].left = flight[r].left /\ flight'[r].lag = 0
         /\ row'[r].age = flight[r].lag /\ row'[r].status = "running"
         /\ \A q \in Run \ {r} : flight'[q] = flight[q] /\ row'[q] = row[q]
<1> DEFINE f == [flight[r] EXCEPT !.pc = "probing", !.lag = 0]
           new == [NoRun EXCEPT !.status = "running", !.model = flight[r].model,
                                !.age = flight[r].lag, !.targets = Cardinality(asked[r])]
           started == [t \in Target |-> IF t \in asked[r] THEN JobAt("queued", MaxKeys)
                                        ELSE JobAt("done", 0)]
<1>1. /\ flight[r] \in Flight /\ flight[r].pc = "starting" /\ flight[r].model \in Model
      /\ asked[r] \subseteq Target
  BY DEF RunsInv, TypeOK, OfAModel, InsertProbeRun
<1>2. Cardinality(asked[r]) \in Nat
  BY <1>1, FS_Subset, FS_CardinalityType
<1>3. /\ f \in Flight /\ f.pc = "probing" /\ f.model = flight[r].model
      /\ f.left = flight[r].left /\ f.lag = 0
  BY <1>1 DEF Flight
<1>4. /\ new \in RunRow /\ new.status = "running" /\ new.model = flight[r].model
      /\ new.age = flight[r].lag
  BY <1>1, <1>2 DEF Flight, RunRow, NoRun
<1>5. /\ started \in [Target -> Job]
      /\ \A t \in Target : ~started[t].more /\ started[t].pc \in {"queued", "done"}
  BY EmptyTypes DEF JobAt
<1>6. /\ flight' = [flight EXCEPT ![r] = f] /\ row' = [row EXCEPT ![r] = new]
      /\ job' = [job EXCEPT ![r] = started]
      /\ UNCHANGED <<model, tried, sched, crashes, asked, won>>
  BY DEF InsertProbeRun
<1>7. since' \in [Model -> 0..Interval]
  <2>1. since \in [Model -> 0..Interval] /\ flight[r].lag \in Nat
    BY <1>1 DEF RunsInv, TypeOK, Flight
  <2>2. since' = [since EXCEPT ![flight[r].model] =
                    IF flight[r].lag < since[flight[r].model]
                    THEN flight[r].lag ELSE since[flight[r].model]]
    BY DEF InsertProbeRun
  <2> QED BY <1>1, <2>1, <2>2
<1> HIDE DEF f, new, started
<1>8. /\ flight' \in [Run -> Flight] /\ flight'[r] = f
      /\ \A q \in Run \ {r} : flight'[q] = flight[q]
      /\ SweepInv'
  BY <1>1, <1>3, <1>6, FlightWritten DEF RunsInv
<1>9. row \in [Run -> RunRow] /\ job \in [Run -> [Target -> Job]]
  BY DEF RunsInv, TypeOK
<1>10. /\ row' \in [Run -> RunRow] /\ row'[r] = new
       /\ \A q \in Run \ {r} : row'[q] = row[q]
       /\ job' \in [Run -> [Target -> Job]] /\ job'[r] = started
       /\ \A q \in Run \ {r} : job'[q] = job[q]
  BY <1>4, <1>5, <1>6, <1>9
<1>11. TypeOK'
  BY <1>6, <1>7, <1>8, <1>10 DEF RunsInv, TypeOK
<1>12. JobsInv'
  BY <1>5, <1>10 DEF RunsInv, JobsInv
<1>13. OfAModel'
  BY <1>1, <1>3, <1>4, <1>8, <1>10 DEF RunsInv, OfAModel, Running
<1> QED BY <1>1, <1>3, <1>4, <1>8, <1>10, <1>11, <1>12, <1>13 DEF RunsInv

\* The completion of a run, which only writes a row that is still running.
LEMMA CompleteStep ==
  ASSUME RunsInv, NEW r \in Run, CompleteProbeRun(r)
  PROVE  /\ RunsInv'
         /\ flight'[r].pc = "none"
         /\ Running(r) => row'[r].status \in {"success", "partial", "failed"}
         /\ ~Running(r) => row'[r] = row[r]
         /\ \A q \in Run \ {r} : flight'[q] = flight[q] /\ row'[q] = row[q]
<1>1. NoFlight \in Flight /\ NoFlight.pc = "none"
  BY EmptyTypes DEF NoFlight
<1>2. /\ flight' = [flight EXCEPT ![r] = NoFlight]
      /\ UNCHANGED <<model, since, tried, job, sched, crashes, asked, won>>
  BY DEF CompleteProbeRun, EndFlight
<1>3. /\ flight' \in [Run -> Flight] /\ flight'[r] = NoFlight
      /\ \A q \in Run \ {r} : flight'[q] = flight[q]
      /\ SweepInv'
  BY <1>1, <1>2, FlightWritten DEF RunsInv
<1>4. row \in [Run -> RunRow]
  BY DEF RunsInv, TypeOK
<1>5. Completed(r) \in RunRow /\ Completed(r).status \in {"success", "partial", "failed"}
  BY CompletedType DEF RunsInv
<1>6. /\ row' \in [Run -> RunRow]
      /\ Running(r) => row'[r] = Completed(r)
      /\ ~Running(r) => row'[r] = row[r]
      /\ \A q \in Run \ {r} : row'[q] = row[q]
  <2>1. row' = IF Running(r) THEN [row EXCEPT ![r] = Completed(r)] ELSE row
    BY DEF CompleteProbeRun
  <2> HIDE DEF Completed, Running
  <2> QED BY <1>4, <1>5, <2>1
<1>7. TypeOK' /\ JobsInv'
  BY <1>2, <1>3, <1>6 DEF RunsInv, TypeOK, JobsInv
<1>8. OfAModel'
  <2>1. ~Running(r)'
    BY <1>5, <1>6 DEF Running
  <2> QED BY <1>1, <1>3, <1>6, <2>1 DEF RunsInv, OfAModel, Running
<1> QED BY <1>1, <1>3, <1>5, <1>6, <1>7, <1>8 DEF RunsInv

\* The steps that move the goroutine of a run and leave its row alone.
LEMMA StopStep ==
  ASSUME RunsInv, NEW r \in Run,
         \/ InsertProbeRunFails(r) \/ CancelContext(r)
         \/ WorkersJoin(r) \/ CompleteProbeRunFails(r)
  PROVE  /\ RunsInv' /\ row' = row
         /\ \A q \in Run \ {r} : flight'[q] = flight[q]
         /\ flight'[r].pc \in {"none", "probing", "completing"}
         /\ flight'[r].pc # "none" =>
              /\ flight[r].pc = "probing"
              /\ flight'[r].left \in {0, flight[r].left} /\ flight'[r].lag = flight[r].lag
              /\ flight'[r].pc = "probing" => flight[r].left > 0 /\ flight'[r].left = 0
<1>1. flight \in [Run -> Flight] /\ flight[r] \in Flight
  BY DEF RunsInv, TypeOK
<1>2. UNCHANGED <<model, since, row, tried, job, sched, crashes, asked, won>>
  BY DEF InsertProbeRunFails, CancelContext, WorkersJoin, CompleteProbeRunFails
<1>3. CASE InsertProbeRunFails(r) \/ CompleteProbeRunFails(r)
  <2>1. NoFlight \in Flight /\ NoFlight.pc = "none"
    BY EmptyTypes DEF NoFlight
  <2>2. flight' = [flight EXCEPT ![r] = NoFlight]
    BY <1>3 DEF InsertProbeRunFails, CompleteProbeRunFails, EndFlight
  <2> QED BY <1>1, <1>2, <2>1, <2>2, FlightOnly
<1>4. CASE CancelContext(r)
  <2> DEFINE f == [flight[r] EXCEPT !.left = 0]
  <2>1. /\ f \in Flight /\ f.pc = flight[r].pc /\ f.model = flight[r].model
        /\ f.left = 0 /\ f.lag = flight[r].lag
    BY <1>1 DEF Flight
  <2>2. flight' = [flight EXCEPT ![r] = f] /\ flight[r].pc = "probing" /\ flight[r].left > 0
    BY <1>4 DEF CancelContext
  <2> HIDE DEF f
  <2> QED BY <1>1, <1>2, <2>1, <2>2, FlightOnly
<1>5. CASE WorkersJoin(r)
  <2> DEFINE f == [flight[r] EXCEPT !.pc = "completing"]
  <2>1. /\ f \in Flight /\ f.pc = "completing" /\ f.model = flight[r].model
        /\ f.left = flight[r].left /\ f.lag = flight[r].lag
    BY <1>1 DEF Flight
  <2>2. flight' = [flight EXCEPT ![r] = f] /\ flight[r].pc = "probing"
    BY <1>5 DEF WorkersJoin
  <2> HIDE DEF f
  <2> QED BY <1>1, <1>2, <2>1, <2>2, FlightOnly
<1> QED BY <1>3, <1>4, <1>5

-----------------------------------------------------------------------------
(* Sweeps, administration and time *)

\* A sweep gives a model to a run, or drops it.
LEMMA TakeStep ==
  ASSUME RunsInv, NEW m \in Model, TakeModel(m)
  PROVE  RunsInv'
<1>1. /\ sched.pc = "queueing" /\ m \in sched.queue
      /\ UNCHANGED <<model, since, job, crashes>>
      /\ sched' = [sched EXCEPT !.queue = sched.queue \ {m}]
  BY DEF TakeModel
<1>2. /\ sched' \in [pc: {"idle", "listing", "queueing"}, queue: SUBSET Model]
      /\ sched'.pc = "queueing" /\ sched'.queue = sched.queue \ {m}
  BY <1>1 DEF RunsInv, TypeOK
<1>3. CASE UNCHANGED <<row, tried, flight, asked, won>>
  <2>1. Working' = Working
    BY <1>3 DEF Working
  <2>2. SweepInv'
    BY <1>2, <1>3, <2>1, <1>1 DEF RunsInv, SweepInv, OneScheduledRun
  <2>3. TypeOK' /\ JobsInv' /\ OfAModel'
    BY <1>1, <1>2, <1>3 DEF RunsInv, TypeOK, JobsInv, OfAModel, Running
  <2> QED BY <2>2, <2>3 DEF RunsInv
<1>4. ASSUME NEW r \in Scheduled, NEW chosen, Begin(r, m, chosen)
      PROVE  RunsInv'
  <2>1. r \in Run
    BY DEF Run
  <2>2. /\ row' \in [Run -> RunRow]
        /\ tried' \in [Run -> [Target \union {Deleted} -> SUBSET Result]]
        /\ flight' \in [Run -> Flight]
        /\ asked' \in [Run -> SUBSET Target] /\ won' \in [Run -> SUBSET Target]
        /\ flight[r].pc = "none" /\ flight'[r].pc = "starting" /\ flight'[r].model = m
        /\ row'[r] = NoRun
        /\ \A q \in Run \ {r} : flight'[q] = flight[q] /\ row'[q] = row[q]
    BY <1>4, <2>1, BeginStep DEF RunsInv
  <2>3. TypeOK' /\ JobsInv'
    BY <1>1, <1>2, <2>2 DEF RunsInv, TypeOK, JobsInv
  <2>4. OfAModel'
    <3>1. row'[r].status = "none"
      BY <2>2 DEF NoRun
    <3> QED BY <2>2, <3>1 DEF RunsInv, OfAModel, Running
  <2>5. /\ Working' = Working \union {r}
        /\ \A q \in Working : q # r /\ flight'[q].model = flight[q].model
    BY <2>2 DEF Working, Run
  <2>6. /\ \A q \in Working : flight[q].model \notin sched.queue
        /\ \A p, q \in Working : flight[p].model = flight[q].model => p = q
    BY DEF RunsInv, SweepInv, OneScheduledRun
  <2>7. \A q \in Working' : flight'[q].model \notin sched'.queue
    BY <1>2, <2>2, <2>5, <2>6
  <2>8. \A p, q \in Working' : flight'[p].model = flight'[q].model => p = q
    BY <1>1, <2>2, <2>5, <2>6
  <2>9. SweepInv'
    BY <1>2, <2>7, <2>8 DEF SweepInv, OneScheduledRun
  <2> QED BY <2>3, <2>4, <2>9 DEF RunsInv
<1> QED BY <1>3, <1>4 DEF TakeModel

\* The scheduler's own steps.
LEMMA SweepStep ==
  ASSUME RunsInv, ExpireStaleProbeRuns \/ ListDuePublishedModels \/ SweepEnds
  PROVE  /\ RunsInv' /\ flight' = flight
         /\ \A r \in Run : Running(r)' => Running(r) /\ row'[r] = row[r]
<1>1. flight' = flight /\ UNCHANGED <<model, since, tried, job, crashes, asked, won>>
  BY DEF ExpireStaleProbeRuns, ListDuePublishedModels, SweepEnds
<1>2. Working' = Working
  BY <1>1 DEF Working
<1>3. /\ sched' \in [pc: {"idle", "listing", "queueing"}, queue: SUBSET Model]
      /\ sched'.pc # "queueing" => Working = {} /\ sched'.queue = {}
      /\ sched'.pc = "queueing" => Working = {}
  <2>1. /\ sched \in [pc: {"idle", "listing", "queueing"}, queue: SUBSET Model]
        /\ sched.pc # "queueing" => Working = {} /\ sched.queue = {}
    BY DEF RunsInv, TypeOK, SweepInv
  <2>2. CASE ExpireStaleProbeRuns
    BY <2>1, <2>2 DEF ExpireStaleProbeRuns
  <2>3. CASE ListDuePublishedModels
    BY <2>1, <2>3 DEF ListDuePublishedModels
  <2>4. CASE SweepEnds
    BY <2>1, <2>4 DEF SweepEnds
  <2> QED BY <2>2, <2>3, <2>4
<1>4. SweepInv'
  BY <1>1, <1>2, <1>3 DEF SweepInv, OneScheduledRun
<1>5. /\ row' \in [Run -> RunRow]
      /\ \A r \in Run : Running(r)' => Running(r) /\ row'[r] = row[r]
  <2>1. row \in [Run -> RunRow]
    BY DEF RunsInv, TypeOK
  <2>2. CASE ExpireStaleProbeRuns
    <3>1. \A r \in Run : /\ [row[r] EXCEPT !.status = "cancelled"] \in RunRow
                         /\ [row[r] EXCEPT !.status = "cancelled"].status = "cancelled"
      BY <2>1 DEF RunRow
    <3>2. row' = [r \in Run |-> IF Stale(r) THEN [row[r] EXCEPT !.status = "cancelled"]
                                ELSE row[r]]
      BY <2>2 DEF ExpireStaleProbeRuns
    <3> QED BY <2>1, <3>1, <3>2 DEF Running
  <2>3. CASE row' = row
    BY <2>1, <2>3 DEF Running
  <2> QED BY <2>2, <2>3 DEF ListDuePublishedModels, SweepEnds
<1>6. TypeOK' /\ JobsInv'
  BY <1>1, <1>3, <1>5 DEF RunsInv, TypeOK, JobsInv
<1>7. OfAModel'
  BY <1>1, <1>5 DEF RunsInv, OfAModel
<1> QED BY <1>1, <1>4, <1>5, <1>6, <1>7 DEF RunsInv

\* A run by hand is not of the sweep.
LEMMA ByHandStep ==
  ASSUME RunsInv, NEW r \in Manual, NEW m \in Model, NEW chosen, ProbeByHand(r, m, chosen)
  PROVE  RunsInv'
<1>1. r \in Run /\ r \notin Scheduled
  BY DEF Run
<1>2. Begin(r, m, chosen) /\ UNCHANGED <<model, since, job, sched, crashes>>
  BY DEF ProbeByHand
<1>3. /\ row' \in [Run -> RunRow]
      /\ tried' \in [Run -> [Target \union {Deleted} -> SUBSET Result]]
      /\ flight' \in [Run -> Flight]
      /\ asked' \in [Run -> SUBSET Target] /\ won' \in [Run -> SUBSET Target]
      /\ flight'[r].model = m /\ row'[r] = NoRun
      /\ \A q \in Run \ {r} : flight'[q] = flight[q] /\ row'[q] = row[q]
  BY <1>1, <1>2, BeginStep DEF RunsInv
<1>4. TypeOK' /\ JobsInv'
  BY <1>2, <1>3 DEF RunsInv, TypeOK, JobsInv
<1>5. OfAModel'
  <2>1. row'[r].status = "none"
    BY <1>3 DEF NoRun
  <2> QED BY <1>3, <2>1 DEF RunsInv, OfAModel, Running
<1>6. SweepInv'
  BY <1>1, <1>2, <1>3, SweepKept DEF RunsInv, Run
<1> QED BY <1>4, <1>5, <1>6 DEF RunsInv

\* Administration of the models and their targets.
LEMMA AdminStep ==
  ASSUME RunsInv, NEW m \in Model,
         \/ \E status \in {"monitored", "unmonitored"}, d \in Deadlines :
              UpdatePublishedModel(m, status, d)
         \/ DeletePublishedModel(m)
         \/ \E t \in Target : DeleteRouteSiteTarget(m, t)
  PROVE  /\ RunsInv' /\ flight' = flight
         /\ \A r \in Run : row'[r] \in {row[r], NoRun}
<1>1. UNCHANGED <<since, flight, job, sched, crashes, asked, won>>
  BY DEF UpdatePublishedModel, DeletePublishedModel, DeleteRouteSiteTarget
<1>2. /\ model \in [Model -> ModelRow] /\ model[m] \in ModelRow /\ row \in [Run -> RunRow]
      /\ tried \in [Run -> [Target \union {Deleted} -> SUBSET Result]]
  BY DEF RunsInv, TypeOK
<1>3. /\ model' \in [Model -> ModelRow]
      /\ row' \in [Run -> RunRow] /\ \A r \in Run : row'[r] \in {row[r], NoRun}
      /\ tried' \in [Run -> [Target \union {Deleted} -> SUBSET Result]]
  <2>1. ASSUME NEW status \in {"monitored", "unmonitored"}, NEW d \in Deadlines,
               UpdatePublishedModel(m, status, d)
        PROVE  <1>3!:
    <3>1. [model[m] EXCEPT !.status = status, !.deadline = d] \in ModelRow
      BY <1>2 DEF ModelRow
    <3>2. /\ model' = [model EXCEPT ![m] = [model[m] EXCEPT !.status = status, !.deadline = d]]
          /\ UNCHANGED <<row, tried>>
      BY <2>1 DEF UpdatePublishedModel
    <3> QED BY <1>2, <3>1, <3>2
  <2>2. CASE DeletePublishedModel(m)
    <3>1. [model[m] EXCEPT !.status = "deleted", !.targets = {}] \in ModelRow
      BY <1>2 DEF ModelRow
    <3>2. model' = [model EXCEPT ![m] = [model[m] EXCEPT !.status = "deleted", !.targets = {}]]
      BY <2>2 DEF DeletePublishedModel
    <3>3. /\ row' = [r \in Run |-> IF row[r].model = m THEN NoRun ELSE row[r]]
          /\ tried' = [r \in Run |-> IF row[r].model = m THEN NoResults ELSE tried[r]]
      BY <2>2 DEF DeletePublishedModel
    <3> QED BY <1>2, <3>1, <3>2, <3>3, EmptyTypes
  <2>3. ASSUME NEW t \in Target, DeleteRouteSiteTarget(m, t)
        PROVE  <1>3!:
    <3>1. [model[m] EXCEPT !.targets = model[m].targets \ {t}] \in ModelRow
      BY <1>2 DEF ModelRow
    <3>2. /\ model' = [model EXCEPT ![m] = [model[m] EXCEPT !.targets = model[m].targets \ {t}]]
          /\ row' = row
          /\ tried' = [r \in Run |->
               IF row[r].model = m
               THEN [tried[r] EXCEPT ![Deleted] = tried[r][Deleted] \union tried[r][t], ![t] = {}]
               ELSE tried[r]]
      BY <2>3 DEF DeleteRouteSiteTarget
    <3>3. \A r \in Run :
            [tried[r] EXCEPT ![Deleted] = tried[r][Deleted] \union tried[r][t], ![t] = {}]
              \in [Target \union {Deleted} -> SUBSET Result]
      BY <1>2
    <3> QED BY <1>2, <3>1, <3>2, <3>3
  <2> QED BY <2>1, <2>2, <2>3
<1>4. TypeOK' /\ JobsInv'
  BY <1>1, <1>3 DEF RunsInv, TypeOK, JobsInv
<1>5. OfAModel'
  BY <1>1, <1>3 DEF RunsInv, OfAModel, Running, NoRun
<1>6. SweepInv'
  BY <1>1, SweepKept DEF RunsInv
<1> QED BY <1>1, <1>3, <1>4, <1>5, <1>6 DEF RunsInv

\* A second passes: every goroutine is where it was, and rows keep their state.
LEMMA TickStep ==
  ASSUME RunsInv, Tick
  PROVE  /\ RunsInv'
         /\ \A r \in Run :
              /\ flight'[r] = Aged(flight[r], r) /\ flight'[r].pc = flight[r].pc
              /\ row'[r].status = row[r].status
              /\ Running(r) => row'[r].age <= row[r].age + 1
<1>1. /\ flight \in [Run -> Flight] /\ row \in [Run -> RunRow]
      /\ since \in [Model -> 0..Interval]
      /\ UNCHANGED <<model, tried, job, sched, crashes, asked, won>>
  BY DEF RunsInv, TypeOK, Tick
<1>2. \A r \in Run : flight'[r] = Aged(flight[r], r)
  BY DEF Tick
<1>3. \A r \in Run : /\ Aged(flight[r], r) \in Flight
                     /\ Aged(flight[r], r).pc = flight[r].pc
                     /\ Aged(flight[r], r).model = flight[r].model
  BY <1>1 DEF Aged, Winding, Flight
<1>4. flight' \in [Run -> Flight]
  <2>1. flight' = [r \in Run |-> Aged(flight[r], r)]
    BY DEF Tick
  <2> QED BY <1>3, <2>1
<1>5. since' \in [Model -> 0..Interval]
  <2>1. \A m \in Model : Older(since[m], Interval) \in 0..Interval
    BY <1>1 DEF Older
  <2> QED BY <2>1 DEF Tick
<1>6. /\ row' \in [Run -> RunRow]
      /\ \A r \in Run : /\ row'[r].status = row[r].status /\ row'[r].model = row[r].model
                        /\ Running(r) => row'[r].age <= row[r].age + 1
  <2> DEFINE older(r) == [row[r] EXCEPT !.age = Older(row[r].age, MaxDeadline + Grace)]
  <2>1. \A r \in Run : /\ Older(row[r].age, MaxDeadline + Grace) \in Nat
                       /\ Older(row[r].age, MaxDeadline + Grace) <= row[r].age + 1
    BY <1>1, MaxDeadlineType DEF Older, RunRow
  <2>2. \A r \in Run : /\ older(r) \in RunRow /\ older(r).age <= row[r].age + 1
                       /\ older(r).status = row[r].status /\ older(r).model = row[r].model
    BY <1>1, <2>1 DEF RunRow
  <2>3. row' = [r \in Run |-> IF Running(r) THEN older(r) ELSE row[r]]
    BY DEF Tick
  <2> HIDE DEF older
  <2> QED BY <1>1, <2>2, <2>3
<1>7. TypeOK' /\ JobsInv'
  BY <1>1, <1>4, <1>5, <1>6 DEF RunsInv, TypeOK, JobsInv
<1>8. \A r \in Run : flight'[r].pc = flight[r].pc /\ flight'[r].model = flight[r].model
  BY <1>2, <1>3
<1>9. OfAModel'
  BY <1>6, <1>8 DEF RunsInv, OfAModel, Running
<1>10. SweepInv'
  BY <1>1, <1>8, SweepKept DEF RunsInv, Run
<1>11. RunsInv'
  BY <1>7, <1>9, <1>10 DEF RunsInv
<1> HIDE DEF Aged, Running
<1> QED BY <1>2, <1>6, <1>8, <1>11

\* A restart: nothing is in flight, the rows stay.
LEMMA RestartStep ==
  ASSUME RunsInv, Restart
  PROVE  RunsInv' /\ row' = row /\ \A r \in Run : flight'[r].pc = "none"
<1>1. /\ UNCHANGED <<model, since, row, tried, asked, won>>
      /\ crashes' \in 0..MaxCrashes
      /\ sched' = [pc |-> "idle", queue |-> {}]
      /\ job' = [r \in Run |-> NoJobs] /\ flight' = [r \in Run |-> NoFlight]
  BY DEF RunsInv, TypeOK, Restart
<1>2. \A r \in Run : flight'[r].pc = "none"
  BY <1>1 DEF NoFlight
<1>3. TypeOK'
  BY <1>1, EmptyTypes DEF RunsInv, TypeOK
<1>4. JobsInv'
  BY <1>1 DEF JobsInv, NoJobs, JobAt
<1>5. OfAModel'
  BY <1>1, <1>2 DEF RunsInv, OfAModel, Running
<1>6. SweepInv'
  <2>1. Working' = {}
    BY <1>2 DEF Working, Run
  <2> QED BY <1>1, <2>1 DEF SweepInv, OneScheduledRun
<1> QED BY <1>1, <1>2, <1>3, <1>4, <1>5, <1>6 DEF RunsInv

-----------------------------------------------------------------------------
(* The invariant *)

\* Nothing is in flight at first.
LEMMA InitInv == Init => RunsInv
<1> SUFFICES ASSUME Init PROVE RunsInv
  OBVIOUS
<1>1. \A d \in Deadlines :
        [status |-> "monitored", deadline |-> d, targets |-> Target] \in ModelRow
  BY DEF ModelRow
<1>2. \A r \in Run : flight[r].pc = "none" /\ row[r].status = "none"
  BY DEF Init, NoFlight, NoRun
<1>3. model \in [Model -> ModelRow]
  BY <1>1 DEF Init
<1>4. TypeOK
  BY <1>3, EmptyTypes DEF Init, TypeOK
<1>5. JobsInv
  <2>1. \A r \in Run, t \in Target : job[r][t] = JobAt("done", 0)
    BY DEF Init, NoJobs
  <2>2. ~JobAt("done", 0).more /\ JobAt("done", 0).pc = "done"
    BY DEF JobAt
  <2> QED BY <2>1, <2>2 DEF JobsInv
<1>6. OfAModel
  BY <1>2 DEF OfAModel, Running
<1>7. SweepInv
  <2>1. Working = {}
    BY <1>2 DEF Working, Run
  <2>2. sched.queue = {}
    BY DEF Init
  <2> QED BY <2>1, <2>2 DEF SweepInv, OneScheduledRun
<1> QED BY <1>4, <1>5, <1>6, <1>7 DEF RunsInv

\* Every step keeps the invariant.
LEMMA NextInv == RunsInv /\ [Next]_vars => RunsInv'
<1> SUFFICES ASSUME RunsInv, [Next]_vars PROVE RunsInv'
  OBVIOUS
<1>1. CASE SchedulerNext
  BY <1>1, SweepStep, TakeStep DEF SchedulerNext
<1>2. ASSUME NEW r \in Run, RunNext(r) \/ CancelContext(r)
      PROVE  RunsInv'
  <2>1. ASSUME NEW t \in Target, JobNext(r, t)
        PROVE  RunsInv'
    <3>1. /\ TypeOK' /\ JobsInv'
          /\ UNCHANGED <<row, flight, sched>>
      BY <2>1, JobStep DEF RunsInv
    <3>2. OfAModel'
      BY <3>1 DEF RunsInv, OfAModel, Running
    <3>3. SweepInv'
      BY <3>1, SweepKept DEF RunsInv
    <3> QED BY <3>1, <3>2, <3>3 DEF RunsInv
  <2> QED BY <1>2, <2>1, InsertStep, CompleteStep, StopStep DEF RunNext
<1>3. CASE AdminNext
  BY <1>3, ByHandStep, AdminStep DEF AdminNext
<1>4. CASE Tick
  BY <1>4, TickStep
<1>5. CASE Restart
  BY <1>5, RestartStep
<1>6. CASE UNCHANGED vars
  <2>1. Working' = Working
    BY <1>6 DEF vars, Working
  <2> QED BY <1>6, <2>1 DEF vars, RunsInv, TypeOK, JobsInv, OfAModel, Running,
             SweepInv, OneScheduledRun
<1> QED BY <1>1, <1>2, <1>3, <1>4, <1>5, <1>6 DEF Next

\* RunsInv holds in every reachable state: a started goroutine and a running
\* row have a model, and a sweep gives each model to one worker and waits for
\* all of them (runV3Due, ProbePublishedModel).
THEOREM RunsInvariant == Spec => []RunsInv
BY InitInv, NextInv, PTL DEF Spec

\* Rows, jobs, goroutines and the sweep keep their types, the counts of a
\* completed run (CompleteProbeRun) among them.
THEOREM TypeCorrect == Spec => []TypeOK
<1>1. RunsInv => TypeOK
  BY DEF RunsInv
<1> QED BY <1>1, RunsInvariant, PTL

\* The scheduler never probes a model twice at a time, for any number of
\* workers and models (runV3Due).
THEOREM ScheduledOnce == Spec => []OneScheduledRun
<1>1. RunsInv => OneScheduledRun
  BY DEF RunsInv, SweepInv
<1> QED BY <1>1, RunsInvariant, PTL

-----------------------------------------------------------------------------
(* The age of a running row *)

\* All models have the longest deadline.
LEMMA OneDeadline ==
  ASSUME SameDeadline, TypeOK, NEW m \in Model
  PROVE  model[m].deadline = MaxDeadline
<1>1. model[m].deadline \in Deadlines
  BY DEF TypeOK, ModelRow
<1> QED BY <1>1, MaxDeadlineType DEF SameDeadline

\* A goroutine that stays as it is, or ends, over a row that does not age.
LEMMA TimelyKept ==
  ASSUME NEW r \in Run, TimelyRun(r),
         flight'[r] = flight[r] \/ flight'[r].pc = "none",
         Running(r)' => Running(r) /\ row'[r] = row[r]
  PROVE  TimelyRun(r)'
BY DEF TimelyRun, Running

\* A run that begins has all of its time.
LEMMA TimelyBegin ==
  ASSUME SameDeadline, TypeOK, Timely,
         NEW r \in Run, NEW m \in Model, NEW chosen, Begin(r, m, chosen)
  PROVE  Timely'
<1>1. /\ flight'[r].pc = "starting" /\ flight'[r].left = MaxDeadline /\ flight'[r].lag = 0
      /\ row'[r] = NoRun
      /\ \A q \in Run \ {r} : flight'[q] = flight[q] /\ row'[q] = row[q]
  BY BeginStep, OneDeadline
<1>2. TimelyRun(r)'
  BY <1>1 DEF TimelyRun, Running, NoRun
<1>3. ASSUME NEW q \in Run \ {r} PROVE TimelyRun(q)'
  BY <1>1, TimelyKept DEF Timely, Running
<1> QED BY <1>2, <1>3 DEF Timely

\* A second that passes is taken off the time left, or added to the lag.
LEMMA TimelyTick ==
  ASSUME RunsInv, Timely, Tick
  PROVE  Timely'
<1> SUFFICES ASSUME NEW r \in Run PROVE TimelyRun(r)'
  BY DEF Timely
<1>1. /\ flight'[r] = Aged(flight[r], r) /\ row'[r].status = row[r].status
      /\ Running(r) => row'[r].age <= row[r].age + 1
      /\ RunsInv'
  BY TickStep
<1>2. /\ flight[r] \in Flight /\ row[r] \in RunRow /\ row'[r] \in RunRow
  BY <1>1 DEF RunsInv, TypeOK
<1>3. /\ flight[r].left \in Nat /\ flight[r].lag \in Nat
      /\ row[r].age \in Nat /\ row'[r].age \in Nat
  BY <1>2 DEF Flight, RunRow
<1>4. Punctual(r) /\ TimelyRun(r) /\ (Running(r)' <=> Running(r))
  BY <1>1 DEF Tick, Timely, Running
<1>5. CASE flight[r].pc = "starting"
  <2>1. flight'[r] = [flight[r] EXCEPT !.lag = flight[r].lag + 1]
    BY <1>1, <1>5 DEF Aged
  <2>2. /\ flight'[r].pc = "starting" /\ flight'[r].left = flight[r].left
        /\ flight'[r].lag = flight[r].lag + 1
    BY <1>2, <1>5, <2>1 DEF Flight
  <2> QED BY <1>3, <1>4, <1>5, <2>2 DEF TimelyRun, Punctual
<1>6. CASE Winding(r)
  <2>1. flight'[r] = [flight[r] EXCEPT !.lag = flight[r].lag + 1]
    BY <1>1, <1>6 DEF Aged
  <2>2. /\ flight'[r].pc = flight[r].pc /\ flight'[r].left = flight[r].left
        /\ flight'[r].lag = flight[r].lag + 1
    BY <1>2, <2>1 DEF Flight
  <2>3. /\ flight[r].pc \in {"probing", "completing"}
        /\ flight[r].pc = "probing" => flight[r].left = 0
        /\ flight[r].lag < MaxSettle
    BY <1>4, <1>6 DEF Winding, Punctual
  <2>4. Running(r) => row'[r].age <= MaxWait + (MaxDeadline - flight[r].left)
                                       + (flight[r].lag + 1)
    BY <1>1, <1>3, <1>4, <2>3, MaxDeadlineType DEF TimelyRun
  <2> HIDE DEF Running
  <2> QED BY <1>3, <1>4, <2>2, <2>3, <2>4, MaxDeadlineType DEF TimelyRun
<1>7. CASE flight[r].pc = "probing" /\ ~Winding(r)
  <2>1. flight'[r] = [flight[r] EXCEPT !.left = flight[r].left - 1]
    BY <1>1, <1>7 DEF Aged
  <2>2. /\ flight'[r].pc = "probing" /\ flight'[r].left = flight[r].left - 1
        /\ flight'[r].lag = flight[r].lag
    BY <1>2, <1>7, <2>1 DEF Flight
  <2> QED BY <1>1, <1>3, <1>4, <1>7, <2>2, MaxDeadlineType DEF TimelyRun, Winding
<1>8. CASE flight[r].pc = "none"
  BY <1>1, <1>8 DEF Aged, TimelyRun, Winding
<1> QED BY <1>2, <1>5, <1>6, <1>7, <1>8 DEF Flight, Winding

\* Every step keeps the ages of the rows within the time of their goroutines.
LEMMA TimelyStep ==
  ASSUME SameDeadline, RunsInv, Timely, [Next]_vars
  PROVE  Timely'
<1>1. TypeOK /\ \A r \in Run : TimelyRun(r)
  BY DEF RunsInv, Timely
<1>2. CASE UNCHANGED <<flight, row>>
  BY <1>1, <1>2 DEF Timely, TimelyRun, Running
<1>3. CASE ExpireStaleProbeRuns \/ ListDuePublishedModels \/ SweepEnds
  BY <1>1, <1>3, SweepStep, TimelyKept DEF Timely
<1>4. ASSUME NEW m \in Model, TakeModel(m) PROVE Timely'
  BY <1>1, <1>2, <1>4, TimelyBegin DEF TakeModel, Run
<1>5. ASSUME NEW r \in Manual, NEW m \in Model, NEW chosen, ProbeByHand(r, m, chosen)
      PROVE  Timely'
  BY <1>1, <1>5, TimelyBegin DEF ProbeByHand, Run
<1>6. ASSUME NEW r \in Run, InsertProbeRun(r) PROVE Timely'
  <2>1. flight[r].lag \in Nat /\ flight[r].left \in Nat
    BY DEF RunsInv, TypeOK, Flight
  <2>2. TimelyRun(r)'
    BY <1>1, <1>6, <2>1, InsertStep, MaxDeadlineType DEF TimelyRun, Running
  <2>3. ASSUME NEW q \in Run \ {r} PROVE TimelyRun(q)'
    BY <1>1, <1>6, InsertStep, TimelyKept DEF Running
  <2> QED BY <2>2, <2>3 DEF Timely
<1>7. ASSUME NEW r \in Run, CompleteProbeRun(r) PROVE Timely'
  <2>1. ASSUME NEW q \in Run PROVE TimelyRun(q)'
    BY <1>1, <1>7, CompleteStep, TimelyKept DEF Running
  <2> QED BY <2>1 DEF Timely
<1>8. ASSUME NEW r \in Run,
             \/ InsertProbeRunFails(r) \/ CancelContext(r)
             \/ WorkersJoin(r) \/ CompleteProbeRunFails(r)
      PROVE  Timely'
  <2>1. /\ row' = row
        /\ \A q \in Run \ {r} : flight'[q] = flight[q]
        /\ flight'[r].pc \in {"none", "probing", "completing"}
        /\ flight'[r].pc # "none" =>
             /\ flight[r].pc = "probing"
             /\ flight'[r].left \in {0, flight[r].left} /\ flight'[r].lag = flight[r].lag
             /\ flight'[r].pc = "probing" => flight[r].left > 0 /\ flight'[r].left = 0
    BY <1>8, StopStep
  <2>2. /\ flight[r].left \in Nat /\ flight[r].lag \in Nat /\ row[r].age \in Nat
    BY DEF RunsInv, TypeOK, Flight, RunRow
  <2>3. TimelyRun(r)'
    BY <1>1, <2>1, <2>2, MaxDeadlineType DEF TimelyRun, Running
  <2>4. ASSUME NEW q \in Run \ {r} PROVE TimelyRun(q)'
    BY <1>1, <2>1, TimelyKept DEF Running
  <2> QED BY <2>3, <2>4 DEF Timely
<1>9. ASSUME NEW r \in Run, NEW t \in Target, JobNext(r, t) PROVE Timely'
  BY <1>2, <1>9, JobStep DEF RunsInv
<1>10. ASSUME NEW m \in Model,
              \/ \E status \in {"monitored", "unmonitored"}, d \in Deadlines :
                   UpdatePublishedModel(m, status, d)
              \/ DeletePublishedModel(m)
              \/ \E t \in Target : DeleteRouteSiteTarget(m, t)
       PROVE  Timely'
  <2>1. NoRun.status = "none"
    BY DEF NoRun
  <2>2. ASSUME NEW q \in Run PROVE TimelyRun(q)'
    BY <1>1, <1>10, <2>1, AdminStep, TimelyKept DEF Running
  <2> QED BY <2>2 DEF Timely
<1>11. CASE Tick
  BY <1>11, TimelyTick
<1>12. CASE Restart
  BY <1>1, <1>12, RestartStep, TimelyKept DEF Timely, Running
<1>13. CASE UNCHANGED vars
  BY <1>2, <1>13 DEF vars
<1> QED BY <1>3, <1>4, <1>5, <1>6, <1>7, <1>8, <1>9, <1>10, <1>11, <1>12, <1>13
        DEF Next, SchedulerNext, RunNext, AdminNext

\* A row is only cancelled by the sweep, and only once its goroutine is gone.
LEMMA ExpiryStep ==
  ASSUME SameDeadline, RunsInv, Timely, [Next]_vars,
         NEW r \in Run, Running(r), row'[r].status = "cancelled"
  PROVE  flight[r].pc = "none"
<1>1. TypeOK /\ TimelyRun(r) /\ row[r].status = "running"
  BY DEF RunsInv, Timely, Running
<1>2. CASE ExpireStaleProbeRuns
  <2>1. Stale(r)
    BY <1>1, <1>2 DEF ExpireStaleProbeRuns
  <2>2. row[r].age >= MaxDeadline + Grace
    <3>1. row[r].model \in Model
      BY DEF RunsInv, OfAModel
    <3> QED BY <1>1, <2>1, <3>1, OneDeadline DEF Stale
  <2>3. /\ row[r].age \in Nat /\ flight[r].left \in Nat /\ flight[r].lag \in Nat
        /\ flight[r].pc \in {"none", "starting", "probing", "completing"}
    BY <1>1 DEF TypeOK, RunRow, Flight
  <2>4. flight[r].pc \notin {"probing", "completing"}
    BY <1>1, <2>2, <2>3, MaxDeadlineType DEF TimelyRun
  <2> QED BY <1>1, <2>3, <2>4 DEF TimelyRun
<1>3. CASE row'[r] = row[r]
  BY <1>1, <1>3
<1>4. CASE \E q \in Run : InsertProbeRun(q) \/ CompleteProbeRun(q)
  BY <1>1, <1>4, InsertStep, CompleteStep
<1>5. CASE \E m \in Model : TakeModel(m)
  BY <1>1, <1>3, <1>5, BeginStep DEF TakeModel, Run, NoRun
<1>6. CASE \E q \in Manual, m \in Model, chosen \in SUBSET Target : ProbeByHand(q, m, chosen)
  BY <1>1, <1>3, <1>6, BeginStep DEF ProbeByHand, Run, NoRun
<1>7. CASE \E m \in Model :
             \/ \E status \in {"monitored", "unmonitored"}, d \in Deadlines :
                  UpdatePublishedModel(m, status, d)
             \/ DeletePublishedModel(m)
             \/ \E t \in Target : DeleteRouteSiteTarget(m, t)
  BY <1>1, <1>7, AdminStep DEF NoRun
<1>8. CASE Tick
  BY <1>1, <1>8, TickStep
<1>9. CASE \/ ListDuePublishedModels \/ SweepEnds \/ Restart \/ UNCHANGED vars
           \/ \E q \in Run : \/ InsertProbeRunFails(q) \/ CancelContext(q)
                             \/ WorkersJoin(q) \/ CompleteProbeRunFails(q)
                             \/ \E t \in Target : JobNext(q, t)
  <2>1. row' = row
    BY <1>1, <1>9, StopStep, JobStep DEF ListDuePublishedModels, SweepEnds, Restart, vars, RunsInv
  <2> QED BY <1>3, <2>1
<1> QED BY <1>2, <1>4, <1>5, <1>6, <1>7, <1>8, <1>9
        DEF Next, SchedulerNext, RunNext, AdminNext

\* When all models have the same deadline, the sweep only expires runs that
\* nobody is working on (ExpireStaleProbeRuns): the grace of 30 seconds covers
\* the wait before the insertion and the writing of the results.
THEOREM ExpiresTheDead == ASSUME SameDeadline PROVE Spec => OnlyDeadRunsExpire
<1>1. Init => Timely
  BY DEF Init, Timely, TimelyRun, NoFlight
<1>2. RunsInv /\ Timely /\ [Next]_vars => Timely'
  BY TimelyStep
<1>3. RunsInv /\ Timely /\ [Next]_vars =>
        [\A r \in Run : Running(r) /\ row'[r].status = "cancelled" =>
                        flight[r].pc = "none"]_vars
  BY ExpiryStep
<1> QED BY <1>1, <1>2, <1>3, RunsInvariant, PTL DEF Spec, OnlyDeadRunsExpire

-----------------------------------------------------------------------------
(* Runs that have ended *)

\* A step of a target's goroutine is one of a run that is probing.
LEMMA ProbingStep ==
  ASSUME NEW ends, Closed(ends), NEW r \in Run, NEW t \in Target, JobNext(r, t)
  PROVE  flight[r].pc = "probing"
BY DEF Closed, ClosedRun, JobNext, TakePermit, TryKey, CheckRun, InsertProbeAttempt, StoreFails

\* Every step keeps the runs that have ended closed.
LEMMA ClosedStep ==
  ASSUME RunsInv, [Next]_vars, NEW ends \in SUBSET Ends, Closed(ends),
         "cancelled" \in ends => SameDeadline /\ Timely
  PROVE  Closed(ends)'
<1>1. /\ TypeOK /\ \A r \in Run : ClosedRun(r, ends)
      /\ "running" \notin ends /\ "none" \notin ends
  BY DEF RunsInv, Closed, Ends, Verdicts
<1>2. ASSUME flight' = flight, job' = job,
             \A r \in Run : row'[r].status \in ends => row[r].status \in ends \/ flight[r].pc = "none"
      PROVE  Closed(ends)'
  BY <1>1, <1>2 DEF Closed, ClosedRun
<1>3. CASE ExpireStaleProbeRuns
  <2>1. ASSUME NEW r \in Run, row'[r].status \in ends, row[r].status \notin ends
        PROVE  flight[r].pc = "none"
    <3>1. Running(r) /\ row'[r].status = "cancelled"
      BY <1>1, <1>3, <2>1 DEF ExpireStaleProbeRuns, Stale, TypeOK, RunRow
    <3> QED BY <2>1, <3>1, ExpiryStep
  <2> QED BY <1>2, <1>3, <2>1 DEF ExpireStaleProbeRuns
<1>4. CASE row' = row /\ flight' = flight /\ job' = job
  BY <1>2, <1>4
<1>5. ASSUME NEW r \in Run, NEW m \in Model, NEW chosen, Begin(r, m, chosen), job' = job
      PROVE  Closed(ends)'
  <2>1. /\ flight[r].pc = "none" /\ flight'[r].pc = "starting" /\ row'[r] = NoRun
        /\ \A q \in Run \ {r} : flight'[q] = flight[q] /\ row'[q] = row[q]
    BY <1>1, <1>5, BeginStep
  <2>2. ClosedRun(r, ends)'
    BY <1>1, <1>5, <2>1 DEF ClosedRun, NoRun
  <2>3. ASSUME NEW q \in Run \ {r} PROVE ClosedRun(q, ends)'
    BY <1>1, <1>5, <2>1 DEF ClosedRun
  <2> QED BY <2>2, <2>3 DEF Closed
<1>6. ASSUME NEW r \in Run, InsertProbeRun(r) PROVE Closed(ends)'
  <2>1. \A q \in Run \ {r} : job'[q] = job[q]
    BY <1>1, <1>6 DEF InsertProbeRun, TypeOK
  <2>2. ClosedRun(r, ends)'
    BY <1>1, <1>6, InsertStep DEF ClosedRun
  <2>3. ASSUME NEW q \in Run \ {r} PROVE ClosedRun(q, ends)'
    BY <1>1, <1>6, <2>1, InsertStep DEF ClosedRun
  <2> QED BY <2>2, <2>3 DEF Closed
<1>7. ASSUME NEW r \in Run, CompleteProbeRun(r) PROVE Closed(ends)'
  <2>1. flight[r].pc = "completing" /\ job' = job
    BY <1>7 DEF CompleteProbeRun
  <2>2. ASSUME NEW q \in Run PROVE ClosedRun(q, ends)'
    BY <1>1, <1>7, <2>1, CompleteStep DEF ClosedRun
  <2> QED BY <2>2 DEF Closed
<1>8. ASSUME NEW r \in Run,
             \/ InsertProbeRunFails(r) \/ CancelContext(r)
             \/ WorkersJoin(r) \/ CompleteProbeRunFails(r)
      PROVE  Closed(ends)'
  <2>1. /\ row' = row /\ \A q \in Run \ {r} : flight'[q] = flight[q]
        /\ flight'[r].pc # "none" => flight[r].pc = "probing"
    BY <1>8, StopStep
  <2>2. /\ job' = job
        /\ flight'[r].pc # "probing" => \A t \in Target : job[r][t].pc \in {"done", "queued"}
    <3>1. CASE InsertProbeRunFails(r) \/ CompleteProbeRunFails(r)
      BY <1>1, <3>1 DEF InsertProbeRunFails, CompleteProbeRunFails, ClosedRun
    <3>2. CASE CancelContext(r)
      BY <1>1, <3>2 DEF CancelContext, TypeOK, Flight
    <3>3. CASE WorkersJoin(r)
      BY <3>3 DEF WorkersJoin, JobsOver
    <3> QED BY <1>8, <3>1, <3>2, <3>3
  <2>3. ASSUME NEW q \in Run PROVE ClosedRun(q, ends)'
    BY <1>1, <2>1, <2>2 DEF ClosedRun
  <2> QED BY <2>3 DEF Closed
<1>9. ASSUME NEW r \in Run, NEW t \in Target, JobNext(r, t) PROVE Closed(ends)'
  <2>1. /\ row' = row /\ flight' = flight /\ flight[r].pc = "probing"
        /\ \A q \in Run \ {r} : job'[q] = job[q]
    <3>1. \E j : SetJob(r, t, j)
      BY <1>9 DEF JobNext, TakePermit, TryKey, CheckRun, InsertProbeAttempt, StoreFails, Store
    <3> QED BY <1>1, <1>9, <3>1, ProbingStep DEF SetJob, TypeOK
  <2>2. ASSUME NEW q \in Run PROVE ClosedRun(q, ends)'
    BY <1>1, <2>1 DEF ClosedRun
  <2> QED BY <2>2 DEF Closed
<1>10. ASSUME NEW m \in Model,
              \/ \E status \in {"monitored", "unmonitored"}, d \in Deadlines :
                   UpdatePublishedModel(m, status, d)
              \/ DeletePublishedModel(m)
              \/ \E t \in Target : DeleteRouteSiteTarget(m, t)
       PROVE  Closed(ends)'
  <2>1. \A r \in Run : row'[r].status \in ends => row[r].status \in ends
    BY <1>1, <1>10, AdminStep DEF NoRun
  <2>2. job' = job
    BY <1>10 DEF UpdatePublishedModel, DeletePublishedModel, DeleteRouteSiteTarget
  <2> QED BY <1>2, <1>10, <2>1, <2>2, AdminStep
<1>11. CASE Tick
  <2>1. job' = job
    BY <1>11 DEF Tick
  <2>2. ASSUME NEW r \in Run PROVE ClosedRun(r, ends)'
    BY <1>1, <1>11, <2>1, TickStep DEF ClosedRun
  <2> QED BY <2>2 DEF Closed
<1>12. CASE Restart
  <2>1. \A r \in Run, t \in Target : job'[r][t].pc = "done"
    BY <1>12 DEF Restart, NoJobs, JobAt
  <2> QED BY <1>12, <2>1, RestartStep DEF Closed, ClosedRun
<1>13. ASSUME NEW m \in Model, TakeModel(m) PROVE Closed(ends)'
  <2>1. CASE UNCHANGED <<row, tried, flight, asked, won>>
    BY <1>4, <1>13, <2>1 DEF TakeModel
  <2>2. ASSUME NEW r \in Scheduled, NEW chosen, Begin(r, m, chosen) PROVE Closed(ends)'
    BY <1>5, <1>13, <2>2 DEF TakeModel, Run
  <2> QED BY <1>13, <2>1, <2>2 DEF TakeModel
<1>14. ASSUME NEW r \in Manual, NEW m \in Model, NEW chosen, ProbeByHand(r, m, chosen)
       PROVE  Closed(ends)'
  BY <1>5, <1>14 DEF ProbeByHand, Run
<1>15. CASE ListDuePublishedModels \/ SweepEnds \/ UNCHANGED vars
  BY <1>4, <1>15 DEF ListDuePublishedModels, SweepEnds, vars
<1> QED BY <1>3, <1>6, <1>7, <1>8, <1>9, <1>10, <1>11, <1>12, <1>13, <1>14, <1>15
        DEF Next, SchedulerNext, RunNext, AdminNext

\* A row that has ended and is not taken away is left alone, and its run gets
\* no new results.
LEMMA EndedStep ==
  ASSUME RunsInv, Closed(Ends), [Next]_vars, NEW r \in Run,
         row[r].status \in Ends, row'[r].status \in Ends
  PROVE  /\ row'[r] = row[r]
         /\ \A x \in Result : (\E t \in DOMAIN tried'[r] : x \in tried'[r][t]) =>
                              (\E t \in DOMAIN tried[r] : x \in tried[r][t])
<1> DEFINE Left == row'[r] = row[r] /\ tried'[r] = tried[r]
<1> SUFFICES \/ Left
             \/ /\ row'[r] = row[r]
                /\ \A x \in Result : (\E t \in DOMAIN tried'[r] : x \in tried'[r][t]) =>
                                     (\E t \in DOMAIN tried[r] : x \in tried[r][t])
  OBVIOUS
<1>1. /\ TypeOK /\ ~Running(r) /\ flight[r].pc = "none"
      /\ row \in [Run -> RunRow]
      /\ tried \in [Run -> [Target \union {Deleted} -> SUBSET Result]]
  BY DEF RunsInv, TypeOK, Closed, ClosedRun, Ends, Verdicts, Running
<1>2. ASSUME NEW q \in Run, NEW m \in Model, NEW chosen, Begin(q, m, chosen) PROVE Left
  <2>1. q # r
    BY <1>1, <1>2, BeginStep DEF Ends, Verdicts, NoRun
  <2> QED BY <1>1, <1>2, <2>1 DEF Begin
<1>3. CASE SchedulerNext
  <2>1. CASE ExpireStaleProbeRuns
    BY <1>1, <2>1 DEF ExpireStaleProbeRuns, Stale
  <2>2. CASE ListDuePublishedModels \/ SweepEnds
    BY <2>2 DEF ListDuePublishedModels, SweepEnds
  <2>3. CASE \E m \in Model : TakeModel(m)
    BY <1>2, <2>3 DEF TakeModel, Run
  <2> QED BY <1>3, <2>1, <2>2, <2>3 DEF SchedulerNext
<1>4. ASSUME NEW q \in Run, RunNext(q) \/ CancelContext(q) PROVE Left
  <2>1. CASE InsertProbeRun(q)
    <3>1. q # r
      BY <1>1, <2>1 DEF InsertProbeRun
    <3> QED BY <2>1, <3>1, InsertStep DEF InsertProbeRun
  <2>2. CASE CompleteProbeRun(q)
    BY <1>1, <2>2, CompleteStep DEF CompleteProbeRun
  <2>3. CASE \/ InsertProbeRunFails(q) \/ CancelContext(q)
             \/ WorkersJoin(q) \/ CompleteProbeRunFails(q)
    BY <2>3 DEF InsertProbeRunFails, CancelContext, WorkersJoin, CompleteProbeRunFails
  <2>4. ASSUME NEW t \in Target, JobNext(q, t) PROVE Left
    <3>1. q # r
      BY <1>1, <2>4, ProbingStep
    <3>2. row' = row
      BY <2>4, JobStep DEF RunsInv
    <3>3. tried' = tried \/ \E S : tried' = [tried EXCEPT ![q] = S]
      <4>1. CASE InsertProbeAttempt(q, t)
        BY <4>1 DEF InsertProbeAttempt
      <4>2. CASE TakePermit(q, t) \/ TryKey(q, t) \/ CheckRun(q, t) \/ StoreFails(q, t)
        BY <4>2 DEF TakePermit, TryKey, CheckRun, StoreFails
      <4> QED BY <2>4, <4>1, <4>2 DEF JobNext
    <3> QED BY <1>1, <3>1, <3>2, <3>3
  <2> QED BY <1>4, <2>1, <2>2, <2>3, <2>4 DEF RunNext
<1>5. CASE AdminNext
  <2>1. CASE \E q \in Manual, m \in Model, chosen \in SUBSET Target : ProbeByHand(q, m, chosen)
    BY <1>2, <2>1 DEF ProbeByHand, Run
  <2>2. CASE \E m \in Model, status \in {"monitored", "unmonitored"}, d \in Deadlines :
               UpdatePublishedModel(m, status, d)
    BY <2>2 DEF UpdatePublishedModel
  <2>3. ASSUME NEW m \in Model, DeletePublishedModel(m) PROVE Left
    BY <1>1, <2>3 DEF DeletePublishedModel, Ends, Verdicts, NoRun
  <2>4. ASSUME NEW m \in Model, NEW t \in Target, DeleteRouteSiteTarget(m, t)
        PROVE  /\ row'[r] = row[r]
               /\ \A x \in Result : (\E u \in DOMAIN tried'[r] : x \in tried'[r][u]) =>
                                    (\E u \in DOMAIN tried[r] : x \in tried[r][u])
    <3>1. /\ row' = row
          /\ tried'[r] \in {tried[r],
               [tried[r] EXCEPT ![Deleted] = tried[r][Deleted] \union tried[r][t], ![t] = {}]}
      BY <2>4 DEF DeleteRouteSiteTarget
    <3> QED BY <1>1, <3>1
  <2> QED BY <1>5, <2>1, <2>2, <2>3, <2>4 DEF AdminNext
<1>6. CASE Tick
  BY <1>1, <1>6 DEF Tick
<1>7. CASE Restart \/ UNCHANGED vars
  BY <1>7 DEF Restart, vars
<1> QED BY <1>3, <1>4, <1>5, <1>6, <1>7 DEF Next

\* When all models have the same deadline, a run that has ended gets neither
\* another status nor another result (CompleteProbeRun, InsertProbeAttempt):
\* nobody works for it any more.
THEOREM EndedStayClosed == ASSUME SameDeadline PROVE Spec => EndedRunsAreClosed
<1>1. Init => Timely /\ Closed(Ends)
  <2>1. Init => \A r \in Run : row[r].status = "none" /\ flight[r].pc = "none"
    BY DEF Init, NoRun, NoFlight
  <2>2. Init => \A r \in Run, t \in Target : job[r][t].pc = "done"
    BY DEF Init, NoJobs, JobAt
  <2> QED BY <2>1, <2>2 DEF Timely, TimelyRun, Closed, ClosedRun, Ends, Verdicts
<1>2. RunsInv /\ Timely /\ Closed(Ends) /\ [Next]_vars => Timely' /\ Closed(Ends)'
  BY TimelyStep, ClosedStep
<1>3. RunsInv /\ RunsInv' /\ Closed(Ends) /\ [Next]_vars =>
        [\A r \in Run :
           row[r].status \notin {"none", "running"} /\ row'[r].status \notin {"none", "running"} =>
             /\ row'[r] = row[r]
             /\ \A x \in Result : (\E t \in DOMAIN tried'[r] : x \in tried'[r][t]) =>
                                  (\E t \in DOMAIN tried[r] : x \in tried[r][t])]_vars
  <2>1. TypeOK => \A r \in Run :
          row[r].status \in {"none", "running", "success", "partial", "failed", "cancelled"}
    BY DEF TypeOK, RunRow
  <2>2. TypeOK' => \A r \in Run :
          row'[r].status \in {"none", "running", "success", "partial", "failed", "cancelled"}
    BY DEF TypeOK, RunRow
  <2>3. RunsInv /\ RunsInv' => TypeOK /\ TypeOK'
    BY DEF RunsInv
  <2> QED BY <2>1, <2>2, <2>3, EndedStep DEF Ends, Verdicts
<1> QED BY <1>1, <1>2, <1>3, RunsInvariant, PTL DEF Spec, EndedRunsAreClosed

-----------------------------------------------------------------------------
(* Verdicts *)

\* No more targets are seen to succeed than did: a success of a target that is
\* gone stands for one of those.
LEMMA SuccessesAreReal ==
  ASSUME TypeOK, NEW r \in Run, HonestRun(r), Running(r)
  PROVE  /\ IsFiniteSet(asked[r]) /\ won[r] \subseteq asked[r]
         /\ Cardinality(Succeeded(r)) <= Cardinality(won[r])
         /\ Succeeded(r) = {} <=> won[r] = {}
<1>1. /\ won[r] \subseteq asked[r] /\ asked[r] \subseteq Target /\ Tracked(r)
  BY DEF HonestRun, TypeOK
<1>2. IsFiniteSet(asked[r]) /\ IsFiniteSet(won[r])
  BY <1>1, FS_Subset
<1>3. /\ Succeeded(r) \subseteq Target \union {Deleted}
      /\ \A t \in Target \union {Deleted} : t \in Succeeded(r) <=> "success" \in tried[r][t]
  BY DEF Succeeded, Observed
<1>4. IsFiniteSet(Succeeded(r))
  <2>1. IsFiniteSet(Target \union {Deleted})
    BY FS_AddElement
  <2> QED BY <1>3, <2>1, FS_Subset
<1>5. /\ \A t \in Target : t \in Succeeded(r) => t \in won[r]
      /\ Deleted \in Succeeded(r) => \E t \in won[r] : t \notin Succeeded(r)
      /\ \A t \in won[r] : t \in Succeeded(r) \/ Deleted \in Succeeded(r)
  BY <1>1, <1>3 DEF Tracked
<1>6. Cardinality(Succeeded(r)) <= Cardinality(won[r])
  <2>1. CASE Deleted \notin Succeeded(r)
    <3>1. Succeeded(r) \subseteq won[r]
      BY <1>3, <1>5, <2>1
    <3> QED BY <1>2, <3>1, FS_Subset
  <2>2. CASE Deleted \in Succeeded(r)
    <3>1. PICK t \in won[r] : t \notin Succeeded(r)
      BY <1>5, <2>2
    <3>2. Succeeded(r) \ {Deleted} \subseteq won[r] \ {t}
      BY <1>3, <1>5, <3>1
    <3>3. /\ IsFiniteSet(won[r] \ {t}) /\ IsFiniteSet(Succeeded(r) \ {Deleted})
          /\ Cardinality(won[r] \ {t}) = Cardinality(won[r]) - 1
          /\ Cardinality(Succeeded(r) \ {Deleted}) = Cardinality(Succeeded(r)) - 1
      BY <1>2, <1>4, <2>2, <3>1, FS_RemoveElement
    <3>4. Cardinality(Succeeded(r) \ {Deleted}) <= Cardinality(won[r] \ {t})
      BY <3>2, <3>3, FS_Subset
    <3>5. Cardinality(won[r]) \in Nat /\ Cardinality(Succeeded(r)) \in Nat
      BY <1>2, <1>4, FS_CardinalityType
    <3> QED BY <3>3, <3>4, <3>5
  <2> QED BY <2>1, <2>2
<1>7. Succeeded(r) = {} <=> won[r] = {}
  BY <1>3, <1>5
<1> QED BY <1>1, <1>2, <1>6, <1>7

\* Successes, failures and skipped targets are all that was observed.
LEMMA CountsAddUp ==
  ASSUME NEW r \in Run
  PROVE  Cardinality(Succeeded(r)) + Cardinality(Failed(r)) + Cardinality(Skipped(r))
           = Cardinality(Observed(r))
<1>1. /\ Succeeded(r) \subseteq Observed(r)
      /\ Failed(r) \subseteq Observed(r) \ Succeeded(r)
      /\ Skipped(r) = (Observed(r) \ Succeeded(r)) \ Failed(r)
      /\ Observed(r) \subseteq Target \union {Deleted}
  BY DEF Succeeded, Failed, Skipped, Observed
<1>2. IsFiniteSet(Observed(r))
  <2>1. IsFiniteSet(Target \union {Deleted})
    BY FS_AddElement
  <2> QED BY <1>1, <2>1, FS_Subset
<1> DEFINE rest == Observed(r) \ Succeeded(r)
<1>3. /\ IsFiniteSet(rest)
      /\ Cardinality(rest) = Cardinality(Observed(r)) - Cardinality(Observed(r) \intersect Succeeded(r))
  BY <1>2, FS_Difference, FS_Subset, <1>1
<1>4. Cardinality(rest \ Failed(r)) = Cardinality(rest) - Cardinality(rest \intersect Failed(r))
  <2> HIDE DEF rest
  <2>1. IsFiniteSet(Failed(r))
    BY <1>1, <1>3, FS_Subset DEF rest
  <2> QED BY <1>3, <2>1, FS_Difference
<1>5. Observed(r) \intersect Succeeded(r) = Succeeded(r) /\ rest \intersect Failed(r) = Failed(r)
  BY <1>1
<1>6. /\ Cardinality(Observed(r)) \in Nat /\ Cardinality(Succeeded(r)) \in Nat
      /\ Cardinality(Failed(r)) \in Nat
  BY CountTypes
<1>7. Skipped(r) = rest \ Failed(r)
  BY <1>1
<1> HIDE DEF rest
<1>8. /\ Cardinality(rest) = Cardinality(Observed(r)) - Cardinality(Succeeded(r))
      /\ Cardinality(Skipped(r)) = Cardinality(rest) - Cardinality(Failed(r))
  BY <1>3, <1>4, <1>5, <1>7
<1> QED BY <1>6, <1>8

\* The verdict and the counts of a completed run.
LEMMA CompletedCounts ==
  ASSUME TypeOK, NEW r \in Run
  PROVE  \E targets \in Nat :
           /\ targets >= row[r].targets
           /\ Completed(r).status = Verdict(r, targets) /\ Completed(r).targets = targets
           /\ Completed(r).success + Completed(r).failure + Completed(r).skipped = targets
<1> DEFINE targets == IF Cardinality(Observed(r)) > row[r].targets
                      THEN Cardinality(Observed(r)) ELSE row[r].targets
<1>1. row[r] \in RunRow
  BY DEF TypeOK
<1>2. targets \in Nat /\ targets >= row[r].targets
  BY <1>1, CountTypes DEF RunRow
<1> HIDE DEF targets
<1>3. Completed(r) =
        [row[r] EXCEPT !.status = Verdict(r, targets), !.targets = targets,
           !.success = Cardinality(Succeeded(r)), !.failure = Cardinality(Failed(r)),
           !.skipped = Cardinality(Skipped(r)) + targets - Cardinality(Observed(r))]
  BY DEF Completed, targets
<1>4. /\ Completed(r).status = Verdict(r, targets) /\ Completed(r).targets = targets
      /\ Completed(r).success = Cardinality(Succeeded(r))
      /\ Completed(r).failure = Cardinality(Failed(r))
      /\ Completed(r).skipped = Cardinality(Skipped(r)) + targets - Cardinality(Observed(r))
  BY <1>1, <1>3 DEF RunRow
<1>5. Completed(r).success + Completed(r).failure + Completed(r).skipped = targets
  BY <1>2, <1>4, CountTypes, CountsAddUp
<1> QED BY <1>2, <1>4, <1>5

\* The verdict of a completed run is honest.
LEMMA HonestComplete ==
  ASSUME RunsInv, NEW r \in Run, HonestRun(r), CompleteProbeRun(r)
  PROVE  HonestRun(r)'
<1>1. /\ TypeOK /\ flight'[r].pc = "none" /\ UNCHANGED <<won, asked>>
  BY CompleteStep DEF RunsInv, CompleteProbeRun
<1>2. CASE ~Running(r)
  <2>1. row'[r] = row[r]
    BY <1>2, CompleteStep
  <2> QED BY <1>1, <1>2, <2>1 DEF HonestRun, HonestVerdict, Running
<1>3. CASE Running(r)
  <2>1. row'[r] = Completed(r)
    BY <1>1, <1>3 DEF CompleteProbeRun, TypeOK
  <2>2. PICK targets \in Nat :
          /\ targets >= row[r].targets
          /\ Completed(r).status = Verdict(r, targets) /\ Completed(r).targets = targets
          /\ Completed(r).success + Completed(r).failure + Completed(r).skipped = targets
    BY <1>1, CompletedCounts
  <2>3. /\ IsFiniteSet(asked[r]) /\ won[r] \subseteq asked[r]
        /\ Cardinality(Succeeded(r)) <= Cardinality(won[r])
        /\ Succeeded(r) = {} <=> won[r] = {}
        /\ row[r].targets = Cardinality(asked[r])
    BY <1>1, <1>3, SuccessesAreReal DEF HonestRun, Tracked
  <2>4. ASSUME Cardinality(Succeeded(r)) = targets
        PROVE  won[r] = asked[r]
    <3>1. /\ Cardinality(won[r]) \in Nat /\ Cardinality(asked[r]) \in Nat
          /\ Cardinality(won[r]) <= Cardinality(asked[r])
      BY <2>3, FS_Subset, FS_CardinalityType
    <3>2. Cardinality(won[r]) = Cardinality(asked[r])
      BY <2>2, <2>3, <2>4, <3>1
    <3> QED BY <2>3, <3>2, FS_Subset
  <2>5. /\ row'[r].status = "success" => won[r] = asked[r]
        /\ row'[r].status = "partial" => won[r] # {}
        /\ row'[r].status \in Verdicts
    BY <2>1, <2>2, <2>3, <2>4 DEF Verdict, Verdicts
  <2>6. row'[r].status = "failed" => won[r] = {}
    BY <2>1, <2>2, <2>3 DEF Verdict
  <2>7. row'[r].success + row'[r].failure + row'[r].skipped = row'[r].targets
    BY <2>1, <2>2
  <2> QED BY <1>1, <2>3, <2>5, <2>6, <2>7 DEF HonestRun, HonestVerdict, Running, Verdicts
<1> QED BY <1>2, <1>3

\* A run whose row, results and targets stay, and whose goroutine does not
\* start anything, stays honest.
LEMMA HonestKept ==
  ASSUME NEW r \in Run, HonestRun(r),
         Running(r) => model'[row[r].model].targets = model[row[r].model].targets,
         row'[r] = row[r], tried'[r] = tried[r], won'[r] = won[r], asked'[r] = asked[r],
         \/ flight'[r].pc \in {"none", "completing"}
         \/ flight'[r].pc = flight[r].pc /\ job'[r] = job[r]
  PROVE  HonestRun(r)'
<1>1. Running(r)' => Tracked(r)'
  BY DEF HonestRun, Tracked, Running
<1>2. HonestVerdict(r)'
  BY DEF HonestRun, HonestVerdict
<1> QED BY <1>1, <1>2 DEF HonestRun

\* The row of a new run is honest: nothing has been stored for it.
LEMMA HonestInsert ==
  ASSUME RunsInv, NEW r \in Run, HonestRun(r), InsertProbeRun(r)
  PROVE  HonestRun(r)'
<1>1. /\ flight[r].pc = "starting" /\ flight'[r].pc = "probing"
      /\ UNCHANGED <<model, tried, asked, won>>
  BY InsertStep DEF InsertProbeRun
<1>2. /\ won[r] = {} /\ \A t \in Target \union {Deleted} : tried[r][t] = {}
  BY <1>1 DEF HonestRun
<1>3. row'[r].status = "running" /\ row'[r].targets = Cardinality(asked[r])
  <2>1. row \in [Run -> RunRow]
    BY DEF RunsInv, TypeOK
  <2>2. row'[r] = [NoRun EXCEPT !.status = "running", !.model = flight[r].model,
                                !.age = flight[r].lag, !.targets = Cardinality(asked[r])]
    BY <2>1 DEF InsertProbeRun
  <2> QED BY <2>2 DEF NoRun
<1>4. \A t \in Target : job'[r][t].pc # "done" => t \in asked[r]
  <2>1. job \in [Run -> [Target -> Job]]
    BY DEF RunsInv, TypeOK
  <2>2. job'[r] = [t \in Target |-> IF t \in asked[r] THEN JobAt("queued", MaxKeys)
                                    ELSE JobAt("done", 0)]
    BY <2>1 DEF InsertProbeRun
  <2> QED BY <2>2 DEF JobAt
<1>5. Tracked(r)'
  BY <1>1, <1>2, <1>3 DEF Tracked
<1>6. HonestVerdict(r)'
  BY <1>3 DEF HonestVerdict, Verdicts
<1> QED BY <1>1, <1>2, <1>4, <1>5, <1>6 DEF HonestRun

\* A run that begins has no row and no results.
LEMMA HonestBegin ==
  ASSUME TypeOK, NEW r \in Run, NEW m \in Model, NEW chosen, Begin(r, m, chosen)
  PROVE  HonestRun(r)'
<1>1. /\ row'[r] = NoRun /\ flight'[r].pc = "starting"
  BY BeginStep
<1>2. /\ won'[r] = {} /\ \A t \in Target \union {Deleted} : tried'[r][t] = {}
  BY DEF Begin, TypeOK, NoResults
<1>3. HonestVerdict(r)' /\ ~Running(r)'
  BY <1>1 DEF HonestVerdict, Verdicts, Running, NoRun
<1> QED BY <1>1, <1>2, <1>3 DEF HonestRun

\* A step of a target's goroutine stores a result of a target that is there,
\* and a success is one.
LEMMA HonestJob ==
  ASSUME RunsInv, Closed(Verdicts), NEW r \in Run, NEW t \in Target, HonestRun(r), JobNext(r, t)
  PROVE  HonestRun(r)'
<1>1. /\ UNCHANGED <<model, row, flight, asked>>
      /\ flight[r].pc = "probing" /\ row[r].status \notin Verdicts
  BY JobStep, ProbingStep DEF RunsInv, Closed, ClosedRun
<1>2. job[r][t].pc # "done"
  BY DEF JobNext, TakePermit, TryKey, CheckRun, InsertProbeAttempt, StoreFails
<1>3. t \in asked[r] /\ \A u \in Target : job'[r][u].pc # "done" => u \in asked[r]
  <2>1. \E j : job' = [job EXCEPT ![r][t] = j]
    BY DEF JobNext, TakePermit, TryKey, CheckRun, InsertProbeAttempt, StoreFails, Store, SetJob
  <2>2. job \in [Run -> [Target -> Job]]
    BY DEF RunsInv, TypeOK
  <2>3. \A u \in Target \ {t} : job'[r][u] = job[r][u]
    BY <2>1, <2>2
  <2> QED BY <1>1, <1>2, <2>3 DEF HonestRun
<1>4. HonestVerdict(r)'
  BY <1>1 DEF HonestVerdict, Verdicts
<1>5. CASE UNCHANGED <<tried, won>>
  <2>1. Running(r)' => Tracked(r)'
    BY <1>1, <1>5 DEF HonestRun, Tracked, Running
  <2> QED BY <1>1, <1>3, <1>4, <1>5, <2>1 DEF HonestRun
<1>6. CASE InsertProbeAttempt(r, t)
  <2> DEFINE result == job[r][t].result
  <2>1. /\ won \in [Run -> SUBSET Target]
        /\ tried \in [Run -> [Target \union {Deleted} -> SUBSET Result]]
        /\ t \in model[row[r].model].targets
    BY <1>6 DEF RunsInv, TypeOK, InsertProbeAttempt
  <2>2. /\ won'[r] = IF result = "success" THEN won[r] \union {t} ELSE won[r]
        /\ tried'[r][t] = tried[r][t] \union {result}
        /\ \A u \in (Target \union {Deleted}) \ {t} : tried'[r][u] = tried[r][u]
    BY <1>6, <2>1 DEF InsertProbeAttempt
  <2> HIDE DEF result
  <2>3. won'[r] \subseteq asked[r]
    BY <1>3, <2>2 DEF HonestRun
  <2>4. ASSUME Running(r) PROVE Tracked(r)'
    <3>1. Tracked(r) /\ UNCHANGED <<row, model, asked>> /\ Deleted # t
      BY <1>1, <2>4 DEF HonestRun
    <3> DEFINE present == model[row[r].model].targets
    <3>2. row[r].targets = Cardinality(asked[r])
      BY <3>1 DEF Tracked
    <3>3. \A u \in Target \ present : tried'[r][u] = {}
      BY <2>1, <2>2, <3>1 DEF Tracked
    <3>4. \A u \in Target : "success" \in tried'[r][u] => u \in won'[r]
      BY <2>2, <3>1 DEF Tracked
    <3>5. "success" \in tried'[r][Deleted] => \E u \in won'[r] : u \notin present
      BY <2>2, <3>1 DEF Tracked
    <3>6. \A u \in won'[r] : "success" \in tried'[r][u] \/ "success" \in tried'[r][Deleted]
      BY <2>1, <2>2, <3>1 DEF Tracked
    <3> QED BY <3>1, <3>2, <3>3, <3>4, <3>5, <3>6 DEF Tracked
  <2>5. Running(r)' => Running(r)
    BY <1>1 DEF Running
  <2> QED BY <1>1, <1>3, <1>4, <2>3, <2>4, <2>5 DEF HonestRun
<1> QED BY <1>5, <1>6 DEF JobNext, TakePermit, TryKey, CheckRun, StoreFails

\* A target that is deleted takes its results to those without a target.
LEMMA HonestDelete ==
  ASSUME RunsInv, NEW r \in Run, HonestRun(r),
         NEW m \in Model, NEW t \in Target, DeleteRouteSiteTarget(m, t)
  PROVE  HonestRun(r)'
<1>1. /\ UNCHANGED <<row, flight, job, asked, won>>
      /\ model \in [Model -> ModelRow]
      /\ tried \in [Run -> [Target \union {Deleted} -> SUBSET Result]]
      /\ Deleted # t
  BY DEF DeleteRouteSiteTarget, RunsInv, TypeOK
<1>2. /\ model'[m].targets = model[m].targets \ {t}
      /\ \A n \in Model \ {m} : model'[n] = model[n]
  BY <1>1 DEF DeleteRouteSiteTarget, ModelRow
<1>3. CASE row[r].model # m
  <2>1. tried'[r] = tried[r]
    BY <1>3 DEF DeleteRouteSiteTarget
  <2>2. Running(r) => model'[row[r].model].targets = model[row[r].model].targets
    BY <1>2, <1>3 DEF RunsInv, OfAModel
  <2> QED BY <1>1, <2>1, <2>2, HonestKept
<1>4. CASE row[r].model = m
  <2>1. /\ tried'[r][Deleted] = tried[r][Deleted] \union tried[r][t] /\ tried'[r][t] = {}
        /\ \A u \in Target \ {t} : tried'[r][u] = tried[r][u]
    <3>1. tried'[r] = [tried[r] EXCEPT ![Deleted] = tried[r][Deleted] \union tried[r][t],
                                       ![t] = {}]
      BY <1>4 DEF DeleteRouteSiteTarget
    <3> QED BY <1>1, <3>1
  <2>2. flight[r].pc # "starting"
    BY <1>4 DEF HonestRun, NoRun
  <2>3. ASSUME Running(r) PROVE Tracked(r)'
    <3> DEFINE present == model[m].targets
    <3>1. /\ row[r].targets = Cardinality(asked[r])
          /\ \A u \in Target \ present : tried[r][u] = {}
          /\ \A u \in Target : "success" \in tried[r][u] => u \in won[r]
          /\ "success" \in tried[r][Deleted] => \E u \in won[r] : u \notin present
          /\ \A u \in won[r] : "success" \in tried[r][u] \/ "success" \in tried[r][Deleted]
      BY <1>4, <2>3 DEF HonestRun, Tracked
    <3>2. won[r] \subseteq Target
      BY DEF RunsInv, TypeOK
    <3> HIDE DEF present
    <3>3. /\ \A u \in Target \ (present \ {t}) : tried'[r][u] = {}
          /\ \A u \in Target : "success" \in tried'[r][u] => u \in won[r]
          /\ "success" \in tried'[r][Deleted] => \E u \in won[r] : u \notin present \ {t}
          /\ \A u \in won[r] : "success" \in tried'[r][u] \/ "success" \in tried'[r][Deleted]
      BY <2>1, <3>1, <3>2
    <3>4. model'[row'[r].model].targets = present \ {t}
      BY <1>1, <1>2, <1>4 DEF present
    <3> QED BY <1>1, <3>1, <3>3, <3>4 DEF Tracked
  <2>4. HonestVerdict(r)' /\ (Running(r)' => Running(r))
    BY <1>1 DEF HonestRun, HonestVerdict, Running
  <2> QED BY <1>1, <2>2, <2>3, <2>4 DEF HonestRun
<1> QED BY <1>3, <1>4

\* Changes of a model leave its targets alone, or take its runs with it.
LEMMA HonestAdmin ==
  ASSUME RunsInv, NEW r \in Run, HonestRun(r), NEW m \in Model,
         \/ \E status \in {"monitored", "unmonitored"}, d \in Deadlines :
              UpdatePublishedModel(m, status, d)
         \/ DeletePublishedModel(m)
  PROVE  HonestRun(r)'
<1>1. /\ UNCHANGED <<flight, job, asked, won>>
      /\ model \in [Model -> ModelRow]
      /\ \A n \in Model \ {m} : model'[n] = model[n]
  BY DEF UpdatePublishedModel, DeletePublishedModel, RunsInv, TypeOK
<1>2. ASSUME NEW status \in {"monitored", "unmonitored"}, NEW d \in Deadlines,
             UpdatePublishedModel(m, status, d)
      PROVE  HonestRun(r)'
  <2>1. model'[m].targets = model[m].targets /\ UNCHANGED <<row, tried>>
    BY <1>1, <1>2 DEF UpdatePublishedModel, ModelRow
  <2>2. Running(r) => model'[row[r].model].targets = model[row[r].model].targets
    BY <1>1, <2>1 DEF RunsInv, OfAModel
  <2> QED BY <1>1, <2>1, <2>2, HonestKept
<1>3. CASE DeletePublishedModel(m)
  <2>1. CASE row[r].model = m
    <3>1. row'[r] = NoRun /\ tried'[r] = NoResults
      BY <1>3, <2>1 DEF DeletePublishedModel
    <3>2. HonestVerdict(r)' /\ ~Running(r)'
      BY <3>1 DEF HonestVerdict, Verdicts, Running, NoRun
    <3>3. \A t \in Target \union {Deleted} : tried'[r][t] = {}
      BY <3>1 DEF NoResults
    <3> QED BY <1>1, <3>1, <3>2, <3>3 DEF HonestRun
  <2>2. CASE row[r].model # m
    <3>1. row'[r] = row[r] /\ tried'[r] = tried[r]
      BY <1>3, <2>2 DEF DeletePublishedModel
    <3>2. Running(r) => model'[row[r].model].targets = model[row[r].model].targets
      BY <1>1, <2>2 DEF RunsInv, OfAModel
    <3> QED BY <1>1, <3>1, <3>2, HonestKept
  <2> QED BY <2>1, <2>2
<1> QED BY <1>2, <1>3

\* Time only changes the age of a row.
LEMMA HonestTick ==
  ASSUME RunsInv, NEW r \in Run, HonestRun(r), Tick
  PROVE  HonestRun(r)'
<1>1. flight'[r].pc = flight[r].pc /\ UNCHANGED <<model, tried, job, asked, won>>
  BY TickStep DEF Tick
<1>2. CASE ~Running(r)
  <2>1. row'[r] = row[r]
    BY <1>2 DEF Tick
  <2> QED BY <1>1, <2>1, HonestKept
<1>3. CASE Running(r)
  <2>1. row[r] \in RunRow
    BY DEF RunsInv, TypeOK
  <2>2. row'[r] = [row[r] EXCEPT !.age = Older(row[r].age, MaxDeadline + Grace)]
    BY <1>3 DEF Tick
  <2>3. /\ row'[r].status = "running" /\ row'[r].model = row[r].model
        /\ row'[r].targets = row[r].targets
    BY <1>3, <2>1, <2>2 DEF Running, RunRow
  <2>4. Tracked(r)'
    BY <1>1, <1>3, <2>3 DEF HonestRun, Tracked
  <2>5. HonestVerdict(r)' /\ flight[r].pc # "starting"
    BY <1>3, <2>3 DEF HonestRun, HonestVerdict, Verdicts, NoRun, Running
  <2> QED BY <1>1, <2>4, <2>5 DEF HonestRun
<1> QED BY <1>2, <1>3

\* Every step keeps what is stored true.
LEMMA HonestStep ==
  ASSUME RunsInv, Closed(Verdicts), Honest, [Next]_vars
  PROVE  Honest'
<1> SUFFICES ASSUME NEW r \in Run PROVE HonestRun(r)'
  BY DEF Honest
<1>1. /\ HonestRun(r) /\ TypeOK
      /\ row \in [Run -> RunRow] /\ job \in [Run -> [Target -> Job]]
      /\ tried \in [Run -> [Target \union {Deleted} -> SUBSET Result]]
      /\ won \in [Run -> SUBSET Target] /\ asked \in [Run -> SUBSET Target]
  BY DEF Honest, RunsInv, TypeOK
<1>2. ASSUME UNCHANGED <<model, row, tried, flight, job, asked, won>> PROVE HonestRun(r)'
  BY <1>1, <1>2, HonestKept
<1>3. ASSUME NEW q \in Run, NEW m \in Model, NEW chosen, Begin(q, m, chosen),
             UNCHANGED <<model, job>>
      PROVE  HonestRun(r)'
  <2>1. CASE q = r
    BY <1>1, <1>3, <2>1, HonestBegin
  <2>2. CASE q # r
    <3>1. /\ flight'[r] = flight[r] /\ row'[r] = row[r]
          /\ tried'[r] = tried[r] /\ asked'[r] = asked[r] /\ won'[r] = won[r]
      BY <1>1, <1>3, <2>2, BeginStep DEF Begin
    <3> QED BY <1>1, <1>3, <3>1, HonestKept
  <2> QED BY <2>1, <2>2
<1>4. CASE SchedulerNext
  <2>1. CASE ExpireStaleProbeRuns
    <3>1. UNCHANGED <<model, tried, flight, job, asked, won>>
      BY <2>1 DEF ExpireStaleProbeRuns
    <3>2. CASE row'[r] = row[r]
      BY <1>1, <3>1, <3>2, HonestKept
    <3>3. CASE row'[r] # row[r]
      <4>1. Running(r) /\ row'[r].status = "cancelled"
        BY <1>1, <2>1, <3>3 DEF ExpireStaleProbeRuns, Stale, RunRow
      <4>2. HonestVerdict(r)' /\ ~Running(r)' /\ flight[r].pc # "starting"
        BY <1>1, <4>1 DEF HonestRun, HonestVerdict, Verdicts, Running, NoRun
      <4> QED BY <1>1, <3>1, <4>2 DEF HonestRun
    <3> QED BY <3>2, <3>3
  <2>2. CASE ListDuePublishedModels \/ SweepEnds
    BY <1>2, <2>2 DEF ListDuePublishedModels, SweepEnds
  <2>3. CASE \E m \in Model : TakeModel(m)
    BY <1>2, <1>3, <2>3 DEF TakeModel, Run
  <2> QED BY <1>4, <2>1, <2>2, <2>3 DEF SchedulerNext
<1>5. ASSUME NEW q \in Run, RunNext(q) \/ CancelContext(q) PROVE HonestRun(r)'
  <2>1. CASE InsertProbeRun(q)
    <3>1. q # r => /\ flight'[r] = flight[r] /\ row'[r] = row[r] /\ job'[r] = job[r]
                   /\ UNCHANGED <<model, tried, asked, won>>
      BY <1>1, <2>1, InsertStep DEF InsertProbeRun
    <3> QED BY <1>1, <2>1, <3>1, HonestInsert, HonestKept
  <2>2. CASE CompleteProbeRun(q)
    <3>1. q # r => /\ flight'[r] = flight[r] /\ row'[r] = row[r]
                   /\ UNCHANGED <<model, tried, job, asked, won>>
      BY <2>2, CompleteStep DEF CompleteProbeRun
    <3> QED BY <1>1, <2>2, <3>1, HonestComplete, HonestKept
  <2>3. CASE \/ InsertProbeRunFails(q) \/ CancelContext(q)
             \/ WorkersJoin(q) \/ CompleteProbeRunFails(q)
    <3>1. UNCHANGED <<model, row, tried, job, asked, won>>
      BY <2>3 DEF InsertProbeRunFails, CancelContext, WorkersJoin, CompleteProbeRunFails
    <3>2. flight'[r].pc \in {"none", "completing", flight[r].pc}
      BY <2>3, StopStep
    <3> QED BY <1>1, <3>1, <3>2, HonestKept
  <2>4. ASSUME NEW t \in Target, JobNext(q, t) PROVE HonestRun(r)'
    <3>1. CASE q = r
      BY <1>1, <2>4, <3>1, HonestJob
    <3>2. CASE q # r
      <4>1. UNCHANGED <<model, row, flight, asked>>
        BY <1>1, <2>4, JobStep DEF RunsInv
      <4>2. job'[r] = job[r]
        <5>1. \E j : SetJob(q, t, j)
          BY <2>4 DEF JobNext, TakePermit, TryKey, CheckRun, InsertProbeAttempt, StoreFails, Store
        <5> QED BY <1>1, <3>2, <5>1 DEF SetJob
      <4>3. tried'[r] = tried[r] /\ won'[r] = won[r]
        <5>1. CASE InsertProbeAttempt(q, t)
          BY <1>1, <3>2, <5>1 DEF InsertProbeAttempt
        <5>2. CASE TakePermit(q, t) \/ TryKey(q, t) \/ CheckRun(q, t) \/ StoreFails(q, t)
          BY <5>2 DEF TakePermit, TryKey, CheckRun, StoreFails
        <5> QED BY <2>4, <5>1, <5>2 DEF JobNext
      <4> QED BY <1>1, <4>1, <4>2, <4>3, HonestKept
    <3> QED BY <3>1, <3>2
  <2> QED BY <1>5, <2>1, <2>2, <2>3, <2>4 DEF RunNext
<1>6. CASE AdminNext
  <2>1. CASE \E q \in Manual, m \in Model, chosen \in SUBSET Target : ProbeByHand(q, m, chosen)
    BY <1>3, <2>1 DEF ProbeByHand, Run
  <2> QED BY <1>1, <1>6, <2>1, HonestAdmin, HonestDelete DEF AdminNext
<1>7. CASE Tick
  BY <1>1, <1>7, HonestTick
<1>8. CASE Restart
  BY <1>1, <1>8, RestartStep, HonestKept DEF Restart
<1>9. CASE UNCHANGED vars
  BY <1>2, <1>9 DEF vars
<1> QED BY <1>4, <1>5, <1>6, <1>7, <1>8, <1>9 DEF Next

\* The verdict of a run is what happened (CompleteProbeRun, InsertProbeAttempt):
\* "success" only when a success of every target it set out to probe was stored,
\* "failed" only when of none, whatever is deleted, refused or cut short, for
\* any deadlines.
THEOREM VerdictsAreHonest == Spec => []VerdictIsHonest
<1>1. Init => Closed(Verdicts) /\ Honest
  <2>1. Init => \A r \in Run : /\ row[r].status = "none" /\ flight[r].pc = "none"
                               /\ won[r] = {} /\ asked[r] = {}
    BY DEF Init, NoRun, NoFlight
  <2>2. Init => \A r \in Run, t \in Target : job[r][t].pc = "done"
    BY DEF Init, NoJobs, JobAt
  <2> QED BY <2>1, <2>2 DEF Closed, ClosedRun, Honest, HonestRun, HonestVerdict, Running, Verdicts
<1>2. RunsInv /\ Closed(Verdicts) /\ [Next]_vars => Closed(Verdicts)'
  BY ClosedStep DEF Ends, Verdicts
<1>3. RunsInv /\ Closed(Verdicts) /\ Honest /\ [Next]_vars => Honest'
  BY HonestStep
<1>4. Honest => VerdictIsHonest
  BY DEF Honest, HonestRun, HonestVerdict, VerdictIsHonest, Verdicts
<1> QED BY <1>1, <1>2, <1>3, <1>4, RunsInvariant, PTL DEF Spec

=============================================================================

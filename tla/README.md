# JieShan: a TLA+ model of the gateway

JieShan is a self-hosted gateway for AI inference. Clients hold *downstream
keys* with a quota; an operator configures *sites* (upstream providers) with API
keys and publishes *models*, each routed over an ordered list of *site targets*.
The program is one Go process over one SQLite database (`internal/store`) with
one writer at a time; concurrency comes from the goroutines of HTTP handlers, of
timers, of the monitor scheduler and of account synchronisation, and every
goroutine works on snapshots it read before its last transaction.

This directory holds TLA+ models of the program's core, the TLC configurations
that check them, and machine-checked proofs about them. The source is the
reference: every definition is translated from the code it names in
`PROJECT.json` ("map").

## The system

| Component | State | Operations | What makes it hard | What makes it correct |
|---|---|---|---|---|
| Quota accounting (`store/logs.go`, `keys.go`, `recovery.go`) | `downstream_keys`, `request_logs`, `quota_ledger` | create, update, delete, reset a key; authenticate; reserve; finish and settle; clean up logs; recover at startup | concurrent reservations, stale key snapshots, a settlement repeated after an error whose commit went through, crashes between the two transactions | no key is overspent, each request is settled once, reservations are exactly those of running requests, recovery leaves none |
| Circuit breaker (`store/v4_health.go`, `health/health.go`) | one row of `route_site_target_health` per target, the policy of its model | take a permit, record success, failure, unsupported, change the policy | each event carries a clock read before its transaction; leases run out while their holder is in flight | opening takes two independent failures, a cooldown is respected, one trial at a time, a target never becomes unreachable |
| Streaming attempt (`gateway/stream_watchdog.go`, `gateway.go`) | the copy loop, the watchdog's fields, its timer, the attempt's context | read a line, report output or activity, write, stop, expire, cancel | a timer callback that has started cannot be revoked; three threads share one mutex | nothing is retried after a byte was sent, a cut stream is never a success, a stalled one ends |
| Request handler (`gateway/v3.go`) | position in the route, what was answered, what is owed | walk over sites and keys, call, blame, answer, settle | early returns in nested loops, a client that leaves, a deadline that passes | charged exactly for output, no retry after output, blame only for site failures, no site forgotten |
| Monitor scheduler and probe runs (`monitor/scheduler.go`, `store/v4_runs.go`, `v4_monitor.go`, `gateway/v3_probe.go`) | `probe_runs`, `probe_attempts`, the due list | list due models, start, expire, complete a run, manual probe | the due list is a snapshot; expiry against a live run; restart | at most one run per model at a time, every run ends, a late completion changes nothing |
| Credential pool (`store/v3_inference.go`) | runtime state, cooldown and order of a site's keys | select, record a result, replace the secret | results that arrive after the secret was replaced | a result only concerns the secret that produced it |
| Discovery (`store/v4_discovery_apply.go`, `httpapi/v2_discovery.go`) | discovery runs, catalogue of a site with missing counts | start, collect, apply, reject stale | partial results, superseded runs | a model becomes unavailable only after independent complete runs without it |
| Route administration (`store/v3_published.go`, `v3_sites.go`, `v3_models.go`, `routing_profiles.go`) | published models, targets, revisions | create, update, activate, reorder, delete | concurrent editors, references to what another editor deletes | no lost update, an active model has a usable route |
| Account synchronisation (`accountsync/service.go`) | account rows, encrypted credentials, snapshots | configure, refresh, rotate | rotation invalidates the old credentials before the new ones are stored | the valid credentials are never lost |
| Login limiter and sessions (`httpapi/login_limiter.go`, `auth/service.go`) | a bounded table of failures, sessions | allow, failure, success, prune, evict | a full table | backoff holds for whoever is in the table |
| Rate windows (`store/keys.go`) | requests per key and minute | consume | the minute boundary, pruning | never more than the limit in one window |
| Billing (`billing/engine.go`, `catalog.go`) | price catalogue | estimate, settle amount | rounding, width | reservation bounds the charge |
| Legacy circuit and gateway (`gateway/gateway.go`, `store/health.go`, `gateway/probe.go`) | `target_health`, the walk over the candidates of a legacy route | request, probe, permit, success, failure | its own circuit next to the one above, and its own early returns | charged for output, one trial at a time |
| Legacy migration (`store/v5_legacy_migration.go`) | two catalogues and the mappings between them | preview, apply, and every edit of either side | a plan applied later than it was shown, upstreams that fall together in one site, repeated runs | what was reviewed is what is created, once; what could be served still can |

How they interact: a handler authenticates a key, reserves quota
(`StartRequestWithReservation`), takes a circuit permit for each site it tries
(`AcquireRouteSiteTargetPermit`), calls the upstream with each eligible key of
the site, streams under a watchdog, records the result on the target's health
row and on the credential, and settles (`FinishRequestAndSettle`). The monitor
takes the same permits and reports to the same rows. The operator's HTTP API
changes all of these rows under the running requests. Everything meets in the
database, so the unit of atomicity is one SQLite transaction; between two of
them anything may happen.

## Modules

| Module | Role |
|---|---|
| `QuotaLedger` | quota accounting: rows, gateway memory, crash and restart |
| `PrepaidKeys` | what quota accounting promises; `QuotaLedger` implements it |
| `TargetCircuit` | circuit breaker of one target with its live requests and probes |
| `StreamAttempt` | one streaming attempt against its watchdog |
| `GatewayRequest` | one request over its route |
| `ProbeRuns` | sweeps of the monitor, manual probes and the rows of their runs |
| `Catalogue` | sites, endpoints, keys, models, the published model and its route; discoveries; a page of the panel |
| `AccountSync` | provider accounts whose tokens rotate while they are refreshed |
| `AdmissionLimits` | failed logins and requests per minute |
| `LegacyMigration` | preview and apply between the legacy catalogue and the sites |
| `LegacyGateway` | requests and probes of a legacy route with the legacy circuit |
| `Administration` | the last four side by side |
| `MC...` | instances for TLC: symmetry, sets of policies, scenes |
| `LegacyProofs`, `AdministrationProofs` | theorems about the legacy modules; about accounts, limits and all four together |
| `...Proofs` | theorems about the module of that name |

The components are modelled apart because their interfaces are narrow:
`GatewayRequest` takes the answer of the permit (`PermitRefused`,
`PermitGranted`, `PermitFails`), the verdict of a stream (`StreamCommits`,
`StreamSucceeds`, `StreamBreaks`, `StreamLeft`) and the outcome of the settlement
(`FinishSucceeds`, `FinishFails`, `DeferredFinish`) as nondeterministic choices,
so what it shows holds whatever the others do. In the same way `QuotaLedger`
lets a handler finish with any amount, at any moment and twice.

### QuotaLedger

An action is one transaction. `keys`, `log` and `ledger` are the three tables;
`gw[r]` is what the handler of request `r` holds in memory: the key it
authenticated, whether it then looked finite, and what it reserved. An error
whose transaction rolled back is `FinishFails`; one whose commit went through but
whose answer was lost is `FinishAcknowledgementLost`, after which the deferred
handler finishes again. `Crash` drops the memory at any point,
`RecoverRunningRequests` is the startup transaction with all of its consistency
checks. "Enabled" and "not expired" are one flag. Amounts are small numbers and
`MaxInt` stands for the largest int64, so that the overflow guards matter.

`PrepaidKeys` is the abstract specification: a key is a prepaid account, a request
holds an amount of it from its start until it ends once, with a charge or without
one; there are no logs, goroutines or crashes. The refinement mapping of
`QuotaLedger` (`Prepaid`) reads the account from the key's row, the stage of a request
from its log row and its hold from the reservation of that row. `FinishFails`, the
second call of a repeated settlement and the crash map to stuttering steps, the
startup recovery to `Release`. It says in one property that reservations are backed by
running requests, that settlements happen once, and that recovery is complete.

### TargetCircuit

`health` is the row, `policy` the model's policy columns, `attempt[a]` the
progress of a live request or a probe: it reads the clock (`Ask`), takes the
permit some time later (up to `MaxWait`, the wait for SQLite's write lock),
flies until its own deadline at the latest, and again reads the clock before it
stores its result. The reducer is split as in the code: the row after a success,
a failure, an unsupported result. `trials` and `blame` are history variables.
A target's transactions touch no other target's row, so one target stands for
all.

### StreamAttempt

Every critical section of the watchdog's mutex is one action, every blocking
read or write another. `expiring` counts timer callbacks that started and wait
for the mutex: Go's `Timer.Reset` does not revoke them. `cancels` is the moment
between the callback's unlock and its call of `cancel`. Time is counted down in
`timer`, so no clock is bounded.

### GatewayRequest

`at` is the program counter with the loop variables, `keys` the route, `budget`
`maxSiteAttempts`. Each return, `continue` and `break` of the nested loops is a
disjunct. The history variable `log` gives each site's fate, `blamed` the sites a
failure was stored for. Writes made under `r.Context()` may be lost once the
client has left.

### ProbeRuns

`sched` is the sweep: expiry, then the list of due models, a snapshot that two
workers use up, then the wait for both. `flight[r]` is the goroutine that runs
`ProbePublishedModel`, `job[r][t]` the one that probes target `t`, `row` and `tried`
are `probe_runs` and `probe_attempts`. `InsertProbeAttempt` is two statements
without a transaction, so two actions. A run id is used again for a later run once
its run has ended, so behaviours do not end when the ids are used up. Times
are ages of rows and what is left of contexts, cut off where nothing can tell them
apart any more; the goroutines are given bounded time to insert a row after they
read the clock (`MaxWait`) and to store results after their context has ended
(`MaxSettle`), as the code's timeouts of a few seconds do. Two things are not
represented: more than 50 due models in one sweep (the rest waits for the next one) and
more than three targets of one model (a target may wait for its turn as long as
it likes here). `asked` and `won` are history variables.

### Catalogue

An action is one transaction of the administration API or one statement of a
discovery. Ids are never used again. `SiteOf` fixes the site of endpoints and keys,
which the code cannot change either. `override` is the order of one routing profile.
There is one published model: transactions on another one touch the same sites in the
same way and none of its rows. The revisions that are kept are those some page or run
compares: of sites, endpoints and the published model. `run[r]` walks through the
reads of `RunModelDiscovery` (site, endpoint, keys, one secret after the other), the
calls, and the transaction of `ApplyModelDiscoveryRun`, in which a run that is no
longer current is refused; `RefuseRun`, `FailModelDiscoveryRun`,
`CompleteModelDiscoveryRun` and `AbandonRun` (the browser left, or the process
stopped) end it. What an upstream lists is a function of the URL and the secret; a
call may return all of it, some of it (a page that failed) or fail. `view` is a page of
the panel, read in the statements of its handler, and `seen` what it shows; a later save
carries its revision (`Checked`) or none (`Unchecked`). `misses` is a history
variable: the runs whose complete list of a key truly lacked the name.

### AccountSync

`worker[w]` is a goroutine: one of the HTTP handlers or the sweep. It waits for the
owner's mutex (`Lock`) or gives up (`Refresh` is `TryLock`), reads, calls the provider
and writes. Every call may exchange the token pair, with or without success
(`CallRotates`), and the answer to the exchange may get lost (`RotationUnanswered`). Both
final writes may fail, a closed browser among the reasons; the process may restart. What
is due is any set of enabled accounts, so no time is needed. The site half and the
legacy half of the service are the same code twice: an owner is either.

### AdmissionLimits

The failed-login table with pruning, eviction and backoff and the single slot of the
password check; and the rate windows of a key. In both the clock is read before it is
used, and others act in between. `accepted` and `widest` are history variables.

### LegacyMigration

`ApplyLegacyMigration` is one transaction and one action; the previewed plan is
`shown`, its fingerprint the flag `current` (a write to any row of the fingerprinted
tables clears it, which is what a hash over these rows does). The counts of the plan
and the rows of the apply are computed apart, as in the code: `Plan` counts,
`EndpointAfter`, `ModelAfter`, `AccountAfter` and `Kept` build. Live traffic changes
`target_health`, which the fingerprint covers; that only makes a plan stale sooner.

### LegacyGateway

`caller[c]` is the goroutine of a request or a probe with what is left of its plan.
`since` is the clock at its last step: a statement runs with any clock read since, up to
`MaxWait` old. The rows of probe results and the schedule of legacy probe jobs are
left out.

## Runs

| Run | Bounds | Shows |
|---|---|---|
| `quota_ledger` | 1 key, 3 requests, quotas 2 and 3, amounts 0 and 2, `MaxInt` 5 | never overspent, settlement never refused, spending journaled, every orphan of a crash finished by the next startup, and the refinement `KeysArePrepaid` |
| `target_circuit` | 3 live requests, 1 probe with one key, 2 policies, clock up to 5 | independent failures, one trial, cooldowns, recovery horizon |
| `circuit_keys` | as above with a probe of two keys | *violated*: two trials in one half-open episode |
| `circuit_order` | 2 live requests, one policy | *violated*: a second failure in the window that does not open |
| `stream_attempt` | first-output timeout 3, idle timeout 2, 3 lines, 2 callbacks at once | retry only if silent, a cut is no success, a stalled stream ends |
| `stream_idle` | timeouts 2, 2 lines, 1 callback | *violated*: a stream that was not idle is cut as idle |
| `probe_schedule` | 1 model, 1 target, 2 run ids of the scheduler, 1 restart, deadline 1, grace 2 | one scheduled run of a model at a time, every run ends |
| `probe_verdict` | 1 model, 2 targets, 2 keys, 1 manual run id, 1 restart, deadline 1, grace 3 | honest verdicts, only dead runs expire, ended runs are closed |
| `probe_expiry` | as above with 1 target and deadlines 1 and 3 | *violated*: a live run is expired |
| `gateway_request` | routes of up to 3 sites with up to 2 keys each, every budget | charge, blame, no site forgotten, no retry after output, the request ends |
| `catalogue` | three scenes: one discovery of two keys next to 2 edits of its site; two overlapping discoveries; a route over 2 sites, 2 targets, 1 profile and a page under 3 edits | routes stay sound, coverage is earned, evidence is current, no stale write |
| `administration` | six scenes: 1 owner, 2 logins, 2 rotations, 1 handler and the sweep; 3 clients, 2 logins, a table of 2; 1 key, 2 requests, limits 0 to 2; 3 upstreams of 2 origins with 2 edits; 2 legacy requests and a probe on one cooling target; one request over two targets in any state | credentials are kept, blocks and rate limits hold, the reviewed plan is what is applied and keeps what could be served, one legacy trial, legacy requests are charged for output |

Why the bounds are enough. Two requests compete for a quota and a third arrives
between the reservation and the settlement of another; quotas of 2 and 3 with
amounts up to 2 give exact fits, refusals, settlements above and below the
reservation, and a lowered quota; `MaxInt` 5 is reached by unlimited keys. One key
is enough because a transaction only touches the rows of one key, recovery apart, which
treats them one by one.
Opening needs two failures, the third live request and the probe compete for the
trial after it; the clock covers an opening, its cooldown, a lease and what
follows. In a stream, the third line distinguishes the first output, an activity
and a race with the callback of each phase. A handler with three sites has a first,
a middle and a last one, and two keys let key-local failures mix. A second run
id shows that the scheduler never needs it for the same model; runs of other
models do not touch the rows of this one. Two targets give every verdict, two keys an
attempt that is followed by another, one restart the orphan that a sweep has to expire.
In the catalogue, coverage takes two runs, which may overlap; one edit can outdate
a run between any two of its reads and a second one can undo the first; a page is shown,
changed behind its back and saved with three. Two logins let an administrator replace
credentials that rotate, two generations let a refresh rotate twice. A table of two with
three clients evicts; the clock passes two windows, after which rows are pruned. Three
upstreams give two groups, one of them with two members that merge, and the edits
come before, between and after preview and apply.

In `target_circuit` the clock stops at `MaxTime` and attempts are used once, and
in `circuit_order` likewise: those runs really end. So do `catalogue` and
`administration`, whose edits, rotations and clocks are bounded (`MaxEdits`,
`MaxGeneration`, `MaxTime`, `MaxChanges`, `Horizon`). Everywhere else a terminal
state is an explicit stuttering action and deadlock is checked.

The two last runs have scenes because their parts share no state: each starts in the
scene it is asked about and stays in it, so the state spaces add instead of
multiplying. A scene restricts initial states and which parts move, not what an action
does, except that `trials` leaves streams and disconnections to `walk`.

Fairness. `quota_ledger` assumes only that a stopped process is started again
and its startup completes. `stream_attempt` assumes that the loop's goroutine and a
timer callback that started both run, that a due timer fires and that time
passes; nothing is assumed of the upstream, which may fall silent at any time, nor
of the client, whose departure is optional. A write to the client is assumed to
return: the HTTP server of `app/app.go` sets no write timeout, so a client
that stops reading without closing its connection can hold a handler, and that
case is outside the model. `probe_schedule` assumes that the
scheduler, the goroutines of a run and time go on, and at most one restart; time
gets strong fairness because a goroutine that is due holds it back for a moment.
`gateway_request` assumes that the handler goes on and each upstream call returns, which
its context's deadline ensures. `catalogue` and `administration` state no liveness.

## Where the code and its documents differ

* **Two trials in one half-open episode** (`circuit_keys`). `docs/architecture.md`
  says that after the cooldown one half-open request is allowed. A probe leases
  the trial for one first-output timeout plus five seconds
  (`gateway/v3_probe.go:135`) but may use that timeout once per key
  (`v3_probe.go:163-174`), so its lease can run out in flight.
  `OneTrialPerEpisode` holds, and is proved, when a probe's flight fits its lease.
* **A second failure that does not open** (`circuit_order`). The time of a failure is
  read before its transaction. When two failures are stored in the opposite order
  of their times, `store/v4_health.go:163` takes the earlier one for outside the
  window and restarts the streak.
* **A live run that is expired** (`probe_expiry`). The comment on the expiry says its
  grace period is longer than the deadline a probe works under. It is counted from
  the deadline the model has at the sweep (`store/v4_monitor.go:20`), and a run keeps the
  one it read at its start: shortened meanwhile, a manual run is cancelled
  while it works. `OnlyDeadRunsExpire` holds, and is proved, for one unchanging deadline. (Scheduled runs
  are safe in any case: a sweep waits for its own before the next one expires anything.)
* **An idle cut without idleness** (`stream_idle`). A timer callback that waits for
  the mutex while the handler records activity still fires, with the phase it then
  finds (`gateway/stream_watchdog.go:47`, `:74`).

Observed while modelling, without a run of their own:

* `docs/architecture.md:145-147` says the results of a discovery are applied only when
  the run is complete. A partial run is applied as well (`httpapi/v2_discovery.go`): what it
  found becomes supported, but only complete lists count as misses, so `UnsupportedIsEarned` holds.
* The row of a discovery stays "running" for good when its browser leaves at the wrong moment
  or the process stops; nothing recovers it. No other code depends on it.
* Deleting a target cascades into a profile's order without a new revision of the
  profile, so the profile's page is not among those `NoStaleWrite` speaks of.
* A refresh by hand runs under the browser's request. Closed after the provider has exchanged
  the tokens, both final writes fail and the new pair is lost: one of the exceptions of
  `CredentialsAreKept`, recorded in `lost`.
* The migration copies an account's credentials and leaves the legacy account enabled. Both
  are then refreshed under different mutexes, and the first rotation invalidates the other's pair.
* If the previous refresh stored its snapshot although the usage call failed, the next
  incremental usage window begins at that success: usage in between is not fetched.
* The migration counts the targets of two groups that share a site apart and creates them once;
  a disabled upstream or model merged into the same endpoint may decide its flag
  (`GroupsApart` and `Undisputed` name the two cases in the properties). A mapped upstream
  whose site endpoint was deleted makes every later apply fail although the preview allows it.
* A failed login stamped with an older clock may shorten a block, though not lift it.
* The legacy circuit (`store/health.go`) resets its failure count when it opens, so a third late
  failure inside the window counts as the first of a new streak and closes the circuit again,
  which the sentence of `docs/architecture.md:126-128` does not expect.

## Proofs

TLC checks the instances above; the theorems hold for every value of the
constants that satisfies the named assumptions.

**QuotaLedgerProofs.** `QuotaInv` joins `TypeOK`, `QuotaNeverOverspent` and
`UsageFitsWidth` and is inductive as it stands: a reservation is admitted
inside the remaining quota, a settlement applies at most its own reservation plus
what the quota has left, and lowering the quota is refused below used plus
reserved. `FinishedStaysFinished` needs one more invariant, `FreshInv`: a request whose
handler has not started it has no row yet, so no reservation is ever added for a
finished one.
`AccountInv` relates the tables to each other: the journal of a running request is one
reservation (`JournalInv`), the handler remembers it as it is unless the key is gone
(`HolderInv`), and `reserved_micro_usd` is the sum of these reservations (`ReservedInv`). From it
follow `SettlementAccepted`, since a part of a sum of naturals is at most the sum,
`RecoveryNeverAborts`, since recovery subtracts that very sum, and `SpendingJournaled`.
The sums of the model are folds over sets. `SumOf` describes one without recursion, as the
value of any function on the subsets that is 0 on the empty one and otherwise adds some
element to the rest; that such a function exists and does not depend on the order of
the elements is shown by looking at a smallest subset for which it failed (`LeastSubset`), which
stands in for induction. `PrepaidRefinement` takes the steps of `Next` one by one
to a step of `PrepaidKeys` or a stuttering one, and recovery, which ends many requests
at once, to a release of all of them.

**TargetCircuitProofs.** `RowInv` joins `TypeOK`, the fact that no stored time is
later than the clock (`Clocked`), `RowConsistent` and `RecoveryHorizon`: the
horizon needs `Clocked`, as a cooldown counts from the time an event read. On it
rest `OpeningNeedsTwo` (a circuit that left "closed", or a streak of one, has
failures of different attempts behind it) and `SingleTrial`: while a trial is in
flight its lease has not run out, which needs `ShortProbe`, the assumption that a
probe's flight and the wait for its permit fit the lease. `circuit_keys` shows that the
assumption is needed. `CoolingHolds` is an action property from `RowInv`.

**GatewayRequestProofs.** `IInv` adds to the types where the loop variables stand
in each program location (`Place`), that the sites before the current one and no
other have a fate, as many of them called as the budget was spent (`Walk`), that
blamed sites lie behind (`BlamedBehind`), what has been sent (`Answered`), what is
owed (`Charge`) and why the walk stopped (`StopReason`). Counting the called sites
is what makes it necessary to carry a cardinality through every action.

**ProbeRunsProofs.** `RunsInv` joins `TypeOK`, what a job may hold (`JobsInv`), the model
behind every goroutine and running row (`OfAModel`) and the sweep (`SweepInv`:
`OneScheduledRun` needs that no model in work is still on the list, and that a new list
is only made when all workers are back). Three invariants stand on it. `Timely` bounds the
age of a running row by the wait before its insertion, the time its context has used
and the time since that context ended; with `GraceAssumption` and `SameDeadline`
(all models have one deadline, the case `probe_expiry` violates) it keeps live runs from being
expired. `Closed` says that an ended run has no goroutine; for the ends of
`CompleteProbeRun` it holds as it is, for "cancelled" it needs `Timely`. `Honest`
relates the stored results of a running row to what happened: the successes without
a target stand for at least one target that succeeded and is gone. That makes the number of
successes seen at most the number there were, so a count that equals the number of
targets asked for means all of them.

**StreamAttemptProofs.** `IInv` joins the types with `Committed` (bytes that may have reached
the client are remembered, and a verdict respects them) and `LastWord` (after `stop()` the
watchdog is quiet and its timeout is the attempt's error, although a callback may still be on
its way to cancel). `StopIsFinal` is the action property behind the second one.

**AdministrationProofs.** Of accounts, the invariant says who may be using a login: a goroutine past
its lock has the mutex of its owner (`Exclusive`), a login that was entered and not stored is known to
nobody else (`Unspent`), what is about to be written or was read for a refresh is still what is
stored (`Writing`, `Renewing`), and a login has one owner and one refreshing goroutine at a time
(`Sole`). Deleting a site takes the account along without the mutex, which is why `Writing` and
`Renewing` allow a row that is gone, and why a deleted owner must never come back.
Of the rate windows: a row that was pruned is so old that no request in
flight can still be counted in it (`Counting`), from `RateAssumption`, that a statement waits for
the database no longer than a window. Of the logins: a block ends before its entry may expire,
from `LimiterAssumption`, and no login holds a clock from the future (`Blocking`).
`AdministrationTypes` puts the types of the four parts together.

**LegacyProofs.** The invariant of the migration adds three facts to the types, which already say that
mappings and targets refer to rows: a migrated site is the one of the upstream it is called after
(`SitesNamed`), so a name is never taken when it is needed; a site's model is on an
endpoint it has (`ModelsPlaced`); and what a route names was discovered (`RoutesKnown`), so every kept
target gets a model. For `ReviewedApplied`, `ReviewInv` says in addition that accounts belong to sites
that exist, that the rows are finitely many, and that a plan whose fingerprint is current is the plan of
the rows. The counts of a plan are compared with what an apply writes by one-to-one maps: groups
without a site and the new sites, groups with a new account and the sites that had none, and kept
targets into pairs of route and group, onto all of them where no two groups share a site. Without a
conflict a group has one site, and afterwards all its members are mapped to it; an apply
in which two groups would create the account of one site, or its usage, fails (`Impossible`), so the
next plan is empty and finds no conflict. For `ServiceKept`: a servable route of undisputed upstreams has an eligible
target, so one is kept; its site is new, since nobody of its group has been migrated; so endpoint
and model are written from the first of its group, whose flags are on. The loops over sequences are
recursive functions (`Picked`), of which the least number at which a claim failed shows what induction
would.
Of the legacy gateway, `CallerInv` bounds every context by the deadline counted from its plan and
`TrialInv` says that the lease of a half-open target ends later than the context of the trial it was
given to; `SingleTrial` follows, as a second permit needs the lease to have run out. `ChargeInv` is what
every program location says about output, answer and charge. `target_health` outlives the process, so
these theorems start from any rows at any time (`LegacyStart`), not only from the empty ones.

**CatalogueProofs.** `Structure` says that no row outlives the row it belongs to and that the
route is sound; positions are bounded by the number of edits, so the next one is found. Of every
step `StepMoves` proves `SiteMoves` and `RouteMoves`: whatever a revision covers stays as it is,
or the revision grows, or the row is gone for good. These two facts carry the rest without another
look at the administrator's actions: a run (`Fresh`) or a page (`SiteSeen`, `RouteSeen`) agrees
with the database as long as the revision it read first has not moved, although the statements
that follow read other tables. `EvidenceIsCurrent` and `NoStaleWrite` are then what the comparison
of revisions adds. `Earned` bounds the missing count of a key by the number of complete lists
that lacked the name; a run is applied once, so no list counts twice. `RowsAssumption` says
that a missing row is not a row.

Only model-checked: all liveness (`RestartFinishesEveryOrphan`, `StalledStreamEnds`,
`EveryRequestEnds`, `EveryRunEnds`), as the prover does not handle fairness.

## Not modelled

Costs are inputs (billing), as are the eligible keys of a site (the selection of the credential
pool) and the classification of an upstream answer (`health.Classify`). The upstream
HTTP client and its address checks, encryption, redaction, configuration, the
translation of the account providers' answers, request decoding, password hashing and
sessions, and the web console are not modelled: they keep no state that several actors
share. The credential pool is partly modelled: `Catalogue` has its rows, what a call
reports about a key whose secret was replaced meanwhile is not compared with that secret.

## Plan

1. The credential pool with results against replaced secrets, and the composition of `ProbeRuns`
   with the health events of `TargetCircuit`.

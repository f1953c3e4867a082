--------------------------- MODULE GatewayRequest ---------------------------
(***************************************************************************)
(* One inference request inside the gateway, from the reservation to the   *)
(* end of its handler: the walk over the sites of the route and over the   *)
(* keys of a site, what is reported about a site, what the client is sent  *)
(* and how the reservation is settled.                                     *)
(*                                                                         *)
(* Source: internal/gateway/v3.go, serveV3Inference.  The permit is        *)
(* answered by TargetCircuit, a streaming call ends with a verdict of      *)
(* StreamAttempt, and finish() is a transaction of QuotaLedger: here their *)
(* answers are nondeterministic, an error included.                        *)
(***************************************************************************)
EXTENDS Integers, FiniteSets

CONSTANTS
  Sites,   \* number of targets of the resolved route
  MaxKeys  \* most eligible keys of one site

ASSUME SitesAssumption == Sites \in Nat
ASSUME MaxKeysAssumption == MaxKeys \in Nat

Site == 1..Sites

VARIABLES
  keys,    \* route.Targets: the number of eligible keys of each site
  budget,  \* maxSiteAttempts
  stream,  \* meta.Stream
  at,      \* where the handler is: pc, site, key, siteAttempts, buildFailures
  client,  \* r.Context() is alive
  expired, \* the request's deadline has passed
  reply,   \* what has been sent downstream
  pending, \* the parameters of finish(), and the answer that follows it
  settled, \* what became of the reservation
  log,     \* history: the fate of each site in this request
  blamed   \* history: sites a failure was stored for

vars == <<keys, budget, stream, at, client, expired, reply, pending, settled, log, blamed>>

\* "passed": not asked, no eligible key or no permit; "local": every key so
\* far failed on its own; "failed": a failure of the site as a whole.
Fate == {"unseen", "passed", "local", "failed", "served", "undecided"}

\* sites: siteAttempts, the sites called; builds: buildFailures of this site.
Position == [pc: {"site", "key", "call", "finish", "deferred", "done"},
             site: 1..(Sites + 1), key: 1..(MaxKeys + 1),
             sites: 0..Sites, builds: 0..MaxKeys]

TypeOK ==
  /\ keys \in [Site -> 0..MaxKeys]
  /\ budget \in 0..Sites
  /\ stream \in BOOLEAN
  /\ at \in Position
  /\ client \in BOOLEAN /\ expired \in BOOLEAN
  /\ reply \in {"none", "stream", "body", "error"}
  /\ pending \in [charge: BOOLEAN, answer: {"none", "body", "error"}]
  /\ settled \in {"open", "charged", "released"}
  /\ log \in [Site -> Fate]
  /\ blamed \subseteq Site

\* The request is admitted and "pending" says failed, for a handler that ends
\* before it has decided anything.
Init ==
  /\ keys \in [Site -> 0..MaxKeys]
  /\ budget \in 0..Sites
  /\ budget = 0 => \A s \in Site : keys[s] = 0  \* a route without targets
  /\ stream \in BOOLEAN
  /\ at = [pc |-> "site", site |-> 1, key |-> 1, sites |-> 0, builds |-> 0]
  /\ client = TRUE /\ expired = FALSE
  /\ reply = "none"
  /\ pending = [charge |-> FALSE, answer |-> "none"]
  /\ settled = "open"
  /\ log = [s \in Site |-> "unseen"]
  /\ blamed = {}

route == <<keys, budget, stream>>

CtxAlive == client /\ ~expired

\* Mutant: buildFailures is declared outside the loop over the sites.
NextSiteKeepsBuilds == [at EXCEPT !.pc = "site", !.site = @ + 1, !.key = 1]

NextSite == [at EXCEPT !.pc = "site", !.site = @ + 1, !.key = 1, !.builds = 0]

Finishing(charge, answer) ==
  /\ at' = [at EXCEPT !.pc = "finish"]
  /\ pending' = [charge |-> charge, answer |-> answer]

\* RecordRouteSiteTargetFailure under r.Context(): the write may be lost, and
\* is once the client has gone.
Blame(s) ==
  \/ client /\ blamed' = blamed \union {s}
  \/ UNCHANGED blamed

-----------------------------------------------------------------------------
(* Sites *)

\* The route or the attempt budget is used up.
Exhausted ==
  /\ at.pc = "site"
  /\ at.site > Sites \/ at.sites >= budget
  /\ Finishing(FALSE, "error")
  /\ UNCHANGED <<route, client, expired, reply, settled, log, blamed>>

AtSite == at.pc = "site" /\ at.site <= Sites /\ at.sites < budget

\* A site without an eligible key costs neither a permit nor an attempt.
SkipSite ==
  /\ AtSite
  /\ keys[at.site] = 0
  /\ at' = NextSite
  /\ log' = [log EXCEPT ![at.site] = "passed"]
  /\ UNCHANGED <<route, client, expired, reply, pending, settled, blamed>>

\* Mutant: a refused permit uses up an attempt.
PermitRefusedCounts ==
  /\ AtSite
  /\ keys[at.site] > 0 /\ CtxAlive
  /\ at' = [NextSite EXCEPT !.sites = at.sites + 1]
  /\ log' = [log EXCEPT ![at.site] = "passed"]
  /\ UNCHANGED <<route, client, expired, reply, pending, settled, blamed>>

PermitRefused ==
  /\ AtSite
  /\ keys[at.site] > 0 /\ CtxAlive
  /\ at' = NextSite
  /\ log' = [log EXCEPT ![at.site] = "passed"]
  /\ UNCHANGED <<route, client, expired, reply, pending, settled, blamed>>

PermitGranted ==
  /\ AtSite
  /\ keys[at.site] > 0 /\ CtxAlive
  /\ at' = [at EXCEPT !.pc = "key", !.sites = @ + 1]
  /\ log' = [log EXCEPT ![at.site] = "local"]
  /\ UNCHANGED <<route, client, expired, reply, pending, settled, blamed>>

\* The database, or a context that has ended: the walk is over.
PermitFails ==
  /\ AtSite
  /\ keys[at.site] > 0
  /\ Finishing(FALSE, "error")
  /\ log' = [log EXCEPT ![at.site] = "undecided"]
  /\ UNCHANGED <<route, client, expired, reply, settled, blamed>>

-----------------------------------------------------------------------------
(* Keys of one site *)

KeysLeft == at.pc = "key" /\ at.key <= keys[at.site]

\* Mutant: any build failure counts for all.
AnyBuildFailed == at.builds > 0

AllBuildsFailed == at.builds = keys[at.site]

\* Every key was tried; the site is to blame only if none gave a request.
KeysExhausted ==
  /\ at.pc = "key"
  /\ at.key > keys[at.site]
  /\ at' = NextSite
  /\ IF AllBuildsFailed THEN Blame(at.site) ELSE UNCHANGED blamed
  /\ log' = [log EXCEPT ![at.site] = IF at.builds = keys[at.site] THEN "failed" ELSE @]
  /\ UNCHANGED <<route, client, expired, reply, pending, settled>>

\* The deadline passed, or the client left, between two keys.
KeyTooLate ==
  /\ KeysLeft
  /\ ~CtxAlive
  /\ Finishing(FALSE, "error")
  /\ log' = [log EXCEPT ![at.site] = "undecided"]
  /\ UNCHANGED <<route, client, expired, reply, settled, blamed>>

BuildFails ==
  /\ KeysLeft
  /\ CtxAlive
  /\ at' = [at EXCEPT !.key = @ + 1, !.builds = @ + 1]
  /\ UNCHANGED <<route, client, expired, reply, pending, settled, log, blamed>>

Call ==
  /\ KeysLeft
  /\ CtxAlive
  /\ at' = [at EXCEPT !.pc = "call"]
  /\ UNCHANGED <<route, client, expired, reply, pending, settled, log, blamed>>

-----------------------------------------------------------------------------
(* The end of a call *)

InCall == at.pc = "call" /\ reply = "none"

\* The site failed as a whole: go on with the next one.
SiteFails ==
  /\ at' = NextSite
  /\ Blame(at.site)
  /\ log' = [log EXCEPT ![at.site] = "failed"]
  /\ UNCHANGED pending

\* The client has gone: nobody is told and nobody is to blame.
ClientGone ==
  /\ Finishing(FALSE, "error")
  /\ log' = [log EXCEPT ![at.site] = "undecided"]
  /\ UNCHANGED blamed

\* No response, or its body or stream breaks off before any output.
CallBreaks ==
  /\ InCall
  /\ IF client THEN SiteFails ELSE ClientGone
  /\ UNCHANGED <<route, client, expired, reply, settled>>

\* Mutant: the loop over the keys does not advance.
KeyTriedAgain ==
  /\ InCall
  /\ at' = [at EXCEPT !.pc = "key"]
  /\ UNCHANGED <<route, client, expired, reply, pending, settled, log, blamed>>

\* 401, 402, 403 and 429 stay with the key.
KeyRejected ==
  /\ InCall
  /\ at' = [at EXCEPT !.pc = "key", !.key = @ + 1]
  /\ UNCHANGED <<route, client, expired, reply, pending, settled, log, blamed>>

\* 404, 408, 425, 5xx, an unsupported model, a success without content.
SiteRejects ==
  /\ InCall
  /\ SiteFails
  /\ UNCHANGED <<route, client, expired, reply, settled>>

\* Any other status is the client's own: it is passed on, nothing is charged.
RequestInvalid ==
  /\ InCall
  /\ Finishing(FALSE, "body")
  /\ log' = [log EXCEPT ![at.site] = "undecided"]
  /\ UNCHANGED <<route, client, expired, reply, settled, blamed>>

Succeeds ==
  /\ InCall
  /\ ~stream
  /\ Finishing(TRUE, "body")
  /\ log' = [log EXCEPT ![at.site] = "served"]
  /\ UNCHANGED <<route, client, expired, reply, settled, blamed>>

\* The first semantic output has been written.
StreamCommits ==
  /\ InCall
  /\ stream
  /\ reply' = "stream"
  /\ UNCHANGED <<route, at, client, expired, pending, settled, log, blamed>>

Committed == at.pc = "call" /\ reply = "stream"

StreamSucceeds ==
  /\ Committed
  /\ Finishing(TRUE, "none")
  /\ log' = [log EXCEPT ![at.site] = "served"]
  /\ UNCHANGED <<route, client, expired, reply, settled, blamed>>

\* Mutant: a stream that breaks off is tried again on the next site.
StreamBreaksRetried ==
  /\ Committed
  /\ client
  /\ at' = NextSite
  /\ Blame(at.site)
  /\ log' = [log EXCEPT ![at.site] = "failed"]
  /\ UNCHANGED <<route, client, expired, reply, pending, settled>>

\* It broke off after the first output: charged, and not tried again.
StreamBreaks ==
  /\ Committed
  /\ client
  /\ Finishing(TRUE, "none")
  /\ Blame(at.site)
  /\ log' = [log EXCEPT ![at.site] = "failed"]
  /\ UNCHANGED <<route, client, expired, reply, settled>>

\* A write failed or the client's context ended.
StreamLeft ==
  /\ Committed
  /\ Finishing(TRUE, "none")
  /\ log' = [log EXCEPT ![at.site] = "undecided"]
  /\ UNCHANGED <<route, client, expired, reply, settled, blamed>>

-----------------------------------------------------------------------------
(* Settlement and the answer *)

\* Mutant: the deferred call of finish() has the initial parameters.
DeferredReleases == "released"

\* What a committed finish() does with the reservation.
Outcome == IF pending.charge THEN "charged" ELSE "released"

FinishSucceeds ==
  /\ at.pc = "finish"
  /\ settled' = Outcome
  /\ reply' = IF pending.answer = "none" THEN reply ELSE pending.answer
  /\ at' = [at EXCEPT !.pc = "done"]
  /\ UNCHANGED <<route, client, expired, pending, log, blamed>>

\* The handler answers 500 if it has not answered yet; a deferred call of
\* finish() follows.
FinishFails ==
  /\ at.pc = "finish"
  /\ reply' = IF pending.answer = "none" THEN reply ELSE "error"
  /\ at' = [at EXCEPT !.pc = "deferred"]
  /\ UNCHANGED <<route, client, expired, pending, settled, log, blamed>>

DeferredFinish ==
  /\ at.pc = "deferred"
  /\ settled' \in {Outcome, settled}
  /\ at' = [at EXCEPT !.pc = "done"]
  /\ UNCHANGED <<route, client, expired, reply, pending, log, blamed>>

-----------------------------------------------------------------------------
(* Environment *)

ClientLeaves ==
  /\ client /\ at.pc # "done"
  /\ client' = FALSE
  /\ UNCHANGED <<route, at, expired, reply, pending, settled, log, blamed>>

DeadlinePasses ==
  /\ ~expired /\ at.pc # "done"
  /\ expired' = TRUE
  /\ UNCHANGED <<route, at, client, reply, pending, settled, log, blamed>>

\* The handler has returned.
Ended == at.pc = "done" /\ UNCHANGED vars

Handler ==
  \/ Exhausted \/ SkipSite \/ PermitRefused \/ PermitGranted \/ PermitFails
  \/ KeysExhausted \/ KeyTooLate \/ BuildFails \/ Call
  \/ CallBreaks \/ KeyRejected \/ SiteRejects \/ RequestInvalid \/ Succeeds
  \/ StreamCommits \/ StreamSucceeds \/ StreamBreaks \/ StreamLeft
  \/ FinishSucceeds \/ FinishFails \/ DeferredFinish

Next == Handler \/ ClientLeaves \/ DeadlinePasses \/ Ended

\* Every call ends, with the deadline at the latest, and the handler goes on.
Fairness == WF_vars(Handler)

Spec == Init /\ [][Next]_vars /\ Fairness

-----------------------------------------------------------------------------
(* Properties *)

\* Once output has reached the client no site is called again, and the client
\* is never sent a second answer (architecture.md: "Stop retrying after
\* semantic streaming output has reached the downstream client").
NoRetryAfterOutput ==
  [][reply # "none" =>
       /\ reply' = reply
       /\ at'.pc = "call" => at.pc = "call" /\ at'.site = at.site /\ at'.key = at.key]_vars

\* Whoever was sent output pays for it and nobody else does, through failing
\* settlements and clients that leave at any moment.
ChargedForOutput ==
  at.pc = "done" =>
    /\ reply = "stream" => settled # "released"
    /\ settled = "charged" => reply = "stream" \/ \E s \in Site : log[s] = "served"
    /\ (\E s \in Site : log[s] = "served") => settled # "released"

\* A failure is stored only against a site that failed as a whole: not for the
\* rejection of single keys, even when some of the others could not be used at
\* all, and not because the client left.
BlameIsDeserved == \A s \in blamed : log[s] = "failed"

\* The walk gives up only with a reason: unless the context ended or the
\* database failed, an unanswered request has been refused by every site, or
\* has used its attempts on sites that were called.
NoSiteForgotten ==
  at.pc = "finish" /\ pending.answer = "error" /\ (\A s \in Site : log[s] # "undecided") =>
    \/ \A s \in Site : log[s] # "unseen"
    \/ Cardinality({s \in Site : log[s] \in {"local", "failed"}}) = budget

\* The handler comes to an end.
EveryRequestEnds == <>(at.pc = "done")

=============================================================================

----------------------------- MODULE Catalogue -----------------------------
(***************************************************************************)
(* The administrator's catalogue: sites with their endpoints and API keys, *)
(* the models each endpoint offers and which key may use them, one         *)
(* published model with its ordered route targets, one routing profile     *)
(* that overrides the order - and what runs against it concurrently: model *)
(* discoveries, which read the configuration, call the upstream for        *)
(* seconds and apply what they learnt, and a panel in which an             *)
(* administrator looks at a page and saves a change to it later.           *)
(*                                                                         *)
(* Sources: internal/store (v3_sites, v3_inference, v3_catalog,            *)
(* v3_published, routing_profiles, v4_discovery_apply, v4_runs) and        *)
(* internal/httpapi (v2_sites, v2_models, v2_discovery).                   *)
(*                                                                         *)
(* One transaction is one action.  Names, prices, intervals and the order  *)
(* of a site's endpoints and keys are left out: no property tells them     *)
(* apart.  The revision of a key, a site model or a target is left out     *)
(* too: a request that carries a stale one is refused and changes nothing, *)
(* one that carries the right one does what a request without one does.    *)
(* The cooldown that a call leaves on a key is left out.                   *)
(***************************************************************************)
EXTENDS Integers, FiniteSets

CONSTANTS
  Sites, Endpoints, Credentials, Targets, \* row ids; SQLite never reuses one
  SiteOf,      \* the site_id of an endpoint or of a credential
  Names,       \* model names
  Urls,        \* base URLs of endpoints
  Secrets,     \* API keys
  Offers,      \* Offers[u][k]: the models the upstream at u lists to key k
  Runs,        \* discovery requests
  MaxEdits,    \* bound of the administrator's changes
  Unborn,      \* a row that has not been inserted yet
  Gone,        \* a row that was deleted
  NoSecret     \* a secret the run has not read

ASSUME IdsAssumption == SiteOf \in [Endpoints \union Credentials -> Sites]
ASSUME OffersAssumption == Offers \in [Urls -> [Secrets -> SUBSET Names]]
ASSUME SentinelAssumption == NoSecret \notin Secrets /\ MaxEdits \in Nat
ASSUME SomeAssumption == Endpoints # {} /\ Urls # {} /\ Targets # {}

VARIABLES
  site, endpoint, credential, \* the rows of the tables of that name
  model,      \* site_models: per endpoint and name
  access,     \* credential_model_access: per key, endpoint and name
  published,  \* the row of published_models
  target,     \* route_site_targets of that model
  profile,    \* the row of routing_profiles
  override,   \* routing_profile_model_targets: positions, NoPosition if absent
  run,        \* per discovery: its goroutine and its row
  view,       \* the panel: what the page was built from
  edits,      \* number of the administrator's changes
  misses      \* history: the runs whose complete list truly lacked the name

config == <<site, endpoint, credential>>
routes == <<published, target, profile, override>>
vars == <<site, endpoint, credential, model, access, published, target, profile,
          override, run, view, edits, misses>>

Here(row) == row \notin {Unborn, Gone}
NoPosition == -1
NoAccess == [avail |-> "unknown", missing |-> 0]

Rows(R) == R \union {Unborn, Gone}
SiteRow == [enabled: BOOLEAN, rev: Nat]
EndpointRow == [url: Urls, eligible: BOOLEAN, enabled: BOOLEAN, rev: Nat]
CredentialRow == [secret: Secrets, enabled: BOOLEAN]
TargetRow == [endpoint: Endpoints, name: Names, enabled: BOOLEAN, pos: Nat]
ASSUME RowsAssumption ==
  /\ Unborn # Gone
  /\ {Unborn, Gone} \intersect
       (SiteRow \union EndpointRow \union CredentialRow \union TargetRow \union {"here"}) = {}

AccessRow == [avail: {"unknown", "supported", "unsupported"}, missing: 0..2]

\* applied: the transaction of ApplyModelDiscoveryRun committed.
RunRow == [pc: {"idle", "site", "endpoint", "secrets", "calling", "refused", "applied", "over"},
           mode: {"selected", "first_success", "all"},
           endpoint: Endpoints, siteRev: Nat, endpointRev: Nat, url: Urls,
           secret: [Credentials -> Secrets \union {NoSecret}],
           todo: SUBSET Credentials, found: [Credentials -> SUBSET Names],
           failures: BOOLEAN, applied: BOOLEAN,
           status: {"none", "running", "success", "partial", "failed"}]

EndpointsOf(s) == {e \in Endpoints : SiteOf[e] = s /\ Here(endpoint[e])}
CredentialsOf(s) == {c \in Credentials : SiteOf[c] = s /\ Here(credential[c])}
Listed == {t \in Targets : Here(target[t])}
TargetsAt(E) == {t \in Listed : target[t].endpoint \in E}
TargetsOn(e, n) == {t \in Listed : target[t].endpoint = e /\ target[t].name = n}
SiteTargets(s) == {t \in Listed : SiteOf[target[t].endpoint] = s}

---------------------------------------------------------------------------
(* Revisions *)

\* An administrator's request names no revision, or the one its page was built
\* from; in the second case the row must still carry it.
Edit == edits < MaxEdits /\ edits' = edits + 1
Unchecked == Edit /\ UNCHANGED view
Checked(kind, id, rev) ==
  /\ view.pc = "shown" /\ view.kind = kind /\ view.id = id /\ view.rev = rev
  /\ view' = [view EXCEPT !.pc = "saved"]
  /\ Edit
Accepted(kind, id, rev) == Unchecked \/ Checked(kind, id, rev)

BumpSite(s) == site' = [site EXCEPT ![s].rev = @ + 1]
\* Mutant: a change to what a target shows leaves the published model alone.
BumpNothing(T) == UNCHANGED published

\* The published model changes with whatever one of its targets shows.
BumpPublished(T) ==
  published' = IF T = {} THEN published ELSE [published EXCEPT !.rev = @ + 1]

\* ON DELETE CASCADE.
DropTargets(D) ==
  /\ target' = [t \in Targets |-> IF t \in D THEN Gone ELSE target[t]]
  /\ override' = [t \in Targets |-> IF t \in D THEN NoPosition ELSE override[t]]
DropModels(M) ==
  /\ model' = [e \in Endpoints |-> [n \in Names |->
       IF <<e, n>> \in M THEN "none" ELSE model[e][n]]]
  /\ access' = [c \in Credentials |-> [e \in Endpoints |-> [n \in Names |->
       IF <<e, n>> \in M THEN NoAccess ELSE access[c][e][n]]]]
DropAccess(C) ==
  access' = [c \in Credentials |->
       IF c \in C THEN [e \in Endpoints |-> [n \in Names |-> NoAccess]] ELSE access[c]]

---------------------------------------------------------------------------
(* Sites, endpoints and keys *)

CreateSite(s, b) ==
  /\ site[s] = Unborn /\ Unchecked
  /\ site' = [site EXCEPT ![s] = [enabled |-> b, rev |-> 1]]
  /\ UNCHANGED <<endpoint, credential, model, access, routes, run, misses>>

UpdateSite(s, b) ==
  /\ Here(site[s]) /\ Accepted("site", s, site[s].rev)
  /\ BumpPublished(SiteTargets(s))
  /\ site' = [site EXCEPT ![s] = [enabled |-> b, rev |-> @.rev + 1]]
  /\ UNCHANGED <<endpoint, credential, model, access, target, profile, override, run, misses>>

DeleteSite(s) ==
  /\ Here(site[s]) /\ Accepted("site", s, site[s].rev)
  /\ BumpPublished(SiteTargets(s))
  /\ site' = [site EXCEPT ![s] = Gone]
  /\ endpoint' = [e \in Endpoints |-> IF e \in EndpointsOf(s) THEN Gone ELSE endpoint[e]]
  /\ credential' = [c \in Credentials |-> IF c \in CredentialsOf(s) THEN Gone ELSE credential[c]]
  /\ DropModels(EndpointsOf(s) \X Names)
  /\ DropTargets(SiteTargets(s))
  /\ UNCHANGED <<profile, run, misses>>

CreateInferenceEndpoint(e, u, el, b) ==
  LET s == SiteOf[e] IN
  /\ endpoint[e] = Unborn /\ Here(site[s]) /\ Accepted("site", s, site[s].rev)
  /\ endpoint' = [endpoint EXCEPT ![e] = [url |-> u, eligible |-> el, enabled |-> b, rev |-> 1]]
  /\ BumpSite(s)
  /\ UNCHANGED <<credential, model, access, routes, run, misses>>

\* Mutant: the protocol of an endpoint in use may change.
UpdateEndpointFreely(e, u, el, b) ==
  /\ Here(endpoint[e]) /\ Unchecked
  /\ BumpPublished(TargetsAt({e}))
  /\ endpoint' = [endpoint EXCEPT ![e] =
       [url |-> u, eligible |-> el, enabled |-> b, rev |-> @.rev + 1]]
  /\ BumpSite(SiteOf[e])
  /\ UNCHANGED <<credential, model, access, target, profile, override, run, misses>>

\* A protocol the gateway cannot route through is refused while targets use
\* the endpoint.
UpdateInferenceEndpoint(e, u, el, b) ==
  /\ Here(endpoint[e]) /\ Unchecked
  /\ endpoint[e].eligible /\ ~el => TargetsAt({e}) = {}
  /\ BumpPublished(TargetsAt({e}))
  /\ endpoint' = [endpoint EXCEPT ![e] =
       [url |-> u, eligible |-> el, enabled |-> b, rev |-> @.rev + 1]]
  /\ BumpSite(SiteOf[e])
  /\ UNCHANGED <<credential, model, access, target, profile, override, run, misses>>

DeleteInferenceEndpoint(e) ==
  /\ Here(endpoint[e]) /\ Unchecked
  /\ BumpPublished(TargetsAt({e}))
  /\ endpoint' = [endpoint EXCEPT ![e] = Gone]
  /\ DropModels({e} \X Names)
  /\ DropTargets(TargetsAt({e}))
  /\ BumpSite(SiteOf[e])
  /\ UNCHANGED <<credential, profile, run, misses>>

CreateInferenceCredential(c, k, b) ==
  LET s == SiteOf[c] IN
  /\ credential[c] = Unborn /\ Here(site[s]) /\ Accepted("site", s, site[s].rev)
  /\ credential' = [credential EXCEPT ![c] = [secret |-> k, enabled |-> b]]
  /\ BumpSite(s)
  /\ UNCHANGED <<endpoint, model, access, routes, run, misses>>

\* A new secret keeps the coverage learnt with the old one.
UpdateInferenceCredential(c, k, b) ==
  /\ Here(credential[c]) /\ Unchecked
  /\ credential' = [credential EXCEPT ![c] = [secret |-> k, enabled |-> b]]
  /\ BumpSite(SiteOf[c])
  /\ UNCHANGED <<endpoint, model, access, routes, run, misses>>

DeleteInferenceCredential(c) ==
  /\ Here(credential[c]) /\ Unchecked
  /\ credential' = [credential EXCEPT ![c] = Gone]
  /\ DropAccess({c})
  /\ BumpSite(SiteOf[c])
  /\ UNCHANGED <<endpoint, model, routes, run, misses>>

\* The order itself is not represented; the list must be complete.
ReorderSiteChildren(s, moved) ==
  /\ Here(site[s]) /\ moved \in {EndpointsOf(s), {}} /\ Accepted("site", s, site[s].rev)
  /\ endpoint' = [e \in Endpoints |->
       IF e \in moved THEN [endpoint[e] EXCEPT !.rev = @ + 1] ELSE endpoint[e]]
  /\ BumpSite(s)
  /\ UNCHANGED <<credential, model, access, routes, run, misses>>

UpdateSiteModel(e, n, state) ==
  /\ model[e][n] # "none" /\ Unchecked
  /\ BumpPublished(TargetsOn(e, n))
  /\ model' = [model EXCEPT ![e][n] = state]
  /\ UNCHANGED <<config, access, target, profile, override, run, misses>>

DeleteSiteModel(e, n) ==
  /\ model[e][n] # "none" /\ Unchecked
  /\ BumpPublished(TargetsOn(e, n))
  /\ DropModels({<<e, n>>})
  /\ DropTargets(TargetsOn(e, n))
  /\ UNCHANGED <<config, profile, run, misses>>

---------------------------------------------------------------------------
(* The published model, its targets and the routing profile *)

CreatePublishedModel(b) ==
  /\ published = Unborn /\ Unchecked
  /\ published' = [enabled |-> b, rev |-> 1]
  /\ UNCHANGED <<config, model, access, target, profile, override, run, misses>>

UpdatePublishedModel(b) ==
  /\ Here(published) /\ Accepted("route", "route", published.rev)
  /\ published' = [enabled |-> b, rev |-> published.rev + 1]
  /\ UNCHANGED <<config, model, access, target, profile, override, run, misses>>

DeletePublishedModel ==
  /\ Here(published) /\ Accepted("route", "route", published.rev)
  /\ published' = Gone
  /\ DropTargets(Listed)
  /\ UNCHANGED <<config, model, access, profile, run, misses>>

\* validateRouteSiteTargetTx, and the index that allows one target per site.
MayRoute(t, e, n) ==
  /\ Here(endpoint[e]) /\ endpoint[e].eligible /\ model[e][n] # "none"
  /\ SiteTargets(SiteOf[e]) \subseteq {t}

\* Mutant: the first target of a route goes before position 0.
NextPositionBefore == Cardinality(Listed) - 1

NextPosition ==
  IF Listed = {} THEN 0
  ELSE 1 + (CHOOSE p \in {target[t].pos : t \in Listed} : \A t \in Listed : target[t].pos <= p)

CreateRouteSiteTarget(t, e, n, b) ==
  /\ target[t] = Unborn /\ MayRoute(t, e, n)
  /\ Here(published) /\ Accepted("route", "route", published.rev)
  /\ BumpPublished({t})
  /\ target' = [target EXCEPT ![t] =
       [endpoint |-> e, name |-> n, enabled |-> b, pos |-> NextPosition]]
  /\ UNCHANGED <<config, model, access, profile, override, run, misses>>

UpdateRouteSiteTarget(t, e, n, b) ==
  /\ Here(target[t]) /\ MayRoute(t, e, n)
  /\ Here(published) /\ Accepted("route", "route", published.rev)
  /\ BumpPublished({t})
  /\ target' = [target EXCEPT ![t] =
       [endpoint |-> e, name |-> n, enabled |-> b, pos |-> @.pos]]
  /\ UNCHANGED <<config, model, access, profile, override, run, misses>>

DeleteRouteSiteTarget(t) ==
  /\ Here(target[t]) /\ Here(published) /\ Accepted("route", "route", published.rev)
  /\ BumpPublished({t})
  /\ DropTargets({t})
  /\ UNCHANGED <<config, model, access, profile, run, misses>>

\* The positions 0, 1, ... given to a set of targets in some order.
Orders(T) == {f \in [T -> 0..(Cardinality(T) - 1)] : \A a, b \in T : f[a] = f[b] => a = b}

ReorderRouteSiteTargets(order) ==
  /\ Here(published) /\ order \in Orders(Listed) /\ Accepted("route", "route", published.rev)
  /\ BumpPublished(Targets)
  /\ target' = [t \in Targets |->
       IF t \in Listed THEN [target[t] EXCEPT !.pos = order[t]] ELSE target[t]]
  /\ UNCHANGED <<config, model, access, profile, override, run, misses>>

CreateRoutingProfile ==
  /\ profile = Unborn /\ Unchecked
  /\ profile' = "here"
  /\ UNCHANGED <<config, model, access, published, target, override, run, misses>>

DeleteRoutingProfile ==
  /\ Here(profile) /\ Unchecked
  /\ profile' = Gone /\ override' = [t \in Targets |-> NoPosition]
  /\ UNCHANGED <<config, model, access, published, target, run, misses>>

SetRoutingProfileModelTargets(T, order) ==
  /\ Here(profile) /\ Here(published) /\ T \subseteq Listed /\ T # {} /\ order \in Orders(T)
  /\ Unchecked
  /\ override' = [t \in Targets |-> IF t \in T THEN order[t] ELSE NoPosition]
  /\ UNCHANGED <<config, model, access, published, target, profile, run, misses>>

ClearRoutingProfileModelTargets ==
  /\ Here(profile) /\ Here(published) /\ Unchecked
  /\ override' = [t \in Targets |-> NoPosition]
  /\ UNCHANGED <<config, model, access, published, target, profile, run, misses>>

---------------------------------------------------------------------------
(* The panel: a page is read in several statements, the revision first *)

EndpointsShown(s) == [e \in EndpointsOf(s) |->
  [url |-> endpoint[e].url, eligible |-> endpoint[e].eligible, enabled |-> endpoint[e].enabled]]
CredentialsShown(s) == [c \in CredentialsOf(s) |-> credential[c].enabled]
TargetsShown == [t \in Listed |->
  [row |-> target[t], eligible |-> endpoint[target[t].endpoint].eligible]]

\* What the page of a site, or of the published model, would show now.
Current(kind, id) ==
  IF kind = "site" THEN <<site[id].enabled, EndpointsShown(id), CredentialsShown(id)>>
  ELSE <<published.enabled, TargetsShown>>

ViewSite(s) ==
  /\ Here(site[s])
  /\ view' = [pc |-> "site", kind |-> "site", id |-> s, rev |-> site[s].rev,
              seen |-> <<site[s].enabled>>]
  /\ UNCHANGED <<config, model, access, routes, run, edits, misses>>

ViewEndpoints ==
  /\ view.pc = "site"
  /\ view' = [view EXCEPT !.pc = "endpoints",
                         !.seen = <<view.seen[1], EndpointsShown(view.id)>>]
  /\ UNCHANGED <<config, model, access, routes, run, edits, misses>>

ViewCredentials ==
  /\ view.pc = "endpoints"
  /\ view' = [view EXCEPT !.pc = "shown",
                         !.seen = <<view.seen[1], view.seen[2], CredentialsShown(view.id)>>]
  /\ UNCHANGED <<config, model, access, routes, run, edits, misses>>

ViewPublishedModel ==
  /\ Here(published)
  /\ view' = [pc |-> "published", kind |-> "route", id |-> "route", rev |-> published.rev,
              seen |-> <<published.enabled>>]
  /\ UNCHANGED <<config, model, access, routes, run, edits, misses>>

ViewTargets ==
  /\ view.pc = "published"
  /\ view' = [view EXCEPT !.pc = "shown", !.seen = <<view.seen[1], TargetsShown>>]
  /\ UNCHANGED <<config, model, access, routes, run, edits, misses>>

---------------------------------------------------------------------------
(* Model discovery *)

SiteOfRun(r) == SiteOf[run[r].endpoint]
\* The run's row falls with its site and with its endpoint.
RowHere(r) == /\ run[r].status # "none"
              /\ Here(site[SiteOfRun(r)]) /\ Here(endpoint[run[r].endpoint])
Learnt(r) == {c \in Credentials : run[r].found[c] # {}}
NamesFound(r) == UNION {run[r].found[c] : c \in Credentials}
RunOnly == UNCHANGED <<config, model, access, routes, view, edits, misses>>

StartRun(r, e, mode) ==
  LET s == SiteOf[e] IN
  /\ run[r].pc = "idle" /\ Here(site[s]) /\ site[s].enabled
  /\ run' = [run EXCEPT ![r].pc = "site", ![r].mode = mode, ![r].endpoint = e,
                        ![r].siteRev = site[s].rev]
  /\ RunOnly

ReadEndpoint(r) ==
  LET e == endpoint[run[r].endpoint] IN
  /\ run[r].pc = "site"
  /\ run' = [run EXCEPT ![r] =
       IF Here(e) /\ e.enabled
       THEN [@ EXCEPT !.pc = "endpoint", !.url = e.url, !.endpointRev = e.rev]
       ELSE [@ EXCEPT !.pc = "over"]]
  /\ RunOnly

\* The keys to ask: the selected one, or every enabled one of the site.
ListCredentials(r, C) ==
  /\ run[r].pc = "endpoint"
  /\ IF run[r].mode = "selected" THEN \E c \in Credentials : SiteOf[c] = SiteOfRun(r) /\ C = {c}
     ELSE C = {c \in CredentialsOf(SiteOfRun(r)) : credential[c].enabled}
  /\ run' = [run EXCEPT ![r].pc = IF C = {} THEN "over" ELSE "secrets", ![r].todo = C]
  /\ RunOnly

ReadSecret(r, c) ==
  /\ run[r].pc = "secrets" /\ c \in run[r].todo /\ run[r].secret[c] = NoSecret
  /\ run' = [run EXCEPT ![r] =
       IF Here(credential[c]) /\ (run[r].mode = "selected" => credential[c].enabled)
       THEN [@ EXCEPT !.secret[c] = credential[c].secret]
       ELSE [@ EXCEPT !.pc = "over"]]
  /\ RunOnly

InsertModelDiscoveryRun(r) ==
  /\ run[r].pc = "secrets" /\ \A c \in run[r].todo : run[r].secret[c] # NoSecret
  /\ run' = [run EXCEPT ![r] =
       IF Here(site[SiteOfRun(r)]) /\ Here(endpoint[run[r].endpoint])
       THEN [@ EXCEPT !.pc = "calling", !.status = "running"]
       ELSE [@ EXCEPT !.pc = "over"]]
  /\ RunOnly

\* Mutant: the pages read before an error count as the list.
DiscoveredPages(listed, read) == read

\* What DiscoverEndpoint returns without an error: every page of a list that
\* is not empty.  Any page may fail, and the names of earlier pages are then
\* of no account.
Discovered(listed, read) == IF listed = read THEN listed ELSE {}

CallUpstream(r, c, read) ==
  LET listed == Offers[run[r].url][run[r].secret[c]]
      models == Discovered(listed, read) IN
  /\ run[r].pc = "calling" /\ c \in run[r].todo /\ read \subseteq listed
  /\ run' = [run EXCEPT ![r] =
       IF ~RowHere(r) THEN [@ EXCEPT !.pc = "over"]
       ELSE [@ EXCEPT !.found[c] = models, !.failures = run[r].failures \/ models = {},
                      !.todo = IF run[r].mode = "first_success" /\ models # {} THEN {}
                               ELSE run[r].todo \ {c}]]
  /\ RunOnly

\* Mutant: only what is enabled is checked, not the revisions.
MayApplyEnabled(r) ==
  LET s == SiteOfRun(r)  e == run[r].endpoint IN
  /\ RowHere(r) /\ run[r].status = "running"
  /\ site[s].enabled /\ endpoint[e].enabled
  /\ \A c \in Learnt(r) : Here(credential[c]) /\ credential[c].enabled

\* The revisions are compared inside the transaction that applies the result.
MayApply(r) ==
  LET s == SiteOfRun(r)  e == run[r].endpoint IN
  /\ RowHere(r) /\ run[r].status = "running"
  /\ site[s].enabled /\ site[s].rev = run[r].siteRev
  /\ endpoint[e].enabled /\ endpoint[e].rev = run[r].endpointRev
  /\ \A c \in Learnt(r) : Here(credential[c]) /\ credential[c].enabled

\* Two lists in a row without the name rule the model out for the key.
Coverage(row, listed) ==
  IF listed THEN [avail |-> "supported", missing |-> 0]
  ELSE [avail |-> IF row.missing >= 1 THEN "unsupported" ELSE row.avail,
        missing |-> IF row.missing >= 1 THEN 2 ELSE 1]

ApplyModelDiscoveryRun(r) ==
  LET e == run[r].endpoint
      known == NamesFound(r) \union {n \in Names : model[e][n] # "none"} IN
  /\ run[r].pc = "calling" /\ run[r].todo = {} /\ NamesFound(r) # {} /\ MayApply(r)
  /\ BumpPublished({t \in TargetsAt({e}) : target[t].name \in NamesFound(r)})
  /\ model' = [model EXCEPT ![e] = [n \in Names |->
       IF n \in known /\ model[e][n] = "none" THEN "enabled" ELSE model[e][n]]]
  /\ access' = [c \in Credentials |->
       IF c \notin Learnt(r) THEN access[c]
       ELSE [access[c] EXCEPT ![e] = [n \in Names |->
              IF n \in known THEN Coverage(access[c][e][n], n \in run[r].found[c])
              ELSE access[c][e][n]]]]
  /\ misses' = [c \in Credentials |->
       IF c \notin Learnt(r) THEN misses[c]
       ELSE [misses[c] EXCEPT ![e] = [n \in Names |->
              IF n \in Offers[run[r].url][run[r].secret[c]] THEN {}
              ELSE misses[c][e][n] \union {r}]]]
  /\ run' = [run EXCEPT ![r].pc = "applied", ![r].applied = TRUE]
  /\ UNCHANGED <<config, target, profile, override, view, edits>>

\* No list at all, or a configuration that changed meanwhile.
RefuseRun(r) ==
  /\ run[r].pc = "calling" /\ run[r].todo = {} /\ (NamesFound(r) = {} \/ ~MayApply(r))
  /\ run' = [run EXCEPT ![r].pc = "refused"]
  /\ RunOnly

FailModelDiscoveryRun(r) ==
  /\ run[r].pc = "refused"
  /\ run' = [run EXCEPT ![r].pc = "over", ![r].status = IF RowHere(r) THEN "failed" ELSE @]
  /\ RunOnly

CompleteModelDiscoveryRun(r) ==
  /\ run[r].pc = "applied"
  /\ run' = [run EXCEPT ![r].pc = "over",
                        ![r].status = IF ~RowHere(r) THEN @
                                      ELSE IF run[r].failures THEN "partial" ELSE "success"]
  /\ RunOnly

\* The browser goes away, or the process stops: every later statement of the
\* handler fails, and the row stays as it is.
AbandonRun(r) ==
  /\ run[r].pc \notin {"idle", "over"}
  /\ run' = [run EXCEPT ![r].pc = "over"]
  /\ RunOnly

---------------------------------------------------------------------------
NewRun == [pc |-> "idle", mode |-> "all", endpoint |-> CHOOSE e \in Endpoints : TRUE,
           siteRev |-> 0, endpointRev |-> 0, url |-> CHOOSE u \in Urls : TRUE,
           secret |-> [c \in Credentials |-> NoSecret], todo |-> {},
           found |-> [c \in Credentials |-> {}], failures |-> FALSE,
           applied |-> FALSE, status |-> "none"]

\* A catalogue that holds some sites with endpoints, keys and models, and no
\* route yet.
Init ==
  /\ site \in [Sites -> {Unborn, [enabled |-> TRUE, rev |-> 1]}]
  /\ endpoint \in [Endpoints ->
       {Unborn} \union [url: Urls, eligible: BOOLEAN, enabled: {TRUE}, rev: {1}]]
  /\ credential \in [Credentials -> {Unborn} \union [secret: Secrets, enabled: {TRUE}]]
  /\ model \in [Endpoints -> [Names -> {"none", "enabled"}]]
  /\ \A x \in Endpoints : Here(endpoint[x]) => Here(site[SiteOf[x]])
  /\ \A x \in Credentials : Here(credential[x]) => Here(site[SiteOf[x]])
  /\ \A e \in Endpoints, n \in Names : model[e][n] # "none" => Here(endpoint[e])
  /\ access = [c \in Credentials |-> [e \in Endpoints |-> [n \in Names |-> NoAccess]]]
  /\ published \in {Unborn, [enabled |-> TRUE, rev |-> 1]}
  /\ target = [t \in Targets |-> Unborn]
  /\ profile \in {Unborn, "here"}
  /\ override = [t \in Targets |-> NoPosition]
  /\ run = [r \in Runs |-> NewRun]
  /\ view = [pc |-> "none", kind |-> "none", id |-> "none", rev |-> 0, seen |-> <<>>]
  /\ edits = 0
  /\ misses = [c \in Credentials |-> [e \in Endpoints |-> [n \in Names |-> {}]]]

SiteStep ==
  \/ \E s \in Sites, b \in BOOLEAN : CreateSite(s, b) \/ UpdateSite(s, b)
  \/ \E s \in Sites : DeleteSite(s) \/ \E moved \in SUBSET Endpoints : ReorderSiteChildren(s, moved)
  \/ \E e \in Endpoints : DeleteInferenceEndpoint(e)
  \/ \E e \in Endpoints, u \in Urls, el, b \in BOOLEAN :
       CreateInferenceEndpoint(e, u, el, b) \/ UpdateInferenceEndpoint(e, u, el, b)
  \/ \E c \in Credentials : DeleteInferenceCredential(c)
  \/ \E c \in Credentials, k \in Secrets, b \in BOOLEAN :
       CreateInferenceCredential(c, k, b) \/ UpdateInferenceCredential(c, k, b)
  \/ \E e \in Endpoints, n \in Names : DeleteSiteModel(e, n)
  \/ \E e \in Endpoints, n \in Names, b \in {"enabled", "disabled"} : UpdateSiteModel(e, n, b)

RouteStep ==
  \/ \E b \in BOOLEAN : CreatePublishedModel(b) \/ UpdatePublishedModel(b)
  \/ DeletePublishedModel
  \/ \E t \in Targets : DeleteRouteSiteTarget(t)
  \/ \E t \in Targets, e \in Endpoints, n \in Names, b \in BOOLEAN :
       CreateRouteSiteTarget(t, e, n, b) \/ UpdateRouteSiteTarget(t, e, n, b)
  \/ \E order \in Orders(Listed) : ReorderRouteSiteTargets(order)
  \/ CreateRoutingProfile \/ DeleteRoutingProfile \/ ClearRoutingProfileModelTargets
  \/ \E T \in SUBSET Targets : \E order \in Orders(T) : SetRoutingProfileModelTargets(T, order)

ViewStep ==
  \/ \E s \in Sites : ViewSite(s)
  \/ ViewEndpoints \/ ViewCredentials \/ ViewPublishedModel \/ ViewTargets

RunStep(r) ==
  \/ \E e \in Endpoints, mode \in {"selected", "first_success", "all"} : StartRun(r, e, mode)
  \/ ReadEndpoint(r) \/ InsertModelDiscoveryRun(r)
  \/ \E C \in SUBSET Credentials : ListCredentials(r, C)
  \/ \E c \in Credentials : ReadSecret(r, c)
  \/ \E c \in Credentials, read \in SUBSET Names : CallUpstream(r, c, read)
  \/ ApplyModelDiscoveryRun(r) \/ RefuseRun(r)
  \/ FailModelDiscoveryRun(r) \/ CompleteModelDiscoveryRun(r) \/ AbandonRun(r)

Next == SiteStep \/ RouteStep \/ ViewStep \/ \E r \in Runs : RunStep(r)

Spec == Init /\ [][Next]_vars
---------------------------------------------------------------------------
(* Properties *)

Partial(D, R) == UNION {[A -> R] : A \in SUBSET D}

\* Every row keeps its columns, and no counter leaves its range.
TypeOK ==
  /\ site \in [Sites -> Rows(SiteRow)]
  /\ endpoint \in [Endpoints -> Rows(EndpointRow)]
  /\ credential \in [Credentials -> Rows(CredentialRow)]
  /\ model \in [Endpoints -> [Names -> {"none", "enabled", "disabled"}]]
  /\ access \in [Credentials -> [Endpoints -> [Names -> AccessRow]]]
  /\ published \in Rows(SiteRow)
  /\ target \in [Targets -> Rows(TargetRow)]
  /\ profile \in Rows({"here"})
  /\ override \in [Targets -> Nat \union {NoPosition}]
  /\ run \in [Runs -> RunRow]
  /\ view.pc \in {"none", "site", "endpoints", "published", "shown", "saved"}
  /\ edits \in 0..MaxEdits
  /\ misses \in [Credentials -> [Endpoints -> [Names -> SUBSET Runs]]]

\* A route never dangles and never mixes: every target of the published model
\* names an endpoint the gateway can talk to and a model of that endpoint,
\* positions are distinct, no site occurs twice, and a profile orders only
\* targets that exist - whatever order of deletions, protocol changes, moves
\* and reorderings led here (architecture.md: "Each ordered route target
\* connects a Published Model to one Site, Endpoint, and source model").
RouteIsSound ==
  /\ \A t \in Listed :
       LET e == target[t].endpoint IN
       /\ Here(published)
       /\ Here(site[SiteOf[e]]) /\ Here(endpoint[e]) /\ endpoint[e].eligible
       /\ model[e][target[t].name] # "none"
  /\ \A t, u \in Listed : t # u =>
       /\ target[t].pos # target[u].pos
       /\ SiteOf[target[t].endpoint] # SiteOf[target[u].endpoint]
  /\ \A t \in Targets : override[t] # NoPosition => Here(profile) /\ t \in Listed
  /\ \A t, u \in Targets : t # u /\ override[t] # NoPosition => override[t] # override[u]

\* Coverage that keeps a key away from a model was earned: the upstream left
\* the name out of two complete lists it gave to this key, with no list that
\* held it in between.  A page that failed, a run that was refused, another
\* key's list or a list cut short never count.
UnsupportedIsEarned ==
  \A c \in Credentials, e \in Endpoints, n \in Names :
    access[c][e][n].avail = "unsupported" => Cardinality(misses[c][e][n]) >= 2

\* A discovery writes the catalogue in one transaction only, and what it
\* applies was learnt from the configuration that is in force at that moment:
\* the same URL, keys with the same secrets, everything enabled
\* (architecture.md: "its Site and Endpoint revisions still match the
\* configuration used to start the run").  Between the reads of the
\* configuration and this moment lie one upstream call per key.
EvidenceIsCurrent == [][
  \A r \in Runs : run'[r] # run[r] /\ (model' # model \/ access' # access) =>
    LET e == run[r].endpoint IN
    /\ run'[r].applied /\ ~run[r].applied
    /\ site[SiteOf[e]].enabled /\ endpoint[e].enabled /\ endpoint[e].url = run[r].url
    /\ \A c \in Learnt(r) : /\ credential[c].enabled
                           /\ credential[c].secret = run[r].secret[c]]_vars

\* A save that carries the revision of the page it was made on is accepted
\* only if the page still shows what the database holds - although the page
\* was read in two or three statements, and although half of what it shows
\* lives in rows of other tables (architecture.md: "to reject stale writes
\* instead of silently overwriting a newer panel change").
NoStaleWrite == [][
  view.pc = "shown" /\ view'.pc = "saved" => view.seen = Current(view.kind, view.id)]_vars

=============================================================================

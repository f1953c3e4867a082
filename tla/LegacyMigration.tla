-------------------------- MODULE LegacyMigration --------------------------
(***************************************************************************)
(* The migration of the legacy catalogue (upstreams, their models, routes, *)
(* accounts) to sites, endpoints, published models and site accounts.  An  *)
(* administrator previews a plan and applies exactly that plan later, in   *)
(* one transaction, while both catalogues may be edited before, between    *)
(* and after; a migration may be repeated for what has been added since.   *)
(*                                                                         *)
(* Sources: internal/store/v5_legacy_migration.go, upstreams.go,           *)
(* routes.go, internal/httpapi/v2_legacy_migration.go and server.go.       *)
(*                                                                         *)
(* An upstream has one endpoint and one key: CreateUpstream inserts one of *)
(* each and nothing inserts more.  Its origin is that of its dashboard or  *)
(* of its base URL.  A route and the published model it becomes have the   *)
(* same name here.  The names, headers, policies, snapshots and health     *)
(* rows that are copied along are left out, and the usage of an account is *)
(* the row of one dedupe key.                                              *)
(***************************************************************************)
EXTENDS Integers, Sequences, FiniteSets, SequencesExt

CONSTANTS
  Upstreams, \* ids of legacy upstreams; a site is called after its first one
  ByHand,    \* sites created by the administrator
  Origins, Urls,
  Names,     \* model names; a route and a published model have one too
  Auths,     \* encrypted account credentials
  Usages,    \* contents of a usage row
  MaxChanges,\* bound of the edits
  NoRow, Gone, NoUsage

ASSUME UpstreamAssumption == Upstreams \subseteq Nat /\ Names \subseteq Nat /\ MaxChanges \in Nat
ASSUME ByHandAssumption == ByHand \intersect Upstreams = {}

VARIABLES
  upstream,   \* upstreams with their endpoint
  source,     \* upstream_models
  route,      \* routes: the targets in their order
  legacyAccount,
  site,       \* sites: endpoints and site_models with their enabled flag
  siteOf,     \* legacy_upstream_site_mappings
  listing,    \* published_models; legacy: legacy_route_published_mappings
  siteAccount,
  current,    \* no input has changed since the administrator's last preview
  shown,      \* the plan of that preview
  applied,    \* the last step was an apply that migrated something
  changes     \* number of edits so far

legacyRows == <<upstream, source, route, legacyAccount>>
siteRows == <<site, siteOf, listing, siteAccount>>
migrationVars == <<legacyRows, siteRows, current, shown, applied, changes>>

UpstreamRow == [origin: Origins, url: Urls, routable: BOOLEAN, enabled: BOOLEAN]
AccountOf == [auth: Auths, usage: Usages \union {NoUsage}]
Places == Urls \X BOOLEAN  \* an endpoint of a site: its URL and protocol
Flag == {"none", "on", "off"}
SiteRow == [endpoints: [Places -> Flag], models: [Places \X Names -> Flag]]
TargetOf == [site: Upstreams, place: Places, model: Names]
ListingRow == [legacy: BOOLEAN, targets: Seq(TargetOf)]
Sites == Upstreams \union ByHand

ASSUME RowAssumption ==
  /\ NoRow # Gone /\ NoRow \notin Upstreams
  /\ NoRow \notin UpstreamRow /\ Gone \notin UpstreamRow
  /\ NoRow \notin SiteRow /\ NoRow \notin AccountOf /\ NoRow \notin ListingRow

Living == {u \in Upstreams : upstream[u] \notin {NoRow, Gone}}
Place(u) == <<upstream[u].url, upstream[u].routable>>
Routed == {p \in Names : route[p] # NoRow}
Listed == {p \in Names : listing[p] # NoRow}

\* The elements of a sequence at these positions, in their order.
Picked(seq, positions) ==
  LET part[i \in 0..Len(seq)] ==
        IF i = 0 THEN <<>>
        ELSE IF i \in positions THEN Append(part[i - 1], seq[i]) ELSE part[i - 1]
  IN part[Len(seq)]

Without(seq, gone) == Picked(seq, {i \in DOMAIN seq : seq[i] \notin gone})

---------------------------------------------------------------------------
(* Edits of the legacy catalogue *)

\* Every write changes a row's updated_at, and with it the fingerprint.
Edited ==
  /\ changes < MaxChanges /\ changes' = changes + 1
  /\ current' = FALSE /\ applied' = FALSE /\ shown' = shown

WriteUpstream(u, row) ==
  /\ Edited /\ upstream[u] # row
  /\ upstream' = [upstream EXCEPT ![u] = row]
  /\ UNCHANGED <<source, route, legacyAccount, siteRows>>

\* An id is never used again.
CreateUpstream(u, row) == upstream[u] = NoRow /\ WriteUpstream(u, row)
UpdateUpstream(u, row) == u \in Living /\ WriteUpstream(u, row)

\* Models, targets, the account and the mapping go with it.
DeleteUpstream(u) ==
  /\ Edited /\ u \in Living
  /\ upstream' = [upstream EXCEPT ![u] = Gone]
  /\ source' = [source EXCEPT ![u] = [n \in Names |-> "none"]]
  /\ route' = [p \in Names |-> IF p \in Routed THEN Without(route[p], {u} \X Names) ELSE NoRow]
  /\ legacyAccount' = [legacyAccount EXCEPT ![u] = NoRow]
  /\ siteOf' = [siteOf EXCEPT ![u] = NoRow]
  /\ UNCHANGED <<site, listing, siteAccount>>

\* A model that is missing twice is disabled; a model that is there gets a
\* route of its name and a target at its end, if the protocol can be routed.
\* A list that was read is finite.
ApplyDiscoveredModels(u, found) ==
  LET Appended(p) == IF p \in Routed THEN route[p] ELSE <<>> IN
  /\ Edited /\ u \in Living /\ IsFiniteSet(found)
  /\ source' = [source EXCEPT ![u] = [n \in Names |->
       IF n \in found THEN "on"
       ELSE IF @[n] = "on" THEN "missed" ELSE IF @[n] = "missed" THEN "off" ELSE @[n]]]
  /\ route' = [p \in Names |->
       IF p \notin found \/ ~upstream[u].routable THEN route[p]
       ELSE IF <<u, p>> \in ToSet(Appended(p)) THEN Appended(p)
       ELSE Append(Appended(p), <<u, p>>)]
  /\ UNCHANGED <<upstream, legacyAccount, siteRows>>

\* replaceTargetsTx
WriteRoute(p, targets) ==
  /\ Edited /\ route[p] # targets
  /\ \A i \in DOMAIN targets :
       /\ source[targets[i][1]][targets[i][2]] # "none" /\ upstream[targets[i][1]].routable
       /\ \A j \in DOMAIN targets : targets[i] = targets[j] => i = j
  /\ route' = [route EXCEPT ![p] = targets]
  /\ UNCHANGED <<upstream, source, legacyAccount, siteRows>>

CreateRoute(p, targets) == p \notin Routed /\ WriteRoute(p, targets)
UpdateRoute(p, targets) == p \in Routed /\ WriteRoute(p, targets)
ReorderRouteTargets(p, targets) ==
  p \in Routed /\ ToSet(targets) = ToSet(route[p]) /\ WriteRoute(p, targets)

DeleteRoute(p) ==
  /\ Edited /\ p \in Routed
  /\ route' = [route EXCEPT ![p] = NoRow]
  /\ listing' = IF p \in Listed THEN [listing EXCEPT ![p].legacy = FALSE] ELSE listing
  /\ UNCHANGED <<upstream, source, legacyAccount, site, siteOf, siteAccount>>

\* Configured, deleted, or rotated by a refresh (AccountSync).
WriteLegacyAccount(u, a) ==
  /\ Edited /\ u \in Living /\ legacyAccount[u] # a
  /\ legacyAccount' = [legacyAccount EXCEPT ![u] = a]
  /\ UNCHANGED <<upstream, source, route, siteRows>>

---------------------------------------------------------------------------
(* Edits of the new catalogue (Catalogue has all of them) *)

NoSite == [endpoints |-> [e \in Places |-> "none"], models |-> [m \in Places \X Names |-> "none"]]

CreateSite(s) ==
  /\ Edited /\ site[s] = NoRow
  /\ site' = [site EXCEPT ![s] = NoSite]
  /\ UNCHANGED <<legacyRows, siteOf, listing, siteAccount>>

DropSiteTargets(gone) ==
  listing' = [p \in Names |-> IF p \in Listed
    THEN [listing[p] EXCEPT !.targets = Without(@, gone)] ELSE NoRow]

DeleteSite(s) ==
  /\ Edited /\ site[s] # NoRow
  /\ site' = [site EXCEPT ![s] = NoRow]
  /\ siteOf' = [u \in Upstreams |-> IF siteOf[u] = s THEN NoRow ELSE siteOf[u]]
  /\ siteAccount' = [siteAccount EXCEPT ![s] = NoRow]
  /\ DropSiteTargets({t \in TargetOf : t.site = s})
  /\ UNCHANGED legacyRows

DeleteEndpoint(s, e) ==
  /\ Edited /\ site[s] # NoRow /\ site[s].endpoints[e] # "none"
  /\ site' = [site EXCEPT ![s] =
       [endpoints |-> [@.endpoints EXCEPT ![e] = "none"],
        models |-> [m \in Places \X Names |-> IF m[1] = e THEN "none" ELSE @.models[m]]]]
  /\ DropSiteTargets({t \in TargetOf : t.site = s /\ t.place = e})
  /\ UNCHANGED <<legacyRows, siteOf, siteAccount>>

\* A published model that no route was migrated to.
CreatePublished(p) ==
  /\ Edited /\ p \notin Listed
  /\ listing' = [listing EXCEPT ![p] = [legacy |-> FALSE, targets |-> <<>>]]
  /\ UNCHANGED <<legacyRows, site, siteOf, siteAccount>>

DeletePublished(p) ==
  /\ Edited /\ p \in Listed
  /\ listing' = [listing EXCEPT ![p] = NoRow]
  /\ UNCHANGED <<legacyRows, site, siteOf, siteAccount>>

WriteSiteAccount(s, a) ==
  /\ Edited /\ site[s] # NoRow /\ siteAccount[s] # a
  /\ siteAccount' = [siteAccount EXCEPT ![s] = a]
  /\ UNCHANGED <<legacyRows, site, siteOf, listing>>

---------------------------------------------------------------------------
(* The plan *)

\* Upstreams with the same origin become one site.
Groups == {upstream[u].origin : u \in Living}
Members(o) == {u \in Living : upstream[u].origin = o}
MappedSites(o) == {siteOf[u] : u \in Members(o)} \ {NoRow}
Pending == {u \in Living : siteOf[u] = NoRow}
PendingRoutes == {p \in Routed : p \notin Listed \/ ~listing[p].legacy}

SiteOfGroup(o) == IF MappedSites(o) = {} THEN Min(Members(o)) ELSE CHOOSE s \in MappedSites(o) : TRUE

GroupAccounts(o) == {legacyAccount[u] : u \in Members(o)} \ {NoRow}
ExistingAccounts(o) == {siteAccount[s] : s \in MappedSites(o)} \ {NoRow}

\* compareLegacyAccountConfiguration, and rows of one dedupe key that differ.
AccountConflict(o) ==
  LET all == GroupAccounts(o) \union ExistingAccounts(o) IN
  GroupAccounts(o) # {} /\ \E a, b \in all :
    a.auth # b.auth \/ (a.usage # b.usage /\ NoUsage \notin {a.usage, b.usage})

Collision(p) == p \in PendingRoutes /\ p \in Listed

HardConflict ==
  \/ \E o \in Groups : Cardinality(MappedSites(o)) > 1 \/ AccountConflict(o)
  \/ \E p \in Names : Collision(p)

\* Only asked while there is something to migrate.
RequiresForce ==
  /\ Pending # {} \/ PendingRoutes # {}
  /\ \/ \E s \in Sites : site[s] # NoRow /\ \A u \in Upstreams : siteOf[u] # s
     \/ \E p \in Listed : ~listing[p].legacy

\* Targets of a native protocol are skipped, and a site is a target once.
Eligible(p) == {i \in DOMAIN route[p] : upstream[route[p][i][1]].routable}

AccountsToCreate == {o \in Groups : GroupAccounts(o) # {} /\ ExistingAccounts(o) = {}}
UsageToCreate(o) ==
  (\E a \in GroupAccounts(o) : a.usage # NoUsage) /\ \A a \in ExistingAccounts(o) : a.usage = NoUsage

Plan ==
  [sites |-> Cardinality({o \in Groups : MappedSites(o) = {}}),
   endpoints |-> Cardinality({<<upstream[u].origin, Place(u)>> : u \in Pending}),
   keys |-> Cardinality(Pending),
   models |-> Cardinality({<<upstream[m[1]].origin, Place(m[1]), m[2]>> :
                           m \in {x \in Pending \X Names : source[x[1]][x[2]] # "none"}}),
   published |-> Cardinality(PendingRoutes),
   targets |-> Cardinality(UNION {{<<p, upstream[route[p][i][1]].origin>> : i \in Eligible(p)} :
                                  p \in PendingRoutes}),
   accounts |-> Cardinality(AccountsToCreate),
   usage |-> Cardinality({o \in Groups : UsageToCreate(o)})]

NoPlan == [sites |-> 0, endpoints |-> 0, keys |-> 0, models |-> 0, published |-> 0,
           targets |-> 0, accounts |-> 0, usage |-> 0]

PreviewLegacyMigration ==
  /\ current' = TRUE /\ shown' = Plan /\ applied' = FALSE
  /\ UNCHANGED <<legacyRows, siteRows, changes>>

---------------------------------------------------------------------------
(* Applying it *)

\* The order of the upstreams: by group, then by id.
Before(u, v) ==
  LET first(w) == Min(Members(upstream[w].origin)) IN
  first(u) < first(v) \/ (first(u) = first(v) /\ u < v)
FirstOf(S) == CHOOSE u \in S : \A v \in S \ {u} : Before(u, v)

GoesTo(u) == SiteOfGroup(upstream[u].origin)
Comers(s, e) == {u \in Pending : GoesTo(u) = s /\ Place(u) = e}
Has(s, e) == site[s] # NoRow /\ site[s].endpoints[e] # "none"

OnIf(b) == IF b THEN "on" ELSE "off"

\* Mutant: a model that is missed once is taken for a disabled one.
OfferedNow(u, n) == source[u][n] = "on"

Offered(u, n) == source[u][n] \in {"on", "missed"}

\* The first target of each site.
Kept(p) ==
  LET home(i) == GoesTo(route[p][i][1]) IN
  Picked(route[p], {i \in Eligible(p) : \A j \in Eligible(p) : home(j) = home(i) => i <= j})

EndpointAfter(s, e) ==
  IF Has(s, e) THEN site[s].endpoints[e]
  ELSE IF Comers(s, e) = {} THEN "none" ELSE OnIf(upstream[FirstOf(Comers(s, e))].enabled)

\* insertLegacySiteModel: the row that is there stays.  A target may add a
\* model that was discovered after its upstream had been migrated.
ModelAfter(s, e, n) ==
  LET comers == {u \in Comers(s, e) : source[u][n] # "none"}
      routes == {p \in PendingRoutes : \E t \in ToSet(Kept(p)) :
                   GoesTo(t[1]) = s /\ Place(t[1]) = e /\ t[2] = n} IN
  IF Has(s, e) /\ site[s].models[<<e, n>>] # "none" THEN site[s].models[<<e, n>>]
  ELSE IF comers # {}
       THEN LET u == FirstOf(comers) IN OnIf(upstream[u].enabled /\ Offered(u, n))
  ELSE IF routes # {}
       THEN LET t == CHOOSE t \in ToSet(Kept(Min(routes))) : GoesTo(t[1]) = s IN OnIf(Offered(t[1], n))
  ELSE "none"

\* The groups that bring an account to a site.
Givers(s) == {o \in Groups : GroupAccounts(o) # {} /\ SiteOfGroup(o) = s}

AccountAfter(s) ==
  LET given == UNION {GroupAccounts(o) : o \in Givers(s)}
      row == IF siteAccount[s] # NoRow THEN siteAccount[s] ELSE CHOOSE a \in given : TRUE
      usage == {a.usage : a \in given \union {row}} \ {NoUsage} IN
  [row EXCEPT !.usage = IF usage = {} THEN NoUsage ELSE CHOOSE x \in usage : TRUE]

\* What makes the transaction fail: a migrated upstream whose endpoint is gone
\* from its site, or two groups that create the account of one site, or the
\* same usage row of it.
Impossible ==
  \/ \E u \in Living \ Pending : ~Has(GoesTo(u), Place(u)) /\
       \A v \in Comers(GoesTo(u), Place(u)) : Before(u, v)
  \/ \E o, q \in Groups : o # q /\ SiteOfGroup(o) = SiteOfGroup(q) /\
       ({o, q} \subseteq AccountsToCreate \/ (UsageToCreate(o) /\ UsageToCreate(q)))

ApplyLegacyMigrationPlan ==
  LET homes == {SiteOfGroup(o) : o \in Groups} IN
  /\ site' = [s \in Sites |-> IF s \notin homes THEN site[s]
       ELSE [endpoints |-> [e \in Places |-> EndpointAfter(s, e)],
             models |-> [m \in Places \X Names |-> ModelAfter(s, m[1], m[2])]]]
  /\ siteOf' = [u \in Upstreams |-> IF u \in Pending THEN GoesTo(u) ELSE siteOf[u]]
  /\ siteAccount' = [s \in Sites |-> IF Givers(s) = {} THEN siteAccount[s] ELSE AccountAfter(s)]
  /\ listing' = [p \in Names |-> IF p \notin PendingRoutes THEN listing[p]
       ELSE [legacy |-> TRUE,
             targets |-> [k \in DOMAIN Kept(p) |->
               LET t == Kept(p)[k] IN [site |-> GoesTo(t[1]), place |-> Place(t[1]), model |-> t[2]]]]]

\* Mutant: an outdated plan is applied as well.
ReviewedOnce == shown # NoPlan

\* The fingerprint covers every row the plan is made from.
Reviewed == current

\* One transaction: the plan is built again and compared before any write.
\* It is refused, finds nothing to do or fails, and then changes nothing.
ApplyLegacyMigration(force) ==
  /\ UNCHANGED <<legacyRows, shown, changes>>
  /\ \/ /\ Reviewed /\ ~HardConflict /\ (RequiresForce => force)
        /\ Plan # NoPlan /\ ~Impossible
        /\ ApplyLegacyMigrationPlan
        /\ applied' = TRUE /\ current' = FALSE
     \/ applied' = FALSE /\ UNCHANGED <<siteRows, current>>

---------------------------------------------------------------------------
NothingMigrated ==
  /\ site = [s \in Sites |-> NoRow]
  /\ siteOf = [u \in Upstreams |-> NoRow]
  /\ listing = [p \in Names |-> NoRow]
  /\ siteAccount = [s \in Sites |-> NoRow]
  /\ current = FALSE /\ shown = NoPlan /\ applied = FALSE

MigrationInit ==
  /\ upstream = [u \in Upstreams |-> NoRow]
  /\ source = [u \in Upstreams |-> [n \in Names |-> "none"]]
  /\ route = [p \in Names |-> NoRow]
  /\ legacyAccount = [u \in Upstreams |-> NoRow]
  /\ changes = 0
  /\ NothingMigrated

LegacyEdit ==
  \/ \E u \in Upstreams : DeleteUpstream(u)
       \/ \E row \in UpstreamRow : CreateUpstream(u, row) \/ UpdateUpstream(u, row)
  \/ \E u \in Upstreams, found \in SUBSET Names : ApplyDiscoveredModels(u, found)
  \/ \E u \in Upstreams, a \in AccountOf \union {NoRow} : WriteLegacyAccount(u, a)
  \/ \E p \in Names : DeleteRoute(p) \/
       \E targets \in BoundedSeq(Living \X Names, Cardinality(Living)) :
            CreateRoute(p, targets) \/ UpdateRoute(p, targets) \/ ReorderRouteTargets(p, targets)

SiteEdit ==
  \/ \E s \in ByHand : CreateSite(s)
  \/ \E s \in Sites : DeleteSite(s) \/ \E e \in Places : DeleteEndpoint(s, e)
  \/ \E s \in Sites, a \in AccountOf \union {NoRow} : WriteSiteAccount(s, a)
  \/ \E p \in Names : CreatePublished(p) \/ DeletePublished(p)

MigrationNext ==
  \/ LegacyEdit \/ SiteEdit
  \/ PreviewLegacyMigration
  \/ \E force \in BOOLEAN : ApplyLegacyMigration(force)

MigrationSpec == MigrationInit /\ [][MigrationNext]_migrationVars
---------------------------------------------------------------------------
(* Properties *)

\* Every row keeps its columns, and mappings and targets refer to rows.
MigrationTypeOK ==
  /\ upstream \in [Upstreams -> UpstreamRow \union {NoRow, Gone}]
  /\ source \in [Upstreams -> [Names -> {"none", "on", "missed", "off"}]]
  /\ route \in [Names -> Seq(Upstreams \X Names) \union {NoRow}]
  /\ \A p \in Routed : route[p] \in Seq(Living \X Names)
  /\ legacyAccount \in [Upstreams -> AccountOf \union {NoRow}]
  /\ site \in [Sites -> SiteRow \union {NoRow}]
  /\ siteOf \in [Upstreams -> Upstreams \union {NoRow}]
  /\ \A u \in Upstreams : siteOf[u] = NoRow \/ (u \in Living /\ site[siteOf[u]] # NoRow)
  /\ listing \in [Names -> ListingRow \union {NoRow}]
  /\ \A p \in Listed : \A i \in DOMAIN listing[p].targets :
       LET t == listing[p].targets[i] IN
       site[t.site] # NoRow /\ site[t.site].models[<<t.place, t.model>>] # "none"
  /\ siteAccount \in [Sites -> AccountOf \union {NoRow}]
  /\ current \in BOOLEAN /\ applied \in BOOLEAN /\ DOMAIN shown = DOMAIN NoPlan
  /\ changes \in 0..MaxChanges

Migrates == ~applied /\ applied'

\* No two groups have been mapped to one site (an upstream's origin may change
\* after its migration).
GroupsApart == \A o, q \in Groups : o # q => MappedSites(o) \intersect MappedSites(q) = {}

\* What is created is what was shown, and there is nothing left to do.
AsReviewed ==
  LET created == {p \in Names : listing[p] # listing'[p]}
      targets == Cardinality(UNION {{p} \X DOMAIN listing'[p].targets : p \in created}) IN
  /\ shown.sites = Cardinality({s \in Sites : site[s] = NoRow /\ site'[s] # NoRow})
  /\ shown.keys = Cardinality({u \in Upstreams : siteOf[u] # siteOf'[u]})
  /\ shown.accounts = Cardinality({s \in Sites : siteAccount[s] = NoRow /\ siteAccount'[s] # NoRow})
  /\ shown.published = Cardinality(created)
  /\ IF GroupsApart THEN shown.targets = targets ELSE shown.targets >= targets
  /\ Plan' = NoPlan /\ ~HardConflict'

\* What is created is what the administrator was shown at the last preview,
\* whatever was edited before or since - except that targets of groups that
\* share a site are counted apart and created once - and repeating the apply
\* would find nothing left to do, and no conflict.
ReviewedIsApplied == [][Migrates => AsReviewed]_migrationVars

Servable(p) == \E t \in ToSet(route[p]) :
  upstream[t[1]].enabled /\ upstream[t[1]].routable /\ source[t[1]][t[2]] \in {"on", "missed"}
Serves(p) == \E t \in ToSet(listing[p].targets) :
  site[t.site].endpoints[t.place] = "on" /\ site[t.site].models[<<t.place, t.model>>] = "on"

\* The upstreams of a route's future sites are all in use and none of them
\* has been migrated before.
Undisputed(p) == \A t \in ToSet(route[p]) : \A u \in Members(upstream[t[1]].origin) :
  u \in Pending /\ upstream[u].enabled /\ \A n \in Names : source[u][n] # "off"

\* A model that could be served before can be served after: its published
\* model has a target whose endpoint and model are enabled.  That is only so
\* if no disabled upstream or model is merged into a site of the route, since
\* the first one decides whether the shared endpoint and model are enabled,
\* and which of the site's targets is kept.
ServiceIsKept == [][Migrates =>
  \A p \in PendingRoutes : Servable(p) /\ Undisputed(p) => Serves(p)']_migrationVars

=============================================================================

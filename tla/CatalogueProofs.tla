-------------------------- MODULE CatalogueProofs --------------------------
(***************************************************************************)
(* Proofs about Catalogue for any number of sites, endpoints, keys, models *)
(* targets and discoveries.                                                *)
(*                                                                         *)
(* Structure says that no row outlives the row it belongs to and that the  *)
(* route is sound; SiteMoves and RouteMoves say of every step that a page  *)
(* or a discovery cannot miss a change: what a revision covers stays as it *)
(* is, or the revision grows, or the row is gone for good.  The invariants *)
(* of the discoveries (Informed) and of the panel (Viewed) follow from     *)
(* these two alone, whatever the administrator does.                       *)
(***************************************************************************)
EXTENDS Catalogue, FiniteSetTheorems, WellFoundedInduction, TLAPS

Types ==
  /\ site \in [Sites -> Rows(SiteRow)]
  /\ endpoint \in [Endpoints -> Rows(EndpointRow)]
  /\ credential \in [Credentials -> Rows(CredentialRow)]
  /\ model \in [Endpoints -> [Names -> {"none", "enabled", "disabled"}]]
  /\ published \in Rows(SiteRow)
  /\ target \in [Targets -> Rows(TargetRow)]
  /\ profile \in Rows({"here"})
  /\ override \in [Targets -> Nat \union {NoPosition}]
  /\ edits \in 0..MaxEdits

\* No row outlives its parent, and the route is sound; positions and the number
\* of targets are bounded by the number of changes made.
Structure ==
  /\ \A e \in Endpoints : Here(endpoint[e]) => Here(site[SiteOf[e]])
  /\ \A c \in Credentials : Here(credential[c]) => Here(site[SiteOf[c]])
  /\ \A e \in Endpoints, n \in Names : model[e][n] # "none" => Here(endpoint[e])
  /\ RouteIsSound
  /\ IsFiniteSet(Listed) /\ Cardinality(Listed) <= edits
  /\ \A t \in Listed : target[t].pos <= edits

Sound == Types /\ Structure

\* A step leaves what the revision of a site covers, or the revision grows, or
\* the site is gone for good.
SiteMoves ==
  \A s \in Sites :
    /\ site[s] = Gone => site'[s] = Gone
    /\ Here(site[s]) =>
         \/ site'[s] = Gone
         \/ Here(site'[s]) /\ site'[s].rev > site[s].rev
         \/ /\ site'[s] = site[s]
            /\ \A e \in Endpoints : SiteOf[e] = s => endpoint'[e] = endpoint[e]
            /\ \A c \in Credentials : SiteOf[c] = s => credential'[c] = credential[c]

\* The same of the published model and its targets.
RouteMoves ==
  /\ published = Gone => published' = Gone
  /\ Here(published) =>
       \/ published' = Gone
       \/ Here(published') /\ published'.rev > published.rev
       \/ /\ published' = published
          /\ Listed' = Listed
          /\ \A t \in Listed :
               /\ target'[t] = target[t]
               /\ endpoint'[target[t].endpoint].eligible = endpoint[target[t].endpoint].eligible

\* A change names no revision, or that of the page and of the row.
Justified ==
  \/ view' = view
  \/ /\ view.pc = "shown" /\ view' = [view EXCEPT !.pc = "saved"]
     /\ \/ /\ view.kind = "site" /\ view.id \in Sites
           /\ Here(site[view.id]) /\ view.rev = site[view.id].rev
        \/ view.kind = "route" /\ Here(published) /\ view.rev = published.rev

\* Coverage is kept or forgotten.
Forgets ==
  \A c \in Credentials, e \in Endpoints, n \in Names :
    access'[c][e][n] \in {access[c][e][n], NoAccess}

Access == [Credentials -> [Endpoints -> [Names -> AccessRow]]]

\* What every change of the administrator does.
Change ==
  /\ Sound' /\ SiteMoves /\ RouteMoves /\ Justified /\ Forgets
  /\ access \in Access => access' \in Access
  /\ UNCHANGED <<run, misses>>

-----------------------------------------------------------------------------
(* Sets and rows *)

\* A bounded set of natural numbers has a greatest element.
LEMMA GreatestNatural ==
  ASSUME NEW S \in SUBSET Nat, S # {}, NEW n \in Nat, \A x \in S : x <= n
  PROVE  \E x \in S : \A y \in S : y <= x
<1> DEFINE R == OpToRel(<, Nat)
<1> DEFINE M == {n - x : x \in S}
<1>1. IsWellFoundedOn(R, Nat)
  BY NatLessThanWellFounded
<1>2. \A y, z \in Nat : y < z => <<y, z>> \in R
  BY DEF OpToRel
<1>3. M \in SUBSET Nat /\ M # {}
  <2>1. \A x \in S : n - x \in Nat
    OBVIOUS
  <2> QED BY <2>1
<1> HIDE DEF R
<1>4. PICK m \in M : \A k \in M : ~(<<k, m>> \in R)
  BY <1>1, <1>3, WFMin
<1>5. PICK x \in S : m = n - x
  OBVIOUS
<1>6. ASSUME NEW y \in S PROVE y <= x
  <2>1. n - y \in M /\ n - y \in Nat /\ m \in Nat
    BY <1>3
  <2>2. ~(n - y < m)
    BY <1>2, <1>4, <2>1
  <2> QED BY <1>5, <2>2
<1> QED BY <1>6

\* A row that is here has the columns of its table, and a row with these
\* columns is here.
LEMMA HereRows ==
  /\ \A x \in Rows(SiteRow) : Here(x) <=> x \in SiteRow
  /\ \A x \in Rows(EndpointRow) : Here(x) <=> x \in EndpointRow
  /\ \A x \in Rows(CredentialRow) : Here(x) <=> x \in CredentialRow
  /\ \A x \in Rows(TargetRow) : Here(x) <=> x \in TargetRow
  /\ \A x \in Rows({"here"}) : Here(x) <=> x = "here"
  /\ ~Here(Unborn) /\ ~Here(Gone) /\ Unborn # Gone
BY RowsAssumption DEF Here, Rows

\* The three ways in which a change names a revision.
LEMMA UncheckedEffect ==
  ASSUME edits \in 0..MaxEdits, Unchecked
  PROVE  Justified /\ edits' = edits + 1 /\ edits' \in 0..MaxEdits
BY SentinelAssumption DEF Unchecked, Edit, Justified

LEMMA SiteAccepted ==
  ASSUME edits \in 0..MaxEdits, NEW s \in Sites, Here(site[s]),
         Accepted("site", s, site[s].rev)
  PROVE  Justified /\ edits' = edits + 1 /\ edits' \in 0..MaxEdits
BY SentinelAssumption DEF Accepted, Checked, Unchecked, Edit, Justified

LEMMA RouteAccepted ==
  ASSUME edits \in 0..MaxEdits, Here(published), Accepted("route", "route", published.rev)
  PROVE  Justified /\ edits' = edits + 1 /\ edits' \in 0..MaxEdits
BY SentinelAssumption DEF Accepted, Checked, Unchecked, Edit, Justified

\* Targets use endpoints that are there and that the gateway can talk to.
LEMMA TargetsEligible ==
  ASSUME Sound
  PROVE  /\ \A e \in Endpoints : TargetsAt({e}) # {} => Here(endpoint[e]) /\ endpoint[e].eligible
         /\ Listed # {} => Here(published)
         /\ \A t \in Listed : target[t] \in TargetRow
BY HereRows DEF Sound, Types, Structure, RouteIsSound, TargetsAt, Listed

\* A change that deletes nothing and moves no target ...
Growing ==
  /\ edits' >= edits /\ UNCHANGED <<target, override>>
  /\ \A s \in Sites : Here(site[s]) => Here(site'[s])
  /\ \A e \in Endpoints : Here(endpoint'[e]) => Here(endpoint[e]) \/ Here(site'[SiteOf[e]])
  /\ \A c \in Credentials : Here(credential'[c]) => Here(credential[c]) \/ Here(site'[SiteOf[c]])
  /\ \A e \in Endpoints : Here(endpoint[e]) =>
       Here(endpoint'[e]) /\ (TargetsAt({e}) # {} => endpoint'[e].eligible)
  /\ \A e \in Endpoints, n \in Names :
       /\ model[e][n] # "none" => model'[e][n] # "none"
       /\ model'[e][n] # "none" => model[e][n] # "none" \/ Here(endpoint[e])
  /\ Here(published) => Here(published')
  /\ Here(profile) => Here(profile')

\* ... keeps the structure.
LEMMA GrowingKeeps ==
  ASSUME Sound, Types', Growing
  PROVE  Structure'
<1> USE IdsAssumption DEF Growing
<1>1. Listed' = Listed
  BY DEF Listed
<1>2. \A t \in Listed : target[t] \in TargetRow
  BY HereRows DEF Listed, Sound, Types
<1>3. \A t \in Listed : target[t].endpoint \in Endpoints /\ target[t].name \in Names
                        /\ target[t].pos \in Nat /\ t \in TargetsAt({target[t].endpoint})
  BY <1>2 DEF TargetRow, TargetsAt
<1>4. RouteIsSound'
  <2>1. \A t \in Listed :
          LET e == target[t].endpoint IN
          /\ Here(published')
          /\ Here(site'[SiteOf[e]]) /\ Here(endpoint'[e]) /\ endpoint'[e].eligible
          /\ model'[e][target[t].name] # "none"
    BY <1>3 DEF Sound, Structure, RouteIsSound
  <2> QED BY <1>1, <2>1 DEF Sound, Structure, RouteIsSound
<1>5. \A e \in Endpoints : Here(endpoint'[e]) => Here(site'[SiteOf[e]])
  BY DEF Sound, Structure
<1>6. \A c \in Credentials : Here(credential'[c]) => Here(site'[SiteOf[c]])
  BY DEF Sound, Structure
<1>7. \A e \in Endpoints, n \in Names : model'[e][n] # "none" => Here(endpoint'[e])
  BY DEF Sound, Structure
<1>8. IsFiniteSet(Listed) /\ Cardinality(Listed) <= edits'
  <2>1. Cardinality(Listed) \in Nat
    BY FS_CardinalityType DEF Sound, Structure
  <2> QED BY <2>1, SentinelAssumption DEF Sound, Structure, Types
<1>9. \A t \in Listed : target[t].pos <= edits'
  <2>1. edits \in Nat /\ edits' \in Nat
    BY SentinelAssumption DEF Sound, Types
  <2>2. \A t \in Listed : target[t].pos <= edits
    BY DEF Sound, Structure
  <2>3. ASSUME NEW t \in Listed PROVE target[t].pos <= edits'
    <3>1. target[t].pos \in Nat /\ target[t].pos <= edits
      BY <1>3, <2>2
    <3> QED BY <2>1, <3>1
  <2> QED BY <2>3
<1> QED BY <1>1, <1>4, <1>5, <1>6, <1>7, <1>8, <1>9 DEF Structure

\* A change that takes some targets away, and rows that no other target names,
Dropping(D) ==
  /\ edits' >= edits /\ DropTargets(D)
  /\ Here(profile) => Here(profile')
  /\ Listed \subseteq D \/ Here(published')
  /\ \A e \in Endpoints : Here(endpoint'[e]) => Here(endpoint[e]) /\ Here(site'[SiteOf[e]])
  /\ \A c \in Credentials : Here(credential'[c]) => Here(site'[SiteOf[c]])
  /\ \A e \in Endpoints, n \in Names :
       model'[e][n] # "none" => model[e][n] # "none" /\ Here(endpoint'[e])
  /\ \A t \in Listed \ D :
       LET e == target[t].endpoint IN
       /\ Here(endpoint'[e]) /\ endpoint'[e].eligible = endpoint[e].eligible
       /\ model'[e][target[t].name] = model[e][target[t].name]

\* ... keeps the structure.
LEMMA DroppingKeeps ==
  ASSUME Sound, Types', NEW D \in SUBSET Targets, Dropping(D)
  PROVE  Structure'
<1> USE IdsAssumption DEF Dropping
<1>1. Listed' = Listed \ D
  BY HereRows DEF Listed, DropTargets
<1>2. \A t \in Listed' : target'[t] = target[t] /\ override'[t] = override[t]
  BY <1>1 DEF DropTargets, Listed
<1>3. \A t \in Listed : target[t] \in TargetRow
  BY HereRows DEF Listed, Sound, Types
<1>4. \A t \in Listed : target[t].endpoint \in Endpoints /\ target[t].name \in Names
                        /\ target[t].pos \in Nat
  BY <1>3 DEF TargetRow
<1>5. RouteIsSound'
  <2>1. \A t \in Listed' :
          LET e == target'[t].endpoint IN
          /\ Here(published')
          /\ Here(site'[SiteOf[e]]) /\ Here(endpoint'[e]) /\ endpoint'[e].eligible
          /\ model'[e][target'[t].name] # "none"
    BY <1>1, <1>2, <1>4 DEF Sound, Structure, RouteIsSound
  <2>2. \A t, u \in Listed' : t # u =>
          /\ target'[t].pos # target'[u].pos
          /\ SiteOf[target'[t].endpoint] # SiteOf[target'[u].endpoint]
    BY <1>1, <1>2 DEF Sound, Structure, RouteIsSound
  <2>3. \A t \in Targets : override'[t] # NoPosition =>
          /\ Here(profile') /\ t \in Listed' /\ override'[t] = override[t]
    BY <1>1 DEF DropTargets, Sound, Structure, RouteIsSound
  <2> QED BY <2>1, <2>2, <2>3 DEF Sound, Structure, RouteIsSound
<1>6. /\ IsFiniteSet(Listed') /\ Cardinality(Listed') <= edits'
      /\ \A t \in Listed' : target'[t].pos <= edits'
  <2>1. /\ IsFiniteSet(Listed') /\ Cardinality(Listed') <= Cardinality(Listed)
        /\ Cardinality(Listed) \in Nat /\ Cardinality(Listed') \in Nat
    BY <1>1, FS_Subset, FS_CardinalityType DEF Sound, Structure
  <2> QED BY <1>1, <1>2, <1>4, <2>1, SentinelAssumption DEF Sound, Structure, Types
<1> QED BY <1>5, <1>6 DEF Structure

-----------------------------------------------------------------------------
(* Revisions and cascades *)

USE IdsAssumption DEF config, routes

\* The revision of a site grows.
LEMMA SiteBumped ==
  ASSUME Sound, NEW s \in Sites, Here(site[s]), BumpSite(s)
  PROVE  /\ site' \in [Sites -> Rows(SiteRow)]
         /\ Here(site'[s]) /\ site'[s].rev > site[s].rev
         /\ \A r \in Sites \ {s} : site'[r] = site[r]
<1>1. site[s] \in SiteRow
  BY HereRows DEF Sound, Types
<1> DEFINE row == [site[s] EXCEPT !.rev = @ + 1]
<1>2. row \in SiteRow /\ row.rev > site[s].rev
  BY <1>1 DEF SiteRow
<1>3. site' = [site EXCEPT ![s] = row]
  BY DEF BumpSite
<1> HIDE DEF row
<1> QED BY <1>2, <1>3, HereRows DEF Sound, Types, Rows

\* A site whose revision grew may have changed in any way.
LEMMA BumpedMoves ==
  ASSUME Sound, NEW s \in Sites, Here(site[s]), Here(site'[s]), site'[s].rev > site[s].rev,
         \A r \in Sites \ {s} : site'[r] = site[r],
         \A e \in Endpoints : SiteOf[e] # s => endpoint'[e] = endpoint[e],
         \A c \in Credentials : SiteOf[c] # s => credential'[c] = credential[c]
  PROVE  SiteMoves
BY DEF SiteMoves, Here

\* The published model changes if one of the targets in question exists.
LEMMA PublishedBumped ==
  ASSUME Sound, NEW T, T = {} \/ Here(published), BumpPublished(T)
  PROVE  /\ published' \in Rows(SiteRow)
         /\ T = {} => published' = published
         /\ T # {} => Here(published') /\ published'.rev > published.rev
         /\ Here(published) <=> Here(published')
         /\ published = Gone <=> published' = Gone
<1>1. CASE T = {}
  BY <1>1 DEF BumpPublished, Sound, Types
<1>2. CASE T # {}
  <2> DEFINE row == [published EXCEPT !.rev = @ + 1]
  <2>1. published \in SiteRow /\ published' = row
    BY <1>2, HereRows DEF BumpPublished, Sound, Types
  <2>2. row \in SiteRow /\ row.rev > published.rev
    BY <2>1 DEF SiteRow
  <2> HIDE DEF row
  <2> QED BY <1>2, <2>1, <2>2, HereRows DEF Rows, Sound, Types
<1> QED BY <1>1, <1>2

\* The targets that are dropped are gone, the others as they were.
LEMMA TargetsDropped ==
  ASSUME Sound, NEW D \in SUBSET Targets, DropTargets(D)
  PROVE  /\ target' \in [Targets -> Rows(TargetRow)]
         /\ override' \in [Targets -> Nat \union {NoPosition}]
         /\ Listed' = Listed \ D
         /\ \A t \in Listed \ D : target'[t] = target[t]
BY HereRows DEF DropTargets, Sound, Types, Rows, Listed

\* So are models and their coverage.
LEMMA ModelsDropped ==
  ASSUME Sound, NEW M, DropModels(M)
  PROVE  /\ model' \in [Endpoints -> [Names -> {"none", "enabled", "disabled"}]]
         /\ \A e \in Endpoints, n \in Names :
              model'[e][n] = IF <<e, n>> \in M THEN "none" ELSE model[e][n]
         /\ Forgets
         /\ access \in Access => access' \in Access
<1>1. NoAccess \in AccessRow
  BY DEF NoAccess, AccessRow
<1>2. /\ model' = [e \in Endpoints |-> [n \in Names |->
            IF <<e, n>> \in M THEN "none" ELSE model[e][n]]]
      /\ access' = [c \in Credentials |-> [e \in Endpoints |-> [n \in Names |->
            IF <<e, n>> \in M THEN NoAccess ELSE access[c][e][n]]]]
  BY DEF DropModels
<1>3. Forgets
  BY <1>2 DEF Forgets
<1>4. ASSUME access \in Access PROVE access' \in Access
  BY <1>1, <1>2, <1>4 DEF Access
<1> HIDE DEF Forgets
<1> QED BY <1>2, <1>3, <1>4 DEF Sound, Types

\* And the coverage of keys.
LEMMA AccessDropped ==
  ASSUME NEW C, DropAccess(C)
  PROVE  Forgets /\ (access \in Access => access' \in Access)
<1>1. NoAccess \in AccessRow
  BY DEF NoAccess, AccessRow
<1>2. Forgets
  BY DEF DropAccess, Forgets
<1>3. ASSUME access \in Access PROVE access' \in Access
  BY <1>1, <1>3 DEF DropAccess, Access
<1> QED BY <1>2, <1>3

-----------------------------------------------------------------------------
(* Sites, endpoints and keys *)

\* A new site.
LEMMA CreateSiteChanges ==
  ASSUME Sound, NEW s \in Sites, NEW b \in BOOLEAN, CreateSite(s, b)
  PROVE  Change
<1> DEFINE row == [enabled |-> b, rev |-> 1]
<1>1. /\ site[s] = Unborn /\ site' = [site EXCEPT ![s] = row] /\ Unchecked
      /\ UNCHANGED <<endpoint, credential, model, access, routes, run, misses>>
  BY DEF CreateSite
<1>2. row \in SiteRow /\ Here(row)
  BY RowsAssumption DEF SiteRow, Here
<1>3. Justified /\ edits' = edits + 1 /\ edits' \in 0..MaxEdits
  BY <1>1, UncheckedEffect DEF Sound, Types
<1>4. Types'
  BY <1>1, <1>2, <1>3 DEF Sound, Types, Rows
<1> HIDE DEF row
<1>5. \A r \in Sites : Here(site[r]) => site'[r] = site[r]
  BY <1>1, HereRows DEF Sound, Types
<1>6. Growing
  BY <1>1, <1>2, <1>3, <1>5, TargetsEligible DEF Growing, Sound, Types
<1>7. SiteMoves
  BY <1>1, <1>2, <1>5, HereRows DEF SiteMoves, Sound, Types
<1> QED BY <1>1, <1>3, <1>4, <1>6, <1>7, GrowingKeeps DEF Change, Sound, RouteMoves, Forgets, Listed

\* The name or the switch of a site.
LEMMA UpdateSiteChanges ==
  ASSUME Sound, NEW s \in Sites, NEW b \in BOOLEAN, UpdateSite(s, b)
  PROVE  Change
<1> DEFINE row == [enabled |-> b, rev |-> site[s].rev + 1]
<1>1. /\ Here(site[s]) /\ Accepted("site", s, site[s].rev) /\ BumpPublished(SiteTargets(s))
      /\ site' = [site EXCEPT ![s] = row]
      /\ UNCHANGED <<endpoint, credential, model, access, target, profile, override, run, misses>>
  BY DEF UpdateSite
<1>2. site[s] \in SiteRow /\ row \in SiteRow /\ row.rev > site[s].rev /\ Here(row)
  <2>1. site[s] \in SiteRow
    BY <1>1, HereRows DEF Sound, Types
  <2>2. row \in SiteRow /\ row.rev > site[s].rev
    BY <2>1 DEF SiteRow
  <2> QED BY <2>1, <2>2, HereRows DEF Rows
<1>3. Justified /\ edits' = edits + 1 /\ edits' \in 0..MaxEdits
  BY <1>1, SiteAccepted DEF Sound, Types
<1>4. /\ published' \in Rows(SiteRow)
      /\ Here(published) <=> Here(published')
      /\ published = Gone <=> published' = Gone
      /\ published' = published \/ (Here(published') /\ published'.rev > published.rev)
  BY <1>1, PublishedBumped, TargetsEligible DEF SiteTargets
<1> HIDE DEF row
<1>5. Types'
  BY <1>1, <1>2, <1>3, <1>4 DEF Sound, Types, Rows
<1>6. \A r \in Sites \ {s} : site'[r] = site[r]
  BY <1>1 DEF Sound, Types
<1>7. site'[s] = row
  BY <1>1 DEF Sound, Types
<1>8. Growing
  BY <1>1, <1>2, <1>3, <1>4, <1>6, <1>7, TargetsEligible DEF Growing, Sound, Types
<1>9. SiteMoves
  BY <1>1, <1>2, <1>6, <1>7, BumpedMoves
<1>10. RouteMoves
  BY <1>1, <1>4 DEF RouteMoves, Listed
<1> QED BY <1>1, <1>3, <1>5, <1>8, <1>9, <1>10, GrowingKeeps DEF Change, Sound, Forgets

\* A site goes with its endpoints, keys, models and targets.
LEMMA DeleteSiteChanges ==
  ASSUME Sound, NEW s \in Sites, DeleteSite(s)
  PROVE  Change
<1>1. /\ Here(site[s]) /\ Accepted("site", s, site[s].rev)
      /\ BumpPublished(SiteTargets(s))
      /\ site' = [site EXCEPT ![s] = Gone]
      /\ endpoint' = [e \in Endpoints |-> IF e \in EndpointsOf(s) THEN Gone ELSE endpoint[e]]
      /\ credential' = [c \in Credentials |->
                          IF c \in CredentialsOf(s) THEN Gone ELSE credential[c]]
      /\ DropModels(EndpointsOf(s) \X Names)
      /\ DropTargets(SiteTargets(s))
      /\ UNCHANGED <<profile, run, misses>>
  BY DEF DeleteSite
<1>2. Justified /\ edits' = edits + 1 /\ edits' \in 0..MaxEdits
  BY <1>1, SiteAccepted DEF Sound, Types
<1>3. SiteTargets(s) \in SUBSET Targets /\ SiteTargets(s) \subseteq Listed
  BY DEF SiteTargets, Listed
<1>4. /\ published' \in Rows(SiteRow)
      /\ Here(published) <=> Here(published')
      /\ published = Gone <=> published' = Gone
      /\ SiteTargets(s) = {} => published' = published
      /\ SiteTargets(s) # {} => Here(published') /\ published'.rev > published.rev
  BY <1>1, <1>3, PublishedBumped, TargetsEligible
<1>5. /\ target' \in [Targets -> Rows(TargetRow)]
      /\ override' \in [Targets -> Nat \union {NoPosition}]
      /\ Listed' = Listed \ SiteTargets(s)
      /\ \A t \in Listed \ SiteTargets(s) : target'[t] = target[t]
  BY <1>1, <1>3, TargetsDropped
<1>6. /\ model' \in [Endpoints -> [Names -> {"none", "enabled", "disabled"}]]
      /\ \A e \in Endpoints, n \in Names :
           model'[e][n] = IF e \in EndpointsOf(s) THEN "none" ELSE model[e][n]
      /\ Forgets
      /\ access \in Access => access' \in Access
  <2>1. DropModels(EndpointsOf(s) \X Names)
    BY <1>1
  <2>2. \A e \in Endpoints, n \in Names :
          <<e, n>> \in EndpointsOf(s) \X Names <=> e \in EndpointsOf(s)
    OBVIOUS
  <2>3. /\ model' \in [Endpoints -> [Names -> {"none", "enabled", "disabled"}]]
        /\ \A e \in Endpoints, n \in Names :
             model'[e][n] = IF <<e, n>> \in EndpointsOf(s) \X Names THEN "none" ELSE model[e][n]
        /\ Forgets
        /\ access \in Access => access' \in Access
    BY <2>1, ModelsDropped
  <2> HIDE DEF Forgets
  <2> QED BY <2>2, <2>3
<1>7. /\ \A e \in Endpoints : endpoint'[e] = IF e \in EndpointsOf(s) THEN Gone ELSE endpoint[e]
      /\ \A c \in Credentials :
           credential'[c] = IF c \in CredentialsOf(s) THEN Gone ELSE credential[c]
      /\ \A r \in Sites : site'[r] = IF r = s THEN Gone ELSE site[r]
  BY <1>1 DEF Sound, Types
<1>8. Types'
  <2>1. /\ site' \in [Sites -> Rows(SiteRow)]
        /\ endpoint' \in [Endpoints -> Rows(EndpointRow)]
        /\ credential' \in [Credentials -> Rows(CredentialRow)]
    BY <1>1 DEF Sound, Types, Rows
  <2> QED BY <1>1, <1>2, <1>4, <1>5, <1>6, <2>1 DEF Sound, Types
<1>9. \A t \in Listed \ SiteTargets(s) :
        LET e == target[t].endpoint IN
        /\ e \in Endpoints /\ e \notin EndpointsOf(s) /\ Here(endpoint[e])
        /\ target[t].name \in Names
  BY HereRows, TargetsEligible
     DEF SiteTargets, EndpointsOf, TargetRow, Sound, Structure, RouteIsSound
<1>10. Dropping(SiteTargets(s))
  <2>1. \A e \in Endpoints : Here(endpoint'[e]) => Here(endpoint[e]) /\ SiteOf[e] # s
    BY <1>7, HereRows DEF EndpointsOf
  <2>2. \A c \in Credentials : Here(credential'[c]) => Here(credential[c]) /\ SiteOf[c] # s
    BY <1>7, HereRows DEF CredentialsOf
  <2>3. \A e \in Endpoints : Here(endpoint'[e]) => Here(site'[SiteOf[e]])
    BY <1>7, <2>1 DEF Sound, Structure
  <2>4. \A c \in Credentials : Here(credential'[c]) => Here(site'[SiteOf[c]])
    BY <1>7, <2>2 DEF Sound, Structure
  <2>5. \A e \in Endpoints, n \in Names :
          model'[e][n] # "none" => model[e][n] # "none" /\ Here(endpoint'[e])
    BY <1>6, <1>7 DEF Sound, Structure
  <2>6. \A t \in Listed \ SiteTargets(s) :
          LET e == target[t].endpoint IN
          /\ Here(endpoint'[e]) /\ endpoint'[e].eligible = endpoint[e].eligible
          /\ model'[e][target[t].name] = model[e][target[t].name]
    BY <1>6, <1>7, <1>9
  <2>7. Listed \subseteq SiteTargets(s) \/ Here(published')
    BY <1>4, TargetsEligible
  <2>8. edits' >= edits
    BY <1>2 DEF Sound, Types
  <2> QED BY <1>1, <2>1, <2>3, <2>4, <2>5, <2>6, <2>7, <2>8 DEF Dropping
<1>11. SiteMoves
  BY <1>7, HereRows DEF SiteMoves, EndpointsOf, CredentialsOf
<1>12. RouteMoves
  BY <1>4, <1>5, <1>7, <1>9 DEF RouteMoves
<1> QED BY <1>1, <1>2, <1>3, <1>6, <1>8, <1>10, <1>11, <1>12, DroppingKeeps DEF Change, Sound

\* Endpoints and keys of one site are edited, and no endpoint in use becomes one
\* that the gateway cannot talk to.
LEMMA ChildrenEdited ==
  ASSUME Sound, NEW s \in Sites, Here(site[s]), BumpSite(s),
         Justified, edits' = edits + 1, edits' \in 0..MaxEdits,
         endpoint' \in [Endpoints -> Rows(EndpointRow)],
         credential' \in [Credentials -> Rows(CredentialRow)],
         \A e \in Endpoints : SiteOf[e] # s => endpoint'[e] = endpoint[e],
         \A c \in Credentials : SiteOf[c] # s => credential'[c] = credential[c],
         \A e \in Endpoints : Here(endpoint[e]) =>
           Here(endpoint'[e]) /\ (TargetsAt({e}) # {} => endpoint'[e].eligible),
         UNCHANGED <<model, target, profile, override, run, misses>>,
         published' \in Rows(SiteRow), published = Gone => published' = Gone,
         published' = published \/ (Here(published') /\ published'.rev > published.rev),
         Forgets, access \in Access => access' \in Access
  PROVE  Change
<1>1. /\ site' \in [Sites -> Rows(SiteRow)] /\ Here(site'[s]) /\ site'[s].rev > site[s].rev
      /\ \A r \in Sites \ {s} : site'[r] = site[r]
  BY SiteBumped
<1>2. Types'
  BY <1>1 DEF Sound, Types
<1>3. Growing
  <2>1. \A r \in Sites : Here(site[r]) => Here(site'[r])
    BY <1>1
  <2>2. \A e \in Endpoints : Here(endpoint'[e]) => Here(endpoint[e]) \/ Here(site'[SiteOf[e]])
    BY <1>1
  <2>3. \A c \in Credentials :
          Here(credential'[c]) => Here(credential[c]) \/ Here(site'[SiteOf[c]])
    BY <1>1
  <2>4. edits' >= edits /\ (Here(published) => Here(published'))
    BY DEF Sound, Types
  <2>5. \A e \in Endpoints, n \in Names : model'[e][n] # "none" => Here(endpoint[e])
    BY DEF Sound, Structure
  <2> QED BY <2>1, <2>2, <2>3, <2>4, <2>5 DEF Growing
<1>4. SiteMoves
  BY <1>1, BumpedMoves
<1>5. RouteMoves
  <2>1. ASSUME NEW t \in Listed
        PROVE  endpoint'[target[t].endpoint].eligible = endpoint[target[t].endpoint].eligible
    <3> DEFINE e == target[t].endpoint
    <3>1. target[t] \in TargetRow /\ e \in Endpoints
      BY TargetsEligible DEF TargetRow
    <3>2. TargetsAt({e}) # {}
      BY DEF TargetsAt
    <3>3. Here(endpoint[e]) /\ endpoint[e].eligible = TRUE
      BY <3>1, <3>2, TargetsEligible, HereRows DEF Sound, Types, EndpointRow
    <3>4. Here(endpoint'[e]) /\ endpoint'[e].eligible = TRUE
      BY <3>1, <3>2, <3>3, HereRows DEF EndpointRow
    <3> QED BY <3>3, <3>4
  <2> QED BY <2>1 DEF RouteMoves, Listed
<1> QED BY <1>2, <1>3, <1>4, <1>5, GrowingKeeps DEF Change, Sound

\* A new endpoint has no targets yet.
LEMMA CreateInferenceEndpointChanges ==
  ASSUME Sound, NEW e \in Endpoints, NEW u \in Urls, NEW el \in BOOLEAN, NEW b \in BOOLEAN,
         CreateInferenceEndpoint(e, u, el, b)
  PROVE  Change
<1> DEFINE s == SiteOf[e]
<1> DEFINE row == [url |-> u, eligible |-> el, enabled |-> b, rev |-> 1]
<1>1. /\ endpoint[e] = Unborn /\ s \in Sites /\ Here(site[s])
      /\ Accepted("site", s, site[s].rev)
      /\ endpoint' = [endpoint EXCEPT ![e] = row] /\ BumpSite(s)
      /\ UNCHANGED <<credential, model, access, routes, run, misses>>
  BY DEF CreateInferenceEndpoint
<1>2. row \in EndpointRow
  BY DEF EndpointRow
<1>3. Justified /\ edits' = edits + 1 /\ edits' \in 0..MaxEdits
  BY <1>1, SiteAccepted DEF Sound, Types
<1> HIDE DEF row
<1>4. /\ endpoint' \in [Endpoints -> Rows(EndpointRow)]
      /\ \A x \in Endpoints \ {e} : endpoint'[x] = endpoint[x]
      /\ ~Here(endpoint[e])
  BY <1>1, <1>2, HereRows DEF Sound, Types, Rows
<1>5. \A x \in Endpoints : Here(endpoint[x]) =>
        Here(endpoint'[x]) /\ (TargetsAt({x}) # {} => endpoint'[x].eligible)
  BY <1>4, TargetsEligible
<1> QED BY <1>1, <1>3, <1>4, <1>5, ChildrenEdited DEF Sound, Types, Forgets

\* An endpoint in use keeps a protocol the gateway can talk.
LEMMA UpdateInferenceEndpointChanges ==
  ASSUME Sound, NEW e \in Endpoints, NEW u \in Urls, NEW el \in BOOLEAN, NEW b \in BOOLEAN,
         UpdateInferenceEndpoint(e, u, el, b)
  PROVE  Change
<1> DEFINE s == SiteOf[e]
<1> DEFINE row == [url |-> u, eligible |-> el, enabled |-> b, rev |-> endpoint[e].rev + 1]
<1>1. /\ Here(endpoint[e]) /\ Unchecked /\ (endpoint[e].eligible /\ ~el => TargetsAt({e}) = {})
      /\ BumpPublished(TargetsAt({e}))
      /\ endpoint' = [endpoint EXCEPT ![e] = row] /\ BumpSite(s)
      /\ UNCHANGED <<credential, model, access, target, profile, override, run, misses>>
  BY DEF UpdateInferenceEndpoint
<1>2. s \in Sites /\ Here(site[s]) /\ row \in EndpointRow /\ Here(row)
  <2>1. endpoint[e] \in EndpointRow
    BY <1>1, HereRows DEF Sound, Types
  <2>2. row \in EndpointRow
    BY <2>1 DEF EndpointRow
  <2> QED BY <1>1, <2>2, HereRows DEF Rows, Sound, Structure
<1>3. Justified /\ edits' = edits + 1 /\ edits' \in 0..MaxEdits
  BY <1>1, UncheckedEffect DEF Sound, Types
<1>4. TargetsAt({e}) # {} => row.eligible /\ Here(published)
  BY <1>1, TargetsEligible DEF TargetsAt
<1> HIDE DEF row
<1>5. /\ endpoint' \in [Endpoints -> Rows(EndpointRow)] /\ endpoint'[e] = row
      /\ \A x \in Endpoints \ {e} : endpoint'[x] = endpoint[x]
  BY <1>1, <1>2 DEF Sound, Types, Rows
<1>6. \A x \in Endpoints : Here(endpoint[x]) =>
        Here(endpoint'[x]) /\ (TargetsAt({x}) # {} => endpoint'[x].eligible)
  BY <1>2, <1>4, <1>5, TargetsEligible
<1>7. /\ published' \in Rows(SiteRow)
      /\ published = Gone => published' = Gone
      /\ published' = published \/ (Here(published') /\ published'.rev > published.rev)
  BY <1>1, <1>4, PublishedBumped
<1> QED BY <1>1, <1>2, <1>3, <1>5, <1>6, <1>7, ChildrenEdited DEF Sound, Types, Forgets

\* Endpoints that keep their rows keep what targets need of them.
LEMMA KeysEdited ==
  ASSUME Sound, NEW c \in Credentials, Here(site[SiteOf[c]]), BumpSite(SiteOf[c]),
         Justified, edits' = edits + 1, edits' \in 0..MaxEdits,
         NEW row \in Rows(CredentialRow), credential' = [credential EXCEPT ![c] = row],
         UNCHANGED <<endpoint, model, routes, run, misses>>,
         Forgets, access \in Access => access' \in Access
  PROVE  Change
<1>1. SiteOf[c] \in Sites
  OBVIOUS
<1>2. /\ credential' \in [Credentials -> Rows(CredentialRow)]
      /\ \A x \in Credentials \ {c} : credential'[x] = credential[x]
  BY DEF Sound, Types
<1>3. \A x \in Endpoints : Here(endpoint[x]) =>
        Here(endpoint'[x]) /\ (TargetsAt({x}) # {} => endpoint'[x].eligible)
  BY TargetsEligible
<1> QED BY <1>1, <1>2, <1>3, ChildrenEdited DEF Sound, Types

\* A new key ...
LEMMA CreateInferenceCredentialChanges ==
  ASSUME Sound, NEW c \in Credentials, NEW k \in Secrets, NEW b \in BOOLEAN,
         CreateInferenceCredential(c, k, b)
  PROVE  Change
<1> DEFINE s == SiteOf[c]
<1> DEFINE row == [secret |-> k, enabled |-> b]
<1>1. /\ s \in Sites /\ Here(site[s]) /\ Accepted("site", s, site[s].rev)
      /\ credential' = [credential EXCEPT ![c] = row] /\ BumpSite(s)
      /\ UNCHANGED <<endpoint, model, access, routes, run, misses>>
  BY DEF CreateInferenceCredential
<1>2. row \in Rows(CredentialRow)
  BY DEF CredentialRow, Rows
<1>3. Justified /\ edits' = edits + 1 /\ edits' \in 0..MaxEdits
  BY <1>1, SiteAccepted DEF Sound, Types
<1> QED BY <1>1, <1>2, <1>3, KeysEdited DEF Forgets

\* ... another secret of it ...
LEMMA UpdateInferenceCredentialChanges ==
  ASSUME Sound, NEW c \in Credentials, NEW k \in Secrets, NEW b \in BOOLEAN,
         UpdateInferenceCredential(c, k, b)
  PROVE  Change
<1> DEFINE row == [secret |-> k, enabled |-> b]
<1>1. /\ Here(credential[c]) /\ Unchecked /\ BumpSite(SiteOf[c])
      /\ credential' = [credential EXCEPT ![c] = row]
      /\ UNCHANGED <<endpoint, model, access, routes, run, misses>>
  BY DEF UpdateInferenceCredential
<1>2. row \in Rows(CredentialRow) /\ Here(site[SiteOf[c]])
  BY <1>1 DEF CredentialRow, Rows, Sound, Structure
<1>3. Justified /\ edits' = edits + 1 /\ edits' \in 0..MaxEdits
  BY <1>1, UncheckedEffect DEF Sound, Types
<1> QED BY <1>1, <1>2, <1>3, KeysEdited DEF Forgets

\* ... and its end.
LEMMA DeleteInferenceCredentialChanges ==
  ASSUME Sound, NEW c \in Credentials, DeleteInferenceCredential(c)
  PROVE  Change
<1>1. /\ Here(credential[c]) /\ Unchecked /\ BumpSite(SiteOf[c]) /\ DropAccess({c})
      /\ credential' = [credential EXCEPT ![c] = Gone]
      /\ UNCHANGED <<endpoint, model, routes, run, misses>>
  BY DEF DeleteInferenceCredential
<1>2. Gone \in Rows(CredentialRow) /\ Here(site[SiteOf[c]])
  BY <1>1 DEF Rows, Sound, Structure
<1>3. Justified /\ edits' = edits + 1 /\ edits' \in 0..MaxEdits
  BY <1>1, UncheckedEffect DEF Sound, Types
<1>4. Forgets /\ (access \in Access => access' \in Access)
  BY <1>1, AccessDropped
<1> QED BY <1>1, <1>2, <1>3, <1>4, KeysEdited

\* Another order of endpoints or keys.
LEMMA ReorderSiteChildrenChanges ==
  ASSUME Sound, NEW s \in Sites, NEW moved \in SUBSET Endpoints, ReorderSiteChildren(s, moved)
  PROVE  Change
<1> DEFINE row(e) == [endpoint[e] EXCEPT !.rev = @ + 1]
<1>1. /\ Here(site[s]) /\ moved \in {EndpointsOf(s), {}} /\ Accepted("site", s, site[s].rev)
      /\ endpoint' = [e \in Endpoints |-> IF e \in moved THEN row(e) ELSE endpoint[e]]
      /\ BumpSite(s)
      /\ UNCHANGED <<credential, model, access, routes, run, misses>>
  BY DEF ReorderSiteChildren
<1>2. \A e \in moved : SiteOf[e] = s /\ Here(endpoint[e])
  BY <1>1 DEF EndpointsOf
<1>3. \A e \in moved : row(e) \in EndpointRow /\ row(e).eligible = endpoint[e].eligible
  <2> TAKE e \in moved
  <2>1. endpoint[e] \in EndpointRow
    BY <1>2, HereRows DEF Sound, Types
  <2> QED BY <2>1 DEF EndpointRow
<1> HIDE DEF row
<1>4. Justified /\ edits' = edits + 1 /\ edits' \in 0..MaxEdits
  BY <1>1, SiteAccepted DEF Sound, Types
<1>5. /\ endpoint' \in [Endpoints -> Rows(EndpointRow)]
      /\ \A e \in Endpoints : SiteOf[e] # s => endpoint'[e] = endpoint[e]
  BY <1>1, <1>2, <1>3 DEF Sound, Types, Rows
<1>6. \A e \in Endpoints : Here(endpoint[e]) =>
        Here(endpoint'[e]) /\ (TargetsAt({e}) # {} => endpoint'[e].eligible)
  BY <1>1, <1>3, TargetsEligible, HereRows DEF Rows
<1> QED BY <1>1, <1>4, <1>5, <1>6, ChildrenEdited DEF Sound, Types, Forgets

\* An endpoint goes with its models, their coverage and its targets.
LEMMA DeleteInferenceEndpointChanges ==
  ASSUME Sound, NEW e \in Endpoints, DeleteInferenceEndpoint(e)
  PROVE  Change
<1> DEFINE s == SiteOf[e]
<1> DEFINE D == TargetsAt({e})
<1>1. /\ Here(endpoint[e]) /\ Unchecked /\ BumpPublished(D)
      /\ endpoint' = [endpoint EXCEPT ![e] = Gone]
      /\ DropModels({e} \X Names) /\ DropTargets(D) /\ BumpSite(s)
      /\ UNCHANGED <<credential, profile, run, misses>>
  BY DEF DeleteInferenceEndpoint
<1>2. Justified /\ edits' = edits + 1 /\ edits' \in 0..MaxEdits
  BY <1>1, UncheckedEffect DEF Sound, Types
<1>3. s \in Sites /\ Here(site[s]) /\ D \in SUBSET Targets /\ D \subseteq Listed
  BY <1>1 DEF Sound, Structure, TargetsAt, Listed
<1>4. /\ published' \in Rows(SiteRow)
      /\ Here(published) <=> Here(published')
      /\ published = Gone <=> published' = Gone
      /\ D = {} => published' = published
      /\ D # {} => Here(published') /\ published'.rev > published.rev
  BY <1>1, <1>3, PublishedBumped, TargetsEligible
<1>5. /\ target' \in [Targets -> Rows(TargetRow)]
      /\ override' \in [Targets -> Nat \union {NoPosition}]
      /\ Listed' = Listed \ D
      /\ \A t \in Listed \ D : target'[t] = target[t]
  BY <1>1, <1>3, TargetsDropped
<1>6. /\ model' \in [Endpoints -> [Names -> {"none", "enabled", "disabled"}]]
      /\ \A x \in Endpoints, n \in Names : model'[x][n] = IF x = e THEN "none" ELSE model[x][n]
      /\ Forgets
      /\ access \in Access => access' \in Access
  <2>1. DropModels({e} \X Names)
    BY <1>1
  <2>2. \A x \in Endpoints, n \in Names : <<x, n>> \in {e} \X Names <=> x = e
    OBVIOUS
  <2>3. /\ model' \in [Endpoints -> [Names -> {"none", "enabled", "disabled"}]]
        /\ \A x \in Endpoints, n \in Names :
             model'[x][n] = IF <<x, n>> \in {e} \X Names THEN "none" ELSE model[x][n]
        /\ Forgets
        /\ access \in Access => access' \in Access
    BY <2>1, ModelsDropped
  <2> HIDE DEF Forgets
  <2> QED BY <2>2, <2>3
<1>7. /\ site' \in [Sites -> Rows(SiteRow)] /\ Here(site'[s]) /\ site'[s].rev > site[s].rev
      /\ \A r \in Sites \ {s} : site'[r] = site[r]
  BY <1>1, <1>3, SiteBumped
<1>8. /\ endpoint' \in [Endpoints -> Rows(EndpointRow)] /\ ~Here(endpoint'[e])
      /\ \A x \in Endpoints \ {e} : endpoint'[x] = endpoint[x]
  BY <1>1, HereRows DEF Sound, Types, Rows
<1>9. Types'
  BY <1>1, <1>2, <1>4, <1>5, <1>6, <1>7, <1>8 DEF Sound, Types
<1>10. \A t \in Listed \ D :
        /\ target[t].endpoint \in Endpoints \ {e} /\ Here(endpoint[target[t].endpoint])
        /\ target[t].name \in Names
  BY TargetsEligible DEF TargetsAt, TargetRow, Sound, Structure, RouteIsSound
<1>11. Dropping(D)
  <2>1. \A x \in Endpoints : Here(endpoint'[x]) => Here(endpoint[x]) /\ x # e
    BY <1>8
  <2>2. \A r \in Sites : Here(site[r]) => Here(site'[r])
    BY <1>7
  <2>3. \A x \in Endpoints : Here(endpoint'[x]) => Here(site'[SiteOf[x]])
    BY <2>1, <2>2 DEF Sound, Structure
  <2>4. \A c \in Credentials : Here(credential'[c]) => Here(site'[SiteOf[c]])
    BY <1>1, <2>2 DEF Sound, Structure
  <2>5. \A x \in Endpoints, n \in Names :
          model'[x][n] # "none" => model[x][n] # "none" /\ Here(endpoint'[x])
    BY <1>6, <1>8 DEF Sound, Structure
  <2>6. \A t \in Listed \ D :
          LET x == target[t].endpoint IN
          /\ Here(endpoint'[x]) /\ endpoint'[x].eligible = endpoint[x].eligible
          /\ model'[x][target[t].name] = model[x][target[t].name]
    BY <1>6, <1>8, <1>10
  <2>7. Listed \subseteq D \/ Here(published')
    BY <1>4, TargetsEligible
  <2>8. edits' >= edits
    BY <1>2 DEF Sound, Types
  <2> QED BY <1>1, <2>1, <2>3, <2>4, <2>5, <2>6, <2>7, <2>8 DEF Dropping
<1>12. SiteMoves
  BY <1>1, <1>3, <1>7, <1>8, BumpedMoves
<1>13. RouteMoves
  BY <1>4, <1>5, <1>8, <1>10 DEF RouteMoves
<1> QED BY <1>1, <1>2, <1>3, <1>6, <1>9, <1>11, <1>12, <1>13, DroppingKeeps DEF Change, Sound

\* No row of the configuration changes.
LEMMA ConfigKept ==
  ASSUME Sound, UNCHANGED config
  PROVE  SiteMoves
BY DEF SiteMoves

\* A model is switched on or off.
LEMMA UpdateSiteModelChanges ==
  ASSUME Sound, NEW e \in Endpoints, NEW n \in Names, NEW state \in {"enabled", "disabled"},
         UpdateSiteModel(e, n, state)
  PROVE  Change
<1>1. /\ model[e][n] # "none" /\ Unchecked /\ BumpPublished(TargetsOn(e, n))
      /\ model' = [model EXCEPT ![e][n] = state]
      /\ UNCHANGED <<config, access, target, profile, override, run, misses>>
  BY DEF UpdateSiteModel
<1>2. Justified /\ edits' = edits + 1 /\ edits' \in 0..MaxEdits
  BY <1>1, UncheckedEffect DEF Sound, Types
<1>3. /\ published' \in Rows(SiteRow)
      /\ Here(published) <=> Here(published')
      /\ published = Gone <=> published' = Gone
      /\ published' = published \/ (Here(published') /\ published'.rev > published.rev)
  BY <1>1, PublishedBumped, TargetsEligible DEF TargetsOn
<1>4. /\ model' \in [Endpoints -> [Names -> {"none", "enabled", "disabled"}]]
      /\ \A x \in Endpoints, m \in Names : model'[x][m] # "none" <=> model[x][m] # "none"
  BY <1>1 DEF Sound, Types
<1>5. Types'
  BY <1>1, <1>2, <1>3, <1>4 DEF Sound, Types
<1>6. Growing
  <2>1. \A x \in Endpoints, m \in Names : model'[x][m] # "none" => Here(endpoint[x])
    BY <1>4 DEF Sound, Structure
  <2>2. edits' >= edits
    BY <1>2 DEF Sound, Types
  <2> QED BY <1>1, <1>3, <1>4, <2>1, <2>2, TargetsEligible DEF Growing
<1>7. RouteMoves
  BY <1>1, <1>3 DEF RouteMoves, Listed
<1> QED BY <1>1, <1>2, <1>5, <1>6, <1>7, ConfigKept, GrowingKeeps DEF Change, Sound, Forgets

\* A model goes with its coverage and its targets.
LEMMA DeleteSiteModelChanges ==
  ASSUME Sound, NEW e \in Endpoints, NEW n \in Names, DeleteSiteModel(e, n)
  PROVE  Change
<1> DEFINE D == TargetsOn(e, n)
<1>1. /\ model[e][n] # "none" /\ Unchecked /\ BumpPublished(D)
      /\ DropModels({<<e, n>>}) /\ DropTargets(D)
      /\ UNCHANGED <<config, profile, run, misses>>
  BY DEF DeleteSiteModel
<1>2. Justified /\ edits' = edits + 1 /\ edits' \in 0..MaxEdits
  BY <1>1, UncheckedEffect DEF Sound, Types
<1>3. D \in SUBSET Targets /\ D \subseteq Listed
  BY DEF TargetsOn, Listed
<1>4. /\ published' \in Rows(SiteRow)
      /\ Here(published) <=> Here(published')
      /\ published = Gone <=> published' = Gone
      /\ D = {} => published' = published
      /\ D # {} => Here(published') /\ published'.rev > published.rev
  BY <1>1, <1>3, PublishedBumped, TargetsEligible
<1>5. /\ target' \in [Targets -> Rows(TargetRow)]
      /\ override' \in [Targets -> Nat \union {NoPosition}]
      /\ Listed' = Listed \ D
      /\ \A t \in Listed \ D : target'[t] = target[t]
  BY <1>1, <1>3, TargetsDropped
<1>6. /\ model' \in [Endpoints -> [Names -> {"none", "enabled", "disabled"}]]
      /\ \A x \in Endpoints, m \in Names :
           model'[x][m] = IF x = e /\ m = n THEN "none" ELSE model[x][m]
      /\ Forgets
      /\ access \in Access => access' \in Access
  <2>1. DropModels({<<e, n>>})
    BY <1>1
  <2>2. \A x \in Endpoints, m \in Names : <<x, m>> \in {<<e, n>>} <=> x = e /\ m = n
    OBVIOUS
  <2>3. /\ model' \in [Endpoints -> [Names -> {"none", "enabled", "disabled"}]]
        /\ \A x \in Endpoints, m \in Names :
             model'[x][m] = IF <<x, m>> \in {<<e, n>>} THEN "none" ELSE model[x][m]
        /\ Forgets
        /\ access \in Access => access' \in Access
    BY <2>1, ModelsDropped
  <2> HIDE DEF Forgets
  <2> QED BY <2>2, <2>3
<1>7. Types'
  BY <1>1, <1>2, <1>4, <1>5, <1>6 DEF Sound, Types
<1>8. \A t \in Listed \ D :
        LET x == target[t].endpoint  m == target[t].name IN
        x \in Endpoints /\ m \in Names /\ ~(x = e /\ m = n) /\ Here(endpoint[x])
  BY TargetsEligible DEF TargetsOn, TargetRow, Sound, Structure, RouteIsSound
<1>9. Dropping(D)
  <2>1. \A x \in Endpoints, m \in Names :
          model'[x][m] # "none" => model[x][m] # "none" /\ Here(endpoint'[x])
    BY <1>1, <1>6 DEF Sound, Structure
  <2>2. \A t \in Listed \ D :
          LET x == target[t].endpoint IN
          /\ Here(endpoint'[x]) /\ endpoint'[x].eligible = endpoint[x].eligible
          /\ model'[x][target[t].name] = model[x][target[t].name]
    BY <1>1, <1>6, <1>8
  <2>3. Listed \subseteq D \/ Here(published')
    BY <1>4, TargetsEligible
  <2>4. edits' >= edits
    BY <1>2 DEF Sound, Types
  <2>5. /\ \A x \in Endpoints : Here(endpoint[x]) => Here(site[SiteOf[x]])
        /\ \A c \in Credentials : Here(credential[c]) => Here(site[SiteOf[c]])
    BY DEF Sound, Structure
  <2> QED BY <1>1, <2>1, <2>2, <2>3, <2>4, <2>5 DEF Dropping
<1>10. RouteMoves
  BY <1>1, <1>4, <1>5 DEF RouteMoves
<1> QED BY <1>1, <1>2, <1>3, <1>6, <1>7, <1>9, <1>10, ConfigKept, DroppingKeeps DEF Change, Sound

-----------------------------------------------------------------------------
(* The published model, its targets and the routing profile *)

\* The configuration as it is fits itself.
LEMMA Fits ==
  ASSUME Sound
  PROVE  /\ \A e \in Endpoints : Here(endpoint[e]) => Here(site[SiteOf[e]])
         /\ \A c \in Credentials : Here(credential[c]) => Here(site[SiteOf[c]])
         /\ \A e \in Endpoints, n \in Names : model[e][n] # "none" => Here(endpoint[e])
         /\ edits \in Nat
BY SentinelAssumption DEF Sound, Structure, Types

\* The published model is created ...
LEMMA CreatePublishedModelChanges ==
  ASSUME Sound, NEW b \in BOOLEAN, CreatePublishedModel(b)
  PROVE  Change
<1> DEFINE row == [enabled |-> b, rev |-> 1]
<1>1. /\ published = Unborn /\ Unchecked /\ published' = row
      /\ UNCHANGED <<config, model, access, target, profile, override, run, misses>>
  BY DEF CreatePublishedModel
<1>2. row \in Rows(SiteRow) /\ Here(row)
  BY RowsAssumption DEF SiteRow, Rows, Here
<1>3. Justified /\ edits' = edits + 1 /\ edits' \in 0..MaxEdits
  BY <1>1, UncheckedEffect DEF Sound, Types
<1>4. Types'
  BY <1>1, <1>2, <1>3 DEF Sound, Types
<1>5. Growing
  BY <1>1, <1>2, <1>3, TargetsEligible, Fits DEF Growing
<1>6. RouteMoves
  BY <1>1, HereRows DEF RouteMoves
<1> QED BY <1>1, <1>3, <1>4, <1>5, <1>6, ConfigKept, GrowingKeeps DEF Change, Sound, Forgets

\* ... switched ...
LEMMA UpdatePublishedModelChanges ==
  ASSUME Sound, NEW b \in BOOLEAN, UpdatePublishedModel(b)
  PROVE  Change
<1> DEFINE row == [enabled |-> b, rev |-> published.rev + 1]
<1>1. /\ Here(published) /\ Accepted("route", "route", published.rev) /\ published' = row
      /\ UNCHANGED <<config, model, access, target, profile, override, run, misses>>
  BY DEF UpdatePublishedModel
<1>2. row \in Rows(SiteRow) /\ Here(row) /\ row.rev > published.rev
  <2>1. published \in SiteRow
    BY <1>1, HereRows DEF Sound, Types
  <2>2. row \in SiteRow /\ row.rev > published.rev
    BY <2>1 DEF SiteRow
  <2> QED BY <2>2, HereRows DEF Rows
<1>3. Justified /\ edits' = edits + 1 /\ edits' \in 0..MaxEdits
  BY <1>1, RouteAccepted DEF Sound, Types
<1>4. Types'
  BY <1>1, <1>2, <1>3 DEF Sound, Types
<1>5. Growing
  BY <1>1, <1>2, <1>3, TargetsEligible, Fits DEF Growing
<1>6. RouteMoves
  BY <1>1, <1>2, HereRows DEF RouteMoves
<1> QED BY <1>1, <1>3, <1>4, <1>5, <1>6, ConfigKept, GrowingKeeps DEF Change, Sound, Forgets

\* Targets are dropped, of a published model that is bumped or goes as well.
LEMMA TargetsRemoved ==
  ASSUME Sound, NEW D \in SUBSET Targets, DropTargets(D), Here(published),
         Justified, edits' = edits + 1, edits' \in 0..MaxEdits,
         published' \in Rows(SiteRow),
         \/ published' = Gone /\ Listed \subseteq D
         \/ Here(published') /\ published'.rev > published.rev,
         UNCHANGED <<config, model, access, profile, run, misses>>
  PROVE  Change
<1>1. /\ target' \in [Targets -> Rows(TargetRow)]
      /\ override' \in [Targets -> Nat \union {NoPosition}]
  BY TargetsDropped
<1>2. Types'
  BY <1>1 DEF Sound, Types
<1>3. Dropping(D)
  <2>1. \A t \in Listed : target[t].endpoint \in Endpoints /\ Here(endpoint[target[t].endpoint])
    BY TargetsEligible DEF TargetRow, Sound, Structure, RouteIsSound
  <2> QED BY <2>1, Fits DEF Dropping
<1>4. RouteMoves
  BY HereRows DEF RouteMoves
<1> QED BY <1>2, <1>3, <1>4, ConfigKept, DroppingKeeps DEF Change, Sound, Forgets

\* ... and deleted.
LEMMA DeletePublishedModelChanges ==
  ASSUME Sound, DeletePublishedModel
  PROVE  Change
<1>1. /\ Here(published) /\ Accepted("route", "route", published.rev) /\ published' = Gone
      /\ DropTargets(Listed)
      /\ UNCHANGED <<config, model, access, profile, run, misses>>
  BY DEF DeletePublishedModel
<1>2. Justified /\ edits' = edits + 1 /\ edits' \in 0..MaxEdits
  BY <1>1, RouteAccepted DEF Sound, Types
<1>3. Listed \in SUBSET Targets /\ Gone \in Rows(SiteRow)
  BY DEF Listed, Rows
<1> QED BY <1>1, <1>2, <1>3, TargetsRemoved

\* One target is removed.
LEMMA DeleteRouteSiteTargetChanges ==
  ASSUME Sound, NEW t \in Targets, DeleteRouteSiteTarget(t)
  PROVE  Change
<1>1. /\ Here(published) /\ Accepted("route", "route", published.rev)
      /\ BumpPublished({t}) /\ DropTargets({t})
      /\ UNCHANGED <<config, model, access, profile, run, misses>>
  BY DEF DeleteRouteSiteTarget
<1>2. Justified /\ edits' = edits + 1 /\ edits' \in 0..MaxEdits
  BY <1>1, RouteAccepted DEF Sound, Types
<1>3. published' \in Rows(SiteRow) /\ Here(published') /\ published'.rev > published.rev
  BY <1>1, PublishedBumped
<1> QED BY <1>1, <1>2, <1>3, TargetsRemoved

\* Targets get other rows, under a published model that is bumped.
LEMMA TargetsEdited ==
  ASSUME Sound, Here(published), NEW T, T # {}, BumpPublished(T),
         Justified, edits' = edits + 1, edits' \in 0..MaxEdits,
         target' \in [Targets -> Rows(TargetRow)], Listed \subseteq Listed', RouteIsSound',
         IsFiniteSet(Listed'), Cardinality(Listed') <= edits',
         \A t \in Listed' : target'[t].pos <= edits',
         UNCHANGED <<config, model, access, profile, override, run, misses>>
  PROVE  Change
<1>1. published' \in Rows(SiteRow) /\ Here(published') /\ published'.rev > published.rev
  BY PublishedBumped
<1>2. Types'
  BY <1>1 DEF Sound, Types
<1>3. Structure'
  BY Fits DEF Structure
<1>4. RouteMoves
  BY <1>1, HereRows DEF RouteMoves
<1> QED BY <1>2, <1>3, <1>4, ConfigKept DEF Change, Sound, Forgets

\* Listed targets have the columns of the table.
LEMMA ListedRows ==
  ASSUME Sound, NEW t \in Listed
  PROVE  /\ t \in Targets /\ target[t] \in TargetRow
         /\ target[t].endpoint \in Endpoints /\ target[t].name \in Names
         /\ target[t].enabled \in BOOLEAN /\ target[t].pos \in Nat
<1>1. t \in Targets /\ target[t] \in TargetRow
  BY TargetsEligible DEF Listed
<1> QED BY <1>1 DEF TargetRow

\* A target that is appended comes after all others.
LEMMA NextPositionIsNew ==
  ASSUME Sound
  PROVE  /\ NextPosition \in Nat /\ NextPosition <= edits + 1
         /\ \A t \in Listed : target[t].pos # NextPosition
<1>1. CASE Listed = {}
  BY <1>1, Fits DEF NextPosition
<1>2. CASE Listed # {}
  <2> DEFINE S == {target[t].pos : t \in Listed}
  <2> DEFINE p == CHOOSE q \in S : \A t \in Listed : target[t].pos <= q
  <2>1. S \in SUBSET Nat /\ S # {} /\ \A q \in S : q <= edits
    BY <1>2, ListedRows DEF Sound, Structure
  <2>2. \E q \in S : \A t \in Listed : target[t].pos <= q
    <3>1. PICK q \in S : \A y \in S : y <= q
      BY <2>1, GreatestNatural, Fits
    <3> QED BY <3>1
  <2>3. p \in S /\ \A t \in Listed : target[t].pos <= p
    BY <2>2
  <2>4. NextPosition = 1 + p
    BY <1>2 DEF NextPosition
  <2> HIDE DEF p, S
  <2>5. p \in Nat /\ p <= edits
    BY <2>1, <2>3
  <2>6. ASSUME NEW t \in Listed PROVE target[t].pos # NextPosition
    <3>1. target[t].pos \in Nat /\ target[t].pos <= p
      BY <2>3, ListedRows
    <3> QED BY <2>4, <2>5, <3>1
  <2> QED BY <2>4, <2>5, <2>6, Fits
<1> QED BY <1>1, <1>2

\* One target gets a row that fits, at a position of its own.
LEMMA TargetPlaced ==
  ASSUME Sound, NEW t \in Targets, NEW e \in Endpoints, NEW n \in Names, NEW b \in BOOLEAN,
         NEW pos \in Nat, MayRoute(t, e, n), Here(published), BumpPublished({t}),
         pos <= edits + 1, \A u \in Listed \ {t} : target[u].pos # pos,
         Justified, edits' = edits + 1, edits' \in 0..MaxEdits,
         target' = [target EXCEPT ![t] =
           [endpoint |-> e, name |-> n, enabled |-> b, pos |-> pos]],
         t \in Listed \/ Cardinality(Listed \union {t}) <= edits + 1,
         UNCHANGED <<config, model, access, profile, override, run, misses>>
  PROVE  Change
<1> DEFINE row == [endpoint |-> e, name |-> n, enabled |-> b, pos |-> pos]
<1>1. row \in TargetRow /\ row \in Rows(TargetRow) /\ Here(row)
  <2>1. row \in TargetRow
    BY DEF TargetRow
  <2> QED BY <2>1, HereRows DEF Rows
<1>2. /\ row.endpoint = e /\ row.name = n /\ row.pos = pos
      /\ target' = [target EXCEPT ![t] = row]
  OBVIOUS
<1> HIDE DEF row
<1>3. /\ target' \in [Targets -> Rows(TargetRow)] /\ target'[t] = row
      /\ \A u \in Targets \ {t} : target'[u] = target[u]
  BY <1>1, <1>2 DEF Sound, Types
<1>4. Listed' = Listed \union {t}
  BY <1>1, <1>3 DEF Listed
<1>5. IsFiniteSet(Listed') /\ Cardinality(Listed') <= edits'
  <2>1. IsFiniteSet(Listed) /\ Cardinality(Listed) \in Nat /\ Cardinality(Listed) <= edits
    BY FS_CardinalityType DEF Sound, Structure
  <2>2. IsFiniteSet(Listed')
    BY <1>4, <2>1, FS_AddElement
  <2>3. CASE t \in Listed
    <3>1. Listed' = Listed
      BY <1>4, <2>3
    <3> QED BY <2>1, <3>1, Fits
  <2>4. CASE t \notin Listed
    BY <1>4, <2>2, <2>4
  <2> QED BY <2>2, <2>3, <2>4
<1>6. \A u \in Listed' : target'[u].pos <= edits'
  <2>1. ASSUME NEW u \in Listed, u # t PROVE target'[u].pos <= edits'
    <3>1. target[u].pos \in Nat /\ target[u].pos <= edits /\ u \in Targets
      BY ListedRows DEF Sound, Structure
    <3> QED BY <1>3, <2>1, <3>1, Fits
  <2> QED BY <1>2, <1>3, <1>4, <2>1
<1>7. RouteIsSound'
  <2>1. \A u \in Listed \ {t} : SiteOf[target[u].endpoint] # SiteOf[e]
    BY DEF MayRoute, SiteTargets
  <2>2. \A u \in Listed' :
          LET x == target'[u].endpoint IN
          /\ Here(published')
          /\ Here(site'[SiteOf[x]]) /\ Here(endpoint'[x]) /\ endpoint'[x].eligible
          /\ model'[x][target'[u].name] # "none"
    <3>1. Here(published')
      BY PublishedBumped
    <3>2. Here(site[SiteOf[e]]) /\ Here(endpoint[e]) /\ endpoint[e].eligible
          /\ model[e][n] # "none"
      BY Fits DEF MayRoute
    <3>3. \A u \in Listed \ {t} :
            LET x == target[u].endpoint IN
            /\ u \in Targets
            /\ Here(site[SiteOf[x]]) /\ Here(endpoint[x]) /\ endpoint[x].eligible
            /\ model[x][target[u].name] # "none"
      BY ListedRows DEF Sound, Structure, RouteIsSound
    <3> QED BY <1>2, <1>3, <1>4, <3>1, <3>2, <3>3
  <2>3. \A u, v \in Listed' : u # v =>
          /\ target'[u].pos # target'[v].pos
          /\ SiteOf[target'[u].endpoint] # SiteOf[target'[v].endpoint]
    <3>1. \A u, v \in Listed \ {t} : u # v =>
            /\ u \in Targets /\ v \in Targets
            /\ target[u].pos # target[v].pos
            /\ SiteOf[target[u].endpoint] # SiteOf[target[v].endpoint]
      BY ListedRows DEF Sound, Structure, RouteIsSound
    <3>2. \A u \in Listed \ {t} : u \in Targets
      BY ListedRows
    <3> QED BY <1>2, <1>3, <1>4, <2>1, <3>1, <3>2
  <2>4. \A u \in Targets : override[u] # NoPosition => Here(profile) /\ u \in Listed'
    BY <1>4 DEF Sound, Structure, RouteIsSound
  <2> QED BY <2>2, <2>3, <2>4 DEF Sound, Structure, RouteIsSound
<1> QED BY <1>3, <1>4, <1>5, <1>6, <1>7, TargetsEdited

\* A target is appended ...
LEMMA CreateRouteSiteTargetChanges ==
  ASSUME Sound, NEW t \in Targets, NEW e \in Endpoints, NEW n \in Names, NEW b \in BOOLEAN,
         CreateRouteSiteTarget(t, e, n, b)
  PROVE  Change
<1>1. /\ target[t] = Unborn /\ MayRoute(t, e, n)
      /\ Here(published) /\ Accepted("route", "route", published.rev) /\ BumpPublished({t})
      /\ target' = [target EXCEPT ![t] =
           [endpoint |-> e, name |-> n, enabled |-> b, pos |-> NextPosition]]
      /\ UNCHANGED <<config, model, access, profile, override, run, misses>>
  BY DEF CreateRouteSiteTarget
<1>2. Justified /\ edits' = edits + 1 /\ edits' \in 0..MaxEdits
  BY <1>1, RouteAccepted DEF Sound, Types
<1>3. Cardinality(Listed \union {t}) <= edits + 1
  <2>1. t \notin Listed
    BY <1>1, HereRows DEF Listed
  <2>2. IsFiniteSet(Listed) /\ Cardinality(Listed) \in Nat /\ Cardinality(Listed) <= edits
    BY FS_CardinalityType DEF Sound, Structure
  <2>3. Cardinality(Listed \union {t}) = Cardinality(Listed) + 1
    BY <2>1, <2>2, FS_AddElement
  <2> QED BY <2>2, <2>3, Fits
<1> QED BY <1>1, <1>2, <1>3, NextPositionIsNew, TargetPlaced

\* ... or pointed at another endpoint or model, at its position.
LEMMA UpdateRouteSiteTargetChanges ==
  ASSUME Sound, NEW t \in Targets, NEW e \in Endpoints, NEW n \in Names, NEW b \in BOOLEAN,
         UpdateRouteSiteTarget(t, e, n, b)
  PROVE  Change
<1> DEFINE pos == target[t].pos
<1>1. /\ t \in Listed /\ MayRoute(t, e, n)
      /\ Here(published) /\ Accepted("route", "route", published.rev) /\ BumpPublished({t})
      /\ target' = [target EXCEPT ![t] =
           [endpoint |-> e, name |-> n, enabled |-> b, pos |-> pos]]
      /\ UNCHANGED <<config, model, access, profile, override, run, misses>>
  BY DEF UpdateRouteSiteTarget, Listed, Sound, Types
<1>2. Justified /\ edits' = edits + 1 /\ edits' \in 0..MaxEdits
  BY <1>1, RouteAccepted DEF Sound, Types
<1>3. pos \in Nat /\ pos <= edits + 1 /\ \A u \in Listed \ {t} : target[u].pos # pos
  <2>1. pos \in Nat /\ pos <= edits
    BY <1>1, ListedRows DEF Sound, Structure
  <2> QED BY <1>1, <2>1, Fits DEF Sound, Structure, RouteIsSound
<1> HIDE DEF pos
<1> QED BY <1>1, <1>2, <1>3, TargetPlaced

\* The targets get the positions 0, 1, ... in another order.
LEMMA ReorderRouteSiteTargetsChanges ==
  ASSUME Sound, NEW order \in Orders(Listed), ReorderRouteSiteTargets(order)
  PROVE  Change
<1> DEFINE row(t) == [target[t] EXCEPT !.pos = order[t]]
<1>1. /\ Here(published) /\ Accepted("route", "route", published.rev) /\ BumpPublished(Targets)
      /\ target' = [t \in Targets |-> IF t \in Listed THEN row(t) ELSE target[t]]
      /\ UNCHANGED <<config, model, access, profile, override, run, misses>>
  BY DEF ReorderRouteSiteTargets
<1>2. Justified /\ edits' = edits + 1 /\ edits' \in 0..MaxEdits
  BY <1>1, RouteAccepted DEF Sound, Types
<1>3. /\ IsFiniteSet(Listed) /\ Cardinality(Listed) \in Nat /\ Cardinality(Listed) <= edits
      /\ edits \in Nat
  BY FS_CardinalityType, Fits DEF Sound, Structure
<1>4. /\ \A t \in Listed : order[t] \in Nat /\ order[t] <= edits + 1
      /\ \A t, u \in Listed : order[t] = order[u] => t = u
  BY <1>3 DEF Orders
<1>5. ASSUME NEW t \in Listed
      PROVE  /\ t \in Targets /\ row(t) \in TargetRow /\ row(t).pos = order[t]
             /\ row(t).endpoint = target[t].endpoint /\ row(t).name = target[t].name
  <2>1. t \in Targets /\ target[t] \in TargetRow
    BY ListedRows
  <2> QED BY <1>4, <2>1 DEF TargetRow
<1> HIDE DEF row
<1>6. /\ target' \in [Targets -> Rows(TargetRow)]
      /\ \A t \in Listed : target'[t] = row(t)
      /\ Listed' = Listed
  <2>1. target' \in [Targets -> Rows(TargetRow)]
    BY <1>1, <1>5 DEF Sound, Types, Rows
  <2>2. \A t \in Targets : target'[t] = IF t \in Listed THEN row(t) ELSE target[t]
    BY <1>1
  <2>3. \A t \in Listed : Here(row(t))
    BY <1>5, HereRows DEF Rows
  <2>4. Listed' = Listed
    BY <2>2, <2>3 DEF Listed
  <2>5. \A t \in Listed : target'[t] = row(t)
    BY <1>5, <2>2
  <2> QED BY <2>1, <2>4, <2>5
<1>7. RouteIsSound'
  <2>1. Here(published')
    BY <1>1, PublishedBumped
  <2>2. \A t \in Listed' :
          LET e == target'[t].endpoint IN
          /\ Here(published')
          /\ Here(site'[SiteOf[e]]) /\ Here(endpoint'[e]) /\ endpoint'[e].eligible
          /\ model'[e][target'[t].name] # "none"
    BY <1>1, <1>5, <1>6, <2>1 DEF Sound, Structure, RouteIsSound
  <2>3. \A t, u \in Listed' : t # u =>
          /\ target'[t].pos # target'[u].pos
          /\ SiteOf[target'[t].endpoint] # SiteOf[target'[u].endpoint]
    BY <1>4, <1>5, <1>6 DEF Sound, Structure, RouteIsSound
  <2> QED BY <1>1, <1>6, <2>2, <2>3 DEF Sound, Structure, RouteIsSound
<1>8. \A t \in Listed' : target'[t].pos <= edits'
  BY <1>2, <1>4, <1>5, <1>6
<1>9. Cardinality(Listed') <= edits'
  BY <1>2, <1>3, <1>6
<1> QED BY <1>1, <1>2, <1>3, <1>6, <1>7, <1>8, <1>9, TargetsEdited, SomeAssumption

\* The profile and the order it keeps change nothing that a page or a discovery
\* has seen.
LEMMA ProfileEdited ==
  ASSUME Sound, Unchecked, profile' \in Rows({"here"}),
         override' \in [Targets -> Nat \union {NoPosition}],
         \A t \in Targets : override'[t] # NoPosition => Here(profile') /\ t \in Listed,
         \A t, u \in Targets :
           t # u /\ override'[t] # NoPosition => override'[t] # override'[u],
         UNCHANGED <<config, model, access, published, target, run, misses>>
  PROVE  Change
<1>1. Justified /\ edits' = edits + 1 /\ edits' \in 0..MaxEdits
  BY UncheckedEffect DEF Sound, Types
<1>2. Types'
  BY <1>1 DEF Sound, Types
<1>3. Listed' = Listed
  BY DEF Listed
<1>4. RouteIsSound'
  BY <1>3 DEF Sound, Structure, RouteIsSound
<1>5. /\ IsFiniteSet(Listed') /\ Cardinality(Listed') <= edits'
      /\ \A t \in Listed' : target'[t].pos <= edits'
  <2>1. IsFiniteSet(Listed) /\ Cardinality(Listed) \in Nat /\ Cardinality(Listed) <= edits
    BY FS_CardinalityType DEF Sound, Structure
  <2>2. \A t \in Listed : target[t].pos \in Nat /\ target[t].pos <= edits
    BY ListedRows DEF Sound, Structure
  <2> QED BY <1>1, <1>3, <2>1, <2>2, Fits
<1>6. Structure'
  BY <1>4, <1>5, Fits DEF Structure
<1>7. RouteMoves
  BY <1>3 DEF RouteMoves
<1> QED BY <1>1, <1>2, <1>6, <1>7, ConfigKept DEF Change, Sound, Forgets

\* A profile is created ...
LEMMA CreateRoutingProfileChanges ==
  ASSUME Sound, CreateRoutingProfile
  PROVE  Change
BY ProfileEdited, HereRows
   DEF CreateRoutingProfile, Rows, Sound, Types, Structure, RouteIsSound

\* ... given an order, or none ...
LEMMA SetRoutingProfileModelTargetsChanges ==
  ASSUME Sound, NEW T \in SUBSET Targets, NEW order \in Orders(T),
         SetRoutingProfileModelTargets(T, order)
  PROVE  Change
<1>1. /\ Here(profile) /\ T \subseteq Listed /\ Unchecked
      /\ override' = [t \in Targets |-> IF t \in T THEN order[t] ELSE NoPosition]
      /\ UNCHANGED <<config, model, access, published, target, profile, run, misses>>
  BY DEF SetRoutingProfileModelTargets
<1>2. \A t \in T : order[t] \in Nat
  <2>1. IsFiniteSet(T) /\ Cardinality(T) \in Nat
    BY <1>1, FS_Subset, FS_CardinalityType DEF Sound, Structure
  <2> QED BY <2>1 DEF Orders
<1>3. \A t, u \in T : order[t] = order[u] => t = u
  BY DEF Orders
<1>4. \A t \in T : order[t] # NoPosition
  BY <1>2 DEF NoPosition
<1>5. override' \in [Targets -> Nat \union {NoPosition}]
  BY <1>1, <1>2
<1>6. \A t \in Targets : override'[t] # NoPosition => Here(profile') /\ t \in Listed
  BY <1>1
<1>7. \A t, u \in Targets : t # u /\ override'[t] # NoPosition => override'[t] # override'[u]
  BY <1>1, <1>3, <1>4
<1> QED BY <1>1, <1>5, <1>6, <1>7, ProfileEdited DEF Sound, Types

LEMMA ClearRoutingProfileModelTargetsChanges ==
  ASSUME Sound, ClearRoutingProfileModelTargets
  PROVE  Change
BY ProfileEdited DEF ClearRoutingProfileModelTargets, Sound, Types

\* ... and deleted with it.
LEMMA DeleteRoutingProfileChanges ==
  ASSUME Sound, DeleteRoutingProfile
  PROVE  Change
BY ProfileEdited DEF DeleteRoutingProfile, Rows, Sound, Types

\* So every change of the administrator is one.
LEMMA AdministratorChanges ==
  ASSUME Sound, SiteStep \/ RouteStep
  PROVE  Change
<1>1. CASE SiteStep
  BY <1>1, CreateSiteChanges, UpdateSiteChanges, DeleteSiteChanges, ReorderSiteChildrenChanges,
     CreateInferenceEndpointChanges, UpdateInferenceEndpointChanges,
     DeleteInferenceEndpointChanges, CreateInferenceCredentialChanges,
     UpdateInferenceCredentialChanges, DeleteInferenceCredentialChanges,
     UpdateSiteModelChanges, DeleteSiteModelChanges, ZenonT(30) DEF SiteStep
<1>2. CASE RouteStep
  BY <1>2, CreatePublishedModelChanges, UpdatePublishedModelChanges,
     DeletePublishedModelChanges, CreateRouteSiteTargetChanges, UpdateRouteSiteTargetChanges,
     DeleteRouteSiteTargetChanges, ReorderRouteSiteTargetsChanges, CreateRoutingProfileChanges,
     DeleteRoutingProfileChanges, SetRoutingProfileModelTargetsChanges,
     ClearRoutingProfileModelTargetsChanges, ZenonT(30) DEF RouteStep
<1> QED BY <1>1, <1>2

-----------------------------------------------------------------------------
(* Every step *)

\* A step that leaves every row alone.
LEMMA NothingMoves ==
  ASSUME Sound, UNCHANGED <<config, model, routes, edits>>
  PROVE  Sound' /\ SiteMoves /\ RouteMoves
<1>1. Types'
  BY DEF Sound, Types
<1>2. Listed' = Listed
  BY DEF Listed
<1>3. Structure'
  BY <1>2 DEF Sound, Structure, RouteIsSound
<1>4. RouteMoves
  BY <1>2 DEF RouteMoves
<1> QED BY <1>1, <1>3, <1>4, ConfigKept DEF Sound

\* A discovery adds models to an endpoint that is there.
LEMMA ApplyMoves ==
  ASSUME Sound, NEW r \in Runs, run[r].endpoint \in Endpoints, ApplyModelDiscoveryRun(r)
  PROVE  Sound' /\ SiteMoves /\ RouteMoves
<1> DEFINE e == run[r].endpoint
<1> DEFINE T == {t \in TargetsAt({e}) : target[t].name \in NamesFound(r)}
<1> DEFINE known == NamesFound(r) \union {n \in Names : model[e][n] # "none"}
<1>1. /\ Here(endpoint[e]) /\ BumpPublished(T)
      /\ model' = [model EXCEPT ![e] = [n \in Names |->
           IF n \in known /\ model[e][n] = "none" THEN "enabled" ELSE model[e][n]]]
      /\ UNCHANGED <<config, target, profile, override, edits>>
  BY DEF ApplyModelDiscoveryRun, MayApply, RowHere
<1>2. T = {} \/ Here(published)
  BY TargetsEligible DEF TargetsAt
<1> HIDE DEF known, T
<1>3. /\ model' \in [Endpoints -> [Names -> {"none", "enabled", "disabled"}]]
      /\ \A x \in Endpoints, n \in Names :
           /\ model[x][n] # "none" => model'[x][n] # "none"
           /\ model'[x][n] # "none" => model[x][n] # "none" \/ x = e
  BY <1>1 DEF Sound, Types
<1>4. /\ published' \in Rows(SiteRow)
      /\ Here(published) <=> Here(published')
      /\ published = Gone <=> published' = Gone
      /\ published' = published \/ (Here(published') /\ published'.rev > published.rev)
  BY <1>1, <1>2, PublishedBumped
<1>5. Types'
  BY <1>1, <1>3, <1>4 DEF Sound, Types
<1>6. Growing
  <2>1. \A x \in Endpoints, n \in Names :
          model'[x][n] # "none" => model[x][n] # "none" \/ Here(endpoint[x])
    BY <1>1, <1>3
  <2>2. edits' >= edits
    BY <1>1, Fits
  <2> QED BY <1>1, <1>3, <1>4, <2>1, <2>2, TargetsEligible DEF Growing
<1>7. RouteMoves
  BY <1>1, <1>4 DEF RouteMoves, Listed
<1> QED BY <1>1, <1>5, <1>6, <1>7, ConfigKept, GrowingKeeps DEF Sound

\* What a step of a discovery does to the rest.
RunEffect(r) ==
  /\ UNCHANGED <<view, edits, config>>
  /\ \A q \in Runs \ {r} : run'[q] = run[q]
  /\ \/ ApplyModelDiscoveryRun(r)
     \/ UNCHANGED <<model, access, routes, misses>> /\ ~ApplyModelDiscoveryRun(r)

LEMMA RunEffects ==
  ASSUME run \in [Runs -> RunRow], NEW r \in Runs, RunStep(r)
  PROVE  RunEffect(r)
<1>1. CASE ApplyModelDiscoveryRun(r)
  BY <1>1 DEF ApplyModelDiscoveryRun, RunEffect
<1>2. CASE ~ApplyModelDiscoveryRun(r)
  <2>1. RunOnly
    BY <1>2 DEF RunStep, StartRun, ReadEndpoint, ListCredentials, ReadSecret,
         InsertModelDiscoveryRun, CallUpstream, RefuseRun, FailModelDiscoveryRun,
         CompleteModelDiscoveryRun, AbandonRun
  <2>2. \A q \in Runs \ {r} : run'[q] = run[q]
    BY <1>2 DEF RunStep, StartRun, ReadEndpoint, ListCredentials, ReadSecret,
         InsertModelDiscoveryRun, CallUpstream, RefuseRun, FailModelDiscoveryRun,
         CompleteModelDiscoveryRun, AbandonRun
  <2> QED BY <1>2, <2>1, <2>2 DEF RunOnly, RunEffect
<1> QED BY <1>1, <1>2

\* No step loses the structure, and none hides a change.
LEMMA StepMoves ==
  ASSUME Sound, run \in [Runs -> RunRow], [Next]_vars
  PROVE  Sound' /\ SiteMoves /\ RouteMoves
<1>1. CASE SiteStep \/ RouteStep
  BY <1>1, AdministratorChanges DEF Change
<1>2. CASE ViewStep
  <2>1. UNCHANGED <<config, model, routes, edits>>
    BY <1>2 DEF ViewStep, ViewSite, ViewEndpoints, ViewCredentials, ViewPublishedModel,
         ViewTargets
  <2> QED BY <2>1, NothingMoves
<1>3. ASSUME NEW r \in Runs, RunStep(r) PROVE Sound' /\ SiteMoves /\ RouteMoves
  <2>1. RunEffect(r) /\ run[r].endpoint \in Endpoints
    BY <1>3, RunEffects DEF RunRow
  <2>2. CASE ApplyModelDiscoveryRun(r)
    BY <2>1, <2>2, ApplyMoves
  <2>3. CASE ~ApplyModelDiscoveryRun(r)
    BY <2>1, <2>3, NothingMoves DEF RunEffect
  <2> QED BY <2>2, <2>3
<1>4. CASE UNCHANGED vars
  BY <1>4, NothingMoves DEF vars
<1> QED BY <1>1, <1>2, <1>3, <1>4 DEF Next

\* The initial catalogue is sound.
LEMMA InitSound ==
  ASSUME Init
  PROVE  Sound
<1>1. Types
  <2>1. [enabled |-> TRUE, rev |-> 1] \in SiteRow
    BY DEF SiteRow
  <2>2. site \in [Sites -> Rows(SiteRow)] /\ published \in Rows(SiteRow)
    <3> DEFINE row == [enabled |-> TRUE, rev |-> 1]
    <3>1. site \in [Sites -> {Unborn, row}] /\ published \in {Unborn, row} /\ row \in SiteRow
      BY <2>1 DEF Init
    <3> HIDE DEF row
    <3> QED BY <3>1 DEF Rows
  <2>3. [url: Urls, eligible: BOOLEAN, enabled: {TRUE}, rev: {1}] \subseteq EndpointRow
    <3> DEFINE First == [url: Urls, eligible: BOOLEAN, enabled: {TRUE}, rev: {1}]
    <3>1. ASSUME NEW x \in First PROVE x \in EndpointRow
      <4>1. x = [url |-> x.url, eligible |-> x.eligible, enabled |-> x.enabled, rev |-> x.rev]
        OBVIOUS
      <4>2. x.url \in Urls /\ x.rev \in {1}
        OBVIOUS
      <4>3. x.eligible \in BOOLEAN
        OBVIOUS
      <4>4. x.enabled \in {TRUE}
        OBVIOUS
      <4> HIDE DEF First
      <4>5. x.enabled = TRUE /\ x.rev = 1
        BY <4>2, <4>4
      <4> DEFINE y == [url |-> x.url, eligible |-> x.eligible, enabled |-> TRUE, rev |-> 1]
      <4>6. y \in EndpointRow
        BY <4>2, <4>3 DEF EndpointRow
      <4>7. x = y
        BY <4>1, <4>5
      <4> QED BY <4>6, <4>7
    <3> HIDE DEF First
    <3>2. First \subseteq EndpointRow
      BY <3>1
    <3> QED BY <3>2 DEF First
  <2>4. endpoint \in [Endpoints -> Rows(EndpointRow)]
    BY <2>3 DEF Init, Rows
  <2>5. [secret: Secrets, enabled: {TRUE}] \subseteq CredentialRow
    BY DEF CredentialRow
  <2>6. credential \in [Credentials -> Rows(CredentialRow)]
    BY <2>5 DEF Init, Rows
  <2>7. /\ model \in [Endpoints -> [Names -> {"none", "enabled", "disabled"}]]
        /\ target \in [Targets -> Rows(TargetRow)]
        /\ profile \in Rows({"here"})
        /\ override \in [Targets -> Nat \union {NoPosition}]
        /\ edits \in 0..MaxEdits
    BY SentinelAssumption DEF Init, Rows
  <2> QED BY <2>2, <2>4, <2>6, <2>7 DEF Types
<1>2. Listed = {}
  BY HereRows DEF Init, Listed
<1>3. IsFiniteSet(Listed) /\ Cardinality(Listed) <= edits
  BY <1>2, FS_EmptySet DEF Init
<1>4. Structure
  BY <1>2, <1>3 DEF Init, Structure, RouteIsSound
<1> QED BY <1>1, <1>4 DEF Sound

-----------------------------------------------------------------------------
(* Discoveries *)

\* What a run has read of its site is what the site holds, unless the revision
\* of the site has grown or the site is gone.
Fresh(R) ==
  LET s == SiteOf[R.endpoint] IN
  \/ site[s] = Gone
  \/ /\ Here(site[s]) /\ R.siteRev <= site[s].rev
     /\ site[s].rev = R.siteRev =>
          /\ R.pc # "site" => Here(endpoint[R.endpoint]) /\ endpoint[R.endpoint].url = R.url
          /\ \A c \in Credentials : R.secret[c] # NoSecret =>
               Here(credential[c]) /\ credential[c].secret = R.secret[c]

\* A run learns from complete lists only, each got with a key of its site.
Knows(R) ==
  /\ R.pc \in {"idle", "site", "endpoint"} =>
       R.todo = {} /\ \A c \in Credentials : R.secret[c] = NoSecret
  /\ R.pc \in {"idle", "site", "endpoint", "secrets"} =>
       \A c \in Credentials : R.found[c] = {}
  /\ R.applied => R.pc \in {"applied", "over"}
  /\ \A c \in R.todo : /\ SiteOf[c] = SiteOf[R.endpoint]
                       /\ R.pc = "calling" => R.secret[c] # NoSecret
  /\ \A c \in Credentials :
       /\ R.secret[c] # NoSecret => SiteOf[c] = SiteOf[R.endpoint]
       /\ R.found[c] # {} => /\ R.secret[c] # NoSecret
                             /\ R.found[c] = Offers[R.url][R.secret[c]]
  /\ R.pc \notin {"idle", "over"} => Fresh(R)

Informed == run \in [Runs -> RunRow] /\ \A r \in Runs : Knows(run[r])

\* The columns of a run.
LEMMA RunColumns ==
  ASSUME NEW R \in RunRow
  PROVE  /\ R.endpoint \in Endpoints /\ R.siteRev \in Nat /\ R.endpointRev \in Nat
         /\ R.url \in Urls /\ R.secret \in [Credentials -> Secrets \union {NoSecret}]
         /\ R.todo \in SUBSET Credentials /\ R.found \in [Credentials -> SUBSET Names]
         /\ R.failures \in BOOLEAN /\ R.applied \in BOOLEAN
         /\ R.mode \in {"selected", "first_success", "all"}
         /\ R.pc \in {"idle", "site", "endpoint", "secrets", "calling", "refused", "applied",
                      "over"}
         /\ R.status \in {"none", "running", "success", "partial", "failed"}
BY DEF RunRow

\* Whatever a step does to the configuration, a run that it leaves alone stays
\* informed.
LEMMA KnowsKept ==
  ASSUME Sound, Sound', SiteMoves, NEW R \in RunRow, Knows(R)
  PROVE  Knows(R)'
<1> DEFINE s == SiteOf[R.endpoint]
<1>1. s \in Sites /\ R.endpoint \in Endpoints /\ R.siteRev \in Nat
  BY RunColumns
<1>2. ASSUME Fresh(R) PROVE Fresh(R)'
  <2>1. CASE site[s] = Gone
    BY <1>1, <2>1 DEF SiteMoves, Fresh
  <2>2. CASE Here(site[s])
    <3>1. R.siteRev <= site[s].rev /\ site[s].rev \in Nat
      BY <1>1, <1>2, <2>2, HereRows DEF Fresh, Here, Sound, Types, SiteRow
    <3>2. CASE site'[s] = Gone
      BY <3>2 DEF Fresh
    <3>3. CASE Here(site'[s]) /\ site'[s].rev > site[s].rev
      <4>1. site'[s] \in SiteRow
        BY <1>1, <3>3, HereRows DEF Here, Sound, Types
      <4>2. site'[s].rev \in Nat
        BY <4>1 DEF SiteRow
      <4>3. R.siteRev <= site'[s].rev /\ site'[s].rev # R.siteRev
        BY <1>1, <3>1, <3>3, <4>2
      <4> QED BY <3>3, <4>3 DEF Fresh
    <3>4. CASE /\ site'[s] = site[s]
               /\ \A e \in Endpoints : SiteOf[e] = s => endpoint'[e] = endpoint[e]
               /\ \A c \in Credentials : SiteOf[c] = s => credential'[c] = credential[c]
      <4>1. /\ endpoint'[R.endpoint] = endpoint[R.endpoint]
            /\ \A c \in Credentials : R.secret[c] # NoSecret => credential'[c] = credential[c]
        BY <1>1, <3>4 DEF Knows
      <4> QED BY <1>2, <2>2, <3>4, <4>1 DEF Fresh, Here
    <3> QED BY <1>1, <2>2, <3>2, <3>3, <3>4 DEF SiteMoves
  <2> QED BY <1>2, <2>1, <2>2 DEF Fresh
<1> QED BY <1>2 DEF Knows

\* A step of a run that only rewrites its own row.
LEMMA RowRewritten ==
  ASSUME Sound, Informed, NEW r \in Runs, NEW row \in RunRow, Knows(row),
         run' = [run EXCEPT ![r] = row], UNCHANGED config
  PROVE  Informed'
<1>1. \A R \in RunRow : Knows(R)' <=> Knows(R)
  BY DEF Knows, Fresh
<1>2. run' \in [Runs -> RunRow] /\ \A q \in Runs : run'[q] = IF q = r THEN row ELSE run[q]
  BY DEF Informed
<1>3. \A q \in Runs : Knows(run'[q])
  BY <1>2 DEF Informed
<1> QED BY <1>1, <1>2, <1>3 DEF Informed

\* A run starts with what it reads of the site ...
LEMMA StartRunInforms ==
  ASSUME Sound, Informed, NEW r \in Runs, NEW e \in Endpoints,
         NEW mode \in {"selected", "first_success", "all"}, StartRun(r, e, mode)
  PROVE  Informed'
<1> DEFINE R == run[r]
<1> DEFINE s == SiteOf[e]
<1> DEFINE row == [R EXCEPT !.pc = "site", !.mode = mode, !.endpoint = e,
                            !.siteRev = site[s].rev]
<1>1. R \in RunRow /\ Knows(R) /\ R.pc = "idle" /\ s \in Sites /\ Here(site[s])
  BY DEF Informed, StartRun
<1>2. site[s].rev \in Nat
  BY <1>1, HereRows DEF Sound, Types, SiteRow
<1>3. run' = [run EXCEPT ![r] = row] /\ UNCHANGED config
  BY DEF StartRun, RunOnly, Informed
<1>4. row \in RunRow
  BY <1>1, <1>2 DEF RunRow
<1>5. /\ row.pc = "site" /\ row.endpoint = e /\ row.siteRev = site[s].rev
      /\ row.secret = R.secret /\ row.todo = R.todo /\ row.found = R.found
      /\ row.applied = R.applied /\ row.url = R.url
  BY <1>1 DEF RunRow
<1> HIDE DEF row
<1>6. Fresh(row)
  BY <1>1, <1>2, <1>5 DEF Fresh, Knows
<1>7. Knows(row)
  BY <1>1, <1>5, <1>6 DEF Knows
<1> QED BY <1>3, <1>4, <1>7, RowRewritten

\* ... and of the endpoint.
LEMMA ReadEndpointInforms ==
  ASSUME Sound, Informed, NEW r \in Runs, ReadEndpoint(r)
  PROVE  Informed'
<1> DEFINE R == run[r]
<1> DEFINE e == endpoint[R.endpoint]
<1>1. R \in RunRow /\ Knows(R) /\ R.pc = "site"
  BY DEF Informed, ReadEndpoint
<1>2. CASE Here(e) /\ e.enabled
  <2> DEFINE row == [R EXCEPT !.pc = "endpoint", !.url = e.url, !.endpointRev = e.rev]
  <2>1. e.url \in Urls /\ e.rev \in Nat
    <3>1. e \in EndpointRow
      BY <1>1, <1>2, HereRows, RunColumns DEF Sound, Types
    <3> QED BY <3>1 DEF EndpointRow
  <2>2. run' = [run EXCEPT ![r] = row] /\ UNCHANGED config
    BY <1>2 DEF ReadEndpoint, RunOnly
  <2>3. row \in RunRow
    BY <1>1, <2>1 DEF RunRow
  <2>4. /\ row.pc = "endpoint" /\ row.endpoint = R.endpoint /\ row.siteRev = R.siteRev
        /\ row.secret = R.secret /\ row.todo = R.todo /\ row.found = R.found
        /\ row.applied = R.applied /\ row.url = e.url
    BY <1>1 DEF RunRow
  <2> HIDE DEF row
  <2>5. Fresh(row)
    BY <1>1, <1>2, <2>4, SMTT(30) DEF Fresh, Knows
  <2>6. Knows(row)
    BY <1>1, <2>4, <2>5 DEF Knows
  <2> QED BY <2>2, <2>3, <2>6, RowRewritten
<1>3. CASE ~(Here(e) /\ e.enabled)
  <2> DEFINE row == [R EXCEPT !.pc = "over"]
  <2>1. run' = [run EXCEPT ![r] = row] /\ UNCHANGED config
    BY <1>3 DEF ReadEndpoint, RunOnly
  <2>2. row \in RunRow /\ Knows(row)
    BY <1>1 DEF RunRow, Knows
  <2> QED BY <2>1, <2>2, RowRewritten
<1> QED BY <1>2, <1>3

\* A run that moves on, or ends, knows what it knew.
LEMMA MovesOn ==
  ASSUME Sound, Informed, NEW r \in Runs, NEW pc \in {"refused", "over"},
         NEW status \in {"none", "running", "success", "partial", "failed"},
         run[r].pc \notin {"idle", "over"}, run[r].pc # "site" \/ pc = "over",
         run' = [run EXCEPT ![r] = [@ EXCEPT !.pc = pc, !.status = status]],
         run[r].applied => pc = "over", UNCHANGED config
  PROVE  Informed'
<1> DEFINE R == run[r]
<1> DEFINE row == [R EXCEPT !.pc = pc, !.status = status]
<1>1. R \in RunRow /\ Knows(R)
  BY DEF Informed
<1>2. row \in RunRow
  BY <1>1 DEF RunRow
<1>3. /\ row.pc = pc /\ row.endpoint = R.endpoint /\ row.siteRev = R.siteRev
      /\ row.secret = R.secret /\ row.todo = R.todo /\ row.found = R.found
      /\ row.applied = R.applied /\ row.url = R.url
  BY <1>1 DEF RunRow
<1>4. run' = [run EXCEPT ![r] = row]
  OBVIOUS
<1> HIDE DEF row
<1>5. Fresh(R)
  BY <1>1 DEF Knows
<1>6. Fresh(row) \/ pc = "over"
  BY <1>3, <1>5 DEF Fresh
<1>7. Knows(row)
  BY <1>1, <1>3, <1>6 DEF Knows
<1> QED BY <1>2, <1>4, <1>7, RowRewritten

\* The keys to ask are keys of the site.
LEMMA ListCredentialsInforms ==
  ASSUME Sound, Informed, NEW r \in Runs, NEW C \in SUBSET Credentials, ListCredentials(r, C)
  PROVE  Informed'
<1> DEFINE R == run[r]
<1> DEFINE pc == IF C = {} THEN "over" ELSE "secrets"
<1> DEFINE row == [R EXCEPT !.pc = pc, !.todo = C]
<1>1. R \in RunRow /\ Knows(R) /\ R.pc = "endpoint"
  BY DEF Informed, ListCredentials
<1>2. \A c \in C : SiteOf[c] = SiteOf[R.endpoint]
  BY DEF ListCredentials, CredentialsOf, SiteOfRun
<1>3. run' = [run EXCEPT ![r] = row] /\ UNCHANGED config
  BY DEF ListCredentials, RunOnly, Informed
<1>4. pc \in {"over", "secrets"}
  OBVIOUS
<1> HIDE DEF pc
<1>5. row \in RunRow
  BY <1>1, <1>4 DEF RunRow
<1>6. /\ row.pc = pc /\ row.endpoint = R.endpoint /\ row.siteRev = R.siteRev
      /\ row.secret = R.secret /\ row.todo = C /\ row.found = R.found
      /\ row.applied = R.applied /\ row.url = R.url
  BY <1>1 DEF RunRow
<1> HIDE DEF row
<1>7. Fresh(R)
  BY <1>1 DEF Knows
<1>8. Fresh(row)
  BY <1>1, <1>4, <1>6, <1>7 DEF Fresh
<1>9. Knows(row)
  BY <1>1, <1>2, <1>4, <1>6, <1>8 DEF Knows
<1> QED BY <1>3, <1>5, <1>9, RowRewritten

\* A secret is read from the row of the key.
LEMMA ReadSecretInforms ==
  ASSUME Sound, Informed, NEW r \in Runs, NEW c \in Credentials, ReadSecret(r, c)
  PROVE  Informed'
<1> DEFINE R == run[r]
<1>1. R \in RunRow /\ Knows(R) /\ R.pc = "secrets" /\ c \in R.todo
  BY DEF Informed, ReadSecret
<1>2. CASE Here(credential[c]) /\ (R.mode = "selected" => credential[c].enabled)
  <2> DEFINE k == credential[c].secret
  <2> DEFINE row == [R EXCEPT !.secret[c] = k]
  <2>1. k \in Secrets /\ k # NoSecret
    <3>1. credential[c] \in CredentialRow
      BY <1>2, HereRows DEF Sound, Types
    <3> QED BY <3>1, SentinelAssumption DEF CredentialRow
  <2>2. run' = [run EXCEPT ![r] = row] /\ UNCHANGED config
    BY <1>2 DEF ReadSecret, RunOnly
  <2> DEFINE secret == [R.secret EXCEPT ![c] = k]
  <2>3. row = [R EXCEPT !.secret = secret]
    BY <1>1 DEF RunRow
  <2>4. /\ secret \in [Credentials -> Secrets \union {NoSecret}]
        /\ \A d \in Credentials : secret[d] = IF d = c THEN k ELSE R.secret[d]
    <3>1. R.secret \in [Credentials -> Secrets \union {NoSecret}]
      BY <1>1, RunColumns
    <3> QED BY <2>1, <3>1
  <2> HIDE DEF secret, row
  <2>5. row \in RunRow
    BY <1>1, <2>3, <2>4 DEF RunRow
  <2>6. /\ row.pc = "secrets" /\ row.endpoint = R.endpoint /\ row.siteRev = R.siteRev
        /\ row.secret = secret /\ row.todo = R.todo /\ row.found = R.found
        /\ row.applied = R.applied /\ row.url = R.url
    BY <1>1, <2>3 DEF RunRow
  <2>7. Fresh(row)
    BY <1>1, <1>2, <2>4, <2>6, SMTT(30) DEF Fresh, Knows
  <2>8. SiteOf[c] = SiteOf[R.endpoint]
    BY <1>1 DEF Knows
  <2>9. Knows(row)
    BY <1>1, <2>4, <2>6, <2>7, <2>8 DEF Knows
  <2> QED BY <2>2, <2>5, <2>9, RowRewritten
<1>3. CASE ~(Here(credential[c]) /\ (R.mode = "selected" => credential[c].enabled))
  <2>1. run' = [run EXCEPT ![r] = [@ EXCEPT !.pc = "over"]] /\ UNCHANGED config
    BY <1>3 DEF ReadSecret, RunOnly
  <2> DEFINE row == [R EXCEPT !.pc = "over"]
  <2>2. row \in RunRow /\ Knows(row)
    BY <1>1 DEF RunRow, Knows
  <2> QED BY <2>1, <2>2, RowRewritten
<1> QED BY <1>2, <1>3

\* The upstream is asked once every secret is known.
LEMMA InsertModelDiscoveryRunInforms ==
  ASSUME Sound, Informed, NEW r \in Runs, InsertModelDiscoveryRun(r)
  PROVE  Informed'
<1> DEFINE R == run[r]
<1>1. /\ R \in RunRow /\ Knows(R) /\ R.pc = "secrets"
      /\ \A c \in R.todo : R.secret[c] # NoSecret
  BY DEF Informed, InsertModelDiscoveryRun
<1>2. UNCHANGED config
  BY DEF InsertModelDiscoveryRun, RunOnly
<1>3. CASE run' = [run EXCEPT ![r] = [@ EXCEPT !.pc = "calling", !.status = "running"]]
  <2> DEFINE row == [R EXCEPT !.pc = "calling", !.status = "running"]
  <2>1. row \in RunRow
    BY <1>1 DEF RunRow
  <2>2. /\ row.pc = "calling" /\ row.endpoint = R.endpoint /\ row.siteRev = R.siteRev
        /\ row.secret = R.secret /\ row.todo = R.todo /\ row.found = R.found
        /\ row.applied = R.applied /\ row.url = R.url
    BY <1>1 DEF RunRow
  <2>3. run' = [run EXCEPT ![r] = row]
    BY <1>3
  <2> HIDE DEF row
  <2>4. Fresh(R)
    BY <1>1 DEF Knows
  <2>5. Fresh(row)
    BY <1>1, <2>2, <2>4 DEF Fresh
  <2>6. Knows(row)
    BY <1>1, <2>2, <2>5 DEF Knows
  <2> QED BY <1>2, <2>1, <2>3, <2>6, RowRewritten
<1>4. CASE run' = [run EXCEPT ![r] = [@ EXCEPT !.pc = "over"]]
  <2> DEFINE row == [R EXCEPT !.pc = "over"]
  <2>1. row \in RunRow /\ Knows(row)
    BY <1>1 DEF RunRow, Knows
  <2> QED BY <1>2, <1>4, <2>1, RowRewritten
<1> QED BY <1>3, <1>4 DEF InsertModelDiscoveryRun

\* What a call returns is the whole list, or nothing.
LEMMA CallUpstreamInforms ==
  ASSUME Sound, Informed, NEW r \in Runs, NEW c \in Credentials, NEW read \in SUBSET Names,
         CallUpstream(r, c, read)
  PROVE  Informed'
<1> DEFINE R == run[r]
<1> DEFINE listed == Offers[R.url][R.secret[c]]
<1> DEFINE models == Discovered(listed, read)
<1> DEFINE todo == IF R.mode = "first_success" /\ models # {} THEN {} ELSE R.todo \ {c}
<1> DEFINE failures == R.failures \/ models = {}
<1>1. R \in RunRow /\ Knows(R) /\ R.pc = "calling" /\ c \in R.todo
  BY DEF Informed, CallUpstream
<1>2. UNCHANGED config
  BY DEF CallUpstream, RunOnly
<1>3. CASE ~RowHere(r)
  <2> DEFINE row == [R EXCEPT !.pc = "over"]
  <2>1. run' = [run EXCEPT ![r] = row]
    BY <1>3 DEF CallUpstream
  <2>2. row \in RunRow /\ Knows(row)
    BY <1>1 DEF RunRow, Knows
  <2> QED BY <1>2, <2>1, <2>2, RowRewritten
<1>4. CASE RowHere(r)
  <2> DEFINE found == [R.found EXCEPT ![c] = models]
  <2> DEFINE row == [R EXCEPT !.found = found, !.failures = failures, !.todo = todo]
  <2>1. run' = [run EXCEPT ![r] = row]
    <3>1. run' = [run EXCEPT ![r] =
            [R EXCEPT !.found[c] = models, !.failures = failures, !.todo = todo]]
      <4>1. run' = [run EXCEPT ![r] =
              IF ~RowHere(r) THEN [run[r] EXCEPT !.pc = "over"]
              ELSE [run[r] EXCEPT !.found[c] = models,
                                  !.failures = run[r].failures \/ models = {},
                                  !.todo = IF run[r].mode = "first_success" /\ models # {} THEN {}
                                           ELSE run[r].todo \ {c}]]
        BY DEF CallUpstream
      <4> HIDE DEF models
      <4> QED BY <1>4, <4>1
    <3> HIDE DEF models, failures, todo
    <3> QED BY <1>1, <3>1 DEF RunRow
  <2>2. models \in SUBSET Names /\ (models # {} => models = listed)
    BY DEF Discovered
  <2>3. todo \subseteq R.todo /\ R.todo \in SUBSET Credentials
    BY <1>1, RunColumns
  <2>4. failures \in BOOLEAN
    BY <1>1, RunColumns
  <2> HIDE DEF models, todo, failures, listed
  <2>5. /\ found \in [Credentials -> SUBSET Names]
        /\ \A d \in Credentials : found[d] = IF d = c THEN models ELSE R.found[d]
    BY <1>1, <2>2, RunColumns
  <2> HIDE DEF found
  <2>6. row \in RunRow
    BY <1>1, <2>3, <2>4, <2>5 DEF RunRow
  <2>7. /\ row.pc = "calling" /\ row.endpoint = R.endpoint /\ row.siteRev = R.siteRev
        /\ row.secret = R.secret /\ row.todo = todo /\ row.found = found
        /\ row.applied = R.applied /\ row.url = R.url
    BY <1>1 DEF RunRow
  <2> HIDE DEF row
  <2>8. Fresh(R)
    BY <1>1 DEF Knows
  <2>9. Fresh(row)
    BY <1>1, <2>7, <2>8 DEF Fresh
  <2>10. R.secret[c] # NoSecret
    BY <1>1 DEF Knows
  <2>11. Knows(row)
    BY <1>1, <2>2, <2>3, <2>5, <2>7, <2>9, <2>10 DEF Knows, listed
  <2> QED BY <1>2, <2>1, <2>6, <2>11, RowRewritten
<1> QED BY <1>3, <1>4

\* The step that applies the result happens once.
LEMMA ApplyInforms ==
  ASSUME Sound, Informed, NEW r \in Runs, ApplyModelDiscoveryRun(r)
  PROVE  Informed'
<1> DEFINE R == run[r]
<1> DEFINE row == [R EXCEPT !.pc = "applied", !.applied = TRUE]
<1>1. R \in RunRow /\ Knows(R) /\ R.pc = "calling"
  BY DEF Informed, ApplyModelDiscoveryRun
<1>2. run' = [run EXCEPT ![r] = row] /\ UNCHANGED config
  BY DEF ApplyModelDiscoveryRun, Informed
<1>3. row \in RunRow
  BY <1>1 DEF RunRow
<1>4. /\ row.pc = "applied" /\ row.endpoint = R.endpoint /\ row.siteRev = R.siteRev
      /\ row.secret = R.secret /\ row.todo = R.todo /\ row.found = R.found
      /\ row.url = R.url
  BY <1>1 DEF RunRow
<1> HIDE DEF row
<1>5. Fresh(R)
  BY <1>1 DEF Knows
<1>6. Fresh(row)
  BY <1>1, <1>4, <1>5 DEF Fresh
<1>7. Knows(row)
  BY <1>1, <1>4, <1>6 DEF Knows
<1> QED BY <1>2, <1>3, <1>7, RowRewritten

\* Every step of a discovery keeps it informed.
LEMMA RunInforms ==
  ASSUME Sound, Informed, NEW r \in Runs, RunStep(r)
  PROVE  Informed'
<1> DEFINE R == run[r]
<1>1. R \in RunRow /\ Knows(R) /\ R.status \in {"none", "running", "success", "partial", "failed"}
  BY RunColumns DEF Informed
<1>2. ASSUME RefuseRun(r) PROVE Informed'
  <2>1. /\ run' = [run EXCEPT ![r] = [@ EXCEPT !.pc = "refused", !.status = R.status]]
        /\ R.pc = "calling" /\ UNCHANGED config
    BY <1>1, <1>2 DEF RefuseRun, RunOnly, Informed, RunRow
  <2>2. ~R.applied
    BY <1>1, <2>1 DEF Knows
  <2> QED BY <1>1, <2>1, <2>2, MovesOn
<1>3. ASSUME FailModelDiscoveryRun(r) PROVE Informed'
  <2> DEFINE status == IF RowHere(r) THEN "failed" ELSE R.status
  <2>1. /\ run' = [run EXCEPT ![r] = [@ EXCEPT !.pc = "over", !.status = status]]
        /\ R.pc = "refused" /\ UNCHANGED config
    BY <1>1, <1>3 DEF FailModelDiscoveryRun, RunOnly, Informed
  <2>2. status \in {"none", "running", "success", "partial", "failed"}
    BY <1>1
  <2> HIDE DEF status
  <2> QED BY <2>1, <2>2, MovesOn
<1>4. ASSUME CompleteModelDiscoveryRun(r) PROVE Informed'
  <2> DEFINE status == IF ~RowHere(r) THEN R.status
                       ELSE IF R.failures THEN "partial" ELSE "success"
  <2>1. /\ run' = [run EXCEPT ![r] = [@ EXCEPT !.pc = "over", !.status = status]]
        /\ R.pc = "applied" /\ UNCHANGED config
    BY <1>1, <1>4 DEF CompleteModelDiscoveryRun, RunOnly, Informed
  <2>2. status \in {"none", "running", "success", "partial", "failed"}
    BY <1>1
  <2> HIDE DEF status
  <2> QED BY <2>1, <2>2, MovesOn
<1>5. ASSUME AbandonRun(r) PROVE Informed'
  <2>1. /\ run' = [run EXCEPT ![r] = [@ EXCEPT !.pc = "over", !.status = R.status]]
        /\ R.pc \notin {"idle", "over"} /\ UNCHANGED config
    BY <1>1, <1>5 DEF AbandonRun, RunOnly, Informed, RunRow
  <2> QED BY <1>1, <2>1, MovesOn
<1> QED BY <1>2, <1>3, <1>4, <1>5, StartRunInforms, ReadEndpointInforms,
     ListCredentialsInforms, ReadSecretInforms, InsertModelDiscoveryRunInforms,
     CallUpstreamInforms, ApplyInforms, ZenonT(30) DEF RunStep

\* So does every other step.
LEMMA InformedStep ==
  ASSUME Sound, Informed, [Next]_vars
  PROVE  Informed'
<1>1. CASE \E r \in Runs : RunStep(r)
  BY <1>1, RunInforms
<1>2. CASE UNCHANGED run
  <2>1. Sound' /\ SiteMoves
    BY StepMoves DEF Informed
  <2>2. \A r \in Runs : run[r] \in RunRow /\ Knows(run[r])
    BY DEF Informed
  <2>3. \A r \in Runs : Knows(run[r])'
    BY <1>2, <2>1, <2>2, KnowsKept DEF Knows, Fresh
  <2> QED BY <1>2, <2>3 DEF Informed
<1>3. UNCHANGED run \/ \E r \in Runs : RunStep(r)
  <2>1. CASE SiteStep \/ RouteStep
    BY <2>1, AdministratorChanges DEF Change
  <2>2. CASE ViewStep
    BY <2>2 DEF ViewStep, ViewSite, ViewEndpoints, ViewCredentials, ViewPublishedModel,
         ViewTargets
  <2> QED BY <2>1, <2>2 DEF Next, vars
<1> QED BY <1>1, <1>2, <1>3

-----------------------------------------------------------------------------
(* Coverage *)

\* The counter of missing lists never exceeds the number of lists that lacked
\* the name, and each of these was applied.
Earned ==
  /\ access \in Access
  /\ misses \in [Credentials -> [Endpoints -> [Names -> SUBSET Runs]]]
  /\ \A c \in Credentials, e \in Endpoints, n \in Names :
       LET M == misses[c][e][n]  A == access[c][e][n] IN
       /\ IsFiniteSet(M) /\ A.missing <= Cardinality(M)
       /\ A.avail = "unsupported" => Cardinality(M) >= 2
       /\ \A r \in M : run[r].applied

\* What was applied stays so.
LEMMA AppliedGrows ==
  ASSUME Informed, NEW r \in Runs, RunStep(r)
  PROVE  \A q \in Runs : run[q].applied => run'[q].applied
<1> DEFINE R == run[r]
<1>1. R \in RunRow /\ run \in [Runs -> RunRow]
  BY DEF Informed
<1>2. \A q \in Runs \ {r} : run'[q] = run[q]
  BY <1>1, RunEffects DEF RunEffect
<1>3. CASE ApplyModelDiscoveryRun(r)
  <2>1. run'[r].applied = TRUE
    BY <1>1, <1>3 DEF ApplyModelDiscoveryRun, RunRow
  <2> QED BY <1>2, <2>1
<1>4. CASE ~ApplyModelDiscoveryRun(r)
  <2>1. CASE \E e \in Endpoints, mode \in {"selected", "first_success", "all"} :
               StartRun(r, e, mode)
    BY <1>1, <1>2, <2>1 DEF StartRun, RunRow
  <2>2. CASE ReadEndpoint(r)
    BY <1>1, <1>2, <2>2 DEF ReadEndpoint, RunRow
  <2>3. CASE InsertModelDiscoveryRun(r)
    BY <1>1, <1>2, <2>3 DEF InsertModelDiscoveryRun, RunRow
  <2>4. CASE \E C \in SUBSET Credentials : ListCredentials(r, C)
    BY <1>1, <1>2, <2>4 DEF ListCredentials, RunRow
  <2>5. CASE \E c \in Credentials : ReadSecret(r, c)
    BY <1>1, <1>2, <2>5 DEF ReadSecret, RunRow
  <2>6. CASE \E c \in Credentials, read \in SUBSET Names : CallUpstream(r, c, read)
    BY <1>1, <1>2, <2>6 DEF CallUpstream, RunRow
  <2>7. CASE RefuseRun(r) \/ FailModelDiscoveryRun(r) \/ CompleteModelDiscoveryRun(r)
             \/ AbandonRun(r)
    BY <1>1, <1>2, <2>7, SMTT(30) DEF RefuseRun, FailModelDiscoveryRun, CompleteModelDiscoveryRun,
         AbandonRun, RunRow
  <2> QED BY <1>4, <2>1, <2>2, <2>3, <2>4, <2>5, <2>6, <2>7 DEF RunStep
<1> QED BY <1>3, <1>4

\* Two lists in a row without the name, and only they, rule a model out.
LEMMA CoverageCounts ==
  ASSUME NEW row \in AccessRow, NEW listed \in BOOLEAN
  PROVE  /\ Coverage(row, listed) \in AccessRow
         /\ listed => Coverage(row, listed) = [avail |-> "supported", missing |-> 0]
         /\ ~listed => /\ Coverage(row, listed).missing <= row.missing + 1
                       /\ Coverage(row, listed).avail = "unsupported" =>
                            row.missing >= 1 \/ row.avail = "unsupported"
<1>1. row.avail \in {"unknown", "supported", "unsupported"} /\ row.missing \in 0..2
  BY DEF AccessRow
<1>2. CASE listed
  BY <1>2 DEF Coverage, AccessRow
<1>3. CASE ~listed /\ row.missing >= 1
  <2>1. Coverage(row, listed) = [avail |-> "unsupported", missing |-> 2]
    BY <1>3 DEF Coverage
  <2> QED BY <1>1, <1>3, <2>1 DEF AccessRow
<1>4. CASE ~listed /\ ~(row.missing >= 1)
  <2>1. Coverage(row, listed) = [avail |-> row.avail, missing |-> 1]
    BY <1>4 DEF Coverage
  <2> QED BY <1>1, <1>4, <2>1 DEF AccessRow
<1> QED BY <1>2, <1>3, <1>4

\* The transaction that applies a run counts each list once.
LEMMA ApplyEarns ==
  ASSUME Informed, Earned, NEW r \in Runs, ApplyModelDiscoveryRun(r)
  PROVE  Earned'
<1> DEFINE R == run[r]
<1> DEFINE e == R.endpoint
<1> DEFINE known == NamesFound(r) \union {n \in Names : model[e][n] # "none"}
<1>1. R \in RunRow /\ Knows(R) /\ R.pc = "calling" /\ e \in Endpoints
  BY RunColumns DEF Informed, ApplyModelDiscoveryRun
<1>2. /\ access' = [c \in Credentials |->
           IF c \notin Learnt(r) THEN access[c]
           ELSE [access[c] EXCEPT ![e] = [n \in Names |->
                  IF n \in known THEN Coverage(access[c][e][n], n \in R.found[c])
                  ELSE access[c][e][n]]]]
      /\ misses' = [c \in Credentials |->
           IF c \notin Learnt(r) THEN misses[c]
           ELSE [misses[c] EXCEPT ![e] = [n \in Names |->
                  IF n \in Offers[R.url][R.secret[c]] THEN {}
                  ELSE misses[c][e][n] \union {r}]]]
  BY DEF ApplyModelDiscoveryRun
<1>3. \A c \in Learnt(r) : R.found[c] = Offers[R.url][R.secret[c]]
  BY <1>1 DEF Learnt, Knows
<1>4. \A c \in Credentials, n \in Names : n \in R.found[c] => n \in known
  BY DEF NamesFound
<1>5. \A c \in Credentials, n \in Names : (n \in R.found[c]) \in BOOLEAN
  OBVIOUS
<1> HIDE DEF known
<1>6. access \in Access /\ misses \in [Credentials -> [Endpoints -> [Names -> SUBSET Runs]]]
  BY DEF Earned
<1>7. ~R.applied
  BY <1>1 DEF Knows
<1>8. \A q \in Runs : run[q].applied => run'[q].applied
  BY AppliedGrows DEF RunStep
<1>9. run'[r].applied
  BY DEF ApplyModelDiscoveryRun, Informed, RunRow
<1>10. ASSUME NEW c \in Credentials, NEW x \in Endpoints, NEW n \in Names
       PROVE  LET M == misses'[c][x][n]  A == access'[c][x][n] IN
              /\ A \in AccessRow /\ M \in SUBSET Runs
              /\ IsFiniteSet(M) /\ A.missing <= Cardinality(M)
              /\ A.avail = "unsupported" => Cardinality(M) >= 2
              /\ \A q \in M : run'[q].applied
  <2> DEFINE M == misses[c][x][n]
  <2> DEFINE A == access[c][x][n]
  <2>1. /\ A \in AccessRow /\ M \in SUBSET Runs /\ IsFiniteSet(M)
        /\ A.missing <= Cardinality(M) /\ (A.avail = "unsupported" => Cardinality(M) >= 2)
        /\ \A q \in M : run[q].applied
    BY DEF Earned, Access
  <2>2. A.missing \in Nat /\ Cardinality(M) \in Nat
    BY <2>1, FS_CardinalityType DEF AccessRow
  <2>3. CASE c \notin Learnt(r) \/ x # e
    <3>1. misses'[c][x][n] = M /\ access'[c][x][n] = A
      BY <1>1, <1>2, <1>6, <2>3 DEF Access
    <3> QED BY <1>8, <2>1, <3>1
  <2>4. CASE c \in Learnt(r) /\ x = e
    <3>1. /\ access'[c][x][n] = IF n \in known THEN Coverage(A, n \in R.found[c]) ELSE A
          /\ misses'[c][x][n] = IF n \in R.found[c] THEN {} ELSE M \union {r}
      BY <1>1, <1>2, <1>3, <1>6, <2>4 DEF Access
    <3>2. CASE n \in R.found[c]
      <4>1. Coverage(A, n \in R.found[c]) = [avail |-> "supported", missing |-> 0]
        BY <3>2 DEF Coverage
      <4>2. /\ access'[c][x][n] = [avail |-> "supported", missing |-> 0]
            /\ misses'[c][x][n] = {}
        BY <1>4, <3>1, <3>2, <4>1
      <4> QED BY <4>2, FS_EmptySet DEF AccessRow
    <3>3. CASE n \notin R.found[c]
      <4>1. r \notin M
        BY <1>7, <2>1
      <4>2. /\ IsFiniteSet(M \union {r})
            /\ Cardinality(M \union {r}) = Cardinality(M) + 1
        BY <2>1, <4>1, FS_AddElement
      <4>3. \A q \in M \union {r} : run'[q].applied
        BY <1>8, <1>9, <2>1
      <4>4. misses'[c][x][n] = M \union {r} /\ M \union {r} \in SUBSET Runs
        BY <2>1, <3>1, <3>3
      <4> DEFINE B == Coverage(A, FALSE)
      <4>5. access'[c][x][n] = B \/ access'[c][x][n] = A
        <5>1. (n \in R.found[c]) = FALSE
          BY <3>3
        <5> QED BY <3>1, <5>1
      <4>6. /\ B \in AccessRow /\ B.missing <= A.missing + 1
            /\ B.avail = "unsupported" => A.missing >= 1 \/ A.avail = "unsupported"
        BY <2>1, CoverageCounts
      <4> HIDE DEF A, B, M
      <4>7. B.missing \in Nat
        BY <4>6 DEF AccessRow
      <4>8. CASE access'[c][x][n] = B
        BY <2>1, <2>2, <4>2, <4>3, <4>4, <4>6, <4>7, <4>8
      <4>9. CASE access'[c][x][n] = A
        BY <2>1, <2>2, <4>2, <4>3, <4>4, <4>9
      <4> QED BY <4>5, <4>8, <4>9
    <3> QED BY <3>2, <3>3
  <2> QED BY <2>3, <2>4
<1>11. access' \in Access
  <2> DEFINE row(c) == [n \in Names |->
                IF n \in known THEN Coverage(access[c][e][n], n \in R.found[c])
                ELSE access[c][e][n]]
  <2>1. ASSUME NEW c \in Learnt(r) PROVE row(c) \in [Names -> AccessRow]
    <3>1. \A n \in Names : row(c)[n] = access'[c][e][n]
      BY <1>1, <1>2, <1>6 DEF Learnt, Access
    <3>2. \A n \in Names : row(c)[n] \in AccessRow
      BY <1>1, <1>10, <3>1 DEF Learnt
    <3> QED BY <3>2
  <2>2. access' = [c \in Credentials |-> IF c \notin Learnt(r) THEN access[c]
                                        ELSE [access[c] EXCEPT ![e] = row(c)]]
    BY <1>2
  <2> HIDE DEF row
  <2> QED BY <1>1, <1>6, <2>1, <2>2 DEF Access
<1>12. misses' \in [Credentials -> [Endpoints -> [Names -> SUBSET Runs]]]
  <2> DEFINE row(c) == [n \in Names |-> IF n \in Offers[R.url][R.secret[c]] THEN {}
                                       ELSE misses[c][e][n] \union {r}]
  <2>1. ASSUME NEW c \in Credentials PROVE row(c) \in [Names -> SUBSET Runs]
    BY <1>1, <1>6
  <2>2. misses' = [c \in Credentials |-> IF c \notin Learnt(r) THEN misses[c]
                                        ELSE [misses[c] EXCEPT ![e] = row(c)]]
    BY <1>2
  <2> HIDE DEF row
  <2> QED BY <1>1, <1>6, <2>1, <2>2
<1> QED BY <1>10, <1>11, <1>12 DEF Earned

\* Nothing else touches the count.
LEMMA EarnedStep ==
  ASSUME Sound, Informed, Earned, [Next]_vars
  PROVE  Earned'
<1>1. ASSUME UNCHANGED misses, access' \in Access, Forgets,
             \A q \in Runs : run[q].applied => run'[q].applied
      PROVE  Earned'
  <2>1. ASSUME NEW c \in Credentials, NEW e \in Endpoints, NEW n \in Names
        PROVE  LET M == misses'[c][e][n]  A == access'[c][e][n] IN
               /\ IsFiniteSet(M) /\ A.missing <= Cardinality(M)
               /\ A.avail = "unsupported" => Cardinality(M) >= 2
               /\ \A q \in M : run'[q].applied
    <3> DEFINE M == misses[c][e][n]
    <3> DEFINE A == access[c][e][n]
    <3>1. /\ M \in SUBSET Runs /\ IsFiniteSet(M) /\ A.missing <= Cardinality(M)
          /\ A.avail = "unsupported" => Cardinality(M) >= 2
          /\ \A q \in M : run[q].applied
      BY DEF Earned
    <3>2. Cardinality(M) \in Nat
      BY <3>1, FS_CardinalityType
    <3>3. access'[c][e][n] = A \/ access'[c][e][n] = NoAccess
      BY <1>1 DEF Forgets
    <3>4. NoAccess.missing = 0 /\ NoAccess.avail = "unknown"
      BY DEF NoAccess
    <3> HIDE DEF A
    <3>5. \A q \in M : run'[q].applied
      BY <1>1, <3>1
    <3> QED BY <1>1, <3>1, <3>2, <3>3, <3>4, <3>5
  <2> QED BY <1>1, <2>1 DEF Earned
<1>2. CASE SiteStep \/ RouteStep
  <2>1. Change
    BY <1>2, AdministratorChanges
  <2> QED BY <1>1, <2>1 DEF Change, Earned
<1>3. ASSUME NEW r \in Runs, RunStep(r) PROVE Earned'
  <2>1. RunEffect(r) /\ \A q \in Runs : run[q].applied => run'[q].applied
    BY <1>3, RunEffects, AppliedGrows DEF Informed
  <2>2. CASE ApplyModelDiscoveryRun(r)
    BY <2>2, ApplyEarns
  <2>3. CASE ~ApplyModelDiscoveryRun(r)
    BY <1>1, <2>1, <2>3 DEF RunEffect, Forgets, Earned
  <2> QED BY <2>2, <2>3
<1>4. CASE UNCHANGED <<access, misses, run>>
  BY <1>1, <1>4 DEF Forgets, Earned
<1>5. ViewStep \/ UNCHANGED vars => UNCHANGED <<access, misses, run>>
  BY DEF ViewStep, ViewSite, ViewEndpoints, ViewCredentials, ViewPublishedModel,
       ViewTargets, vars
<1> QED BY <1>2, <1>3, <1>4, <1>5 DEF Next

-----------------------------------------------------------------------------
(* The panel *)

\* What has been read of a site is what the site shows ...
SiteSeen ==
  LET s == view.id IN
  /\ s \in Sites /\ view.rev \in Nat
  /\ \/ site[s] = Gone
     \/ /\ Here(site[s]) /\ view.rev <= site[s].rev
        /\ site[s].rev = view.rev =>
             /\ view.pc = "site" => view.seen = <<site[s].enabled>>
             /\ view.pc = "endpoints" => view.seen = <<site[s].enabled, EndpointsShown(s)>>
             /\ view.pc = "shown" => view.seen = Current("site", s)

\* ... and of the published model, unless the revision has grown since the page
\* was begun.
RouteSeen ==
  /\ view.rev \in Nat
  /\ \/ published = Gone
     \/ /\ Here(published) /\ view.rev <= published.rev
        /\ published.rev = view.rev =>
             /\ view.pc = "published" => view.seen = <<published.enabled>>
             /\ view.pc = "shown" => view.seen = Current("route", view.id)

Viewed ==
  /\ view = [pc |-> view.pc, kind |-> view.kind, id |-> view.id, rev |-> view.rev,
             seen |-> view.seen]
  /\ view.pc \in {"none", "site", "endpoints", "published", "shown", "saved"}
  /\ view.pc \in {"site", "endpoints"} => view.kind = "site"
  /\ view.pc = "published" => view.kind = "route"
  /\ view.kind = "site" => SiteSeen
  /\ view.kind = "route" => RouteSeen

\* A page that is left alone is current, or its revision is an old one.
LEMMA PagesKept ==
  ASSUME Sound, Sound', SiteMoves, RouteMoves, Viewed, view' = view
  PROVE  Viewed'
<1>1. ASSUME SiteSeen PROVE SiteSeen'
  <2> DEFINE s == view.id
  <2>1. s \in Sites /\ view.rev \in Nat
    BY <1>1 DEF SiteSeen
  <2>2. CASE site[s] = Gone
    BY <2>1, <2>2 DEF SiteSeen, SiteMoves
  <2>3. CASE Here(site[s])
    <3>1. site[s] \in SiteRow /\ view.rev <= site[s].rev
      BY <1>1, <2>1, <2>3, HereRows DEF SiteSeen, Here, Sound, Types
    <3>2. site[s].rev \in Nat
      BY <3>1 DEF SiteRow
    <3>3. CASE site'[s] = Gone
      BY <2>1, <3>3 DEF SiteSeen
    <3>4. CASE Here(site'[s]) /\ site'[s].rev > site[s].rev
      <4>1. site'[s] \in SiteRow
        BY <2>1, <3>4, HereRows DEF Here, Sound, Types
      <4>2. site'[s].rev \in Nat
        BY <4>1 DEF SiteRow
      <4>3. view.rev <= site'[s].rev /\ site'[s].rev # view.rev
        BY <2>1, <3>1, <3>2, <3>4, <4>2
      <4> QED BY <2>1, <3>4, <4>3 DEF SiteSeen
    <3>5. CASE /\ site'[s] = site[s]
               /\ \A e \in Endpoints : SiteOf[e] = s => endpoint'[e] = endpoint[e]
               /\ \A c \in Credentials : SiteOf[c] = s => credential'[c] = credential[c]
      <4>1. EndpointsOf(s)' = EndpointsOf(s) /\ CredentialsOf(s)' = CredentialsOf(s)
        BY <3>5 DEF EndpointsOf, CredentialsOf, Here
      <4>2. EndpointsShown(s)' = EndpointsShown(s)
        <5>1. \A e \in EndpointsOf(s) : endpoint'[e] = endpoint[e]
          BY <3>5 DEF EndpointsOf
        <5> QED BY <4>1, <5>1 DEF EndpointsShown
      <4>3. CredentialsShown(s)' = CredentialsShown(s)
        <5>1. \A c \in CredentialsOf(s) : credential'[c] = credential[c]
          BY <3>5 DEF CredentialsOf
        <5> QED BY <4>1, <5>1 DEF CredentialsShown
      <4> QED BY <1>1, <2>3, <3>5, <4>2, <4>3 DEF SiteSeen, Current, Here
    <3> QED BY <2>1, <2>3, <3>3, <3>4, <3>5 DEF SiteMoves
  <2> QED BY <1>1, <2>2, <2>3 DEF SiteSeen
<1>2. ASSUME RouteSeen PROVE RouteSeen'
  <2>1. view.rev \in Nat
    BY <1>2 DEF RouteSeen
  <2>2. CASE published = Gone
    BY <2>1, <2>2 DEF RouteSeen, RouteMoves
  <2>3. CASE Here(published)
    <3>1. published \in SiteRow /\ view.rev <= published.rev
      BY <1>2, <2>3, HereRows DEF RouteSeen, Here, Sound, Types
    <3>2. published.rev \in Nat
      BY <3>1 DEF SiteRow
    <3>3. CASE published' = Gone
      BY <2>1, <3>3 DEF RouteSeen
    <3>4. CASE Here(published') /\ published'.rev > published.rev
      <4>1. published' \in SiteRow
        BY <3>4, HereRows DEF Here, Sound, Types
      <4>2. published'.rev \in Nat
        BY <4>1 DEF SiteRow
      <4>3. view.rev <= published'.rev /\ published'.rev # view.rev
        BY <2>1, <3>1, <3>2, <3>4, <4>2
      <4> QED BY <2>1, <3>4, <4>3 DEF RouteSeen
    <3>5. CASE /\ published' = published
               /\ Listed' = Listed
               /\ \A t \in Listed :
                    /\ target'[t] = target[t]
                    /\ endpoint'[target[t].endpoint].eligible
                         = endpoint[target[t].endpoint].eligible
      <4>1. TargetsShown' = TargetsShown
        BY <3>5 DEF TargetsShown
      <4> QED BY <1>2, <2>3, <3>5, <4>1 DEF RouteSeen, Current, Here
    <3> QED BY <2>3, <3>3, <3>4, <3>5 DEF RouteMoves
  <2> QED BY <1>2, <2>2, <2>3 DEF RouteSeen
<1> QED BY <1>1, <1>2 DEF Viewed

\* Every statement of a page adds what its rows show now.
LEMMA PagesRead ==
  ASSUME Sound, Viewed, ViewStep
  PROVE  Viewed'
<1>1. UNCHANGED <<config, routes>>
  BY DEF ViewStep, ViewSite, ViewEndpoints, ViewCredentials, ViewPublishedModel, ViewTargets
<1>2. /\ UNCHANGED <<site, endpoint, credential, published, target>>
      /\ \A s \in Sites : EndpointsShown(s)' = EndpointsShown(s)
      /\ \A s \in Sites : CredentialsShown(s)' = CredentialsShown(s)
      /\ TargetsShown' = TargetsShown
  BY <1>1 DEF EndpointsShown, CredentialsShown, TargetsShown, EndpointsOf, CredentialsOf, Listed
<1>3. ASSUME NEW s \in Sites, ViewSite(s) PROVE Viewed'
  <2>1. /\ Here(site[s])
        /\ view' = [pc |-> "site", kind |-> "site", id |-> s, rev |-> site[s].rev,
                    seen |-> <<site[s].enabled>>]
    BY <1>3 DEF ViewSite
  <2>2. site[s].rev \in Nat
    <3>1. site[s] \in SiteRow
      BY <2>1, HereRows DEF Sound, Types
    <3> QED BY <3>1 DEF SiteRow
  <2> QED BY <1>2, <2>1, <2>2 DEF Viewed, SiteSeen, Here
<1>4. CASE ViewPublishedModel
  <2>1. /\ Here(published)
        /\ view' = [pc |-> "published", kind |-> "route", id |-> "route",
                    rev |-> published.rev, seen |-> <<published.enabled>>]
    BY <1>4 DEF ViewPublishedModel
  <2>2. published.rev \in Nat
    <3>1. published \in SiteRow
      BY <2>1, HereRows DEF Sound, Types
    <3> QED BY <3>1 DEF SiteRow
  <2> QED BY <1>2, <2>1, <2>2 DEF Viewed, RouteSeen, Here
<1>5. CASE ViewEndpoints
  <2>1. /\ view.pc = "site" /\ view.kind = "site" /\ SiteSeen
        /\ view' = [pc |-> "endpoints", kind |-> "site", id |-> view.id, rev |-> view.rev,
                    seen |-> <<view.seen[1], EndpointsShown(view.id)>>]
    BY <1>5 DEF ViewEndpoints, Viewed
  <2>2. SiteSeen'
    BY <1>2, <2>1 DEF SiteSeen, Here
  <2> QED BY <2>1, <2>2 DEF Viewed
<1>6. CASE ViewCredentials
  <2>1. /\ view.pc = "endpoints" /\ view.kind = "site" /\ SiteSeen
        /\ view' = [pc |-> "shown", kind |-> "site", id |-> view.id, rev |-> view.rev,
                    seen |-> <<view.seen[1], view.seen[2], CredentialsShown(view.id)>>]
    BY <1>6 DEF ViewCredentials, Viewed
  <2>2. SiteSeen'
    BY <1>2, <2>1 DEF SiteSeen, Current, Here
  <2> QED BY <2>1, <2>2 DEF Viewed
<1>7. CASE ViewTargets
  <2>1. /\ view.pc = "published" /\ view.kind = "route" /\ RouteSeen
        /\ view' = [pc |-> "shown", kind |-> "route", id |-> view.id, rev |-> view.rev,
                    seen |-> <<view.seen[1], TargetsShown>>]
    BY <1>7 DEF ViewTargets, Viewed
  <2>2. RouteSeen'
    BY <1>2, <2>1 DEF RouteSeen, Current, Here
  <2> QED BY <2>1, <2>2 DEF Viewed
<1> QED BY <1>3, <1>4, <1>5, <1>6, <1>7 DEF ViewStep

\* The panel stays current, or knows an old revision.
LEMMA ViewedStep ==
  ASSUME Sound, Informed, Viewed, [Next]_vars
  PROVE  Viewed'
<1>1. Sound' /\ SiteMoves /\ RouteMoves
  BY StepMoves DEF Informed
<1>2. CASE view' = view
  BY <1>1, <1>2, PagesKept
<1>3. CASE ViewStep
  BY <1>3, PagesRead
<1>4. CASE view' = [view EXCEPT !.pc = "saved"] /\ view.pc = "shown"
  <2> DEFINE old == view
  <2>1. view' = [pc |-> "saved", kind |-> view.kind, id |-> view.id, rev |-> view.rev,
                 seen |-> view.seen]
    BY <1>4 DEF Viewed
  <2>2. ASSUME SiteSeen PROVE SiteSeen'
    <3> DEFINE s == view.id
    <3>1. s \in Sites /\ view.rev \in Nat
      BY <2>2 DEF SiteSeen
    <3>2. site'[s] = Gone \/ (Here(site'[s]) /\ view.rev <= site'[s].rev)
      <4>1. CASE site[s] = Gone
        BY <1>1, <3>1, <4>1 DEF SiteMoves
      <4>2. CASE Here(site[s])
        <5>1. site[s] \in SiteRow /\ view.rev <= site[s].rev
          BY <2>2, <3>1, <4>2, HereRows DEF SiteSeen, Here, Sound, Types
        <5>2. site[s].rev \in Nat
          BY <5>1 DEF SiteRow
        <5>3. Here(site'[s]) => site'[s] \in SiteRow
          BY <1>1, <3>1, HereRows DEF Here, Sound, Types
        <5>4. Here(site'[s]) => site'[s].rev \in Nat
          BY <5>3 DEF SiteRow
        <5> QED BY <1>1, <3>1, <4>2, <5>1, <5>2, <5>4 DEF SiteMoves, Here
      <4> QED BY <2>2, <4>1, <4>2 DEF SiteSeen
    <3> QED BY <2>1, <3>1, <3>2 DEF SiteSeen
  <2>3. ASSUME RouteSeen PROVE RouteSeen'
    <3>1. view.rev \in Nat
      BY <2>3 DEF RouteSeen
    <3>2. published' = Gone \/ (Here(published') /\ view.rev <= published'.rev)
      <4>1. CASE published = Gone
        BY <1>1, <4>1 DEF RouteMoves
      <4>2. CASE Here(published)
        <5>1. published \in SiteRow /\ view.rev <= published.rev
          BY <2>3, <4>2, HereRows DEF RouteSeen, Here, Sound, Types
        <5>2. published.rev \in Nat
          BY <5>1 DEF SiteRow
        <5>3. Here(published') => published' \in SiteRow
          BY <1>1, HereRows DEF Here, Sound, Types
        <5>4. Here(published') => published'.rev \in Nat
          BY <5>3 DEF SiteRow
        <5> QED BY <1>1, <3>1, <4>2, <5>1, <5>2, <5>4 DEF RouteMoves, Here
      <4> QED BY <2>3, <4>1, <4>2 DEF RouteSeen
    <3> QED BY <2>1, <3>1, <3>2 DEF RouteSeen
  <2> QED BY <2>1, <2>2, <2>3 DEF Viewed
<1>5. view' = view \/ ViewStep \/ (view' = [view EXCEPT !.pc = "saved"] /\ view.pc = "shown")
  <2>1. CASE SiteStep \/ RouteStep
    <3>1. Change
      BY <2>1, AdministratorChanges
    <3>2. Justified
      BY <3>1 DEF Change
    <3> QED BY <3>2 DEF Justified
  <2>2. CASE \E r \in Runs : RunStep(r)
    BY <2>2, RunEffects DEF RunEffect, Informed
  <2> QED BY <2>1, <2>2 DEF Next, vars
<1> QED BY <1>2, <1>3, <1>4, <1>5

-----------------------------------------------------------------------------
(* The theorems *)

Inv == Sound /\ Informed /\ Earned /\ Viewed

\* Initially no run has read anything and no page is open.
LEMMA InitInv ==
  ASSUME Init
  PROVE  Inv
<1>1. Sound
  BY InitSound
<1>2. Informed
  <2>1. (CHOOSE e \in Endpoints : TRUE) \in Endpoints /\ (CHOOSE u \in Urls : TRUE) \in Urls
    BY SomeAssumption
  <2>2. NewRun \in RunRow
    BY <2>1 DEF NewRun, RunRow
  <2>3. Knows(NewRun)
    BY DEF Knows, NewRun
  <2>4. run = [r \in Runs |-> NewRun]
    BY DEF Init
  <2>5. run \in [Runs -> RunRow] /\ \A r \in Runs : run[r] = NewRun
    BY <2>2, <2>4
  <2> HIDE DEF NewRun
  <2> QED BY <2>3, <2>5 DEF Informed
<1>3. Earned
  <2>1. NoAccess \in AccessRow /\ NoAccess.missing = 0 /\ NoAccess.avail = "unknown"
    BY DEF NoAccess, AccessRow
  <2>2. /\ access = [c \in Credentials |-> [e \in Endpoints |-> [n \in Names |-> NoAccess]]]
        /\ misses = [c \in Credentials |-> [e \in Endpoints |-> [n \in Names |-> {}]]]
    BY DEF Init
  <2> HIDE DEF NoAccess
  <2>3. access \in Access /\ misses \in [Credentials -> [Endpoints -> [Names -> SUBSET Runs]]]
    BY <2>1, <2>2 DEF Access
  <2>4. \A c \in Credentials, e \in Endpoints, n \in Names :
          access[c][e][n] = NoAccess /\ misses[c][e][n] = {}
    BY <2>2
  <2>5. IsFiniteSet({}) /\ Cardinality({}) = 0
    BY FS_EmptySet
  <2>6. ASSUME NEW c \in Credentials, NEW e \in Endpoints, NEW n \in Names
        PROVE  LET M == misses[c][e][n]  A == access[c][e][n] IN
               /\ IsFiniteSet(M) /\ A.missing <= Cardinality(M)
               /\ A.avail = "unsupported" => Cardinality(M) >= 2
               /\ \A r \in M : run[r].applied
    <3>1. misses[c][e][n] = {} /\ access[c][e][n] = NoAccess
      BY <2>4
    <3>2. Cardinality(misses[c][e][n]) = 0 /\ IsFiniteSet(misses[c][e][n])
      BY <2>5, <3>1
    <3> QED BY <2>1, <3>1, <3>2
  <2> QED BY <2>3, <2>6 DEF Earned
<1>4. Viewed
  BY DEF Init, Viewed
<1> QED BY <1>1, <1>2, <1>3, <1>4 DEF Inv

\* Every step keeps the invariant.
LEMMA NextInv ==
  ASSUME Inv, [Next]_vars
  PROVE  Inv'
BY StepMoves, InformedStep, EarnedStep, ViewedStep DEF Inv, Informed

\* The structure of the catalogue, what discoveries know, what coverage counts
\* and what pages show hold in every reachable state.
THEOREM CatalogueInvariant == Spec => []Inv
<1>1. Init => Inv
  BY InitInv
<1>2. Inv /\ [Next]_vars => Inv'
  BY NextInv
<1> QED BY <1>1, <1>2, PTL DEF Spec

\* Every row keeps its columns, whatever the administrator, the discoveries and
\* the cascades of the database do.
THEOREM TypesHold == Spec => []TypeOK
<1>1. Inv => TypeOK
  BY DEF Inv, Sound, Types, Informed, Earned, Viewed, Access, TypeOK
<1> QED BY <1>1, CatalogueInvariant, PTL

\* The route never dangles: deleting, moving, reordering and changing protocols
\* leave targets that name existing endpoints and models, one per site, at
\* distinct positions.
THEOREM RouteSound == Spec => []RouteIsSound
<1>1. Inv => RouteIsSound
  BY DEF Inv, Sound, Structure
<1> QED BY <1>1, CatalogueInvariant, PTL

\* A key is kept away from a model only after two complete lists without it.
THEOREM CoverageEarned == Spec => []UnsupportedIsEarned
<1>1. Inv => UnsupportedIsEarned
  BY DEF Inv, Earned, UnsupportedIsEarned
<1> QED BY <1>1, CatalogueInvariant, PTL

\* What a discovery applies was learnt from the configuration in force: the
\* comparison of two revisions in the transaction covers the URL and every
\* secret read before the calls.
THEOREM EvidenceCurrent == Spec => EvidenceIsCurrent
<1> DEFINE Applied ==
      \A r \in Runs : run'[r] # run[r] /\ (model' # model \/ access' # access) =>
        LET e == run[r].endpoint IN
        /\ run'[r].applied /\ ~run[r].applied
        /\ site[SiteOf[e]].enabled /\ endpoint[e].enabled /\ endpoint[e].url = run[r].url
        /\ \A c \in Learnt(r) : /\ credential[c].enabled
                               /\ credential[c].secret = run[r].secret[c]
<1>1. Inv /\ [Next]_vars => [Applied]_vars
  <2> SUFFICES ASSUME Inv, [Next]_vars, NEW r \in Runs, run'[r] # run[r],
                      model' # model \/ access' # access
               PROVE  LET e == run[r].endpoint IN
                      /\ run'[r].applied /\ ~run[r].applied
                      /\ site[SiteOf[e]].enabled /\ endpoint[e].enabled
                      /\ endpoint[e].url = run[r].url
                      /\ \A c \in Learnt(r) : /\ credential[c].enabled
                                             /\ credential[c].secret = run[r].secret[c]
    OBVIOUS
  <2> DEFINE R == run[r]
  <2> DEFINE e == R.endpoint
  <2>1. Sound /\ Informed
    BY DEF Inv
  <2>2. PICK q \in Runs : RunStep(q)
    <3>1. CASE SiteStep \/ RouteStep
      BY <2>1, <3>1, AdministratorChanges DEF Change
    <3>2. CASE ViewStep
      BY <3>2 DEF ViewStep, ViewSite, ViewEndpoints, ViewCredentials, ViewPublishedModel,
           ViewTargets
    <3> QED BY <3>1, <3>2 DEF Next, vars
  <2>3. q = r /\ ApplyModelDiscoveryRun(r)
    BY <2>1, <2>2, RunEffects DEF RunEffect, Informed
  <2>4. /\ MayApply(r) /\ run'[r].applied /\ R.pc = "calling"
        /\ R \in RunRow /\ Knows(R) /\ R.endpoint \in Endpoints
    <3>1. R \in RunRow /\ run \in [Runs -> RunRow] /\ Knows(R)
      BY <2>1 DEF Informed
    <3>2. MayApply(r) /\ R.pc = "calling"
      BY <2>3 DEF ApplyModelDiscoveryRun
    <3>3. run'[r].applied = TRUE
      <4>1. run' = [run EXCEPT ![r].pc = "applied", ![r].applied = TRUE]
        BY <2>3 DEF ApplyModelDiscoveryRun
      <4> QED BY <3>1, <4>1 DEF RunRow
    <3> QED BY <3>1, <3>2, <3>3, RunColumns
  <2>5. ~R.applied
    BY <2>4 DEF Knows
  <2>6. /\ Here(site[SiteOf[e]]) /\ site[SiteOf[e]].enabled /\ endpoint[e].enabled
        /\ site[SiteOf[e]].rev = R.siteRev
        /\ \A c \in Learnt(r) : credential[c].enabled
    BY <2>4 DEF MayApply, RowHere, SiteOfRun
  <2>7. /\ endpoint[e].url = R.url
        /\ \A c \in Credentials : R.secret[c] # NoSecret => credential[c].secret = R.secret[c]
    BY <2>4, <2>6, HereRows DEF Knows, Fresh
  <2>8. \A c \in Learnt(r) : c \in Credentials /\ R.secret[c] # NoSecret
    BY <2>4 DEF Knows, Learnt
  <2> QED BY <2>4, <2>5, <2>6, <2>7, <2>8
<1> QED BY <1>1, CatalogueInvariant, PTL DEF Spec, EvidenceIsCurrent

\* A save that carries the revision of its page is refused unless the page
\* shows what the database holds, although a page is read in several statements
\* and a revision covers rows of three tables.
THEOREM StaleWritesRefused == Spec => NoStaleWrite
<1> DEFINE Saved ==
      view.pc = "shown" /\ view'.pc = "saved" => view.seen = Current(view.kind, view.id)
<1>1. Inv /\ [Next]_vars => [Saved]_vars
  <2> SUFFICES ASSUME Inv, [Next]_vars, view.pc = "shown", view'.pc = "saved"
               PROVE  view.seen = Current(view.kind, view.id)
    OBVIOUS
  <2>1. Sound /\ Informed /\ Viewed
    BY DEF Inv
  <2>2. SiteStep \/ RouteStep
    <3>1. view' # view
      OBVIOUS
    <3>2. ~ViewStep
      BY DEF ViewStep, ViewSite, ViewEndpoints, ViewCredentials, ViewPublishedModel,
         ViewTargets, Viewed, Inv
    <3>3. ~\E r \in Runs : RunStep(r)
      BY <2>1, <3>1, RunEffects DEF RunEffect, Informed
    <3> QED BY <3>1, <3>2, <3>3 DEF Next, vars
  <2>3. Justified
    BY <2>1, <2>2, AdministratorChanges DEF Change
  <2>4. CASE /\ view.kind = "site" /\ view.id \in Sites
             /\ Here(site[view.id]) /\ view.rev = site[view.id].rev
    BY <2>1, <2>4, HereRows DEF Viewed, SiteSeen
  <2>5. CASE view.kind = "route" /\ Here(published) /\ view.rev = published.rev
    BY <2>1, <2>5, HereRows DEF Viewed, RouteSeen
  <2> QED BY <2>3, <2>4, <2>5 DEF Justified
<1> QED BY <1>1, CatalogueInvariant, PTL DEF Spec, NoStaleWrite
============================================================================

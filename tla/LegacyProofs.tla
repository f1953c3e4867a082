---------------------------- MODULE LegacyProofs ----------------------------
(***************************************************************************)
(* Proofs about the legacy catalogue: its migration (LegacyMigration) for  *)
(* any upstreams, sites and models, whatever is edited before, between and *)
(* after; and the requests and probes that are not migrated yet            *)
(* (LegacyGateway) for every route, every number of requests and probes    *)
(* and every setting of the circuit.  The rows of target_health outlive    *)
(* the process, so the latter start from any rows at any time.             *)
(***************************************************************************)
EXTENDS LegacyMigration, LegacyGateway, FiniteSetTheorems, TLAPS

\* Of some numbers one is the least.
LEMMA LeastNumber ==
  ASSUME NEW S \in SUBSET Nat, S # {}
  PROVE  \E n \in S : \A m \in S : n <= m
<1>1. PICK R : /\ IsWellFoundedOn(R, Nat)
               /\ \A m, n \in Nat : <<m, n>> \in R <=> m < n
  <2>1. \A m, n \in Nat : <<m, n>> \in OpToRel(<, Nat) <=> m < n
    BY DEF OpToRel
  <2>. QED BY <2>1, NatLessThanWellFounded, Zenon
<1>2. S \subseteq Nat
  OBVIOUS
<1>3. \E n \in S : \A m \in S : ~(<<m, n>> \in R)
  <2>1. IsWellFoundedOn(R, Nat)
    BY <1>1
  <2>. QED BY <1>2, <2>1, WFMin
<1>4. PICK n \in S : \A m \in S : ~(<<m, n>> \in R)
  BY <1>3
<1>5. \A m \in S : ~(m < n)
  BY <1>1, <1>2, <1>4, Zenon
<1>. QED
  BY <1>2, <1>5

-----------------------------------------------------------------------------
(* The inductive invariant of the migration                                  *)

\* A site that was migrated is called after the upstream that it was made for,
\* which still goes to it unless it was deleted.
SitesNamed ==
  \A s \in Upstreams : site[s] # NoRow => upstream[s] = Gone \/ siteOf[s] = s

\* A model of a site is on an endpoint that the site has.
ModelsPlaced ==
  \A s \in Sites : site[s] # NoRow =>
    \A e \in Places, n \in Names : site[s].models[<<e, n>>] # "none" => site[s].endpoints[e] # "none"

\* The model of a route's target was discovered at its upstream.
RoutesKnown ==
  \A p \in Routed : \A i \in DOMAIN route[p] : source[route[p][i][1]][route[p][i][2]] # "none"

\* The inductive invariant.
MigrationInv == MigrationTypeOK /\ SitesNamed /\ ModelsPlaced /\ RoutesKnown

\* The same in four parts, by the rows that they are about: the legacy catalogue,
LegacySide ==
  /\ upstream \in [Upstreams -> UpstreamRow \union {NoRow, Gone}]
  /\ source \in [Upstreams -> [Names -> {"none", "on", "missed", "off"}]]
  /\ route \in [Names -> Seq(Upstreams \X Names) \union {NoRow}]
  /\ \A p \in Routed : route[p] \in Seq(Living \X Names)
  /\ legacyAccount \in [Upstreams -> AccountOf \union {NoRow}]
  /\ RoutesKnown

\* the new one,
TargetsKnown ==
  \A p \in Listed : \A i \in DOMAIN listing[p].targets :
    LET t == listing[p].targets[i] IN
    site[t.site] # NoRow /\ site[t.site].models[<<t.place, t.model>>] # "none"
SiteSide ==
  /\ site \in [Sites -> SiteRow \union {NoRow}]
  /\ siteAccount \in [Sites -> AccountOf \union {NoRow}]
  /\ listing \in [Names -> ListingRow \union {NoRow}]
  /\ TargetsKnown /\ ModelsPlaced

\* the mappings from one to the other,
Mappings ==
  /\ siteOf \in [Upstreams -> Upstreams \union {NoRow}]
  /\ \A u \in Upstreams : siteOf[u] = NoRow \/ (u \in Living /\ site[siteOf[u]] # NoRow)
  /\ SitesNamed

\* and what the administrator knows.
Session ==
  /\ current \in BOOLEAN /\ applied \in BOOLEAN /\ DOMAIN shown = DOMAIN NoPlan
  /\ changes \in 0..MaxChanges

USE UpstreamAssumption, ByHandAssumption

-----------------------------------------------------------------------------
(* Elements of a sequence                                                    *)

\* What the loop of Picked adds at position i.
PickedUpTo(part, seq, positions, i) ==
  IF i = 0 THEN <<>>
  ELSE IF i \in positions THEN Append(part[i - 1], seq[i]) ELSE part[i - 1]

Picking(part, seq, positions) ==
  part = [i \in 0..Len(seq) |-> PickedUpTo(part, seq, positions, i)]

\* The loop runs over every first part of the sequence.
LEMMA PickingRuns ==
  ASSUME NEW S, NEW seq \in Seq(S), NEW positions
  PROVE  \E part : Picking(part, seq, positions)
<1>. DEFINE Runs(n) == \E part : part = [i \in 0..n |-> PickedUpTo(part, seq, positions, i)]
            T == {n \in 0..Len(seq) : ~Runs(n)}
<1>0. Len(seq) \in Nat
  OBVIOUS
<1>1. Runs(0)
  <2>. DEFINE part == [i \in 0..0 |-> <<>>]
  <2>1. part = [i \in 0..0 |-> PickedUpTo(part, seq, positions, i)]
    BY DEF PickedUpTo
  <2>. QED BY <2>1
<1>2. ASSUME NEW n \in Nat \ {0}, Runs(n - 1) PROVE Runs(n)
  <2>1. PICK short : short = [i \in 0..(n - 1) |-> PickedUpTo(short, seq, positions, i)]
    BY <1>2
  <2>. DEFINE part == [i \in 0..n |-> IF i = n THEN PickedUpTo(short, seq, positions, n) ELSE short[i]]
  <2>2. \A i \in 0..n : part[i] = PickedUpTo(part, seq, positions, i)
    <3>. SUFFICES ASSUME NEW i \in 0..n PROVE part[i] = PickedUpTo(part, seq, positions, i)
      OBVIOUS
    <3>1. PickedUpTo(part, seq, positions, i) = PickedUpTo(short, seq, positions, i)
      <4>1. i # 0 => part[i - 1] = short[i - 1]
        OBVIOUS
      <4>. HIDE DEF part
      <4>. QED BY <4>1 DEF PickedUpTo
    <3>2. ASSUME i # n PROVE short[i] = PickedUpTo(short, seq, positions, i)
      <4>1. i \in 0..(n - 1)
        BY <3>2
      <4>. QED BY <2>1, <4>1, Zenon
    <3>. QED BY <3>1, <3>2
  <2>3. part = [i \in 0..n |-> part[i]]
    OBVIOUS
  <2>. HIDE DEF part
  <2>4. part = [i \in 0..n |-> PickedUpTo(part, seq, positions, i)]
    BY <2>2, <2>3, Zenon
  <2>. QED BY <2>4
<1>. HIDE DEF Runs
<1>3. ASSUME T # {} PROVE FALSE
  <2>0. T \in SUBSET Nat
    BY <1>0
  <2>. PICK U : U = T
    OBVIOUS
  <2>1. PICK n \in U : \A m \in U : n <= m
    <3>. HIDE DEF T
    <3>. QED BY <1>3, <2>0, LeastNumber
  <2>2. n # 0
    BY <1>1, <2>1
  <2>3. Runs(n - 1)
    BY SMTT(30), <1>0, <2>1, <2>2
  <2>. QED BY <1>2, <2>1, <2>2, <2>3
<1>4. Runs(Len(seq))
  BY <1>0, <1>3
<1>. QED BY <1>4 DEF Runs, Picking

\* No element at those positions is missing.
PicksAll(seq, positions) ==
  \A i \in DOMAIN seq \intersect positions :
    \E k \in DOMAIN Picked(seq, positions) : Picked(seq, positions)[k] = seq[i]

\* So Picked returns the elements at those positions and no others.
LEMMA PickedElements ==
  ASSUME NEW S, NEW seq \in Seq(S), NEW positions
  PROVE  /\ Picked(seq, positions) \in Seq({seq[i] : i \in DOMAIN seq \intersect positions})
         /\ PicksAll(seq, positions)
<1>. DEFINE part == CHOOSE part : Picking(part, seq, positions)
            E == {seq[i] : i \in DOMAIN seq \intersect positions}
            Good(i) == /\ part[i] \in Seq(E)
                       /\ \A j \in 1..i : j \in positions => \E k \in DOMAIN part[i] : part[i][k] = seq[j]
            T == {i \in 0..Len(seq) : ~Good(i)}
<1>0. Len(seq) \in Nat /\ DOMAIN seq = 1..Len(seq)
  OBVIOUS
<1>1. part = [i \in 0..Len(seq) |-> PickedUpTo(part, seq, positions, i)]
  <2>1. \E other : Picking(other, seq, positions)
    BY PickingRuns
  <2>2. Picking(part, seq, positions)
    BY <2>1, Zenon
  <2>. QED BY <2>2 DEF Picking
<1>2. Picked(seq, positions) = part[Len(seq)]
  BY Zenon DEF Picked, Picking, PickedUpTo
<1>. HIDE DEF part
<1>3. ASSUME T # {} PROVE FALSE
  <2>0. T \in SUBSET Nat
    BY <1>0
  <2>. PICK U : U = T
    OBVIOUS
  <2>1. PICK i \in U : \A j \in U : i <= j
    <3>. HIDE DEF T
    <3>. QED BY <1>3, <2>0, LeastNumber
  <2>2. i \in 0..Len(seq) /\ ~Good(i)
    BY <2>1
  <2>3. part[i] = PickedUpTo(part, seq, positions, i)
    BY <1>1, <2>2
  <2>4. CASE i = 0
    <3>1. part[i] = <<>>
      BY <2>3, <2>4 DEF PickedUpTo
    <3>2. <<>> \in Seq(E)
      OBVIOUS
    <3>. QED BY <2>2, <2>4, <3>1, <3>2
  <2>5. CASE i # 0
    <3>1. i \in DOMAIN seq /\ i \in 1..Len(seq) /\ i - 1 \in 0..Len(seq) /\ i - 1 < i
      BY <1>0, <2>2, <2>5
    <3>2. Good(i - 1)
      <4>. HIDE DEF Good
      <4>. QED BY <1>0, <2>1, <3>1
    <3>. PICK before : before = part[i - 1]
      OBVIOUS
    <3>. HIDE DEF E
    <3>3. /\ before \in Seq(E)
          /\ \A j \in 1..(i - 1) : j \in positions => \E k \in DOMAIN before : before[k] = seq[j]
      BY <3>2
    <3>4. CASE i \in positions
      <4>1. part[i] = Append(before, seq[i]) /\ seq[i] \in E
        BY <2>3, <2>5, <3>1, <3>4 DEF PickedUpTo, E
      <4>2. /\ part[i] \in Seq(E) /\ part[i][Len(before) + 1] = seq[i] /\ Len(before) + 1 \in DOMAIN part[i]
            /\ \A k \in DOMAIN before : k \in DOMAIN part[i] /\ part[i][k] = before[k]
        BY <3>3, <4>1
      <4>3. \A j \in 1..i : j = i \/ j \in 1..(i - 1)
        BY <3>1
      <4>. QED BY <2>2, <3>3, <4>2, <4>3
    <3>5. CASE i \notin positions
      <4>1. part[i] = before
        BY <2>3, <2>5, <3>5 DEF PickedUpTo
      <4>2. \A j \in 1..i : j = i \/ j \in 1..(i - 1)
        BY <3>1
      <4>. QED BY <2>2, <3>3, <3>5, <4>1, <4>2
    <3>. QED BY <3>4, <3>5
  <2>. QED BY <2>4, <2>5
<1>4. Good(Len(seq))
  <2>. HIDE DEF Good
  <2>. QED BY <1>0, <1>3
<1>. QED
  BY <1>0, <1>2, <1>4 DEF PicksAll

\* What remains are other elements of the sequence.
Remains(seq, gone) ==
  \A k \in DOMAIN Without(seq, gone) :
    Without(seq, gone)[k] \notin gone /\ \E i \in DOMAIN seq : Without(seq, gone)[k] = seq[i]

\* What is left of a sequence without some elements.
LEMMA WithoutType ==
  ASSUME NEW S, NEW seq \in Seq(S), NEW gone
  PROVE  /\ Without(seq, gone) \in Seq(S \ gone)
         /\ Remains(seq, gone)
<1>. DEFINE P == {i \in DOMAIN seq : seq[i] \notin gone}
            E == {seq[i] : i \in DOMAIN seq \intersect P}
<1>1. Picked(seq, P) \in Seq(E)
  <2>. HIDE DEF P
  <2>. QED BY PickedElements
<1>. PICK rest : rest = Picked(seq, P)
  OBVIOUS
<1>2. E \subseteq S \ gone
  OBVIOUS
<1>. HIDE DEF P
<1>3. \A k \in DOMAIN rest : rest[k] \in E
  <2>. HIDE DEF E
  <2>. QED BY <1>1
<1>4. rest \in Seq(S \ gone)
  <2>. HIDE DEF E
  <2>. QED BY <1>1, <1>2
<1>5. \A k \in DOMAIN rest : rest[k] \notin gone /\ \E i \in DOMAIN seq : rest[k] = seq[i]
  BY <1>2, <1>3
<1>6. Without(seq, gone) = rest
  BY DEF Without, P
<1>. HIDE DEF E
<1>. QED BY <1>4, <1>5, <1>6 DEF Remains

-----------------------------------------------------------------------------
(* The parts of the invariant                                                *)

\* The invariant is its parts.
LEMMA Parts == MigrationInv <=> LegacySide /\ SiteSide /\ Mappings /\ Session
BY DEF MigrationInv, MigrationTypeOK, LegacySide, SiteSide, TargetsKnown, Mappings, Session

\* The parts are about their own rows: the legacy catalogue,
LEMMA LegacySideStays ==
  ASSUME LegacySide, UNCHANGED legacyRows PROVE LegacySide'
BY DEF LegacySide, RoutesKnown, Living, Routed, legacyRows

\* The rows of the new catalogue,
LEMMA SiteSideStays ==
  ASSUME SiteSide, UNCHANGED <<site, listing, siteAccount>> PROVE SiteSide'
BY DEF SiteSide, TargetsKnown, ModelsPlaced, Listed

\* Targets that were there, of sites that have not changed, still refer to models.
LEMMA TargetsStay ==
  ASSUME TargetsKnown, site' = site,
         \A q \in Listed' : q \in Listed /\ listing'[q].targets = listing[q].targets
  PROVE  TargetsKnown'
<1>. SUFFICES ASSUME NEW q \in Listed', NEW i \in DOMAIN listing'[q].targets, NEW t,
                     t = listing'[q].targets[i]
              PROVE  site[t.site] # NoRow /\ site[t.site].models[<<t.place, t.model>>] # "none"
  BY DEF TargetsKnown
<1>1. q \in Listed /\ i \in DOMAIN listing[q].targets /\ t = listing[q].targets[i]
  OBVIOUS
<1>. QED BY <1>1 DEF TargetsKnown

\* and the mappings.
LEMMA MappingsStay ==
  ASSUME Mappings, UNCHANGED <<upstream, site, siteOf>> PROVE Mappings'
BY DEF Mappings, SitesNamed, Living

\* An edit is counted and outdates the preview.
LEMMA EditedSession ==
  ASSUME Session, Edited PROVE Session'
<1>1. (current \in BOOLEAN /\ applied \in BOOLEAN)' /\ shown' = shown
  BY DEF Edited
<1>2. changes' \in 0..MaxChanges
  BY UpstreamAssumption DEF Session, Edited
<1>3. DOMAIN shown' = DOMAIN NoPlan
  BY <1>1 DEF Session
<1>. QED
  BY <1>1, <1>2, <1>3 DEF Session, NoPlan

-----------------------------------------------------------------------------
(* Edits of the legacy catalogue                                             *)

\* A row of an upstream is one.
LEMMA LivingRow ==
  ASSUME LegacySide, NEW u \in Living
  PROVE  u \in Upstreams /\ upstream[u] \in UpstreamRow /\ upstream[u].origin \in Origins
         /\ Place(u) \in Places /\ upstream[u].enabled \in BOOLEAN /\ upstream[u].routable \in BOOLEAN
BY DEF LegacySide, Living, UpstreamRow, Place, Places

\* An upstream is created or changed.
LEMMA WriteUpstreamKeeps ==
  ASSUME MigrationInv, NEW u \in Upstreams, NEW row \in UpstreamRow,
         CreateUpstream(u, row) \/ UpdateUpstream(u, row)
  PROVE  MigrationInv'
<1>0. LegacySide /\ SiteSide /\ Mappings /\ Session
  BY Parts
<1>1. /\ upstream' = [upstream EXCEPT ![u] = row] /\ Edited
      /\ UNCHANGED <<source, route, legacyAccount, site, siteOf, listing, siteAccount>>
      /\ upstream[u] # Gone
  BY RowAssumption DEF CreateUpstream, UpdateUpstream, WriteUpstream, siteRows, Living
<1>2. upstream' \in [Upstreams -> UpstreamRow \union {NoRow, Gone}] /\ Living' = Living \union {u}
  BY <1>0, <1>1, RowAssumption DEF LegacySide, Living
<1>3. LegacySide'
  <2>1. \A p \in Routed : route[p] \in Seq((Living \union {u}) \X Names)
    <3>. SUFFICES ASSUME NEW p \in Routed PROVE route[p] \in Seq((Living \union {u}) \X Names)
      OBVIOUS
    <3>1. route[p] \in Seq(Living \X Names)
      BY <1>0 DEF LegacySide
    <3>. PICK A, B : A = Living \X Names /\ B = (Living \union {u}) \X Names
      OBVIOUS
    <3>2. A \subseteq B
      OBVIOUS
    <3>. QED BY <3>1, <3>2
  <2>2. Routed' = Routed
    BY <1>1 DEF Routed
  <2>3. (\A p \in Routed : route[p] \in Seq(Living \X Names))'
    BY <1>1, <1>2, <2>1, <2>2
  <2>4. RoutesKnown'
    BY <1>0, <1>1 DEF LegacySide, RoutesKnown, Routed
  <2>. QED BY <1>0, <1>1, <1>2, <2>3, <2>4 DEF LegacySide
<1>4. Mappings'
  BY <1>0, <1>1, <1>2 DEF Mappings, SitesNamed, Living, LegacySide
<1>5. SiteSide' /\ Session'
  BY <1>0, <1>1, SiteSideStays, EditedSession
<1>6. MigrationInv' <=> LegacySide' /\ SiteSide' /\ Mappings' /\ Session'
  BY Parts, PTL
<1>. QED BY <1>3, <1>4, <1>5, <1>6

\* An edit of the legacy catalogue that leaves the upstreams alone.
LEMMA LegacyEditKeeps ==
  ASSUME MigrationInv, Edited, UNCHANGED <<upstream, siteRows>>, LegacySide'
  PROVE  MigrationInv'
<1>0. LegacySide /\ SiteSide /\ Mappings /\ Session
  BY Parts
<1>1. SiteSide' /\ Mappings' /\ Session'
  BY <1>0, SiteSideStays, MappingsStay, EditedSession DEF siteRows
<1>2. MigrationInv' <=> LegacySide' /\ SiteSide' /\ Mappings' /\ Session'
  BY Parts, PTL
<1>. QED BY <1>1, <1>2

\* An upstream is deleted with everything that belongs to it.
LEMMA DeleteUpstreamKeeps ==
  ASSUME MigrationInv, NEW u \in Upstreams, DeleteUpstream(u)
  PROVE  MigrationInv'
<1>0. LegacySide /\ SiteSide /\ Mappings /\ Session
  BY Parts
<1>1. /\ upstream' = [upstream EXCEPT ![u] = Gone]
      /\ source' = [source EXCEPT ![u] = [n \in Names |-> "none"]]
      /\ route' = [p \in Names |-> IF p \in Routed THEN Without(route[p], {u} \X Names) ELSE NoRow]
      /\ legacyAccount' = [legacyAccount EXCEPT ![u] = NoRow]
      /\ siteOf' = [siteOf EXCEPT ![u] = NoRow]
      /\ UNCHANGED <<site, listing, siteAccount>> /\ Edited /\ u \in Living
  BY DEF DeleteUpstream
<1>2. Living' = Living \ {u}
  BY <1>0, <1>1, RowAssumption DEF Living, LegacySide
<1>3. ASSUME NEW p \in Routed
      PROVE  /\ route'[p] = Without(route[p], {u} \X Names)
             /\ route'[p] \in Seq((Living \ {u}) \X Names)
             /\ \A k \in DOMAIN route'[p] : \E i \in DOMAIN route[p] : route'[p][k] = route[p][i]
  <2>1. route[p] \in Seq(Living \X Names)
    BY <1>0 DEF LegacySide
  <2>2. route'[p] = Without(route[p], {u} \X Names)
    BY <1>1 DEF Routed
  <2>. PICK all, gone, left, seq :
         all = Living \X Names /\ gone = {u} \X Names /\ left = (Living \ {u}) \X Names /\ seq = route[p]
    OBVIOUS
  <2>. PICK rest : rest = Without(seq, gone)
    OBVIOUS
  <2>0. seq \in Seq(all)
    BY <2>1
  <2>3. rest \in Seq(all \ gone) /\ \A k \in DOMAIN rest : \E i \in DOMAIN seq : rest[k] = seq[i]
    <3>1. Without(seq, gone) \in Seq(all \ gone) /\ Remains(seq, gone)
      BY <2>0, WithoutType
    <3>2. \A k \in DOMAIN rest : \E i \in DOMAIN seq : rest[k] = seq[i]
      BY ZenonT(30), <3>1 DEF Remains
    <3>. QED BY <3>1, <3>2
  <2>4. all \ gone \subseteq left
    OBVIOUS
  <2>5. rest \in Seq(left)
    BY <2>3, <2>4
  <2>6. route'[p] = rest
    BY <2>2
  <2>7. \A k \in DOMAIN route'[p] : \E i \in DOMAIN route[p] : route'[p][k] = route[p][i]
    BY ZenonT(30), <2>3, <2>6
  <2>. QED BY <2>2, <2>5, <2>6, <2>7
<1>4. route' \in [Names -> Seq(Upstreams \X Names) \union {NoRow}]
  <2>. SUFFICES ASSUME NEW p \in Names, p \in Routed PROVE route'[p] \in Seq(Upstreams \X Names)
    BY <1>1
  <2>. PICK A, B : A = (Living \ {u}) \X Names /\ B = Upstreams \X Names
    OBVIOUS
  <2>1. A \subseteq B
    BY DEF Living
  <2>. QED BY <1>3, <2>1
<1>5. \A p \in Routed' : p \in Routed
  BY <1>1 DEF Routed
<1>6. (\A p \in Routed : route[p] \in Seq(Living \X Names))'
  BY <1>2, <1>3, <1>5
<1>7. RoutesKnown'
  <2>. SUFFICES ASSUME NEW p \in Routed', NEW k \in DOMAIN route'[p]
                PROVE  source'[route'[p][k][1]][route'[p][k][2]] # "none"
    BY DEF RoutesKnown
  <2>1. p \in Routed
    BY <1>5
  <2>. PICK i \in DOMAIN route[p] : route'[p][k] = route[p][i]
    BY <1>3, <2>1
  <2>2. source[route[p][i][1]][route[p][i][2]] # "none"
    BY <1>0, <2>1 DEF LegacySide, RoutesKnown
  <2>3. route'[p][k] \in (Living \ {u}) \X Names
    <3>. PICK A, seq : A = (Living \ {u}) \X Names /\ seq = route'[p]
      OBVIOUS
    <3>1. seq \in Seq(A)
      BY <1>3, <2>1
    <3>. QED BY <3>1
  <2>4. route[p][i][1] \in Living \ {u} /\ route[p][i][1] \in Upstreams
    BY <2>3 DEF Living
  <2>5. source'[route[p][i][1]] = source[route[p][i][1]]
    BY <1>0, <1>1, <2>4 DEF LegacySide
  <2>. QED BY <2>2, <2>5
<1>8. /\ source' \in [Upstreams -> [Names -> {"none", "on", "missed", "off"}]]
      /\ legacyAccount' \in [Upstreams -> AccountOf \union {NoRow}]
      /\ upstream' \in [Upstreams -> UpstreamRow \union {NoRow, Gone}]
  BY <1>0, <1>1 DEF LegacySide
<1>9. LegacySide'
  BY <1>4, <1>6, <1>7, <1>8 DEF LegacySide
<1>10. Mappings'
  BY <1>0, <1>1, <1>2 DEF Mappings, SitesNamed, LegacySide
<1>11. SiteSide' /\ Session'
  BY <1>0, <1>1, SiteSideStays, EditedSession
<1>12. MigrationInv' <=> LegacySide' /\ SiteSide' /\ Mappings' /\ Session'
  BY Parts, PTL
<1>. QED BY <1>9, <1>10, <1>11, <1>12

\* The discovery of an upstream's models.
LEMMA ApplyDiscoveredModelsKeeps ==
  ASSUME MigrationInv, NEW u \in Upstreams, NEW found \in SUBSET Names, ApplyDiscoveredModels(u, found)
  PROVE  MigrationInv'
<1>. DEFINE Old(p) == IF p \in Routed THEN route[p] ELSE <<>>
<1>0. LegacySide /\ u \in Living /\ Edited /\ UNCHANGED <<upstream, legacyAccount, siteRows>>
  BY Parts DEF ApplyDiscoveredModels
<1>1. source' = [source EXCEPT ![u] = [n \in Names |->
       IF n \in found THEN "on"
       ELSE IF @[n] = "on" THEN "missed" ELSE IF @[n] = "missed" THEN "off" ELSE @[n]]]
  BY DEF ApplyDiscoveredModels
<1>2. route' = [p \in Names |->
       IF p \notin found \/ ~upstream[u].routable THEN route[p]
       ELSE IF <<u, p>> \in ToSet(Old(p)) THEN Old(p)
       ELSE Append(Old(p), <<u, p>>)]
  BY DEF ApplyDiscoveredModels
<1>3. source' \in [Upstreams -> [Names -> {"none", "on", "missed", "off"}]]
  BY <1>0, <1>1 DEF LegacySide
<1>4. /\ \A v \in Upstreams, n \in Names : source[v][n] # "none" => source'[v][n] # "none"
      /\ \A n \in found : source'[u][n] = "on"
  BY <1>0, <1>1 DEF LegacySide
<1>5. ASSUME NEW p \in Names
      PROVE  /\ Old(p) \in Seq(Living \X Names)
             /\ \A i \in DOMAIN Old(p) : source[Old(p)[i][1]][Old(p)[i][2]] # "none"
  BY <1>0 DEF LegacySide, RoutesKnown, Routed
<1>. HIDE DEF Old
<1>6. ASSUME NEW p \in Routed'
      PROVE  route'[p] = Old(p) \/ (p \in found /\ route'[p] = Append(Old(p), <<u, p>>))
  <2>1. p \in Names /\ route'[p] # NoRow
    BY DEF Routed
  <2>2. CASE p \notin found \/ ~upstream[u].routable
    <3>1. route'[p] = route[p]
      BY <1>2, <2>1, <2>2
    <3>. QED BY <2>1, <3>1 DEF Old, Routed
  <2>3. CASE ~(p \notin found \/ ~upstream[u].routable)
    BY <1>2, <2>1, <2>3
  <2>. QED BY <2>2, <2>3
<1>7. ASSUME NEW p \in Routed'
      PROVE  /\ route'[p] \in Seq(Living \X Names)
             /\ \A i \in DOMAIN route'[p] : source'[route'[p][i][1]][route'[p][i][2]] # "none"
  <2>0. p \in Names
    BY DEF Routed
  <2>. PICK A, old, new : A = Living \X Names /\ old = Old(p) /\ new = route'[p]
    OBVIOUS
  <2>1. old \in Seq(A) /\ \A i \in DOMAIN old : source[old[i][1]][old[i][2]] # "none"
    BY <1>5, <2>0
  <2>2. \A i \in DOMAIN old : old[i] \in A
    BY <2>1
  <2>3. \A i \in DOMAIN old : source'[old[i][1]][old[i][2]] # "none"
    <3>. SUFFICES ASSUME NEW i \in DOMAIN old PROVE source'[old[i][1]][old[i][2]] # "none"
      OBVIOUS
    <3>1. old[i][1] \in Upstreams /\ old[i][2] \in Names
      BY <2>2 DEF Living
    <3>. QED BY <1>4, <2>1, <3>1
  <2>4. CASE new = old
    BY <2>1, <2>3, <2>4
  <2>5. CASE p \in found /\ new = Append(old, <<u, p>>)
    <3>1. <<u, p>> \in A
      BY <1>0, <2>0
    <3>2. new \in Seq(A) /\ \A i \in DOMAIN new : new[i] = <<u, p>> \/ (i \in DOMAIN old /\ new[i] = old[i])
      BY <2>1, <2>5, <3>1
    <3>3. source'[u][p] # "none"
      BY <1>4, <2>5
    <3>4. \A i \in DOMAIN new : source'[new[i][1]][new[i][2]] # "none"
      BY <2>3, <3>2, <3>3
    <3>. QED BY <3>2, <3>4
  <2>. QED BY <1>6, <2>4, <2>5
<1>8. route' \in [Names -> Seq(Upstreams \X Names) \union {NoRow}]
  <2>1. DOMAIN route' = Names /\ route' = [p \in Names |-> route'[p]]
    BY <1>2
  <2>2. ASSUME NEW p \in Names PROVE route'[p] \in Seq(Upstreams \X Names) \union {NoRow}
    <3>1. CASE route'[p] = NoRow
      BY <3>1
    <3>2. CASE route'[p] # NoRow
      <4>. PICK A, B : A = Living \X Names /\ B = Upstreams \X Names
        OBVIOUS
      <4>1. A \subseteq B
        BY DEF Living
      <4>2. p \in Routed'
        BY <3>2 DEF Routed
      <4>3. route'[p] \in Seq(A)
        BY <1>7, <4>2
      <4>. QED BY <4>1, <4>3
    <3>. QED BY <3>1, <3>2
  <2>. QED BY <2>1, <2>2
<1>9. RoutesKnown'
  BY <1>7 DEF RoutesKnown
<1>10. (\A p \in Routed : route[p] \in Seq(Living \X Names))'
  <2>1. Living' = Living
    BY <1>0 DEF Living
  <2>. QED BY <1>7, <2>1
<1>11. LegacySide'
  BY <1>0, <1>3, <1>8, <1>9, <1>10 DEF LegacySide
<1>. QED BY <1>0, <1>11, LegacyEditKeeps

\* A route is written, by hand or in another order.
LEMMA WriteRouteKeeps ==
  ASSUME MigrationInv, NEW p \in Names,
         NEW targets \in BoundedSeq(Living \X Names, Cardinality(Living)), WriteRoute(p, targets)
  PROVE  MigrationInv'
<1>0. LegacySide /\ Edited /\ UNCHANGED <<upstream, source, legacyAccount, siteRows>>
      /\ route' = [route EXCEPT ![p] = targets]
      /\ \A i \in DOMAIN targets : source[targets[i][1]][targets[i][2]] # "none"
  BY Parts DEF WriteRoute
<1>1. targets \in Seq(Living \X Names)
  <2>. PICK A, n : A = Living \X Names /\ n = Cardinality(Living)
    OBVIOUS
  <2>1. PICK m \in 0..n : targets \in [1..m -> A]
    BY DEF BoundedSeq, SeqOf
  <2>. QED BY <2>1
<1>2. targets \in Seq(Upstreams \X Names)
  <2>. PICK A, B : A = Living \X Names /\ B = Upstreams \X Names
    OBVIOUS
  <2>1. A \subseteq B
    BY DEF Living
  <2>. QED BY <1>1, <2>1
<1>3. route' \in [Names -> Seq(Upstreams \X Names) \union {NoRow}]
  BY <1>0, <1>2 DEF LegacySide
<1>4. Living' = Living /\ route'[p] = targets /\ \A q \in Names : q # p => route'[q] = route[q]
  BY <1>0 DEF LegacySide, Living
<1>5. (\A q \in Routed : route[q] \in Seq(Living \X Names))'
  BY <1>0, <1>1, <1>4 DEF LegacySide, Routed
<1>6. RoutesKnown'
  BY <1>0, <1>4 DEF LegacySide, RoutesKnown, Routed
<1>7. LegacySide'
  BY <1>0, <1>3, <1>5, <1>6 DEF LegacySide
<1>. QED BY <1>0, <1>7, LegacyEditKeeps

\* A route is deleted; the published model stays, but no longer as its.
LEMMA DeleteRouteKeeps ==
  ASSUME MigrationInv, NEW p \in Names, DeleteRoute(p)
  PROVE  MigrationInv'
<1>0. LegacySide /\ SiteSide /\ Mappings /\ Session
  BY Parts
<1>1. /\ Edited /\ route' = [route EXCEPT ![p] = NoRow]
      /\ listing' = IF p \in Listed THEN [listing EXCEPT ![p].legacy = FALSE] ELSE listing
      /\ UNCHANGED <<upstream, source, legacyAccount, site, siteOf, siteAccount>>
  BY DEF DeleteRoute
<1>2. LegacySide'
  BY <1>0, <1>1 DEF LegacySide, RoutesKnown, Routed, Living
<1>3. SiteSide'
  <2>1. CASE p \notin Listed
    BY <1>0, <1>1, <2>1, SiteSideStays
  <2>2. CASE p \in Listed
    <3>1. listing[p] \in ListingRow
      BY <1>0, <2>2 DEF SiteSide, Listed
    <3>. DEFINE row == [listing[p] EXCEPT !.legacy = FALSE]
    <3>2. row \in ListingRow /\ row.targets = listing[p].targets
      BY <3>1 DEF ListingRow
    <3>3. listing' = [listing EXCEPT ![p] = row]
      BY <1>1, <2>2
    <3>. HIDE DEF row
    <3>4. /\ listing' \in [Names -> ListingRow \union {NoRow}]
          /\ \A q \in Names \ {p} : listing'[q] = listing[q]
          /\ listing'[p] = row
      BY <1>0, <3>2, <3>3 DEF SiteSide
    <3>5. \A q \in Listed' : q \in Listed /\ listing'[q].targets = listing[q].targets
      BY <2>2, <3>2, <3>4 DEF Listed
    <3>6. TargetsKnown'
      BY <1>0, <1>1, <3>5, TargetsStay DEF SiteSide
    <3>. QED BY <1>0, <1>1, <3>4, <3>6 DEF SiteSide, ModelsPlaced
  <2>. QED BY <2>1, <2>2
<1>4. Mappings' /\ Session'
  BY <1>0, <1>1, MappingsStay, EditedSession
<1>5. MigrationInv' <=> LegacySide' /\ SiteSide' /\ Mappings' /\ Session'
  BY Parts, PTL
<1>. QED BY <1>2, <1>3, <1>4, <1>5

\* The account of an upstream.
LEMMA WriteLegacyAccountKeeps ==
  ASSUME MigrationInv, NEW u \in Upstreams, NEW a \in AccountOf \union {NoRow}, WriteLegacyAccount(u, a)
  PROVE  MigrationInv'
<1>0. LegacySide /\ Edited /\ UNCHANGED <<upstream, source, route, siteRows>>
      /\ legacyAccount' = [legacyAccount EXCEPT ![u] = a]
  BY Parts DEF WriteLegacyAccount
<1>1. LegacySide'
  BY <1>0 DEF LegacySide, RoutesKnown, Routed, Living
<1>. QED BY <1>0, <1>1, LegacyEditKeeps

\* Every edit of the legacy catalogue.
LEMMA LegacyEditStep ==
  ASSUME MigrationInv, LegacyEdit PROVE MigrationInv'
BY DeleteUpstreamKeeps, WriteUpstreamKeeps, ApplyDiscoveredModelsKeeps, WriteLegacyAccountKeeps,
   DeleteRouteKeeps, WriteRouteKeeps
   DEF LegacyEdit, CreateRoute, UpdateRoute, ReorderRouteTargets

-----------------------------------------------------------------------------
(* Edits of the new catalogue                                                *)

\* An edit of the new catalogue.
LEMMA SiteEditKeeps ==
  ASSUME MigrationInv, Edited, UNCHANGED legacyRows, SiteSide', Mappings'
  PROVE  MigrationInv'
<1>0. LegacySide /\ Session
  BY Parts
<1>1. LegacySide' /\ Session'
  BY <1>0, LegacySideStays, EditedSession
<1>2. MigrationInv' <=> LegacySide' /\ SiteSide' /\ Mappings' /\ Session'
  BY Parts, PTL
<1>. QED BY <1>1, <1>2

\* A target of a published model is one.
LEMMA TargetRow ==
  ASSUME SiteSide, NEW p \in Listed, NEW i \in DOMAIN listing[p].targets, NEW t,
         t = listing[p].targets[i]
  PROVE  /\ t \in TargetOf /\ t.site \in Upstreams /\ t.place \in Places /\ t.model \in Names
         /\ t.site \in Sites /\ site[t.site] \in SiteRow /\ site[t.site] # NoRow
         /\ site[t.site].models[<<t.place, t.model>>] # "none"
         /\ p \in Names /\ listing[p].targets \in Seq(TargetOf) /\ listing[p].legacy \in BOOLEAN
         /\ listing[p] \in ListingRow
<1>1. p \in Names /\ listing[p] \in ListingRow
  BY DEF SiteSide, Listed
<1>2. listing[p].targets \in Seq(TargetOf) /\ listing[p].legacy \in BOOLEAN
  BY <1>1 DEF ListingRow
<1>3. t \in TargetOf
  <2>. PICK seq : seq = listing[p].targets
    OBVIOUS
  <2>. QED BY <1>2
<1>4. t.site \in Upstreams /\ t.place \in Places /\ t.model \in Names
  BY <1>3 DEF TargetOf
<1>5. site[t.site] # NoRow /\ site[t.site].models[<<t.place, t.model>>] # "none"
  BY DEF SiteSide, TargetsKnown
<1>6. t.site \in Sites /\ site[t.site] \in SiteRow
  BY <1>4, <1>5 DEF SiteSide, Sites
<1>. QED BY <1>1, <1>2, <1>3, <1>4, <1>5, <1>6

\* Published models lose some of their targets.
LEMMA TargetsDropped ==
  ASSUME SiteSide, NEW gone, DropSiteTargets(gone)
  PROVE  /\ listing' \in [Names -> ListingRow \union {NoRow}]
         /\ \A p \in Listed' : p \in Listed /\ \A k \in DOMAIN listing'[p].targets :
              /\ listing'[p].targets[k] \notin gone
              /\ \E i \in DOMAIN listing[p].targets : listing'[p].targets[k] = listing[p].targets[i]
<1>1. listing' = [p \in Names |-> IF p \in Listed
        THEN [listing[p] EXCEPT !.targets = Without(listing[p].targets, gone)] ELSE NoRow]
  BY DEF DropSiteTargets
<1>2. ASSUME NEW p \in Listed
      PROVE  /\ listing'[p] \in ListingRow
             /\ \A k \in DOMAIN listing'[p].targets :
                  /\ listing'[p].targets[k] \notin gone
                  /\ \E i \in DOMAIN listing[p].targets : listing'[p].targets[k] = listing[p].targets[i]
  <2>1. p \in Names /\ listing[p] \in ListingRow
    BY DEF SiteSide, Listed
  <2>2. listing[p].targets \in Seq(TargetOf)
    BY <2>1 DEF ListingRow
  <2>. PICK seq, rest : seq = listing[p].targets /\ rest = Without(seq, gone)
    OBVIOUS
  <2>3. /\ rest \in Seq(TargetOf \ gone)
        /\ \A k \in DOMAIN rest : rest[k] \notin gone /\ \E i \in DOMAIN seq : rest[k] = seq[i]
    <3>0. seq \in Seq(TargetOf)
      BY <2>2
    <3>1. Without(seq, gone) \in Seq(TargetOf \ gone) /\ Remains(seq, gone)
      BY <3>0, WithoutType
    <3>. QED BY <3>1 DEF Remains
  <2>4. rest \in Seq(TargetOf)
    <3>. PICK A, B : A = TargetOf \ gone /\ B = TargetOf
      OBVIOUS
    <3>1. A \subseteq B
      OBVIOUS
    <3>. QED BY <2>3, <3>1
  <2>5. listing'[p] = [listing[p] EXCEPT !.targets = rest]
    BY <1>1, <2>1
  <2>6. listing'[p] \in ListingRow /\ listing'[p].targets = rest
    BY <2>1, <2>4, <2>5 DEF ListingRow
  <2>. QED BY <2>3, <2>6
<1>3. \A p \in Listed' : p \in Listed
  BY <1>1 DEF Listed
<1>4. listing' \in [Names -> ListingRow \union {NoRow}]
  <2>1. listing' = [p \in Names |-> listing'[p]]
    BY <1>1
  <2>2. \A p \in Names \ Listed : listing'[p] = NoRow
    BY <1>1
  <2>. QED BY <1>2, <2>1, <2>2
<1>. QED BY <1>2, <1>3, <1>4

\* The administrator creates a site.
LEMMA CreateSiteKeeps ==
  ASSUME MigrationInv, NEW s \in ByHand, CreateSite(s)
  PROVE  MigrationInv'
<1>0. SiteSide /\ Mappings
  BY Parts
<1>1. /\ Edited /\ site[s] = NoRow /\ site' = [site EXCEPT ![s] = NoSite]
      /\ UNCHANGED <<legacyRows, siteOf, listing, siteAccount>>
  BY DEF CreateSite
<1>2. /\ NoSite \in SiteRow
      /\ \A e \in Places, n \in Names : NoSite.models[<<e, n>>] = "none"
  BY DEF NoSite, SiteRow, Flag
<1>3. /\ site' \in [Sites -> SiteRow \union {NoRow}] /\ site'[s] = NoSite
      /\ \A z \in Sites \ {s} : site'[z] = site[z]
      /\ \A z \in Upstreams : z \in Sites /\ site'[z] = site[z]
  BY <1>0, <1>1, <1>2 DEF SiteSide, Sites
<1>4. TargetsKnown'
  <2>. SUFFICES ASSUME NEW q \in Listed, NEW i \in DOMAIN listing[q].targets, NEW t,
                       t = listing[q].targets[i]
                PROVE  site'[t.site] # NoRow /\ site'[t.site].models[<<t.place, t.model>>] # "none"
    BY <1>1 DEF TargetsKnown, Listed
  <2>1. t.site \in Upstreams /\ site[t.site] # NoRow /\ site[t.site].models[<<t.place, t.model>>] # "none"
    BY <1>0, TargetRow
  <2>. QED BY <1>3, <2>1
<1>5. ModelsPlaced'
  BY <1>0, <1>2, <1>3 DEF SiteSide, ModelsPlaced
<1>6. SiteSide'
  BY <1>0, <1>1, <1>3, <1>4, <1>5 DEF SiteSide
<1>7. Mappings'
  BY <1>0, <1>1, <1>3 DEF Mappings, SitesNamed, Living, legacyRows
<1>. QED BY <1>1, <1>6, <1>7, SiteEditKeeps

\* A site is deleted with its mappings and its targets.
LEMMA DeleteSiteKeeps ==
  ASSUME MigrationInv, NEW s \in Sites, DeleteSite(s)
  PROVE  MigrationInv'
<1>0. SiteSide /\ Mappings
  BY Parts
<1>. PICK gone : gone = {t \in TargetOf : t.site = s}
  OBVIOUS
<1>1. /\ Edited /\ site' = [site EXCEPT ![s] = NoRow]
      /\ siteOf' = [u \in Upstreams |-> IF siteOf[u] = s THEN NoRow ELSE siteOf[u]]
      /\ siteAccount' = [siteAccount EXCEPT ![s] = NoRow]
      /\ DropSiteTargets(gone) /\ UNCHANGED legacyRows
  BY DEF DeleteSite
<1>2. /\ site' \in [Sites -> SiteRow \union {NoRow}] /\ site'[s] = NoRow
      /\ \A z \in Sites \ {s} : site'[z] = site[z]
      /\ siteAccount' \in [Sites -> AccountOf \union {NoRow}]
      /\ siteOf' \in [Upstreams -> Upstreams \union {NoRow}]
  BY <1>0, <1>1 DEF SiteSide, Mappings
<1>3. /\ listing' \in [Names -> ListingRow \union {NoRow}]
      /\ \A p \in Listed' : p \in Listed /\ \A k \in DOMAIN listing'[p].targets :
           /\ listing'[p].targets[k] \notin gone
           /\ \E i \in DOMAIN listing[p].targets : listing'[p].targets[k] = listing[p].targets[i]
  BY <1>0, <1>1, TargetsDropped
<1>4. TargetsKnown'
  <2>. SUFFICES ASSUME NEW q \in Listed', NEW k \in DOMAIN listing'[q].targets, NEW t,
                       t = listing'[q].targets[k]
                PROVE  site'[t.site] # NoRow /\ site'[t.site].models[<<t.place, t.model>>] # "none"
    BY DEF TargetsKnown
  <2>1. t \notin gone /\ q \in Listed /\ \E i \in DOMAIN listing[q].targets : t = listing[q].targets[i]
    BY <1>3
  <2>2. PICK i \in DOMAIN listing[q].targets : t = listing[q].targets[i]
    BY <2>1
  <2>3. /\ t \in TargetOf /\ t.site \in Sites /\ site[t.site] # NoRow
        /\ site[t.site].models[<<t.place, t.model>>] # "none"
    BY <1>0, <2>1, <2>2, TargetRow
  <2>. QED BY <1>2, <2>1, <2>3
<1>5. ModelsPlaced'
  BY <1>0, <1>2 DEF SiteSide, ModelsPlaced
<1>6. SiteSide'
  BY <1>2, <1>3, <1>4, <1>5 DEF SiteSide
<1>7. Mappings'
  <2>1. ASSUME NEW u \in Upstreams, siteOf'[u] # NoRow
        PROVE  u \in Living' /\ site'[siteOf'[u]] # NoRow
    <3>1. siteOf'[u] = siteOf[u] /\ siteOf[u] # s /\ siteOf[u] # NoRow
      BY <1>1, <2>1
    <3>2. u \in Living /\ siteOf[u] \in Sites /\ site[siteOf[u]] # NoRow
      BY <1>0, <3>1 DEF Mappings, Sites
    <3>. QED BY <1>1, <1>2, <3>1, <3>2 DEF Living, legacyRows
  <2>2. SitesNamed'
    BY <1>0, <1>1, <1>2 DEF Mappings, SitesNamed, Sites, legacyRows
  <2>. QED BY <1>2, <2>1, <2>2 DEF Mappings
<1>. QED BY <1>1, <1>6, <1>7, SiteEditKeeps

\* An endpoint is deleted with its models and their targets.
LEMMA DeleteEndpointKeeps ==
  ASSUME MigrationInv, NEW s \in Sites, NEW e \in Places, DeleteEndpoint(s, e)
  PROVE  MigrationInv'
<1>0. SiteSide /\ Mappings
  BY Parts
<1>. PICK gone : gone = {t \in TargetOf : t.site = s /\ t.place = e}
  OBVIOUS
<1>. PICK row : row = [endpoints |-> [site[s].endpoints EXCEPT ![e] = "none"],
                       models |-> [m \in Places \X Names |-> IF m[1] = e THEN "none" ELSE site[s].models[m]]]
  OBVIOUS
<1>1. /\ Edited /\ site' = [site EXCEPT ![s] = row] /\ site[s] # NoRow
      /\ DropSiteTargets(gone) /\ UNCHANGED <<legacyRows, siteOf, siteAccount>>
  BY DEF DeleteEndpoint
<1>2. site[s] \in SiteRow
  BY <1>0, <1>1 DEF SiteSide
<1>3. /\ row \in SiteRow /\ row # NoRow
      /\ \A d \in Places, n \in Names : d = e => row.models[<<d, n>>] = "none"
      /\ \A d \in Places, n \in Names : d # e =>
           row.models[<<d, n>>] = site[s].models[<<d, n>>] /\ row.endpoints[d] = site[s].endpoints[d]
  <2>1. row \in SiteRow
    BY <1>2 DEF SiteRow, Flag
  <2>2. row # NoRow
    BY <2>1, RowAssumption
  <2>. QED BY <1>2, <2>1, <2>2 DEF SiteRow
<1>4. /\ site' \in [Sites -> SiteRow \union {NoRow}] /\ site'[s] = row
      /\ \A z \in Sites \ {s} : site'[z] = site[z]
  BY <1>0, <1>1, <1>3 DEF SiteSide
<1>5. /\ listing' \in [Names -> ListingRow \union {NoRow}]
      /\ \A p \in Listed' : p \in Listed /\ \A k \in DOMAIN listing'[p].targets :
           /\ listing'[p].targets[k] \notin gone
           /\ \E i \in DOMAIN listing[p].targets : listing'[p].targets[k] = listing[p].targets[i]
  BY <1>0, <1>1, TargetsDropped
<1>6. TargetsKnown'
  <2>. SUFFICES ASSUME NEW q \in Listed', NEW k \in DOMAIN listing'[q].targets, NEW t,
                       t = listing'[q].targets[k]
                PROVE  site'[t.site] # NoRow /\ site'[t.site].models[<<t.place, t.model>>] # "none"
    BY DEF TargetsKnown
  <2>1. t \notin gone /\ q \in Listed /\ \E i \in DOMAIN listing[q].targets : t = listing[q].targets[i]
    BY <1>5
  <2>2. PICK i \in DOMAIN listing[q].targets : t = listing[q].targets[i]
    BY <2>1
  <2>3. /\ t \in TargetOf /\ t.site \in Sites /\ site[t.site] # NoRow
        /\ t.place \in Places /\ t.model \in Names
        /\ site[t.site].models[<<t.place, t.model>>] # "none"
    BY <1>0, <2>1, <2>2, TargetRow
  <2>4. CASE t.site # s
    BY <1>4, <2>3, <2>4
  <2>5. CASE t.site = s
    <3>1. t.place # e
      BY <2>1, <2>3, <2>5
    <3>2. row.models[<<t.place, t.model>>] = site[s].models[<<t.place, t.model>>]
      BY <1>3, <2>3, <3>1
    <3>. QED BY <1>3, <1>4, <2>3, <2>5, <3>2
  <2>. QED BY <2>4, <2>5
<1>7. ModelsPlaced'
  <2>. SUFFICES ASSUME NEW z \in Sites, site'[z] # NoRow, NEW d \in Places, NEW n \in Names,
                       site'[z].models[<<d, n>>] # "none"
                PROVE  site'[z].endpoints[d] # "none"
    BY DEF ModelsPlaced
  <2>1. CASE z # s
    BY <1>0, <1>4, <2>1 DEF SiteSide, ModelsPlaced
  <2>2. CASE z = s
    <3>1. site'[z] = row
      BY <1>4, <2>2
    <3>2. d # e
      BY <1>3, <3>1
    <3>3. row.models[<<d, n>>] = site[s].models[<<d, n>>] /\ row.endpoints[d] = site[s].endpoints[d]
      BY <1>3, <3>2
    <3>4. site[s].endpoints[d] # "none"
      BY <1>0, <1>1, <3>1, <3>3 DEF SiteSide, ModelsPlaced
    <3>. QED BY <3>1, <3>3, <3>4
  <2>. QED BY <2>1, <2>2
<1>8. SiteSide'
  BY <1>0, <1>1, <1>4, <1>5, <1>6, <1>7 DEF SiteSide
<1>9. \A z \in Sites : site'[z] # NoRow <=> site[z] # NoRow
  BY <1>1, <1>3, <1>4
<1>10. Mappings'
  BY <1>0, <1>1, <1>9 DEF Mappings, SitesNamed, Living, legacyRows, Sites
<1>. QED BY <1>1, <1>8, <1>10, SiteEditKeeps

\* A published model is created without targets, or deleted.
LEMMA WritePublishedKeeps ==
  ASSUME MigrationInv, NEW p \in Names, CreatePublished(p) \/ DeletePublished(p)
  PROVE  MigrationInv'
<1>0. SiteSide /\ Mappings
  BY Parts
<1>. PICK empty : empty = [legacy |-> FALSE, targets |-> <<>>]
  OBVIOUS
<1>1. empty \in ListingRow /\ DOMAIN empty.targets = {}
  BY DEF ListingRow
<1>2. PICK row \in {empty, NoRow} : listing' = [listing EXCEPT ![p] = row]
  BY DEF CreatePublished, DeletePublished
<1>3. Edited /\ UNCHANGED <<legacyRows, site, siteOf, siteAccount>>
  BY DEF CreatePublished, DeletePublished
<1>4. /\ listing' \in [Names -> ListingRow \union {NoRow}] /\ listing'[p] = row
      /\ \A q \in Names \ {p} : listing'[q] = listing[q]
  BY <1>0, <1>1, <1>2 DEF SiteSide
<1>5. TargetsKnown'
  <2>. SUFFICES ASSUME NEW q \in Listed', NEW i \in DOMAIN listing'[q].targets, NEW t,
                       t = listing'[q].targets[i]
                PROVE  site[t.site] # NoRow /\ site[t.site].models[<<t.place, t.model>>] # "none"
    BY <1>3 DEF TargetsKnown
  <2>1. q \in Names \ {p}
    BY <1>1, <1>2, <1>4 DEF Listed
  <2>2. q \in Listed /\ listing'[q] = listing[q]
    BY <1>4, <2>1 DEF Listed
  <2>. QED BY <1>0, <2>2 DEF SiteSide, TargetsKnown
<1>6. SiteSide'
  BY <1>0, <1>3, <1>4, <1>5 DEF SiteSide, ModelsPlaced
<1>7. Mappings'
  BY <1>0, <1>3, MappingsStay DEF legacyRows
<1>. QED BY <1>3, <1>6, <1>7, SiteEditKeeps

\* The account of a site.
LEMMA WriteSiteAccountKeeps ==
  ASSUME MigrationInv, NEW s \in Sites, NEW a \in AccountOf \union {NoRow}, WriteSiteAccount(s, a)
  PROVE  MigrationInv'
<1>0. SiteSide /\ Mappings
  BY Parts
<1>1. /\ Edited /\ siteAccount' = [siteAccount EXCEPT ![s] = a]
      /\ UNCHANGED <<legacyRows, site, siteOf, listing>>
  BY DEF WriteSiteAccount
<1>2. SiteSide'
  BY <1>0, <1>1 DEF SiteSide, TargetsKnown, ModelsPlaced, Listed
<1>3. Mappings'
  BY <1>0, <1>1, MappingsStay DEF legacyRows
<1>. QED BY <1>1, <1>2, <1>3, SiteEditKeeps

\* Every edit of the new catalogue.
LEMMA SiteEditStep ==
  ASSUME MigrationInv, SiteEdit PROVE MigrationInv'
BY CreateSiteKeeps, DeleteSiteKeeps, DeleteEndpointKeeps, WriteSiteAccountKeeps, WritePublishedKeeps
   DEF SiteEdit

-----------------------------------------------------------------------------
(* A migration                                                               *)

\* The group of an upstream, and the site it goes to.
LEMMA GroupSite ==
  ASSUME MigrationInv, NEW o \in Groups
  PROVE  /\ SiteOfGroup(o) \in Upstreams /\ Members(o) \subseteq Living
         /\ MappedSites(o) = {} => /\ SiteOfGroup(o) \in Members(o)
                                   /\ \A v \in Members(o) : SiteOfGroup(o) <= v
         /\ MappedSites(o) # {} => /\ SiteOfGroup(o) \in MappedSites(o)
                                   /\ site[SiteOfGroup(o)] # NoRow
<1>0. Mappings /\ Upstreams \subseteq Nat
  BY Parts
<1>1. Members(o) \subseteq Living /\ Members(o) \subseteq Upstreams /\ Members(o) # {}
  BY DEF Groups, Members, Living
<1>2. CASE MappedSites(o) = {}
  <2>. PICK S : S = Members(o)
    OBVIOUS
  <2>1. PICK n \in S : \A m \in S : n <= m
    BY <1>0, <1>1, LeastNumber
  <2>2. SiteOfGroup(o) = Min(S)
    BY <1>2 DEF SiteOfGroup
  <2>3. Min(S) \in S /\ \A m \in S : Min(S) <= m
    BY <2>1 DEF Min
  <2>. QED BY <1>1, <1>2, <2>2, <2>3
<1>3. CASE MappedSites(o) # {}
  <2>1. SiteOfGroup(o) \in MappedSites(o)
    BY <1>3 DEF SiteOfGroup
  <2>2. PICK u \in Members(o) : SiteOfGroup(o) = siteOf[u] /\ siteOf[u] # NoRow
    BY <2>1 DEF MappedSites
  <2>. QED BY <1>0, <1>1, <1>3, <2>1, <2>2 DEF Mappings
<1>. QED BY <1>2, <1>3

\* An upstream goes where its group goes.
LEMMA GoesToSite ==
  ASSUME MigrationInv, NEW u \in Living
  PROVE  /\ upstream[u].origin \in Groups /\ u \in Members(upstream[u].origin)
         /\ GoesTo(u) = SiteOfGroup(upstream[u].origin)
         /\ GoesTo(u) \in Upstreams /\ GoesTo(u) \in {SiteOfGroup(o) : o \in Groups}
BY GroupSite DEF GoesTo, Groups, Members

\* The targets that are kept are routable ones of the route; one of each site is.
KeptOf(p) ==
  \A k \in DOMAIN Kept(p) : \E i \in Eligible(p) : Kept(p)[k] = route[p][i]

\* They are rows of the route, in a sequence.
LEMMA KeptType ==
  ASSUME MigrationInv, NEW p \in Routed
  PROVE  Kept(p) \in Seq(Living \X Names) /\ KeptOf(p)
<1>0. LegacySide
  BY Parts
<1>. DEFINE P == {i \in Eligible(p) : \A j \in Eligible(p) :
                    GoesTo(route[p][j][1]) = GoesTo(route[p][i][1]) => i <= j}
<1>. PICK A, seq : A = Living \X Names /\ seq = route[p]
  OBVIOUS
<1>. PICK Q : Q = P
  OBVIOUS
<1>1. seq \in Seq(A)
  BY <1>0 DEF LegacySide
<1>2. Kept(p) = Picked(seq, Q)
  BY Zenon DEF Kept
<1>3. Q \subseteq Eligible(p) /\ Eligible(p) \subseteq DOMAIN seq
  BY DEF Eligible
<1>. HIDE DEF P
<1>4. Picked(seq, Q) \in Seq({seq[i] : i \in DOMAIN seq \intersect Q})
  BY <1>1, PickedElements
<1>. PICK B, kept : B = {seq[i] : i \in DOMAIN seq \intersect Q} /\ kept = Picked(seq, Q)
  OBVIOUS
<1>5. kept \in Seq(B)
  BY <1>4
<1>6. B \subseteq A
  BY <1>1
<1>7. kept \in Seq(A)
  BY <1>5, <1>6
<1>8. \A k \in DOMAIN kept : kept[k] \in B
  BY <1>5
<1>9. \A k \in DOMAIN kept : \E i \in Eligible(p) : kept[k] = seq[i]
  BY <1>3, <1>8
<1>10. Kept(p) = kept
  BY <1>2
<1>. QED BY <1>7, <1>9, <1>10 DEF KeptOf

\* An element of the kept ones.
LEMMA KeptTarget ==
  ASSUME MigrationInv, NEW p \in Routed, NEW t \in ToSet(Kept(p))
  PROVE  t[1] \in Living /\ t[2] \in Names /\ \E i \in Eligible(p) : t = route[p][i]
<1>1. PICK k \in DOMAIN Kept(p) : t = Kept(p)[k]
  BY DEF ToSet
<1>. PICK A, seq : A = Living \X Names /\ seq = Kept(p)
  OBVIOUS
<1>2. seq \in Seq(A)
  BY KeptType
<1>3. t \in A
  BY <1>1, <1>2
<1>4. \E i \in Eligible(p) : t = route[p][i]
  BY <1>1, KeptType DEF KeptOf
<1>. QED BY <1>3, <1>4

\* The endpoints and models that a site has afterwards.
LEMMA AfterFlags ==
  ASSUME MigrationInv, NEW s \in Sites, NEW e \in Places
  PROVE  EndpointAfter(s, e) \in Flag /\ \A n \in Names : ModelAfter(s, e, n) \in Flag
<1>1. Has(s, e) => /\ site[s].endpoints[e] \in Flag
                   /\ \A n \in Names : site[s].models[<<e, n>>] \in Flag
  BY Parts DEF Has, SiteSide, SiteRow
<1>2. \A b : OnIf(b) \in Flag
  BY DEF OnIf, Flag
<1>3. "none" \in Flag
  BY DEF Flag
<1>4. EndpointAfter(s, e) \in Flag
  BY <1>1, <1>2, <1>3 DEF EndpointAfter
<1>5. \A n \in Names : ModelAfter(s, e, n) \in Flag
  BY <1>1, <1>2, <1>3 DEF ModelAfter
<1>. QED BY <1>4, <1>5

\* A model is added to an endpoint that is there or that is added too.
LEMMA ModelsOnEndpoints ==
  ASSUME MigrationInv, ~Impossible, NEW s \in Sites, NEW e \in Places, NEW n \in Names,
         ModelAfter(s, e, n) # "none"
  PROVE  EndpointAfter(s, e) # "none"
<1>1. CASE Has(s, e)
  BY <1>1 DEF EndpointAfter, Has
<1>2. CASE ~Has(s, e)
  <2>. DEFINE comers == {u \in Comers(s, e) : source[u][n] # "none"}
              routes == {p \in PendingRoutes : \E t \in ToSet(Kept(p)) :
                           GoesTo(t[1]) = s /\ Place(t[1]) = e /\ t[2] = n}
  <2>1. comers # {} \/ routes # {}
    BY <1>2 DEF ModelAfter
  <2>2. CASE comers # {}
    BY <1>2, <2>2 DEF EndpointAfter, OnIf
  <2>3. CASE routes # {}
    <3>1. PICK p \in PendingRoutes : \E t \in ToSet(Kept(p)) : GoesTo(t[1]) = s /\ Place(t[1]) = e
      BY <2>3
    <3>2. PICK t \in ToSet(Kept(p)) : GoesTo(t[1]) = s /\ Place(t[1]) = e
      BY <3>1
    <3>3. t[1] \in Living
      BY KeptTarget DEF PendingRoutes
    <3>4. CASE t[1] \in Pending
      <4>1. t[1] \in Comers(s, e)
        BY <3>2, <3>4 DEF Comers
      <4>. QED BY <1>2, <4>1 DEF EndpointAfter, OnIf
    <3>5. CASE t[1] \notin Pending
      <4>1. \E v \in Comers(s, e) : ~Before(t[1], v)
        BY <1>2, <3>2, <3>3, <3>5 DEF Impossible
      <4>. QED BY <1>2, <4>1 DEF EndpointAfter, OnIf
    <3>. QED BY <3>4, <3>5
  <2>. QED BY <2>1, <2>2, <2>3
<1>. QED BY <1>1, <1>2

\* The account that a site has afterwards.
LEMMA AccountAfterType ==
  ASSUME MigrationInv, NEW s \in Sites, Givers(s) # {}
  PROVE  AccountAfter(s) \in AccountOf
<1>. DEFINE given == UNION {GroupAccounts(o) : o \in Givers(s)}
            row == IF siteAccount[s] # NoRow THEN siteAccount[s] ELSE CHOOSE a \in given : TRUE
            usage == {a.usage : a \in given \union {row}} \ {NoUsage}
            last == IF usage = {} THEN NoUsage ELSE CHOOSE x \in usage : TRUE
<1>1. given \subseteq AccountOf /\ given # {}
  <2>1. \A o \in Groups : GroupAccounts(o) \subseteq AccountOf
    BY Parts DEF GroupAccounts, LegacySide, Members, Living
  <2>. QED BY <2>1 DEF Givers
<1>2. row \in AccountOf
  BY <1>1, Parts DEF SiteSide
<1>. HIDE DEF given, row
<1>3. usage \subseteq Usages
  BY <1>1, <1>2 DEF AccountOf
<1>. HIDE DEF usage
<1>4. last \in Usages \union {NoUsage}
  BY <1>3
<1>. HIDE DEF last
<1>5. [row EXCEPT !.usage = last] \in AccountOf
  BY <1>2, <1>4 DEF AccountOf
<1>6. AccountAfter(s) = [row EXCEPT !.usage = last]
  BY Zenon DEF AccountAfter, given, row, usage, last
<1>. QED BY <1>5, <1>6

\* The site that a group goes to.
SiteAfter(s) == [endpoints |-> [e \in Places |-> EndpointAfter(s, e)],
                 models |-> [m \in Places \X Names |-> ModelAfter(s, m[1], m[2])]]
Homes == {SiteOfGroup(o) : o \in Groups}

\* What the transaction writes about sites.
LEMMA SitesAfter ==
  ASSUME MigrationInv, ApplyLegacyMigrationPlan
  PROVE  /\ Homes \subseteq Upstreams /\ Homes \subseteq Sites
         /\ site' \in [Sites -> SiteRow \union {NoRow}]
         /\ \A s \in Sites : site[s] # NoRow => site'[s] # NoRow
         /\ \A s \in Sites \ Homes : site'[s] = site[s]
         /\ \A s \in Homes :
              /\ site'[s] # NoRow
              /\ \A e \in Places : site'[s].endpoints[e] = EndpointAfter(s, e)
              /\ \A e \in Places, n \in Names : site'[s].models[<<e, n>>] = ModelAfter(s, e, n)
<1>0. SiteSide
  BY Parts
<1>1. Homes \subseteq Upstreams /\ Homes \subseteq Sites
  BY GroupSite DEF Sites, Homes
<1>2. ASSUME NEW s \in Sites
      PROVE  /\ SiteAfter(s) \in SiteRow /\ SiteAfter(s) # NoRow
             /\ \A e \in Places : SiteAfter(s).endpoints[e] = EndpointAfter(s, e)
             /\ \A e \in Places, n \in Names : SiteAfter(s).models[<<e, n>>] = ModelAfter(s, e, n)
  <2>1. \A e \in Places : EndpointAfter(s, e) \in Flag
    BY AfterFlags
  <2>2. \A m \in Places \X Names : ModelAfter(s, m[1], m[2]) \in Flag
    BY AfterFlags
  <2>3. SiteAfter(s) \in SiteRow
    BY <2>1, <2>2 DEF SiteRow, SiteAfter
  <2>. QED BY <2>3, RowAssumption DEF SiteAfter
<1>3. site' = [s \in Sites |-> IF s \notin Homes THEN site[s] ELSE SiteAfter(s)]
  BY DEF ApplyLegacyMigrationPlan, SiteAfter, Homes
<1>. QED BY <1>0, <1>1, <1>2, <1>3 DEF SiteSide

\* The published model that a route becomes.
LEMMA ListingAfter ==
  ASSUME MigrationInv, ApplyLegacyMigrationPlan, NEW p \in PendingRoutes
  PROVE  /\ p \in Routed /\ p \in Names /\ listing'[p] \in ListingRow
         /\ DOMAIN listing'[p].targets = DOMAIN Kept(p)
         /\ \A k \in DOMAIN Kept(p) : \E t \in ToSet(Kept(p)) :
              listing'[p].targets[k] = [site |-> GoesTo(t[1]), place |-> Place(t[1]), model |-> t[2]]
<1>a. LegacySide
  BY Parts
<1>b. p \in Names => listing'[p] =
        [legacy |-> TRUE,
         targets |-> [k \in DOMAIN Kept(p) |->
           LET t == Kept(p)[k] IN [site |-> GoesTo(t[1]), place |-> Place(t[1]), model |-> t[2]]]]
  BY DEF ApplyLegacyMigrationPlan
<1>1. p \in Routed /\ p \in Names
  BY DEF PendingRoutes, Routed
<1>. PICK A, kept : A = Living \X Names /\ kept = Kept(p)
  OBVIOUS
<1>2. kept \in Seq(A)
  BY <1>1, KeptType
<1>. DEFINE target(t) == [site |-> GoesTo(t[1]), place |-> Place(t[1]), model |-> t[2]]
<1>3. ASSUME NEW k \in DOMAIN kept PROVE kept[k] \in ToSet(kept) /\ target(kept[k]) \in TargetOf
  <2>1. kept[k] \in ToSet(kept)
    BY DEF ToSet
  <2>2. kept[k][1] \in Living /\ kept[k][2] \in Names
    BY <1>2
  <2>. PICK t : t = kept[k]
    OBVIOUS
  <2>3. GoesTo(t[1]) \in Upstreams /\ Place(t[1]) \in Places
    BY <1>a, <2>2, GoesToSite, LivingRow
  <2>. QED BY <2>1, <2>2, <2>3 DEF TargetOf
<1>. PICK targets : targets = [k \in DOMAIN kept |-> target(kept[k])]
  OBVIOUS
<1>4. targets \in Seq(TargetOf)
  <2>. HIDE DEF target
  <2>. QED BY <1>2, <1>3
<1>5. listing'[p] = [legacy |-> TRUE, targets |-> targets]
  BY <1>b, <1>1
<1>6. listing'[p] \in ListingRow /\ listing'[p].targets = targets
  BY <1>4, <1>5 DEF ListingRow
<1>7. DOMAIN listing'[p].targets = DOMAIN Kept(p)
  BY <1>6
<1>8. \A k \in DOMAIN Kept(p) : \E t \in ToSet(Kept(p)) : listing'[p].targets[k] = target(t)
  BY <1>3, <1>6
<1>. QED BY <1>1, <1>6, <1>7, <1>8

\* The transaction writes sites, mappings, accounts and published models.
LEMMA ApplyPlanKeeps ==
  ASSUME MigrationInv, ~Impossible, ApplyLegacyMigrationPlan, UNCHANGED legacyRows
  PROVE  SiteSide' /\ Mappings'
<1>0. LegacySide /\ SiteSide /\ Mappings
  BY Parts
<1>3. /\ siteOf' = [u \in Upstreams |-> IF u \in Pending THEN GoesTo(u) ELSE siteOf[u]]
      /\ siteAccount' = [s \in Sites |-> IF Givers(s) = {} THEN siteAccount[s] ELSE AccountAfter(s)]
      /\ listing' = [p \in Names |-> IF p \notin PendingRoutes THEN listing[p]
           ELSE [legacy |-> TRUE,
                 targets |-> [k \in DOMAIN Kept(p) |->
                   LET t == Kept(p)[k] IN [site |-> GoesTo(t[1]), place |-> Place(t[1]), model |-> t[2]]]]]
  BY DEF ApplyLegacyMigrationPlan
<1>4. /\ Homes \subseteq Upstreams /\ Homes \subseteq Sites
      /\ site' \in [Sites -> SiteRow \union {NoRow}]
      /\ \A s \in Sites : site[s] # NoRow => site'[s] # NoRow
      /\ \A s \in Sites \ Homes : site'[s] = site[s]
      /\ \A s \in Homes :
           /\ site'[s] # NoRow
           /\ \A e \in Places : site'[s].endpoints[e] = EndpointAfter(s, e)
           /\ \A e \in Places, n \in Names : site'[s].models[<<e, n>>] = ModelAfter(s, e, n)
  BY SitesAfter
<1>5. siteAccount' \in [Sites -> AccountOf \union {NoRow}]
  BY <1>0, <1>3, AccountAfterType DEF SiteSide
<1>6. ASSUME NEW s \in Sites, NEW e \in Places, NEW n \in Names, site[s] # NoRow,
             site[s].models[<<e, n>>] # "none"
      PROVE  site'[s].models[<<e, n>>] # "none"
  <2>1. Has(s, e)
    BY <1>0, <1>6 DEF SiteSide, ModelsPlaced, Has
  <2>2. ModelAfter(s, e, n) = site[s].models[<<e, n>>]
    BY <1>6, <2>1 DEF ModelAfter
  <2>. QED BY <1>4, <1>6, <2>2
<1>7. ASSUME NEW p \in PendingRoutes
      PROVE  /\ p \in Routed /\ p \in Names /\ listing'[p] \in ListingRow
             /\ DOMAIN listing'[p].targets = DOMAIN Kept(p)
             /\ \A k \in DOMAIN Kept(p) : \E t \in ToSet(Kept(p)) :
                  listing'[p].targets[k] = [site |-> GoesTo(t[1]), place |-> Place(t[1]), model |-> t[2]]
  BY ListingAfter
<1>8. listing' \in [Names -> ListingRow \union {NoRow}]
  <2>1. listing' = [p \in Names |-> listing'[p]]
    BY <1>3
  <2>2. \A p \in Names \ PendingRoutes : listing'[p] = listing[p]
    BY <1>3
  <2>. QED BY <1>0, <1>7, <2>1, <2>2 DEF SiteSide
<1>9. TargetsKnown'
  <2>. SUFFICES ASSUME NEW p \in Listed', NEW k \in DOMAIN listing'[p].targets, NEW x,
                       x = listing'[p].targets[k]
                PROVE  site'[x.site] # NoRow /\ site'[x.site].models[<<x.place, x.model>>] # "none"
    BY DEF TargetsKnown
  <2>1. CASE p \notin PendingRoutes
    <3>1. listing'[p] = listing[p] /\ p \in Listed
      BY <1>3, <2>1 DEF Listed
    <3>2. /\ x.site \in Sites /\ x.place \in Places /\ x.model \in Names
          /\ site[x.site] # NoRow /\ site[x.site].models[<<x.place, x.model>>] # "none"
      BY <1>0, <3>1, TargetRow
    <3>3. site'[x.site] # NoRow
      BY <1>4, <3>2
    <3>4. site'[x.site].models[<<x.place, x.model>>] # "none"
      BY <1>6, <3>2
    <3>. QED BY <3>3, <3>4
  <2>2. CASE p \in PendingRoutes
    <3>1. PICK t \in ToSet(Kept(p)) : x = [site |-> GoesTo(t[1]), place |-> Place(t[1]), model |-> t[2]]
      BY <1>7, <2>2
    <3>2. t[1] \in Living /\ t[2] \in Names
      BY <1>7, <2>2, KeptTarget
    <3>. PICK s, e, n : s = GoesTo(t[1]) /\ e = Place(t[1]) /\ n = t[2]
      OBVIOUS
    <3>3. s \in Homes /\ s \in Sites /\ e \in Places /\ n \in Names
      BY <1>0, <1>4, <3>2, GoesToSite, LivingRow DEF Homes
    <3>4. p \in {q \in PendingRoutes : \E y \in ToSet(Kept(q)) :
                  GoesTo(y[1]) = s /\ Place(y[1]) = e /\ y[2] = n}
      BY <2>2
    <3>5. ModelAfter(s, e, n) # "none"
      BY <3>4 DEF ModelAfter, OnIf
    <3>6. site'[s] # NoRow /\ site'[s].models[<<e, n>>] # "none"
      <4>1. site'[s] # NoRow
        BY <1>4, <3>3
      <4>2. site'[s].models[<<e, n>>] = ModelAfter(s, e, n)
        BY <1>4, <3>3
      <4>. QED BY <3>5, <4>1, <4>2
    <3>7. x.site = s /\ x.place = e /\ x.model = n
      BY <3>1
    <3>. QED BY <3>6, <3>7
  <2>. QED BY <2>1, <2>2
<1>10. ModelsPlaced'
  <2>. SUFFICES ASSUME NEW s \in Sites, site'[s] # NoRow, NEW e \in Places, NEW n \in Names,
                       site'[s].models[<<e, n>>] # "none"
                PROVE  site'[s].endpoints[e] # "none"
    BY DEF ModelsPlaced
  <2>1. CASE s \in Homes
    <3>1. ModelAfter(s, e, n) # "none"
      BY <1>4, <2>1
    <3>2. EndpointAfter(s, e) # "none"
      BY <3>1, ModelsOnEndpoints
    <3>. QED BY <1>4, <2>1, <3>2
  <2>2. CASE s \notin Homes
    BY <1>0, <1>4, <2>2 DEF SiteSide, ModelsPlaced
  <2>. QED BY <2>1, <2>2
<1>11. SiteSide'
  BY <1>4, <1>5, <1>8, <1>9, <1>10 DEF SiteSide
<1>12. \A u \in Pending : u \in Living /\ u \in Upstreams /\ GoesTo(u) \in Homes
  BY GoesToSite DEF Pending, Living, Homes
<1>13. siteOf' \in [Upstreams -> Upstreams \union {NoRow}]
  <2>. QED BY <1>0, <1>3, <1>4, <1>12 DEF Mappings
<1>14. ASSUME NEW u \in Upstreams, siteOf'[u] # NoRow
       PROVE  u \in Living' /\ site'[siteOf'[u]] # NoRow
  <2>0. Living' = Living
    BY DEF Living, legacyRows
  <2>1. CASE u \in Pending
    <3>. QED BY <1>3, <1>4, <1>12, <2>0, <2>1
  <2>2. CASE u \notin Pending
    BY <1>0, <1>3, <1>4, <1>14, <2>0, <2>2 DEF Mappings, Sites
  <2>. QED BY <2>1, <2>2
<1>15. SitesNamed'
  <2>. SUFFICES ASSUME NEW s \in Upstreams, site'[s] # NoRow, upstream[s] # Gone
                PROVE  siteOf'[s] = s
    BY DEF SitesNamed, legacyRows
  <2>1. CASE site[s] # NoRow
    <3>1. siteOf[s] = s
      BY <1>0, <2>1 DEF Mappings, SitesNamed
    <3>2. s \notin Pending
      BY <3>1, RowAssumption DEF Pending
    <3>. QED BY <1>3, <3>1, <3>2
  <2>2. CASE site[s] = NoRow
    <3>1. s \in Homes
      <4>. QED BY <1>4, <2>2 DEF Sites
    <3>2. PICK o \in Groups : s = SiteOfGroup(o)
      BY <3>1 DEF Homes
    <3>3. MappedSites(o) = {} /\ s \in Members(o)
      BY <2>2, <3>2, GroupSite
    <3>4. siteOf[s] = NoRow /\ s \in Living /\ upstream[s].origin = o
      BY <3>3 DEF MappedSites, Members
    <3>5. siteOf'[s] = SiteOfGroup(o)
      BY <1>3, <3>4 DEF Pending, GoesTo
    <3>. QED BY <3>2, <3>5
  <2>. QED BY <2>1, <2>2
<1>16. Mappings'
  BY <1>13, <1>14, <1>15 DEF Mappings
<1>. QED BY <1>11, <1>16

\* Applied or refused, the rows stay consistent.
LEMMA ApplyLegacyMigrationKeeps ==
  ASSUME MigrationInv, NEW force \in BOOLEAN, ApplyLegacyMigration(force)
  PROVE  MigrationInv'
<1>0. LegacySide /\ SiteSide /\ Mappings /\ Session
  BY Parts
<1>1. UNCHANGED <<legacyRows, shown, changes>>
  BY DEF ApplyLegacyMigration
<1>2. LegacySide'
  BY <1>0, <1>1, LegacySideStays
<1>3. SiteSide' /\ Mappings' /\ (applied \in BOOLEAN /\ current \in BOOLEAN)'
  <2>1. CASE ~Impossible /\ ApplyLegacyMigrationPlan /\ applied' = TRUE /\ current' = FALSE
    BY <1>1, <2>1, ApplyPlanKeeps
  <2>2. CASE applied' = FALSE /\ UNCHANGED <<siteRows, current>>
    BY <1>0, <1>1, <2>2, SiteSideStays, MappingsStay DEF siteRows, legacyRows, Session
  <2>. QED BY <2>1, <2>2 DEF ApplyLegacyMigration
<1>4. Session'
  BY <1>0, <1>1, <1>3 DEF Session, NoPlan
<1>5. MigrationInv' <=> LegacySide' /\ SiteSide' /\ Mappings' /\ Session'
  BY Parts, PTL
<1>. QED BY <1>2, <1>3, <1>4, <1>5

\* A preview writes nothing.
LEMMA PreviewKeeps ==
  ASSUME MigrationInv, PreviewLegacyMigration PROVE MigrationInv'
<1>0. LegacySide /\ SiteSide /\ Mappings /\ Session
  BY Parts
<1>1. /\ current' = TRUE /\ shown' = Plan /\ applied' = FALSE
      /\ UNCHANGED <<legacyRows, siteRows, changes>>
  BY DEF PreviewLegacyMigration
<1>2. LegacySide' /\ SiteSide' /\ Mappings'
  BY <1>0, <1>1, LegacySideStays, SiteSideStays, MappingsStay DEF siteRows, legacyRows
<1>3. DOMAIN Plan = DOMAIN NoPlan
  BY DEF Plan, NoPlan
<1>4. Session'
  BY <1>0, <1>1, <1>3 DEF Session, NoPlan
<1>5. MigrationInv' <=> LegacySide' /\ SiteSide' /\ Mappings' /\ Session'
  BY Parts, PTL
<1>. QED BY <1>2, <1>4, <1>5

\* An empty catalogue satisfies the invariant,
LEMMA MigrationInitInv == MigrationInit => MigrationInv
<1>. SUFFICES ASSUME MigrationInit PROVE MigrationInv
  OBVIOUS
<1>1. LegacySide
  BY DEF MigrationInit, LegacySide, RoutesKnown, Routed
<1>2. SiteSide /\ Mappings
  BY DEF MigrationInit, NothingMigrated, SiteSide, TargetsKnown, ModelsPlaced, Listed, Mappings,
         SitesNamed, Sites
<1>3. Session
  <2>1. current = FALSE /\ applied = FALSE /\ shown = NoPlan /\ changes = 0
    BY DEF MigrationInit, NothingMigrated
  <2>2. changes \in 0..MaxChanges
    BY <2>1
  <2>. QED BY <2>1, <2>2 DEF Session
<1>. QED BY <1>1, <1>2, <1>3, Parts

\* and every step keeps it.
LEMMA MigrationStepInv == MigrationInv /\ [MigrationNext]_migrationVars => MigrationInv'
<1>. SUFFICES ASSUME MigrationInv, [MigrationNext]_migrationVars PROVE MigrationInv'
  OBVIOUS
<1>1. CASE LegacyEdit
  BY <1>1, LegacyEditStep
<1>2. CASE SiteEdit
  BY <1>2, SiteEditStep
<1>3. CASE PreviewLegacyMigration
  BY <1>3, PreviewKeeps
<1>4. CASE \E force \in BOOLEAN : ApplyLegacyMigration(force)
  BY <1>4, ApplyLegacyMigrationKeeps
<1>5. CASE UNCHANGED migrationVars
  <2>1. LegacySide' /\ SiteSide' /\ Mappings'
    BY <1>5, Parts, LegacySideStays, SiteSideStays, MappingsStay DEF migrationVars, siteRows, legacyRows
  <2>2. Session'
    BY <1>5, Parts DEF Session, migrationVars, NoPlan
  <2>3. MigrationInv' <=> LegacySide' /\ SiteSide' /\ Mappings' /\ Session'
    BY Parts, PTL
  <2>. QED BY <2>1, <2>2, <2>3
<1>. QED BY <1>1, <1>2, <1>3, <1>4, <1>5 DEF MigrationNext

\* Whatever is edited, previewed and applied in whatever order, targets and
\* mappings refer to rows, and migrated sites are the ones of their upstreams.
THEOREM MigrationInvariant == MigrationSpec => []MigrationInv
BY MigrationInitInv, MigrationStepInv, PTL DEF MigrationSpec

\* Rows keep their columns, and mappings and targets refer to rows.
THEOREM MigrationTypes == MigrationSpec => []MigrationTypeOK
<1>1. MigrationInv => MigrationTypeOK
  BY DEF MigrationInv
<1>. QED BY <1>1, MigrationInvariant, PTL

-----------------------------------------------------------------------------
(* Service                                                                   *)

\* If a route has a target of a routable protocol, the first of them is kept.
LEMMA OneIsKept ==
  ASSUME MigrationInv, NEW p \in Routed, Eligible(p) # {}
  PROVE  \E k \in DOMAIN Kept(p) : Kept(p)[k] \in ToSet(Kept(p))
<1>. DEFINE P == {i \in Eligible(p) : \A j \in Eligible(p) :
                    GoesTo(route[p][j][1]) = GoesTo(route[p][i][1]) => i <= j}
<1>. PICK A, seq : A = Living \X Names /\ seq = route[p]
  OBVIOUS
<1>. PICK Q : Q = P
  OBVIOUS
<1>1. seq \in Seq(A)
  BY Parts DEF LegacySide
<1>2. Kept(p) = Picked(seq, Q)
  BY Zenon DEF Kept
<1>3. Eligible(p) \subseteq DOMAIN seq /\ Eligible(p) \in SUBSET Nat
  BY <1>1 DEF Eligible
<1>4. \E i \in Eligible(p) : \A j \in Eligible(p) : i <= j
  <2>. PICK S : S = Eligible(p)
    OBVIOUS
  <2>. QED BY <1>3, LeastNumber
<1>5. PICK i \in DOMAIN seq : i \in Q
  BY <1>3, <1>4
<1>. HIDE DEF P
<1>6. \E k \in DOMAIN Picked(seq, Q) : Picked(seq, Q)[k] = seq[i]
  <2>1. PicksAll(seq, Q)
    BY <1>1, PickedElements
  <2>. QED BY <1>5, <2>1 DEF PicksAll
<1>. QED BY <1>2, <1>6 DEF ToSet

\* Of some upstreams of one group the first one is one of them.
LEMMA FirstOfGroup ==
  ASSUME MigrationInv, NEW o \in Groups, NEW S \in SUBSET Members(o), S # {}
  PROVE  FirstOf(S) \in S
<1>1. S \in SUBSET Nat
  BY UpstreamAssumption DEF Members, Living
<1>2. PICK u \in S : \A v \in S : u <= v
  BY <1>1, LeastNumber
<1>3. \A v \in S \ {u} : Before(u, v)
  <2>. SUFFICES ASSUME NEW v \in S \ {u} PROVE Before(u, v)
    OBVIOUS
  <2>1. upstream[u].origin = upstream[v].origin /\ u < v
    BY <1>1, <1>2 DEF Members
  <2>. QED BY <2>1 DEF Before
<1>4. FirstOf(S) = CHOOSE x \in S : \A v \in S \ {x} : Before(x, v)
  BY DEF FirstOf
<1>. QED BY <1>2, <1>3, <1>4, Zenon

\* A site made for a group of undisputed upstreams serves what it is made for.
LEMMA NewSiteServes ==
  ASSUME MigrationInv, NEW o \in Groups, NEW u \in Members(o), NEW n \in Names, source[u][n] # "none",
         \A v \in Members(o) : v \in Pending /\ upstream[v].enabled /\ \A m \in Names : source[v][m] # "off"
  PROVE  /\ EndpointAfter(GoesTo(u), Place(u)) = "on"
         /\ ModelAfter(GoesTo(u), Place(u), n) = "on"
<1>. PICK s, e : s = GoesTo(u) /\ e = Place(u)
  OBVIOUS
<1>0. LegacySide /\ Mappings
  BY Parts
<1>1. s = SiteOfGroup(o) /\ MappedSites(o) = {} /\ s \in Members(o) /\ s \in Upstreams
  <2>1. s = SiteOfGroup(o)
    BY DEF GoesTo, Members
  <2>2. MappedSites(o) = {}
    BY DEF MappedSites, Pending
  <2>. QED BY <2>1, <2>2, GroupSite
<1>2. site[s] = NoRow
  <2>1. upstream[s] # Gone /\ siteOf[s] = NoRow
    BY <1>1 DEF Pending, Members, Living
  <2>. QED BY <1>0, <1>1, <2>1, RowAssumption DEF Mappings, SitesNamed
<1>3. ~Has(s, e)
  BY <1>2 DEF Has
<1>4. u \in Comers(s, e)
  BY DEF Comers
<1>5. Comers(s, e) \subseteq Members(o)
  <2>. SUFFICES ASSUME NEW v \in Comers(s, e) PROVE v \in Members(o)
    OBVIOUS
  <2>1. v \in Living /\ GoesTo(v) = s
    BY DEF Comers, Pending
  <2>. PICK q : q = upstream[v].origin
    OBVIOUS
  <2>2. q \in Groups /\ v \in Members(q) /\ SiteOfGroup(q) = s
    BY <2>1, GoesToSite
  <2>3. s \in Members(q)
    BY <1>2, <2>2, GroupSite
  <2>4. q = o
    BY <1>1, <2>3 DEF Members
  <2>. QED BY <2>2, <2>4
<1>6. EndpointAfter(s, e) = "on"
  <2>1. FirstOf(Comers(s, e)) \in Comers(s, e)
    BY <1>4, <1>5, FirstOfGroup
  <2>2. upstream[FirstOf(Comers(s, e))].enabled = TRUE
    BY <1>0, <1>5, <2>1, LivingRow, GroupSite
  <2>. QED BY <1>3, <1>4, <2>2 DEF EndpointAfter, OnIf
<1>7. ModelAfter(s, e, n) = "on"
  <2>. PICK comers : comers = {v \in Comers(s, e) : source[v][n] # "none"}
    OBVIOUS
  <2>1. u \in comers /\ comers \subseteq Members(o)
    BY <1>4, <1>5
  <2>2. FirstOf(comers) \in comers
    BY <2>1, FirstOfGroup
  <2>. PICK v : v = FirstOf(comers)
    OBVIOUS
  <2>3. v \in Members(o) /\ upstream[v].enabled /\ source[v][n] \notin {"none", "off"} /\ v \in Upstreams
    BY <2>1, <2>2 DEF Members, Living
  <2>4. Offered(v, n)
    BY <1>0, <2>3 DEF Offered, LegacySide
  <2>5. ModelAfter(s, e, n) = OnIf(upstream[v].enabled /\ Offered(v, n))
    BY <1>3, <2>1 DEF ModelAfter
  <2>. QED BY <2>3, <2>4, <2>5 DEF OnIf
<1>. QED BY <1>6, <1>7

\* After a migration a model that could be served can be served.
LEMMA MigratedServes ==
  ASSUME MigrationInv, ApplyLegacyMigrationPlan, NEW p \in PendingRoutes, Servable(p), Undisputed(p)
  PROVE  Serves(p)'
<1>0. LegacySide /\ p \in Routed
  BY Parts DEF PendingRoutes
<1>1. Eligible(p) # {}
  BY DEF Servable, Eligible, ToSet
<1>2. PICK k \in DOMAIN Kept(p) : TRUE
  BY <1>0, <1>1, OneIsKept
<1>3. PICK t \in ToSet(Kept(p)) :
        listing'[p].targets[k] = [site |-> GoesTo(t[1]), place |-> Place(t[1]), model |-> t[2]]
  BY <1>2, ListingAfter
<1>4. PICK i \in DOMAIN route[p] : t = route[p][i]
  BY <1>0, KeptTarget DEF Eligible
<1>5. t[1] \in Living /\ t[2] \in Names /\ t \in ToSet(route[p]) /\ source[t[1]][t[2]] # "none"
  BY <1>0, <1>4, KeptTarget DEF ToSet, LegacySide, RoutesKnown
<1>. PICK o : o = upstream[t[1]].origin
  OBVIOUS
<1>6. o \in Groups /\ t[1] \in Members(o)
  BY <1>5, GoesToSite
<1>7. \A v \in Members(o) : v \in Pending /\ upstream[v].enabled /\ \A m \in Names : source[v][m] # "off"
  BY <1>5 DEF Undisputed
<1>. PICK u, s, e, n : u = t[1] /\ s = GoesTo(t[1]) /\ e = Place(t[1]) /\ n = t[2]
  OBVIOUS
<1>8. EndpointAfter(s, e) = "on" /\ ModelAfter(s, e, n) = "on"
  BY <1>5, <1>6, <1>7, NewSiteServes
<1>9. s \in Homes /\ e \in Places /\ n \in Names
  BY <1>0, <1>5, GoesToSite, LivingRow DEF Homes
<1>10. site'[s].endpoints[e] = "on" /\ site'[s].models[<<e, n>>] = "on"
  BY <1>8, <1>9, SitesAfter
<1>. PICK x : x = listing'[p].targets[k]
  OBVIOUS
<1>11. x \in ToSet(listing'[p].targets) /\ x.site = s /\ x.place = e /\ x.model = n
  BY <1>2, <1>3, ListingAfter DEF ToSet
<1>. QED BY <1>10, <1>11 DEF Serves

\* Only an apply migrates anything.
LEMMA ServiceStep ==
  ASSUME MigrationInv, MigrationNext, Migrates
  PROVE  \A p \in PendingRoutes : Servable(p) /\ Undisputed(p) => Serves(p)'
<1>1. ~applied /\ applied'
  BY DEF Migrates
<1>2. ~Edited /\ ~PreviewLegacyMigration
  BY <1>1 DEF Edited, PreviewLegacyMigration
<1>3. ~LegacyEdit
  BY <1>2 DEF LegacyEdit, DeleteUpstream, CreateUpstream, UpdateUpstream, WriteUpstream,
              ApplyDiscoveredModels, WriteLegacyAccount, DeleteRoute, CreateRoute, UpdateRoute,
              ReorderRouteTargets, WriteRoute
<1>4. ~SiteEdit
  BY <1>2 DEF SiteEdit, CreateSite, DeleteSite, DeleteEndpoint, WriteSiteAccount, CreatePublished,
              DeletePublished
<1>5. PICK force \in BOOLEAN : ApplyLegacyMigration(force)
  BY <1>2, <1>3, <1>4 DEF MigrationNext
<1>6. ApplyLegacyMigrationPlan
  BY <1>1, <1>5 DEF ApplyLegacyMigration
<1>. QED BY <1>6, MigratedServes

\* A migration takes no model out of service, except where a disabled upstream or
\* model is merged with others, or the site was there before.
THEOREM ServiceKept == MigrationSpec => ServiceIsKept
<1>1. MigrationInv /\ [MigrationNext]_migrationVars =>
        [Migrates => \A p \in PendingRoutes : Servable(p) /\ Undisputed(p) => Serves(p)']_migrationVars
  BY ServiceStep
<1>. QED BY <1>1, MigrationInvariant, PTL DEF MigrationSpec, ServiceIsKept

-----------------------------------------------------------------------------
(* Counting                                                                  *)

\* A finite set without two elements.
LEMMA AtMostOne ==
  ASSUME NEW S, IsFiniteSet(S), ~(Cardinality(S) > 1), NEW s \in S
  PROVE  S = {s}
<1>1. Cardinality(S) \in Nat
  BY FS_CardinalityType
<1>2. IsFiniteSet(S \ {s}) /\ Cardinality(S \ {s}) = Cardinality(S) - 1
  BY FS_RemoveElement
<1>3. Cardinality(S \ {s}) \in Nat
  BY <1>2, FS_CardinalityType
<1>4. Cardinality(S \ {s}) = 0
  BY <1>1, <1>2, <1>3
<1>5. S \ {s} = {}
  BY <1>2, <1>4, FS_EmptySet
<1>. QED BY <1>5

-----------------------------------------------------------------------------
(* What a review needs                                                       *)

\* An account belongs to a site that is there.
AccountsPlaced == \A s \in Sites : siteAccount[s] # NoRow => site[s] # NoRow

\* There are finitely many rows to migrate.
RowsFinite == IsFiniteSet(Living) /\ IsFiniteSet(Routed)

\* A plan whose fingerprint is current is the plan of the rows as they are.
ShownIsPlan == current => shown = Plan

ReviewInv == AccountsPlaced /\ RowsFinite /\ ShownIsPlan

\* A plan is made from the rows of both catalogues and from nothing else.
LEMMA SamePlan ==
  ASSUME UNCHANGED <<legacyRows, siteRows>> PROVE Plan' = Plan
<1>1. /\ upstream' = upstream /\ source' = source /\ route' = route /\ legacyAccount' = legacyAccount
      /\ siteOf' = siteOf /\ listing' = listing /\ siteAccount' = siteAccount
  BY DEF legacyRows, siteRows
<1>2. Groups' = Groups /\ Pending' = Pending /\ PendingRoutes' = PendingRoutes
  BY <1>1 DEF Groups, Pending, PendingRoutes, Living, Routed, Listed
<1>3. \A o : MappedSites(o)' = MappedSites(o) /\ GroupAccounts(o)' = GroupAccounts(o)
  BY <1>1 DEF MappedSites, GroupAccounts, Members, Living
<1>4. \A o : ExistingAccounts(o)' = ExistingAccounts(o)
  BY <1>1, <1>3 DEF ExistingAccounts
<1>5. AccountsToCreate' = AccountsToCreate /\ \A o : UsageToCreate(o)' = UsageToCreate(o)
  BY <1>2, <1>3, <1>4 DEF AccountsToCreate, UsageToCreate
<1>6. \A p : Eligible(p)' = Eligible(p)
  BY <1>1 DEF Eligible
<1>7. \A u : Place(u)' = Place(u)
  BY <1>1 DEF Place
<1>8. {o \in Groups : MappedSites(o) = {}}' = {o \in Groups : MappedSites(o) = {}}
  BY <1>2, <1>3
<1>9. {<<upstream[u].origin, Place(u)>> : u \in Pending}' = {<<upstream[u].origin, Place(u)>> : u \in Pending}
  BY <1>1, <1>2, <1>7
<1>10. {<<upstream[m[1]].origin, Place(m[1]), m[2]>> :
          m \in {x \in Pending \X Names : source[x[1]][x[2]] # "none"}}'
       = {<<upstream[m[1]].origin, Place(m[1]), m[2]>> :
            m \in {x \in Pending \X Names : source[x[1]][x[2]] # "none"}}
  BY <1>1, <1>2, <1>7
<1>11. (UNION {{<<p, upstream[route[p][i][1]].origin>> : i \in Eligible(p)} : p \in PendingRoutes})'
       = UNION {{<<p, upstream[route[p][i][1]].origin>> : i \in Eligible(p)} : p \in PendingRoutes}
  BY <1>1, <1>2, <1>6
<1>12. {o \in Groups : UsageToCreate(o)}' = {o \in Groups : UsageToCreate(o)}
  BY <1>2, <1>5
<1>. QED BY <1>2, <1>5, <1>8, <1>9, <1>10, <1>11, <1>12 DEF Plan

\* An edit outdates the plan that was shown, and adds few rows.
LEMMA EditedReview ==
  ASSUME ReviewInv, Edited, AccountsPlaced', NEW u, NEW F, IsFiniteSet(F),
         Living' \subseteq Living \union {u}, Routed' \subseteq Routed \union F
  PROVE  ReviewInv'
<1>1. IsFiniteSet(Living) /\ IsFiniteSet(Routed)
  BY DEF ReviewInv, RowsFinite
<1>2. IsFiniteSet(Living \union {u}) /\ IsFiniteSet(Routed \union F)
  BY <1>1, FS_AddElement, FS_Union
<1>3. IsFiniteSet(Living') /\ IsFiniteSet(Routed')
  BY <1>2, FS_Subset
<1>4. ShownIsPlan'
  BY DEF Edited, ShownIsPlan
<1>. QED BY <1>3, <1>4 DEF ReviewInv, RowsFinite

\* Edits of the legacy catalogue.
LEMMA LegacyEditReview ==
  ASSUME MigrationInv, ReviewInv, LegacyEdit PROVE ReviewInv'
<1>0. LegacySide /\ IsFiniteSet({})
  BY Parts, FS_EmptySet
<1>a. AccountsPlaced
  BY DEF ReviewInv
<1>1. ASSUME NEW u \in Upstreams, NEW row, WriteUpstream(u, row) PROVE ReviewInv'
  <2>1. Edited /\ AccountsPlaced' /\ Routed' \subseteq Routed
    BY <1>a, <1>1 DEF WriteUpstream, siteRows, AccountsPlaced, Routed
  <2>2. Living' \subseteq Living \union {u}
    BY <1>0, <1>1 DEF WriteUpstream, Living, LegacySide
  <2>. QED BY <1>0, <2>1, <2>2, EditedReview
<1>2. ASSUME NEW u \in Upstreams, DeleteUpstream(u) PROVE ReviewInv'
  <2>1. Edited /\ AccountsPlaced' /\ Routed' \subseteq Routed
    BY <1>a, <1>2 DEF DeleteUpstream, AccountsPlaced, Routed
  <2>2. Living' \subseteq Living \union {u}
    BY <1>0, <1>2 DEF DeleteUpstream, Living, LegacySide
  <2>. QED BY <1>0, <2>1, <2>2, EditedReview
<1>3. ASSUME NEW u \in Upstreams, NEW found \in SUBSET Names, ApplyDiscoveredModels(u, found)
      PROVE  ReviewInv'
  <2>1. Edited /\ AccountsPlaced' /\ Living' \subseteq Living \union {u} /\ IsFiniteSet(found)
    BY <1>a, <1>3 DEF ApplyDiscoveredModels, siteRows, AccountsPlaced, Living
  <2>2. Routed' \subseteq Routed \union found
    <3>1. \A p \in Names : p \notin found => route'[p] = route[p]
      BY <1>3 DEF ApplyDiscoveredModels
    <3>. QED BY <3>1 DEF Routed
  <2>. QED BY <2>1, <2>2, EditedReview
<1>4. ASSUME NEW p \in Names, NEW targets, WriteRoute(p, targets) PROVE ReviewInv'
  <2>1. Edited /\ AccountsPlaced' /\ Living' \subseteq Living
    BY <1>a, <1>4 DEF WriteRoute, siteRows, AccountsPlaced, Living
  <2>2. Routed' \subseteq Routed \union {p}
    BY <1>0, <1>4 DEF WriteRoute, Routed, LegacySide
  <2>3. IsFiniteSet({p})
    BY FS_Singleton
  <2>. QED BY <2>1, <2>2, <2>3, EditedReview
<1>5. ASSUME NEW p \in Names, DeleteRoute(p) PROVE ReviewInv'
  <2>1. Edited /\ AccountsPlaced' /\ Living' \subseteq Living
    BY <1>a, <1>5 DEF DeleteRoute, AccountsPlaced, Living
  <2>2. Routed' \subseteq Routed
    BY <1>0, <1>5 DEF DeleteRoute, Routed, LegacySide
  <2>. QED BY <1>0, <2>1, <2>2, EditedReview
<1>6. ASSUME NEW u \in Upstreams, NEW a, WriteLegacyAccount(u, a) PROVE ReviewInv'
  <2>1. Edited /\ AccountsPlaced' /\ Living' \subseteq Living /\ Routed' \subseteq Routed
    BY <1>a, <1>6 DEF WriteLegacyAccount, siteRows, AccountsPlaced, Living, Routed
  <2>. QED BY <1>0, <2>1, EditedReview
<1>. QED
  BY <1>1, <1>2, <1>3, <1>4, <1>5, <1>6
     DEF LegacyEdit, CreateUpstream, UpdateUpstream, CreateRoute, UpdateRoute, ReorderRouteTargets

\* Edits of the new catalogue: a site takes its account along.
LEMMA SiteEditReview ==
  ASSUME MigrationInv, ReviewInv, SiteEdit PROVE ReviewInv'
<1>0. SiteSide /\ IsFiniteSet({})
  BY Parts, FS_EmptySet
<1>a. AccountsPlaced
  BY DEF ReviewInv
<1>1. SUFFICES ASSUME UNCHANGED legacyRows, Edited, AccountsPlaced' PROVE ReviewInv'
  <2>1. ASSUME NEW s \in ByHand, CreateSite(s)
        PROVE  UNCHANGED legacyRows /\ Edited /\ AccountsPlaced'
    <3>1. NoSite # NoRow
      <4>1. NoSite \in SiteRow
        BY DEF NoSite, SiteRow, Flag
      <4>. QED BY <4>1, RowAssumption
    <3>. QED BY <1>0, <1>a, <2>1, <3>1 DEF CreateSite, AccountsPlaced, SiteSide
  <2>2. ASSUME NEW s \in Sites, DeleteSite(s)
        PROVE  UNCHANGED legacyRows /\ Edited /\ AccountsPlaced'
    BY <1>0, <1>a, <2>2 DEF DeleteSite, AccountsPlaced, SiteSide
  <2>3. ASSUME NEW s \in Sites, NEW e \in Places, DeleteEndpoint(s, e)
        PROVE  UNCHANGED legacyRows /\ Edited /\ AccountsPlaced'
    <3>. PICK row : row = [endpoints |-> [site[s].endpoints EXCEPT ![e] = "none"],
                           models |-> [m \in Places \X Names |-> IF m[1] = e THEN "none" ELSE site[s].models[m]]]
      OBVIOUS
    <3>1. row \in SiteRow /\ row # NoRow
      <4>1. site[s] \in SiteRow
        BY <1>0, <2>3 DEF SiteSide, DeleteEndpoint
      <4>2. row \in SiteRow
        BY <4>1 DEF SiteRow, Flag
      <4>. QED BY <4>2, RowAssumption
    <3>2. /\ UNCHANGED <<legacyRows, siteAccount>> /\ Edited
          /\ site' = [site EXCEPT ![s] = row]
      BY <2>3 DEF DeleteEndpoint
    <3>. QED BY <1>0, <1>a, <3>1, <3>2 DEF AccountsPlaced, SiteSide
  <2>4. ASSUME NEW s \in Sites, NEW a, WriteSiteAccount(s, a)
        PROVE  UNCHANGED legacyRows /\ Edited /\ AccountsPlaced'
    BY <1>0, <1>a, <2>4 DEF WriteSiteAccount, AccountsPlaced, SiteSide
  <2>5. ASSUME NEW p \in Names, CreatePublished(p) \/ DeletePublished(p)
        PROVE  UNCHANGED legacyRows /\ Edited /\ AccountsPlaced'
    BY <1>a, <2>5 DEF CreatePublished, DeletePublished, AccountsPlaced
  <2>. QED BY <2>1, <2>2, <2>3, <2>4, <2>5 DEF SiteEdit
<1>2. Living' = Living /\ Routed' = Routed
  BY <1>1 DEF Living, Routed, legacyRows
<1>3. Living' \subseteq Living \union {NoRow} /\ Routed' \subseteq Routed \union {}
  BY <1>2
<1>. QED BY <1>0, <1>1, <1>3, EditedReview

\* An apply outdates the plan, or changes nothing.
LEMMA ApplyReview ==
  ASSUME MigrationInv, ReviewInv, NEW force \in BOOLEAN, ApplyLegacyMigration(force)
  PROVE  ReviewInv'
<1>0. SiteSide /\ AccountsPlaced /\ RowsFinite /\ ShownIsPlan
  BY Parts DEF ReviewInv
<1>1. UNCHANGED <<legacyRows, shown>>
  BY DEF ApplyLegacyMigration
<1>2. RowsFinite'
  BY <1>0, <1>1 DEF RowsFinite, Living, Routed, legacyRows
<1>3. CASE ApplyLegacyMigrationPlan /\ current' = FALSE
  <2>1. siteAccount' = [s \in Sites |-> IF Givers(s) = {} THEN siteAccount[s] ELSE AccountAfter(s)]
    BY <1>3 DEF ApplyLegacyMigrationPlan
  <2>2. /\ \A s \in Sites : site[s] # NoRow => site'[s] # NoRow
        /\ \A s \in Homes : site'[s] # NoRow
    BY <1>3, SitesAfter
  <2>3. \A s \in Sites : Givers(s) # {} => s \in Homes
    BY DEF Givers, Homes
  <2>4. AccountsPlaced'
    BY <1>0, <2>1, <2>2, <2>3 DEF AccountsPlaced
  <2>5. ShownIsPlan'
    BY <1>3 DEF ShownIsPlan
  <2>. QED BY <1>2, <2>4, <2>5 DEF ReviewInv
<1>4. CASE UNCHANGED <<siteRows, current>>
  <2>1. Plan' = Plan
    BY <1>1, <1>4, SamePlan
  <2>2. AccountsPlaced' /\ ShownIsPlan'
    BY <1>0, <1>1, <1>4, <2>1 DEF AccountsPlaced, ShownIsPlan, siteRows
  <2>. QED BY <1>2, <2>2 DEF ReviewInv
<1>. QED BY <1>3, <1>4 DEF ApplyLegacyMigration

\* Every step keeps it.
LEMMA ReviewStepInv == MigrationInv /\ ReviewInv /\ [MigrationNext]_migrationVars => ReviewInv'
<1>. SUFFICES ASSUME MigrationInv, ReviewInv, [MigrationNext]_migrationVars PROVE ReviewInv'
  OBVIOUS
<1>1. ASSUME UNCHANGED <<legacyRows, siteRows>>, current' => shown' = Plan PROVE ReviewInv'
  <2>1. Plan' = Plan
    BY <1>1, SamePlan
  <2>2. AccountsPlaced' /\ RowsFinite'
    BY <1>1 DEF ReviewInv, AccountsPlaced, RowsFinite, Living, Routed, legacyRows, siteRows
  <2>. QED BY <1>1, <2>1, <2>2 DEF ReviewInv, ShownIsPlan
<1>2. CASE PreviewLegacyMigration
  BY <1>1, <1>2 DEF PreviewLegacyMigration
<1>3. CASE UNCHANGED migrationVars
  BY <1>1, <1>3 DEF migrationVars, ReviewInv, ShownIsPlan
<1>. QED BY <1>2, <1>3, LegacyEditReview, SiteEditReview, ApplyReview DEF MigrationNext

\* Nothing is there and nothing was shown.
LEMMA ReviewInitInv == MigrationInit => ReviewInv
<1>. SUFFICES ASSUME MigrationInit PROVE ReviewInv
  OBVIOUS
<1>1. Living = {} /\ Routed = {}
  BY DEF MigrationInit, Living, Routed
<1>2. AccountsPlaced /\ ShownIsPlan
  BY DEF MigrationInit, NothingMigrated, AccountsPlaced, ShownIsPlan
<1>. QED BY <1>1, <1>2, FS_EmptySet DEF ReviewInv, RowsFinite

-----------------------------------------------------------------------------
(* The sites of groups                                                       *)

\* There are finitely many groups, each with finitely many sites.
LEMMA GroupsFinite ==
  ASSUME MigrationInv, ReviewInv
  PROVE  /\ IsFiniteSet(Groups) /\ IsFiniteSet(PendingRoutes)
         /\ \A o \in Groups : IsFiniteSet(MappedSites(o))
<1>1. IsFiniteSet(Living) /\ IsFiniteSet(Routed)
  BY DEF ReviewInv, RowsFinite
<1>2. IsFiniteSet(Groups)
  <2>. PICK f : f = [u \in Living |-> upstream[u].origin]
    OBVIOUS
  <2>1. f \in Surjection(Living, Groups)
    BY DEF Surjection, Groups
  <2>. QED BY <1>1, <2>1, FS_Surjection
<1>3. IsFiniteSet(PendingRoutes)
  <2>1. PendingRoutes \subseteq Routed
    BY DEF PendingRoutes
  <2>. QED BY <1>1, <2>1, FS_Subset
<1>4. ASSUME NEW o \in Groups PROVE IsFiniteSet(MappedSites(o))
  <2>. PICK f, R : f = [u \in Members(o) |-> siteOf[u]] /\ R = {siteOf[u] : u \in Members(o)}
    OBVIOUS
  <2>1. Members(o) \subseteq Living
    BY DEF Members
  <2>2. IsFiniteSet(Members(o))
    BY <1>1, <2>1, FS_Subset
  <2>3. f \in Surjection(Members(o), R)
    BY DEF Surjection
  <2>4. IsFiniteSet(R)
    BY <2>2, <2>3, FS_Surjection
  <2>5. MappedSites(o) \subseteq R
    BY DEF MappedSites
  <2>6. IsFiniteSet(R) /\ MappedSites(o) \in SUBSET R
    BY <2>4, <2>5
  <2>. QED BY <2>6, FS_Subset
<1>. QED BY <1>2, <1>3, <1>4

\* Without a conflict a group has one site.
LEMMA OneSite ==
  ASSUME MigrationInv, ReviewInv, ~HardConflict, NEW o \in Groups
  PROVE  MappedSites(o) \subseteq {SiteOfGroup(o)}
<1>1. CASE MappedSites(o) = {}
  BY <1>1
<1>2. CASE MappedSites(o) # {}
  <2>1. SiteOfGroup(o) \in MappedSites(o)
    BY <1>2, GroupSite
  <2>2. ~(Cardinality(MappedSites(o)) > 1)
    BY DEF HardConflict
  <2>. QED BY <2>1, <2>2, GroupsFinite, AtMostOne
<1>. QED BY <1>1, <1>2

\* A group that has none gets a new one, called after a member,
LEMMA NewSite ==
  ASSUME MigrationInv, NEW o \in Groups, MappedSites(o) = {}
  PROVE  site[SiteOfGroup(o)] = NoRow /\ upstream[SiteOfGroup(o)].origin = o
<1>1. SiteOfGroup(o) \in Members(o) /\ SiteOfGroup(o) \in Upstreams
  BY GroupSite
<1>2. SiteOfGroup(o) \in Living /\ upstream[SiteOfGroup(o)].origin = o /\ siteOf[SiteOfGroup(o)] = NoRow
  BY <1>1 DEF Members, MappedSites
<1>. QED BY <1>1, <1>2, RowAssumption DEF MigrationInv, SitesNamed, Living

\* which no other group goes to.
LEMMA NewSiteOfOne ==
  ASSUME MigrationInv, NEW o \in Groups, NEW q \in Groups,
         MappedSites(o) = {}, SiteOfGroup(o) = SiteOfGroup(q)
  PROVE  o = q
<1>1. MappedSites(q) = {}
  BY NewSite, GroupSite
<1>. QED BY <1>1, NewSite

\* A migration is made: nothing is in conflict, and no row is in the way.
Migrating ==
  /\ MigrationInv /\ ReviewInv /\ ~HardConflict /\ ~Impossible
  /\ ApplyLegacyMigrationPlan /\ UNCHANGED legacyRows

\* The rows that a migration writes.
LEMMA MigrationWrites ==
  ASSUME Migrating
  PROVE  /\ \A u \in Upstreams : siteOf'[u] = IF u \in Pending THEN GoesTo(u) ELSE siteOf[u]
         /\ \A s \in Sites : siteAccount'[s] = IF Givers(s) = {} THEN siteAccount[s] ELSE AccountAfter(s)
         /\ \A p \in Names : p \notin PendingRoutes => listing'[p] = listing[p]
         /\ \A p \in PendingRoutes : listing'[p].legacy = TRUE
BY DEF Migrating, ApplyLegacyMigrationPlan, PendingRoutes, Routed

\* Afterwards a group has its site and no other.
LEMMA MappedAfter ==
  ASSUME Migrating
  PROVE  \A o \in Groups : MappedSites(o)' = {SiteOfGroup(o)}
<1>. SUFFICES ASSUME NEW o \in Groups PROVE MappedSites(o)' = {SiteOfGroup(o)}
  OBVIOUS
<1>0. MigrationInv /\ ReviewInv /\ ~HardConflict /\ upstream' = upstream
  BY DEF Migrating, legacyRows
<1>1. Members(o)' = Members(o)
  BY <1>0 DEF Members, Living
<1>2. SiteOfGroup(o) # NoRow
  BY <1>0, GroupSite, RowAssumption
<1>3. ASSUME NEW u \in Members(o) PROVE siteOf'[u] = SiteOfGroup(o)
  <2>1. u \in Living /\ u \in Upstreams /\ upstream[u].origin = o
    BY DEF Members, Living
  <2>2. CASE u \in Pending
    BY <2>1, <2>2, MigrationWrites DEF GoesTo
  <2>3. CASE u \notin Pending
    <3>1. siteOf[u] \in MappedSites(o)
      BY <2>1, <2>3 DEF Pending, MappedSites
    <3>. QED BY <1>0, <2>1, <2>3, <3>1, MigrationWrites, OneSite
  <2>. QED BY <2>2, <2>3
<1>4. Members(o) # {}
  BY DEF Groups, Members
<1>. QED BY <1>1, <1>2, <1>3, <1>4 DEF MappedSites

-----------------------------------------------------------------------------
(* What is created is counted                                                *)

\* A new site for every group without one.
LEMMA SitesCounted ==
  ASSUME Migrating
  PROVE  Cardinality({s \in Sites : site[s] = NoRow /\ site'[s] # NoRow}) = Plan.sites
<1>0. MigrationInv /\ ReviewInv /\ ~HardConflict /\ ApplyLegacyMigrationPlan
  BY DEF Migrating
<1>. PICK A, B : A = {o \in Groups : MappedSites(o) = {}} /\ B = {s \in Sites : site[s] = NoRow /\ site'[s] # NoRow}
  OBVIOUS
<1>. PICK f : f = [o \in A |-> SiteOfGroup(o)]
  OBVIOUS
<1>1. IsFiniteSet(A)
  <2>1. IsFiniteSet(Groups) /\ A \in SUBSET Groups
    BY <1>0, GroupsFinite
  <2>. QED BY <2>1, FS_Subset
<1>2. \A o \in A : f[o] \in B
  <2>. SUFFICES ASSUME NEW o \in A PROVE SiteOfGroup(o) \in B
    OBVIOUS
  <2>1. o \in Groups /\ site[SiteOfGroup(o)] = NoRow
    BY <1>0, NewSite
  <2>2. SiteOfGroup(o) \in Homes
    BY <2>1 DEF Homes
  <2>. QED BY <1>0, <2>1, <2>2, SitesAfter
<1>3. \A o, q \in A : f[o] = f[q] => o = q
  BY <1>0, NewSiteOfOne
<1>4. \A s \in B : \E o \in A : f[o] = s
  <2>. SUFFICES ASSUME NEW s \in B PROVE \E o \in A : SiteOfGroup(o) = s
    OBVIOUS
  <2>1. s \in Homes
    BY <1>0, SitesAfter
  <2>2. PICK o \in Groups : s = SiteOfGroup(o)
    BY <2>1 DEF Homes
  <2>3. MappedSites(o) = {}
    BY <1>0, <2>2, GroupSite
  <2>. QED BY <2>2, <2>3
<1>5. f \in [A -> B]
  BY <1>2
<1>6. f \in Surjection(A, B) /\ f \in Injection(A, B)
  BY <1>3, <1>4, <1>5 DEF Surjection, Injection, IsInjective
<1>7. Cardinality(B) = Cardinality(A)
  BY <1>1, <1>6, FS_Surjection
<1>. QED BY <1>7 DEF Plan

\* A key for every upstream that was not migrated.
LEMMA KeysCounted ==
  ASSUME Migrating
  PROVE  {u \in Upstreams : siteOf[u] # siteOf'[u]} = Pending
<1>0. MigrationInv
  BY DEF Migrating
<1>1. \A u \in Pending : u \in Upstreams /\ siteOf[u] = NoRow /\ GoesTo(u) # NoRow
  BY <1>0, GoesToSite, RowAssumption DEF Pending, Living
<1>2. \A u \in Upstreams : siteOf'[u] = IF u \in Pending THEN GoesTo(u) ELSE siteOf[u]
  BY MigrationWrites
<1>. QED BY <1>1, <1>2

\* A published model for every route that has none.
LEMMA ListingsCounted ==
  ASSUME Migrating
  PROVE  {p \in Names : listing[p] # listing'[p]} = PendingRoutes
<1>0. MigrationInv /\ ApplyLegacyMigrationPlan /\ ~HardConflict
  BY DEF Migrating
<1>1. ASSUME NEW p \in PendingRoutes PROVE p \in Names /\ listing[p] # listing'[p]
  <2>1. p \in Names /\ listing'[p] \in ListingRow
    BY <1>0, ListingAfter
  <2>2. listing[p] = NoRow
    BY <1>0, <2>1 DEF HardConflict, Collision, Listed
  <2>. QED BY <2>1, <2>2, RowAssumption
<1>. QED BY <1>1, MigrationWrites

-----------------------------------------------------------------------------
(* Accounts                                                                  *)

\* Two accounts of the same login whose usage does not differ.
Agree(a, b) == a.auth = b.auth /\ (a.usage = b.usage \/ NoUsage \in {a.usage, b.usage})

\* No two accounts of a group and its sites disagree.
LEMMA GroupAgrees ==
  ASSUME ~HardConflict, NEW o \in Groups, GroupAccounts(o) # {}
  PROVE  \A a, b \in GroupAccounts(o) \union ExistingAccounts(o) : Agree(a, b)
BY DEF HardConflict, AccountConflict, Agree

\* The accounts that are brought to a site.
GivenTo(s) == UNION {GroupAccounts(o) : o \in Givers(s)}

\* The account of a site is the one it had, or one that was brought, and it has the usage
\* of one of them, if any.
MergedRow(s, row) ==
  /\ IF siteAccount[s] # NoRow THEN row = siteAccount[s] ELSE row \in GivenTo(s)
  /\ AccountAfter(s).auth = row.auth
  /\ AccountAfter(s).usage = NoUsage => \A a \in GivenTo(s) : a.usage = NoUsage
  /\ AccountAfter(s).usage # NoUsage => \E a \in GivenTo(s) \union {row} : a.usage = AccountAfter(s).usage

\* It is merged from such a row.
LEMMA AccountMerged ==
  ASSUME MigrationInv, NEW s \in Sites, Givers(s) # {}
  PROVE  \E row : MergedRow(s, row)
<1>. DEFINE row == IF siteAccount[s] # NoRow THEN siteAccount[s] ELSE CHOOSE a \in GivenTo(s) : TRUE
            usage == {a.usage : a \in GivenTo(s) \union {row}} \ {NoUsage}
            last == IF usage = {} THEN NoUsage ELSE CHOOSE x \in usage : TRUE
<1>1. GivenTo(s) \subseteq AccountOf /\ GivenTo(s) # {}
  <2>1. \A o \in Groups : GroupAccounts(o) \subseteq AccountOf
    BY Parts DEF GroupAccounts, LegacySide, Members, Living
  <2>. QED BY <2>1 DEF Givers, GivenTo
<1>2. row \in AccountOf /\ IF siteAccount[s] # NoRow THEN row = siteAccount[s] ELSE row \in GivenTo(s)
  BY <1>1, Parts DEF SiteSide
<1>3. AccountAfter(s) = [row EXCEPT !.usage = last]
  BY Zenon DEF AccountAfter, GivenTo
<1>. HIDE DEF row
<1>4. AccountAfter(s).auth = row.auth /\ AccountAfter(s).usage = last
  <2>. HIDE DEF last
  <2>. QED BY <1>2, <1>3 DEF AccountOf
<1>5. last = NoUsage => \A a \in GivenTo(s) : a.usage = NoUsage
  OBVIOUS
<1>6. last # NoUsage => \E a \in GivenTo(s) \union {row} : a.usage = last
  OBVIOUS
<1>. HIDE DEF last
<1>7. MergedRow(s, row)
  BY <1>2, <1>4, <1>5, <1>6 DEF MergedRow
<1>. QED BY <1>7

\* The only account at the site of a group without a conflict is at its one site.
LEMMA ExistingAtHome ==
  ASSUME MigrationInv, ReviewInv, ~HardConflict, NEW o \in Groups
  PROVE  /\ ExistingAccounts(o) \subseteq {siteAccount[SiteOfGroup(o)]}
         /\ siteAccount[SiteOfGroup(o)] # NoRow => siteAccount[SiteOfGroup(o)] \in ExistingAccounts(o)
         /\ siteAccount[SiteOfGroup(o)] = NoRow => ExistingAccounts(o) = {}
<1>1. MappedSites(o) \subseteq {SiteOfGroup(o)}
  BY OneSite
<1>2. ASSUME siteAccount[SiteOfGroup(o)] # NoRow PROVE SiteOfGroup(o) \in MappedSites(o)
  <2>1. site[SiteOfGroup(o)] # NoRow
    BY <1>2, GroupSite DEF ReviewInv, AccountsPlaced, Sites
  <2>. QED BY <2>1, NewSite, GroupSite
<1>. QED BY <1>1, <1>2 DEF ExistingAccounts

\* What the accounts of a group become agrees with all of them.
LEMMA AccountsAgree ==
  ASSUME Migrating, NEW o \in Groups, NEW a \in GroupAccounts(o)
  PROVE  /\ Agree(a, AccountAfter(SiteOfGroup(o)))
         /\ a.usage # NoUsage => AccountAfter(SiteOfGroup(o)).usage # NoUsage
<1>0. MigrationInv /\ ReviewInv /\ ~HardConflict /\ ~Impossible
  BY DEF Migrating
<1>. PICK s : s = SiteOfGroup(o)
  OBVIOUS
<1>1. s \in Sites /\ o \in Givers(s)
  BY <1>0, GroupSite DEF Givers, Sites
<1>2. PICK row : MergedRow(s, row)
  BY <1>0, <1>1, AccountMerged
<1>3. ASSUME NEW q \in Givers(s)
      PROVE  /\ q \in Groups /\ GroupAccounts(q) # {} /\ SiteOfGroup(q) = s
             /\ \A b \in GroupAccounts(q) : siteAccount[s] # NoRow => Agree(b, siteAccount[s])
             /\ siteAccount[s] = NoRow => q = o
  <2>1. q \in Groups /\ GroupAccounts(q) # {} /\ SiteOfGroup(q) = s
    BY DEF Givers
  <2>2. ASSUME NEW b \in GroupAccounts(q), siteAccount[s] # NoRow PROVE Agree(b, siteAccount[s])
    <3>1. siteAccount[s] \in ExistingAccounts(q)
      BY <1>0, <2>1, <2>2, ExistingAtHome
    <3>. QED BY <1>0, <2>1, <3>1, GroupAgrees
  <2>3. ASSUME siteAccount[s] = NoRow, q # o PROVE FALSE
    <3>1. ExistingAccounts(q) = {} /\ ExistingAccounts(o) = {}
      BY <1>0, <2>1, <2>3, ExistingAtHome
    <3>2. q \in AccountsToCreate /\ o \in AccountsToCreate
      BY <2>1, <3>1 DEF AccountsToCreate
    <3>. QED BY <1>0, <2>1, <2>3, <3>2 DEF Impossible
  <2>. QED BY <2>1, <2>2, <2>3
<1>4. \A b \in GroupAccounts(o) : Agree(a, b)
  BY <1>0, GroupAgrees
<1>5. Agree(a, row)
  <2>1. CASE siteAccount[s] # NoRow
    BY <1>1, <1>2, <1>3, <2>1 DEF MergedRow
  <2>2. CASE siteAccount[s] = NoRow
    <3>1. row \in GroupAccounts(o)
      BY <1>2, <1>3, <2>2 DEF MergedRow, GivenTo
    <3>. QED BY <1>4, <3>1
  <2>. QED BY <2>1, <2>2
<1>6. a \in GivenTo(s)
  BY <1>1 DEF GivenTo
<1>7. ASSUME a.usage # NoUsage, NEW q \in Givers(s), q # o, NEW b \in GroupAccounts(q), b.usage # NoUsage
      PROVE  a.usage = b.usage
  <2>1. siteAccount[s] # NoRow /\ Agree(b, siteAccount[s]) /\ Agree(a, siteAccount[s])
    BY <1>1, <1>3, <1>7
  <2>2. ASSUME siteAccount[s].usage = NoUsage PROVE FALSE
    <3>1. /\ \A e \in ExistingAccounts(o) : e.usage = NoUsage
          /\ \A e \in ExistingAccounts(q) : e.usage = NoUsage
      BY <1>0, <1>3, <2>2, ExistingAtHome
    <3>2. UsageToCreate(o) /\ UsageToCreate(q)
      BY <1>7, <3>1 DEF UsageToCreate
    <3>. QED BY <1>0, <1>3, <1>7, <3>2 DEF Impossible
  <2>. QED BY <1>7, <2>1, <2>2 DEF Agree
<1>8. ASSUME a.usage # NoUsage
      PROVE  AccountAfter(s).usage # NoUsage /\ a.usage = AccountAfter(s).usage
  <2>1. AccountAfter(s).usage # NoUsage
    BY <1>2, <1>6, <1>8 DEF MergedRow
  <2>2. PICK b \in GivenTo(s) \union {row} : b.usage = AccountAfter(s).usage
    BY <1>2, <2>1 DEF MergedRow
  <2>3. CASE b = row
    BY <1>5, <1>8, <2>1, <2>2, <2>3 DEF Agree
  <2>4. CASE b \in GivenTo(s)
    <3>1. PICK q \in Givers(s) : b \in GroupAccounts(q)
      BY <2>4 DEF GivenTo
    <3>2. CASE q = o
      BY <1>4, <1>8, <2>1, <2>2, <3>1, <3>2 DEF Agree
    <3>3. CASE q # o
      BY <1>7, <1>8, <2>1, <2>2, <3>1, <3>3
    <3>. QED BY <3>2, <3>3
  <2>. QED BY <2>1, <2>2, <2>3, <2>4
<1>9. AccountAfter(s).auth = a.auth
  BY <1>2, <1>5 DEF MergedRow, Agree
<1>. QED BY <1>8, <1>9 DEF Agree

\* An account for every group that has one and whose site has none.
LEMMA AccountsCounted ==
  ASSUME Migrating
  PROVE  Cardinality({s \in Sites : siteAccount[s] = NoRow /\ siteAccount'[s] # NoRow}) = Plan.accounts
<1>0. MigrationInv /\ ReviewInv /\ ~HardConflict /\ ~Impossible
  BY DEF Migrating
<1>. PICK A, B : A = AccountsToCreate /\ B = {s \in Sites : siteAccount[s] = NoRow /\ siteAccount'[s] # NoRow}
  OBVIOUS
<1>. PICK f : f = [o \in A |-> SiteOfGroup(o)]
  OBVIOUS
<1>1. IsFiniteSet(A)
  <2>1. IsFiniteSet(Groups) /\ A \in SUBSET Groups
    BY <1>0, GroupsFinite DEF AccountsToCreate
  <2>. QED BY <2>1, FS_Subset
<1>2. \A o \in A : f[o] \in B
  <2>. SUFFICES ASSUME NEW o \in A PROVE SiteOfGroup(o) \in B
    OBVIOUS
  <2>1. o \in Groups /\ GroupAccounts(o) # {} /\ ExistingAccounts(o) = {}
    BY DEF AccountsToCreate
  <2>2. siteAccount[SiteOfGroup(o)] = NoRow
    BY <1>0, <2>1, ExistingAtHome
  <2>3. SiteOfGroup(o) \in Sites /\ Givers(SiteOfGroup(o)) # {}
    BY <1>0, <2>1, GroupSite DEF Givers, Sites
  <2>4. AccountAfter(SiteOfGroup(o)) # NoRow
    BY <1>0, <2>3, AccountAfterType, RowAssumption
  <2>. QED BY <2>2, <2>3, <2>4, MigrationWrites
<1>3. \A o, q \in A : f[o] = f[q] => o = q
  <2>1. \A o, q \in A : o \in Groups /\ q \in Groups /\ {o, q} \subseteq AccountsToCreate
    BY DEF AccountsToCreate
  <2>. QED BY <1>0, <2>1 DEF Impossible
<1>4. \A s \in B : \E o \in A : f[o] = s
  <2>. SUFFICES ASSUME NEW s \in B PROVE \E o \in A : SiteOfGroup(o) = s
    OBVIOUS
  <2>1. Givers(s) # {}
    BY MigrationWrites
  <2>2. PICK o \in Groups : s = SiteOfGroup(o) /\ GroupAccounts(o) # {}
    BY <2>1 DEF Givers
  <2>3. ExistingAccounts(o) = {}
    BY <1>0, <2>2, ExistingAtHome
  <2>. QED BY <2>2, <2>3 DEF AccountsToCreate
<1>5. f \in [A -> B]
  BY <1>2
<1>6. f \in Surjection(A, B) /\ f \in Injection(A, B)
  BY <1>3, <1>4, <1>5 DEF Surjection, Injection, IsInjective
<1>7. Cardinality(B) = Cardinality(A)
  BY <1>1, <1>6, FS_Surjection
<1>. QED BY <1>7 DEF Plan

-----------------------------------------------------------------------------
(* Targets                                                                   *)

\* Positions with different elements are picked as different elements.
LEMMA PickedApart ==
  ASSUME NEW S, NEW seq \in Seq(S), NEW positions,
         \A i, j \in DOMAIN seq \intersect positions : seq[i] = seq[j] => i = j
  PROVE  IsInjective(Picked(seq, positions))
<1>. DEFINE part == CHOOSE part : Picking(part, seq, positions)
            E(i) == {seq[j] : j \in (1..i) \intersect positions}
            Good(i) == part[i] \in Seq(E(i)) /\ IsInjective(part[i])
            T == {i \in 0..Len(seq) : ~Good(i)}
<1>0. Len(seq) \in Nat /\ DOMAIN seq = 1..Len(seq)
  OBVIOUS
<1>1. part = [i \in 0..Len(seq) |-> PickedUpTo(part, seq, positions, i)]
  <2>1. \E other : Picking(other, seq, positions)
    BY PickingRuns
  <2>2. Picking(part, seq, positions)
    BY <2>1, Zenon
  <2>. QED BY <2>2 DEF Picking
<1>2. Picked(seq, positions) = part[Len(seq)]
  BY Zenon DEF Picked, Picking, PickedUpTo
<1>. HIDE DEF part
<1>3. ASSUME T # {} PROVE FALSE
  <2>0. T \in SUBSET Nat
    BY <1>0
  <2>. PICK U : U = T
    OBVIOUS
  <2>1. PICK i \in U : \A j \in U : i <= j
    <3>. HIDE DEF T
    <3>. QED BY <1>3, <2>0, LeastNumber
  <2>2. i \in 0..Len(seq) /\ ~Good(i)
    BY <2>1
  <2>3. part[i] = PickedUpTo(part, seq, positions, i)
    BY <1>1, <2>2
  <2>4. CASE i = 0
    <3>1. part[i] = <<>>
      BY <2>3, <2>4 DEF PickedUpTo
    <3>2. <<>> \in Seq(E(i)) /\ IsInjective(<<>>)
      BY DEF IsInjective
    <3>. QED BY <2>2, <3>1, <3>2
  <2>5. CASE i # 0
    <3>1. i \in DOMAIN seq /\ i - 1 \in 0..Len(seq) /\ i - 1 < i
      BY <1>0, <2>2, <2>5
    <3>2. Good(i - 1)
      <4>. HIDE DEF Good
      <4>. QED BY <1>0, <2>1, <3>1
    <3>. PICK before, A, B : before = part[i - 1] /\ A = E(i - 1) /\ B = E(i)
      OBVIOUS
    <3>3. before \in Seq(A) /\ IsInjective(before)
      BY <3>2
    <3>4. A \subseteq B
      BY <3>1
    <3>5. CASE i \in positions
      <4>1. part[i] = Append(before, seq[i])
        BY <2>3, <2>5, <3>5 DEF PickedUpTo
      <4>2. seq[i] \in B /\ seq[i] \notin A
        <5>1. seq[i] \in B
          BY <3>1, <3>5, <1>0
        <5>2. ASSUME NEW j \in (1..(i - 1)) \intersect positions, seq[j] = seq[i] PROVE FALSE
          <6>1. j \in DOMAIN seq \intersect positions /\ i \in DOMAIN seq \intersect positions /\ j # i
            BY <1>0, <3>1, <3>5
          <6>. QED BY <5>2, <6>1
        <5>. QED BY <5>1, <5>2
      <4>. HIDE DEF E
      <4>3. Append(before, seq[i]) \in Seq(B)
        BY <3>3, <3>4, <4>2
      <4>4. IsInjective(Append(before, seq[i]))
        <5>1. \A k \in DOMAIN before : before[k] \in A
          BY <3>3
        <5>. PICK last, longer : last = seq[i] /\ longer = Append(before, last)
          OBVIOUS
        <5>2. /\ DOMAIN before = 1..Len(before) /\ DOMAIN longer = 1..(Len(before) + 1)
              /\ Len(before) \in Nat /\ longer[Len(before) + 1] = last
              /\ \A k \in DOMAIN before : longer[k] = before[k]
          BY <3>3
        <5>3. \A a, b \in DOMAIN before : longer[a] = longer[b] => a = b
          BY <3>3, <5>2 DEF IsInjective
        <5>4. \A k \in DOMAIN before : longer[k] # last
          BY <4>2, <5>1, <5>2
        <5>5. \A k \in DOMAIN longer : k \in DOMAIN before \/ k = Len(before) + 1
          BY <5>2
        <5>6. IsInjective(longer)
          BY <5>2, <5>3, <5>4, <5>5 DEF IsInjective
        <5>. QED BY <5>6
      <4>. QED BY <2>2, <4>1, <4>3, <4>4
    <3>6. CASE i \notin positions
      <4>1. part[i] = before
        BY <2>3, <2>5, <3>6 DEF PickedUpTo
      <4>2. before \in Seq(B)
        <5>. HIDE DEF E
        <5>. QED BY <3>3, <3>4
      <4>. HIDE DEF E
      <4>. QED BY <2>2, <3>3, <4>1, <4>2
    <3>. QED BY <3>5, <3>6
  <2>. QED BY <2>4, <2>5
<1>4. Good(Len(seq))
  <2>. HIDE DEF Good
  <2>. QED BY <1>0, <1>3
<1>. QED BY <1>2, <1>4

\* Where the targets of a route go: of each site one target is kept.
OneOfEach(p) ==
  /\ \A j, k \in DOMAIN Kept(p) : GoesTo(Kept(p)[j][1]) = GoesTo(Kept(p)[k][1]) => j = k
  /\ \A i \in Eligible(p) : \E k \in DOMAIN Kept(p) : GoesTo(Kept(p)[k][1]) = GoesTo(route[p][i][1])

\* The first target of each site is kept and no other.
LEMMA KeptOnce ==
  ASSUME MigrationInv, NEW p \in Routed
  PROVE  OneOfEach(p)
<1>. DEFINE P == {i \in Eligible(p) : \A j \in Eligible(p) :
                    GoesTo(route[p][j][1]) = GoesTo(route[p][i][1]) => i <= j}
<1>. PICK A, seq : A = Living \X Names /\ seq = route[p]
  OBVIOUS
<1>. PICK Q : Q = P
  OBVIOUS
<1>1. seq \in Seq(A)
  BY Parts DEF LegacySide
<1>2. Kept(p) = Picked(seq, Q)
  BY Zenon DEF Kept
<1>3. Eligible(p) \subseteq DOMAIN seq /\ Eligible(p) \in SUBSET Nat /\ Q \subseteq Eligible(p)
  BY <1>1 DEF Eligible
<1>4. \A i, j \in Q : GoesTo(seq[i][1]) = GoesTo(seq[j][1]) => i = j
  <2>1. \A i, j \in Q : GoesTo(seq[i][1]) = GoesTo(seq[j][1]) => i <= j /\ j <= i
    OBVIOUS
  <2>2. \A i, j \in Q : i <= j /\ j <= i => i = j
    BY <1>3
  <2>. QED BY <2>1, <2>2, Zenon
<1>5. \A i \in Eligible(p) : \E j \in Q : GoesTo(seq[j][1]) = GoesTo(seq[i][1])
  <2>. SUFFICES ASSUME NEW i \in Eligible(p) PROVE \E j \in Q : GoesTo(seq[j][1]) = GoesTo(seq[i][1])
    OBVIOUS
  <2>. PICK S : S = {j \in Eligible(p) : GoesTo(seq[j][1]) = GoesTo(seq[i][1])}
    OBVIOUS
  <2>1. S \in SUBSET Nat /\ S # {}
    BY <1>3
  <2>2. PICK j \in S : \A m \in S : j <= m
    BY <2>1, LeastNumber
  <2>3. j \in Q
    BY <2>2
  <2>. QED BY <2>2, <2>3
<1>. HIDE DEF P
<1>. PICK kept : kept = Picked(seq, Q)
  OBVIOUS
<1>6. \A k \in DOMAIN kept : \E i \in Q : kept[k] = seq[i]
  <2>1. Picked(seq, Q) \in Seq({seq[i] : i \in DOMAIN seq \intersect Q})
    BY <1>1, PickedElements
  <2>. PICK B : B = {seq[i] : i \in DOMAIN seq \intersect Q}
    OBVIOUS
  <2>2. \A k \in DOMAIN kept : kept[k] \in B
    BY <2>1
  <2>. QED BY <2>2
<1>7. \A i \in Q : \E k \in DOMAIN kept : kept[k] = seq[i]
  <2>1. PicksAll(seq, Q)
    BY <1>1, PickedElements
  <2>. QED BY <1>3, <2>1 DEF PicksAll
<1>8. IsInjective(kept)
  <2>1. \A i, j \in DOMAIN seq \intersect Q : seq[i] = seq[j] => i = j
    BY <1>4
  <2>2. IsInjective(Picked(seq, Q))
    BY <1>1, <2>1, PickedApart
  <2>. QED BY <2>2
<1>9. ASSUME NEW j \in DOMAIN kept, NEW k \in DOMAIN kept, GoesTo(kept[j][1]) = GoesTo(kept[k][1])
      PROVE  j = k
  <2>1. PICK a \in Q : kept[j] = seq[a]
    BY <1>6
  <2>2. PICK b \in Q : kept[k] = seq[b]
    BY <1>6
  <2>3. a = b
    BY <1>4, <1>9, <2>1, <2>2
  <2>. QED BY <1>8, <2>1, <2>2, <2>3 DEF IsInjective
<1>10. ASSUME NEW i \in Eligible(p) PROVE \E k \in DOMAIN kept : GoesTo(kept[k][1]) = GoesTo(seq[i][1])
  <2>1. PICK j \in Q : GoesTo(seq[j][1]) = GoesTo(seq[i][1])
    BY <1>5
  <2>2. PICK k \in DOMAIN kept : kept[k] = seq[j]
    BY <1>7
  <2>. QED BY <2>1, <2>2
<1>. QED BY <1>2, <1>9, <1>10 DEF OneOfEach

\* Groups that share no site yet will not share one.
LEMMA StayApart ==
  ASSUME MigrationInv, GroupsApart, NEW o \in Groups, NEW q \in Groups, SiteOfGroup(o) = SiteOfGroup(q)
  PROVE  o = q
<1>1. MappedSites(o) = {} \/ MappedSites(q) = {} => o = q
  BY NewSiteOfOne
<1>2. ASSUME MappedSites(o) # {}, MappedSites(q) # {} PROVE o = q
  BY <1>2, GroupSite DEF GroupsApart
<1>. QED BY <1>1, <1>2

\* A target for every route and every site that it had a target of, which is a group
\* unless groups have been mapped to one site.
LEMMA TargetsCounted ==
  ASSUME Migrating, NEW T, T = UNION {{p} \X DOMAIN listing'[p].targets : p \in PendingRoutes}
  PROVE  IF GroupsApart THEN Cardinality(T) = Plan.targets ELSE Cardinality(T) <= Plan.targets
<1>0. MigrationInv /\ ReviewInv /\ ApplyLegacyMigrationPlan
  BY DEF Migrating
<1>. DEFINE origin(p, k) == upstream[Kept(p)[k][1]].origin
<1>. PICK O : O = UNION {{<<p, upstream[route[p][i][1]].origin>> : i \in Eligible(p)} : p \in PendingRoutes}
  OBVIOUS
<1>. PICK f : f = [x \in T |-> <<x[1], origin(x[1], x[2])>>]
  OBVIOUS
<1>1. \A p \in PendingRoutes : p \in Routed /\ DOMAIN listing'[p].targets = DOMAIN Kept(p)
  BY <1>0, ListingAfter
<1>2. \A x : x \in T <=> \E p \in PendingRoutes : \E k \in DOMAIN Kept(p) : x = <<p, k>>
  BY <1>1
<1>3. ASSUME NEW p \in PendingRoutes, NEW i \in Eligible(p)
      PROVE  /\ upstream[route[p][i][1]].origin \in Groups
             /\ GoesTo(route[p][i][1]) = SiteOfGroup(upstream[route[p][i][1]].origin)
  <2>. PICK A, seq : A = Living \X Names /\ seq = route[p]
    OBVIOUS
  <2>1. seq \in Seq(A)
    BY <1>0, <1>1, Parts DEF LegacySide
  <2>2. i \in DOMAIN seq
    BY DEF Eligible
  <2>3. seq[i][1] \in Living
    BY <2>1, <2>2
  <2>. QED BY <1>0, <2>3, GoesToSite
<1>4. ASSUME NEW p \in PendingRoutes, NEW k \in DOMAIN Kept(p)
      PROVE  /\ \E i \in Eligible(p) : Kept(p)[k] = route[p][i]
             /\ origin(p, k) \in Groups /\ GoesTo(Kept(p)[k][1]) = SiteOfGroup(origin(p, k))
  <2>1. PICK i \in Eligible(p) : Kept(p)[k] = route[p][i]
    BY <1>0, <1>1, KeptType DEF KeptOf
  <2>. QED BY <1>3, <2>1
<1>5. \A p \in PendingRoutes : OneOfEach(p)
  BY <1>0, <1>1, KeptOnce
<1>6. IsFiniteSet(O)
  <2>1. O \in SUBSET (PendingRoutes \X Groups)
    BY <1>3
  <2>2. IsFiniteSet(PendingRoutes) /\ IsFiniteSet(Groups)
    BY <1>0, GroupsFinite
  <2>3. IsFiniteSet(PendingRoutes \X Groups)
    BY <2>2, FS_Product
  <2>. QED BY <2>1, <2>3, FS_Subset
<1>7. f \in [T -> O]
  <2>. SUFFICES ASSUME NEW x \in T PROVE <<x[1], origin(x[1], x[2])>> \in O
    OBVIOUS
  <2>1. PICK p \in PendingRoutes : \E k \in DOMAIN Kept(p) : x = <<p, k>>
    BY <1>2
  <2>2. PICK k \in DOMAIN Kept(p) : x = <<p, k>>
    BY <2>1
  <2>3. PICK i \in Eligible(p) : Kept(p)[k] = route[p][i]
    BY <1>4
  <2>. QED BY <2>2, <2>3
<1>8. ASSUME NEW x \in T, NEW y \in T, f[x] = f[y] PROVE x = y
  <2>1. PICK p \in PendingRoutes : \E k \in DOMAIN Kept(p) : x = <<p, k>>
    BY <1>2
  <2>2. PICK j \in DOMAIN Kept(p) : x = <<p, j>>
    BY <2>1
  <2>3. PICK q \in PendingRoutes : \E k \in DOMAIN Kept(q) : y = <<q, k>>
    BY <1>2
  <2>4. PICK k \in DOMAIN Kept(q) : y = <<q, k>>
    BY <2>3
  <2>5. p = q /\ origin(p, j) = origin(q, k)
    BY <1>8, <2>2, <2>4
  <2>6. GoesTo(Kept(p)[j][1]) = GoesTo(Kept(p)[k][1])
    BY <1>4, <2>4, <2>5
  <2>. QED BY <1>5, <2>2, <2>4, <2>5, <2>6 DEF OneOfEach
<1>9. ASSUME GroupsApart, NEW z \in O PROVE \E x \in T : f[x] = z
  <2>1. PICK p \in PendingRoutes : \E i \in Eligible(p) : z = <<p, upstream[route[p][i][1]].origin>>
    OBVIOUS
  <2>2. PICK i \in Eligible(p) : z = <<p, upstream[route[p][i][1]].origin>>
    BY <2>1
  <2>3. PICK k \in DOMAIN Kept(p) : GoesTo(Kept(p)[k][1]) = GoesTo(route[p][i][1])
    BY <1>5 DEF OneOfEach
  <2>4. origin(p, k) = upstream[route[p][i][1]].origin
    <3>. PICK o, q : o = origin(p, k) /\ q = upstream[route[p][i][1]].origin
      OBVIOUS
    <3>1. o \in Groups /\ GoesTo(Kept(p)[k][1]) = SiteOfGroup(o)
      BY <1>4, <2>3
    <3>2. q \in Groups /\ GoesTo(route[p][i][1]) = SiteOfGroup(q)
      BY <1>3
    <3>3. o = q
      BY <1>0, <1>9, <2>3, <3>1, <3>2, StayApart
    <3>. QED BY <3>3
  <2>5. <<p, k>> \in T
    BY <1>2
  <2>. QED BY <2>2, <2>4, <2>5
<1>10. f \in Injection(T, O) /\ (GroupsApart => f \in Surjection(T, O))
  <2>1. f \in Injection(T, O)
    BY ZenonT(30), <1>7, <1>8 DEF Injection, IsInjective
  <2>2. GroupsApart => f \in Surjection(T, O)
    BY <1>7, <1>9 DEF Surjection
  <2>. QED BY <2>1, <2>2
<1>11. Cardinality(T) <= Cardinality(O) /\ (GroupsApart => Cardinality(T) = Cardinality(O))
  BY <1>6, <1>10, FS_Injection
<1>12. Plan.targets = Cardinality(O)
  BY DEF Plan
<1>. QED BY <1>11, <1>12

-----------------------------------------------------------------------------
(* What is left to do                                                        *)

\* Nothing: the next plan is empty, and nothing is in conflict with what was created.
LEMMA NothingLeft ==
  ASSUME Migrating
  PROVE  Plan' = NoPlan /\ ~HardConflict'
<1>0. /\ MigrationInv /\ ReviewInv /\ ~HardConflict /\ upstream' = upstream /\ route' = route
      /\ legacyAccount' = legacyAccount
  BY DEF Migrating, legacyRows
<1>1. /\ Groups' = Groups /\ Living' = Living /\ Routed' = Routed
      /\ \A o : GroupAccounts(o)' = GroupAccounts(o)
  BY <1>0 DEF Groups, Living, Routed, GroupAccounts, Members
<1>2. Pending' = {}
  <2>1. \A u \in Pending : GoesTo(u) # NoRow
    BY <1>0, GoesToSite, RowAssumption DEF Pending
  <2>2. \A u \in Living : u \in Upstreams /\ siteOf'[u] # NoRow
    BY <2>1, MigrationWrites DEF Pending, Living
  <2>. QED BY <1>1, <2>2 DEF Pending
<1>3. PendingRoutes' = {}
  <2>1. ASSUME NEW p \in Routed PROVE listing'[p] # NoRow /\ listing'[p].legacy
    <3>1. CASE p \in PendingRoutes
      <4>1. listing'[p] \in ListingRow /\ listing'[p].legacy = TRUE
        BY <1>0, <3>1, ListingAfter, MigrationWrites DEF Migrating
      <4>. QED BY <4>1, RowAssumption
    <3>2. CASE p \notin PendingRoutes
      <4>1. p \in Names /\ listing'[p] = listing[p]
        BY <3>2, MigrationWrites DEF Routed
      <4>. QED BY <3>2, <4>1 DEF PendingRoutes, Listed
    <3>. QED BY <3>1, <3>2
  <2>. QED BY <1>1, <2>1 DEF PendingRoutes, Listed, Routed
<1>4. ASSUME NEW o \in Groups PROVE MappedSites(o)' = {SiteOfGroup(o)}
  BY MappedAfter
<1>5. ASSUME NEW o \in Groups, GroupAccounts(o) # {}
      PROVE  ExistingAccounts(o)' = {AccountAfter(SiteOfGroup(o))}
  <2>. PICK s, account : s = SiteOfGroup(o) /\ account = AccountAfter(s)
    OBVIOUS
  <2>1. s \in Sites /\ Givers(s) # {}
    BY <1>0, <1>5, GroupSite DEF Givers, Sites
  <2>2. siteAccount'[s] = account /\ account # NoRow
    BY <1>0, <2>1, AccountAfterType, MigrationWrites, RowAssumption
  <2>3. MappedSites(o)' = {s}
    BY <1>4
  <2>. QED BY <2>2, <2>3 DEF ExistingAccounts
<1>6. AccountsToCreate' = {}
  BY <1>1, <1>5 DEF AccountsToCreate
<1>7. \A o \in Groups : ~UsageToCreate(o)'
  <2>. SUFFICES ASSUME NEW o \in Groups, NEW a \in GroupAccounts(o), a.usage # NoUsage,
                       \A e \in ExistingAccounts(o)' : e.usage = NoUsage
                PROVE  FALSE
    BY <1>1 DEF UsageToCreate
  <2>1. AccountAfter(SiteOfGroup(o)).usage = NoUsage
    BY <1>5
  <2>. QED BY <2>1, AccountsAgree
<1>8. \A o \in Groups : ~AccountConflict(o)'
  <2>. SUFFICES ASSUME NEW o \in Groups, AccountConflict(o)' PROVE FALSE
    OBVIOUS
  <2>. PICK account : account = AccountAfter(SiteOfGroup(o))
    OBVIOUS
  <2>1. GroupAccounts(o) # {}
    BY <1>1 DEF AccountConflict
  <2>2. \E a, b \in GroupAccounts(o) \union {account} : ~Agree(a, b)
    BY <1>1, <1>5, <2>1 DEF AccountConflict, Agree
  <2>3. \A a, b \in GroupAccounts(o) : Agree(a, b)
    BY <1>0, <2>1, GroupAgrees
  <2>4. \A a \in GroupAccounts(o) : Agree(a, account)
    BY AccountsAgree
  <2>5. \A a \in GroupAccounts(o) : Agree(account, a)
    BY <2>4 DEF Agree
  <2>6. Agree(account, account)
    BY DEF Agree
  <2>. QED BY <2>2, <2>3, <2>4, <2>5, <2>6
<1>9. ~HardConflict'
  <2>1. \A o \in Groups : ~(Cardinality(MappedSites(o)') > 1)
    <3>. SUFFICES ASSUME NEW o \in Groups PROVE ~(Cardinality(MappedSites(o)') > 1)
      OBVIOUS
    <3>1. Cardinality({SiteOfGroup(o)}) = 1
      BY FS_Singleton
    <3>. QED BY <1>4, <3>1
  <2>2. \A p \in Names : ~Collision(p)'
    BY <1>3 DEF Collision
  <2>. QED BY <1>1, <1>8, <2>1, <2>2 DEF HardConflict
<1>10. Cardinality({}) = 0
  BY FS_EmptySet
<1>11. {o \in Groups : MappedSites(o) = {}}' = {} /\ {o \in Groups : UsageToCreate(o)}' = {}
  BY <1>1, <1>4, <1>7
<1>12. {<<upstream[u].origin, Place(u)>> : u \in Pending}' = {}
  BY <1>2
<1>13. {<<upstream[m[1]].origin, Place(m[1]), m[2]>> :
          m \in {x \in Pending \X Names : source[x[1]][x[2]] # "none"}}' = {}
  BY <1>2
<1>14. (UNION {{<<p, upstream[route[p][i][1]].origin>> : i \in Eligible(p)} : p \in PendingRoutes})' = {}
  BY <1>3
<1>15. Plan' = NoPlan
  BY <1>2, <1>3, <1>6, <1>10, <1>11, <1>12, <1>13, <1>14 DEF Plan, NoPlan
<1>. QED BY <1>9, <1>15

-----------------------------------------------------------------------------
(* The reviewed plan is applied                                              *)

\* A step that migrates is such a migration, of the plan that was shown.
LEMMA ReviewedStep ==
  MigrationInv /\ ReviewInv /\ [MigrationNext]_migrationVars => [Migrates => AsReviewed]_migrationVars
<1>. SUFFICES ASSUME MigrationInv, ReviewInv, [MigrationNext]_migrationVars, Migrates PROVE AsReviewed
  OBVIOUS
<1>1. ~applied /\ applied'
  BY DEF Migrates
<1>2. ~LegacyEdit
  BY <1>1 DEF LegacyEdit, CreateUpstream, UpdateUpstream, WriteUpstream, DeleteUpstream, ApplyDiscoveredModels,
              WriteLegacyAccount, DeleteRoute, CreateRoute, UpdateRoute, ReorderRouteTargets, WriteRoute, Edited
<1>3. ~SiteEdit
  BY <1>1 DEF SiteEdit, CreateSite, DeleteSite, DeleteEndpoint, WriteSiteAccount, CreatePublished,
              DeletePublished, Edited
<1>4. PICK force \in BOOLEAN : ApplyLegacyMigration(force)
  BY <1>1, <1>2, <1>3 DEF MigrationNext, PreviewLegacyMigration, migrationVars
<1>5. Migrating /\ current
  BY <1>1, <1>4 DEF ApplyLegacyMigration, Reviewed, Migrating
<1>6. shown = Plan
  BY <1>5 DEF ReviewInv, ShownIsPlan
<1>7. Plan.keys = Cardinality(Pending) /\ Plan.published = Cardinality(PendingRoutes)
  BY DEF Plan
<1>. QED
  BY <1>5, <1>6, <1>7, SitesCounted, KeysCounted, ListingsCounted, AccountsCounted, TargetsCounted, NothingLeft
     DEF AsReviewed

\* What the administrator was shown is what is created, once.
THEOREM ReviewedApplied == MigrationSpec => ReviewedIsApplied
<1>1. MigrationSpec => []ReviewInv
  BY MigrationInvariant, ReviewInitInv, ReviewStepInv, PTL DEF MigrationSpec
<1>. QED BY <1>1, MigrationInvariant, ReviewedStep, PTL DEF MigrationSpec, ReviewedIsApplied

-----------------------------------------------------------------------------
(* The inductive invariant of the gateway                                    *)

\* How long the context of a request or a probe lives.
Patience(c) == IF c \in Requests THEN Deadline ELSE ProbeTimeout

\* No call outlives its context, which began when the request or the probe was
\* planned; the clock a caller remembers is never ahead, and a call has a target.
CallerInv ==
  \A c \in Party :
    /\ caller[c].since <= time
    /\ caller[c].pc \in {"flying", "streaming", "landed"} => caller[c].plan # <<>>
    /\ caller[c].pc \in {"flying", "streaming"} => time <= caller[c].until
    /\ caller[c].pc # "idle" => caller[c].until <= time + Patience(c)
    /\ caller[c].pc = "walk" => caller[c].until <= caller[c].since + Patience(c)
    /\ c \in Probes /\ caller[c].pc # "idle" => ProbeTimeout <= caller[c].until

\* A call let through since the circuit of its target last opened is covered by
\* the lease of that target until its context ends.
TrialInv ==
  \A t \in Targets :
    /\ trials[t] # {} => health[t].phase = "half_open"
    /\ \A c \in trials[t] : caller[c].pc \in {"flying", "streaming"} /\ Target(c) = t =>
         health[t].lease # NoTime /\ caller[c].until < health[t].lease

\* What a request has sent decides what is left to send and what it pays.
Consistent(k) ==
  /\ k.pc \in {"idle", "walk", "flying"} => k.reply = "none"
  /\ k.pc = "streaming" => k.reply = "stream"
  /\ k.pc \in {"landed", "finish"} => k.reply \in {"none", "stream"}
  /\ k.reply = "stream" => k.stream
  /\ k.pc = "finish" =>
       /\ k.reply = "stream" => k.answer = "none"
       /\ k.answer = "body" => (k.charge <=> k.outcome = "success")
  /\ k.pc = "deferred" => k.reply # "body"
  /\ k.pc \in {"finish", "deferred"} =>
       /\ k.reply = "stream" => k.charge
       /\ k.charge => k.reply = "stream" \/ k.outcome = "success"
  /\ k.pc # "done" => k.settled = "open"
  /\ k.pc = "done" =>
       /\ k.reply = "stream" => k.settled # "released"
       /\ k.reply = "body" => k.settled = IF k.outcome = "success" THEN "charged" ELSE "released"
       /\ k.settled = "charged" => k.reply = "stream" \/ k.outcome = "success"

ChargeInv == \A r \in Requests : Consistent(caller[r])

\* The inductive invariant.
LegacyInv == LegacyTypeOK /\ CallerInv /\ TrialInv /\ OneTrialPerTarget /\ ChargeInv

USE LegacyAssumption

-----------------------------------------------------------------------------
(* One caller goes on                                                        *)

\* A target of the route is the target at a position.
LEMMA RouteType == Route \in Seq(Targets)
BY DEF Targets

\* The goroutine of c has its new fields, the others keep theirs.
LEMMA CallerMoves ==
  ASSUME LegacyTypeOK, NEW c \in Party, NEW next \in CallerRow, Becomes(c, next)
  PROVE  /\ caller' \in [Party -> CallerRow]
         /\ \A d \in Party \ {c} : caller'[d] = caller[d]
         /\ caller'[c].pc = next.pc /\ caller'[c].plan = next.plan
         /\ caller'[c].budget = next.budget /\ caller'[c].stream = next.stream
         /\ caller'[c].client = next.client /\ caller'[c].until = next.until
         /\ caller'[c].outcome = next.outcome /\ caller'[c].charge = next.charge
         /\ caller'[c].answer = next.answer /\ caller'[c].reply = next.reply
         /\ caller'[c].settled = next.settled
         /\ caller'[c].since = IF next.pc \in {"walk", "landed"} THEN time ELSE 0
<1>. DEFINE row == [next EXCEPT !.since = IF next.pc \in {"walk", "landed"} THEN time ELSE 0]
<1>1. time \in Nat
  BY DEF LegacyTypeOK
<1>2. /\ row \in CallerRow
      /\ row.pc = next.pc /\ row.plan = next.plan
      /\ row.budget = next.budget /\ row.stream = next.stream
      /\ row.client = next.client /\ row.until = next.until
      /\ row.outcome = next.outcome /\ row.charge = next.charge
      /\ row.answer = next.answer /\ row.reply = next.reply
      /\ row.settled = next.settled
      /\ row.since = IF next.pc \in {"walk", "landed"} THEN time ELSE 0
  BY <1>1 DEF CallerRow
<1>3. caller' = [caller EXCEPT ![c] = row]
  BY DEF Becomes
<1>. HIDE DEF row
<1>. QED
  BY <1>2, <1>3 DEF LegacyTypeOK

\* A clock read before a statement is a number and not ahead.
LEMMA StampsPast ==
  ASSUME LegacyTypeOK, NEW c \in Party, NEW now \in Stamps(c)
  PROVE  now \in Nat /\ caller[c].since <= now /\ now <= time
BY DEF Stamps, LegacyTypeOK, CallerRow

\* The clock of a permit, too.
LEMMA PermitStampsPast ==
  ASSUME LegacyTypeOK, CallerInv, NEW c \in Party, NEW now \in PermitStamps(c)
  PROVE  now \in Nat /\ caller[c].since <= now /\ now <= time
BY SMTT(30), StampsPast DEF PermitStamps, CallerInv, LegacyTypeOK, CallerRow

\* A caller with candidates left has a target, and a shorter plan after it.
LEMMA PlanLeft ==
  ASSUME LegacyTypeOK, NEW c \in Party, caller[c].plan # <<>>
  PROVE  Target(c) \in Targets /\ Tail(caller[c].plan) \in Seq(Targets)
BY DEF LegacyTypeOK, CallerRow, Target

\* What the loop of OrderedEligible adds to the plan at position i.
Grows(plan, i) ==
  IF i = 0 THEN <<>>
  ELSE IF Candidate(Route[i]) THEN Append(plan[i - 1], Route[i]) ELSE plan[i - 1]

\* The loop runs over every first part of the route.  A shortest part over
\* which it did not would not be empty, and one position longer than one over
\* which it did.
LEMMA LoopRuns == \E plan : plan = [i \in 0..Len(Route) |-> Grows(plan, i)]
<1>. DEFINE Runs(n) == \E plan : plan = [i \in 0..n |-> Grows(plan, i)]
            S == {n \in 0..Len(Route) : ~Runs(n)}
<1>0. Len(Route) \in Nat
  BY RouteType
<1>1. Runs(0)
  <2>. DEFINE plan == [i \in 0..0 |-> <<>>]
  <2>1. plan = [i \in 0..0 |-> Grows(plan, i)]
    BY DEF Grows
  <2>. QED BY <2>1
<1>2. ASSUME NEW n \in Nat \ {0}, Runs(n - 1) PROVE Runs(n)
  <2>1. PICK short : short = [i \in 0..(n - 1) |-> Grows(short, i)]
    BY <1>2
  <2>. DEFINE plan == [i \in 0..n |-> IF i = n THEN Grows(short, n) ELSE short[i]]
  <2>2. \A i \in 0..n : plan[i] = Grows(plan, i)
    <3>. SUFFICES ASSUME NEW i \in 0..n PROVE plan[i] = Grows(plan, i)
      OBVIOUS
    <3>1. Grows(plan, i) = Grows(short, i)
      <4>1. i # 0 => plan[i - 1] = short[i - 1]
        OBVIOUS
      <4>. HIDE DEF plan
      <4>. QED BY <4>1 DEF Grows
    <3>2. ASSUME i # n PROVE short[i] = Grows(short, i)
      <4>1. i \in 0..(n - 1)
        BY <3>2
      <4>. QED BY <2>1, <4>1, Zenon
    <3>. QED BY <3>1, <3>2
  <2>3. plan = [i \in 0..n |-> plan[i]]
    OBVIOUS
  <2>. HIDE DEF plan
  <2>4. plan = [i \in 0..n |-> Grows(plan, i)]
    BY <2>2, <2>3, Zenon
  <2>. QED BY <2>4
<1>. HIDE DEF Runs
<1>3. ASSUME S # {} PROVE FALSE
  <2>0. S \in SUBSET Nat
    BY <1>0
  <2>. PICK T : T = S
    OBVIOUS
  <2>1. PICK n \in T : \A m \in T : n <= m
    <3>. HIDE DEF S
    <3>. QED BY <1>3, <2>0, LeastNumber
  <2>2. n # 0
    BY <1>1, <2>1
  <2>3. Runs(n - 1)
    BY SMTT(30), <1>0, <2>1, <2>2
  <2>. QED BY <1>2, <2>1, <2>2, <2>3
<1>4. Runs(Len(Route))
  BY <1>0, <1>3
<1>. QED BY <1>4 DEF Runs

\* The plan of a request is a sequence of targets.
LEMMA EligibleType == OrderedEligible \in Seq(Targets)
<1>. DEFINE plan == CHOOSE plan : plan = [i \in 0..Len(Route) |-> Grows(plan, i)]
            S == {i \in 0..Len(Route) : plan[i] \notin Seq(Targets)}
<1>0. Len(Route) \in Nat
  BY RouteType
<1>1. plan = [i \in 0..Len(Route) |-> Grows(plan, i)]
  BY LoopRuns, Zenon
<1>2. OrderedEligible = plan[Len(Route)]
  BY Zenon DEF OrderedEligible, Grows
<1>. HIDE DEF plan
<1>3. ASSUME S # {} PROVE FALSE
  <2>0. S \in SUBSET Nat
    BY <1>0
  <2>. PICK T : T = S
    OBVIOUS
  <2>1. PICK i \in T : \A j \in T : i <= j
    <3>. HIDE DEF S
    <3>. QED BY <1>3, <2>0, LeastNumber
  <2>2. plan[i] = Grows(plan, i)
    BY <1>1
  <2>3. CASE i = 0
    <3>1. plan[i] = <<>>
      BY <2>2, <2>3 DEF Grows
    <3>2. <<>> \in Seq(Targets)
      OBVIOUS
    <3>. QED BY <2>1, <3>1, <3>2
  <2>4. CASE i # 0
    <3>1. i \in DOMAIN Route /\ i \in 1..Len(Route) /\ i - 1 \in 0..Len(Route)
      BY <1>0, <2>4, RouteType
    <3>2. plan[i - 1] \in Seq(Targets)
      BY SMTT(30), <1>0, <2>1, <3>1
    <3>3. Route[i] \in Targets
      BY <3>1 DEF Targets
    <3>4. plan[i] \in Seq(Targets)
      BY <2>2, <2>4, <3>2, <3>3 DEF Grows
    <3>. QED BY <2>1, <3>4
  <2>. QED BY <2>3, <2>4
<1>. QED
  BY <1>0, <1>2, <1>3

-----------------------------------------------------------------------------
(* Steps that change no row                                                  *)

\* One caller goes on, without taking a permit or reporting.
LEMMA QuietMove ==
  ASSUME LegacyInv, NEW c \in Party, NEW next \in CallerRow, Becomes(c, next),
         time' = time /\ health' = health /\ credential' = credential /\ trials' = trials,
         next.pc \in {"flying", "streaming", "landed"} =>
           /\ caller[c].pc \in {"flying", "streaming"}
           /\ next.until = caller[c].until /\ next.plan = caller[c].plan,
         next.pc # "idle" => /\ next.until <= time + Patience(c)
                             /\ c \in Probes => ProbeTimeout <= next.until,
         c \in Requests => Consistent(next)
  PROVE  LegacyInv'
<1>0. LegacyTypeOK /\ time \in Nat
  BY DEF LegacyInv, LegacyTypeOK
<1>1. /\ caller' \in [Party -> CallerRow]
      /\ \A d \in Party \ {c} : caller'[d] = caller[d]
      /\ caller'[c].pc = next.pc /\ caller'[c].plan = next.plan
      /\ caller'[c].until = next.until
      /\ caller'[c].since = IF next.pc \in {"walk", "landed"} THEN time ELSE 0
  BY <1>0, CallerMoves
<1>2. LegacyTypeOK'
  BY <1>0, <1>1 DEF LegacyTypeOK
<1>3. CallerInv'
  <2>. SUFFICES ASSUME NEW d \in Party
                PROVE  /\ caller'[d].since <= time
                       /\ caller'[d].pc \in {"flying", "streaming", "landed"} => caller'[d].plan # <<>>
                       /\ caller'[d].pc \in {"flying", "streaming"} => time <= caller'[d].until
                       /\ caller'[d].pc # "idle" => caller'[d].until <= time + Patience(d)
                       /\ caller'[d].pc = "walk" => caller'[d].until <= caller'[d].since + Patience(d)
                       /\ d \in Probes /\ caller'[d].pc # "idle" => ProbeTimeout <= caller'[d].until
    BY DEF CallerInv, Patience
  <2>1. CASE d # c
    BY <1>1, <2>1 DEF LegacyInv, CallerInv
  <2>2. CASE d = c
    BY <1>0, <1>1, <2>2 DEF LegacyInv, CallerInv
  <2>. QED BY <2>1, <2>2
<1>4. ASSUME NEW d \in Party, NEW t, caller'[d].pc \in {"flying", "streaming"}, Target(d)' = t
      PROVE  /\ caller[d].pc \in {"flying", "streaming"} /\ Target(d) = t
             /\ caller'[d].until = caller[d].until
  BY <1>1, <1>4 DEF Target
<1>5. TrialInv'
  BY <1>0, <1>4 DEF LegacyInv, TrialInv, LegacyTypeOK
<1>6. OneTrialPerTarget'
  BY <1>0, <1>4 DEF LegacyInv, OneTrialPerTarget, LegacyTypeOK
<1>7. ChargeInv'
  <2>1. ASSUME c \in Requests PROVE Consistent(caller'[c])
    <3>1. Consistent(next)
      BY <2>1
    <3>2. /\ caller'[c].stream = next.stream /\ caller'[c].outcome = next.outcome
          /\ caller'[c].charge = next.charge /\ caller'[c].answer = next.answer
          /\ caller'[c].reply = next.reply /\ caller'[c].settled = next.settled
      BY <1>0, CallerMoves
    <3>. QED BY <1>1, <3>1, <3>2 DEF Consistent
  <2>2. \A d \in Requests \ {c} : caller'[d] = caller[d] /\ Consistent(caller[d])
    BY <1>1 DEF LegacyInv, ChargeInv, Party
  <2>. QED BY <2>1, <2>2 DEF ChargeInv
<1>. QED
  BY <1>2, <1>3, <1>5, <1>6, <1>7 DEF LegacyInv

\* A caller's row and what it implies, in one place.
LEMMA CallerKnows ==
  ASSUME LegacyInv, NEW c \in Party
  PROVE  /\ caller[c] \in CallerRow /\ time \in Nat /\ Patience(c) \in Nat
         /\ caller[c].since <= time
         /\ caller[c].pc \in {"flying", "streaming", "landed"} => caller[c].plan # <<>>
         /\ caller[c].pc \in {"flying", "streaming"} => time <= caller[c].until
         /\ caller[c].pc # "idle" => caller[c].until <= time + Patience(c)
         /\ caller[c].pc = "walk" => caller[c].until <= caller[c].since + Patience(c)
         /\ c \in Probes /\ caller[c].pc # "idle" => ProbeTimeout <= caller[c].until
         /\ c \in Requests => Consistent(caller[c])
BY DEF LegacyInv, LegacyTypeOK, CallerInv, ChargeInv, Patience

\* Giving up with an error, or ending with what is due.
LEMMA FinishingRow ==
  ASSUME LegacyInv, NEW c \in Party, NEW charge \in BOOLEAN, NEW answer \in {"none", "body", "error"}
  PROVE  /\ Finishing(c, charge, answer) \in CallerRow
         /\ Finishing(c, charge, answer).pc = "finish"
         /\ Finishing(c, charge, answer).until = caller[c].until
         /\ Finishing(c, charge, answer).plan = caller[c].plan
         /\ Finishing(c, charge, answer).reply = caller[c].reply
         /\ Finishing(c, charge, answer).stream = caller[c].stream
         /\ Finishing(c, charge, answer).outcome = caller[c].outcome
         /\ Finishing(c, charge, answer).settled = caller[c].settled
         /\ Finishing(c, charge, answer).charge = charge
         /\ Finishing(c, charge, answer).answer = answer
<1>1. caller[c] \in CallerRow
  BY CallerKnows
<1>2. Finishing(c, charge, answer) \in CallerRow
  BY <1>1 DEF Finishing, CallerRow
<1>. QED
  BY <1>1, <1>2 DEF Finishing, CallerRow

\* A request is planned.
LEMMA PlanRequestKeeps ==
  ASSUME LegacyInv, NEW r \in Requests, NEW n \in Budgets, NEW s \in BOOLEAN, PlanRequest(r, n, s)
  PROVE  LegacyInv'
<1>. DEFINE next == [caller[r] EXCEPT !.pc = "walk", !.plan = OrderedEligible, !.stream = s,
                       !.budget = IF n > Len(OrderedEligible) THEN Len(OrderedEligible) ELSE n,
                       !.until = time + Deadline]
<1>0. r \in Party /\ Patience(r) = Deadline /\ r \notin Probes
  BY DEF Party, Patience
<1>1. /\ Becomes(r, next) /\ caller[r].pc = "idle"
      /\ time' = time /\ health' = health /\ credential' = credential /\ trials' = trials
  BY DEF PlanRequest
<1>2. /\ caller[r] \in CallerRow /\ time \in Nat /\ Consistent(caller[r])
  BY <1>0, CallerKnows
<1>3. (IF n > Len(OrderedEligible) THEN Len(OrderedEligible) ELSE n) \in Nat /\ time + Deadline \in Nat
  BY <1>2, EligibleType
<1>4. next \in CallerRow
  BY <1>2, <1>3, EligibleType DEF CallerRow
<1>5. /\ next.pc = "walk" /\ next.until = time + Deadline /\ next.reply = caller[r].reply
      /\ next.settled = caller[r].settled
  BY <1>2 DEF CallerRow
<1>6. Consistent(next)
  BY <1>1, <1>2, <1>5 DEF Consistent
<1>. HIDE DEF next
<1>. QED
  BY SMTT(30), <1>0, <1>1, <1>2, <1>4, <1>5, <1>6, QuietMove

\* A probe is planned.
LEMMA PlanProbeKeeps ==
  ASSUME LegacyInv, NEW p \in Probes, NEW t \in Targets, PlanProbe(p, t)
  PROVE  LegacyInv'
<1>. DEFINE next == [caller[p] EXCEPT !.pc = "walk", !.plan = <<t>>, !.budget = 1,
                                      !.until = time + ProbeTimeout]
<1>0. p \in Party /\ Patience(p) = ProbeTimeout /\ p \notin Requests
  BY DEF Party, Patience
<1>1. /\ Becomes(p, next)
      /\ time' = time /\ health' = health /\ credential' = credential /\ trials' = trials
  BY DEF PlanProbe
<1>2. caller[p] \in CallerRow /\ time \in Nat
  BY <1>0, CallerKnows
<1>3. next \in CallerRow /\ next.pc = "walk" /\ next.until = time + ProbeTimeout
  <2>1. <<t>> \in Seq(Targets) /\ time + ProbeTimeout \in Nat
    BY <1>2
  <2>. PICK plan, until : plan = <<t>> /\ until = time + ProbeTimeout
    OBVIOUS
  <2>2. /\ [caller[p] EXCEPT !.pc = "walk", !.plan = plan, !.budget = 1, !.until = until] \in CallerRow
        /\ [caller[p] EXCEPT !.pc = "walk", !.plan = plan, !.budget = 1, !.until = until].pc = "walk"
        /\ [caller[p] EXCEPT !.pc = "walk", !.plan = plan, !.budget = 1, !.until = until].until = until
    BY <1>2, <2>1 DEF CallerRow
  <2>. QED BY <2>2
<1>4. next.until <= time + Patience(p) /\ ProbeTimeout <= next.until
  BY <1>0, <1>2, <1>3
<1>. HIDE DEF next
<1>. QED
  BY <1>0, <1>1, <1>2, <1>3, <1>4, QuietMove

\* A caller stops walking.
LEMMA GivesUpKeeps ==
  ASSUME LegacyInv, NEW c \in Party, caller[c].pc = "walk",
         Becomes(c, Finishing(c, FALSE, "error")),
         time' = time /\ health' = health /\ credential' = credential /\ trials' = trials
  PROVE  LegacyInv'
<1>. PICK next : next = Finishing(c, FALSE, "error")
  OBVIOUS
<1>1. /\ next \in CallerRow /\ next.pc = "finish" /\ next.until = caller[c].until
      /\ next.reply = caller[c].reply /\ next.stream = caller[c].stream
      /\ next.settled = caller[c].settled /\ next.charge = FALSE /\ next.answer = "error"
  BY FinishingRow
<1>2. c \in Requests => Consistent(next)
  BY <1>1, CallerKnows DEF Consistent
<1>. QED
  BY <1>1, <1>2, CallerKnows, QuietMove

\* A call commits its stream or lands.
LEMMA CallKeeps ==
  ASSUME LegacyInv, NEW c \in Party,
         \/ /\ c \in Requests
            /\ StreamCommits(c) \/ (\E o \in Outcome : CallEnds(c, o)) \/ ClientGone(c)
         \/ c \in Probes /\ \E o \in Outcome : ProbeCallEnds(c, o)
  PROVE  LegacyInv'
<1>0. /\ caller[c] \in CallerRow /\ time \in Nat /\ (c \in Requests => Consistent(caller[c]))
  BY CallerKnows
<1>1. CASE c \in Requests /\ StreamCommits(c)
  <2>. DEFINE next == [caller[c] EXCEPT !.pc = "streaming", !.reply = "stream"]
  <2>1. /\ Becomes(c, next) /\ caller[c].pc = "flying" /\ caller[c].stream
        /\ time' = time /\ health' = health /\ credential' = credential /\ trials' = trials
    BY <1>1 DEF StreamCommits
  <2>2. /\ next \in CallerRow /\ next.pc = "streaming" /\ next.until = caller[c].until
        /\ next.plan = caller[c].plan /\ next.reply = "stream" /\ next.stream = caller[c].stream
        /\ next.settled = caller[c].settled
    BY <1>0 DEF CallerRow
  <2>. HIDE DEF next
  <2>3. Consistent(next)
    BY <1>0, <1>1, <2>1, <2>2 DEF Consistent
  <2>. QED BY <2>1, <2>2, <2>3, CallerKnows, QuietMove
<1>2. ASSUME NEW o \in Outcome, CallLands(c, o), caller[c].pc \in {"flying", "streaming"}
      PROVE  LegacyInv'
  <2>. DEFINE next == [caller[c] EXCEPT !.pc = "landed", !.outcome = o]
  <2>1. /\ Becomes(c, next)
        /\ time' = time /\ health' = health /\ credential' = credential /\ trials' = trials
    BY <1>2 DEF CallLands
  <2>2. /\ next \in CallerRow /\ next.pc = "landed" /\ next.until = caller[c].until
        /\ next.plan = caller[c].plan
        /\ next.reply = caller[c].reply /\ next.stream = caller[c].stream
        /\ next.settled = caller[c].settled
    BY <1>0 DEF CallerRow
  <2>. HIDE DEF next
  <2>3. c \in Requests => Consistent(next)
    BY <1>0, <1>2, <2>2 DEF Consistent
  <2>. QED BY <1>2, <2>1, <2>2, <2>3, CallerKnows, QuietMove
<1>3. CASE c \in Requests /\ \E o \in Outcome : CallEnds(c, o)
  BY <1>2, <1>3 DEF CallEnds
<1>4. CASE c \in Probes /\ \E o \in Outcome : ProbeCallEnds(c, o)
  BY <1>2, <1>4 DEF ProbeCallEnds
<1>5. CASE c \in Requests /\ ClientGone(c)
  <2>. PICK charge \in BOOLEAN, answer \in {"none", "error"} :
         charge = (caller[c].reply = "stream") /\ answer = IF charge THEN "none" ELSE "error"
    OBVIOUS
  <2>. PICK next : next = Finishing(c, charge, answer)
    OBVIOUS
  <2>1. /\ Becomes(c, next) /\ caller[c].pc \in {"flying", "streaming"}
        /\ time' = time /\ health' = health /\ credential' = credential /\ trials' = trials
    BY <1>5 DEF ClientGone
  <2>2. /\ next \in CallerRow /\ next.pc = "finish" /\ next.until = caller[c].until
        /\ next.reply = caller[c].reply /\ next.stream = caller[c].stream
        /\ next.settled = caller[c].settled /\ next.charge = charge /\ next.answer = answer
    BY ZenonT(30), FinishingRow
  <2>3. Consistent(next)
    BY <1>0, <1>5, <2>1, <2>2 DEF Consistent
  <2>. QED BY <2>1, <2>2, <2>3, CallerKnows, QuietMove
<1>. QED
  BY <1>1, <1>3, <1>4, <1>5

\* What a report leads to, whether or not it was recorded.
LEMMA ReportedRow ==
  ASSUME LegacyInv, NEW c \in Party, caller[c].pc = "landed", NEW recorded \in BOOLEAN
  PROVE  /\ Reported(c, recorded) \in CallerRow
         /\ Reported(c, recorded).pc \in {"walk", "finish", "done"}
         /\ Reported(c, recorded).until = caller[c].until
         /\ c \in Requests => Consistent(Reported(c, recorded))
<1>0. /\ caller[c] \in CallerRow /\ (c \in Requests => Consistent(caller[c]))
  BY CallerKnows
<1>. DEFINE after == Reported(c, recorded)
<1>1. CASE c \in Probes
  <2>1. after = [caller[c] EXCEPT !.pc = "done"] /\ c \notin Requests
    BY <1>1 DEF Reported
  <2>. HIDE DEF after
  <2>2. after \in CallerRow /\ after.pc = "done" /\ after.until = caller[c].until
    BY <1>0, <2>1 DEF CallerRow
  <2>. QED BY <2>1, <2>2 DEF after
<1>2. ASSUME c \in Requests, NEW charge \in BOOLEAN, NEW answer \in {"none", "body", "error"},
             after = Finishing(c, charge, answer),
             caller[c].reply = "stream" => charge /\ answer = "none",
             answer = "body" => (charge <=> caller[c].outcome = "success"),
             charge => caller[c].reply = "stream" \/ caller[c].outcome = "success"
      PROVE  /\ after \in CallerRow /\ after.pc \in {"walk", "finish", "done"}
             /\ after.until = caller[c].until
             /\ c \in Requests => Consistent(after)
  <2>. HIDE DEF after
  <2>1. /\ after \in CallerRow /\ after.pc = "finish" /\ after.until = caller[c].until
        /\ after.reply = caller[c].reply /\ after.stream = caller[c].stream
        /\ after.settled = caller[c].settled /\ after.charge = charge /\ after.answer = answer
        /\ after.outcome = caller[c].outcome
    BY <1>2, FinishingRow
  <2>2. Consistent(after)
    BY <1>0, <1>2, <2>1 DEF Consistent
  <2>. QED BY <2>1, <2>2
<1>3. CASE c \in Requests /\ Charged(c)
  <2>. PICK answer \in {"none", "body"} : answer = IF caller[c].stream THEN "none" ELSE "body"
    OBVIOUS
  <2>1. after = Finishing(c, TRUE, answer) /\ c \notin Probes
    BY <1>3 DEF Reported
  <2>2. /\ caller[c].reply = "stream" => caller[c].stream
        /\ caller[c].reply = "stream" \/ caller[c].outcome = "success"
    BY <1>0, <1>3 DEF Consistent, Charged
  <2>3. answer = "body" => caller[c].outcome = "success"
    BY <2>2
  <2>4. caller[c].reply = "stream" => answer = "none"
    BY <2>2
  <2>. HIDE DEF after
  <2>5. answer \in {"none", "body", "error"}
    OBVIOUS
  <2>. QED BY <1>2, <1>3, <2>1, <2>2, <2>3, <2>4, <2>5 DEF after
<1>4. CASE c \in Requests /\ ~Charged(c) /\ ~recorded
  <2>1. after = Finishing(c, FALSE, "error") /\ caller[c].reply # "stream"
    BY <1>4 DEF Reported, Charged
  <2>. HIDE DEF after
  <2>. QED BY <1>2, <1>4, <2>1 DEF after
<1>5. CASE c \in Requests /\ ~Charged(c) /\ recorded /\ caller[c].outcome = "client"
  <2>1. after = Finishing(c, FALSE, "body") /\ caller[c].reply # "stream"
    BY <1>5 DEF Reported, Charged
  <2>. HIDE DEF after
  <2>. QED BY <1>2, <1>5, <2>1 DEF after
<1>6. CASE c \in Requests /\ ~Charged(c) /\ recorded /\ caller[c].outcome # "client"
  <2>1. after = [caller[c] EXCEPT !.pc = "walk", !.plan = Tail(caller[c].plan)]
    BY <1>6 DEF Reported
  <2>. HIDE DEF after
  <2>2. Tail(caller[c].plan) \in Seq(Targets)
    BY <1>0, CallerKnows DEF CallerRow
  <2>3. /\ after \in CallerRow /\ after.pc = "walk" /\ after.until = caller[c].until
        /\ after.reply = caller[c].reply /\ after.stream = caller[c].stream
        /\ after.settled = caller[c].settled
    BY <1>0, <2>1, <2>2 DEF CallerRow
  <2>4. Consistent(after)
    BY <1>0, <1>6, <2>3 DEF Consistent, Charged
  <2>. QED BY <2>3, <2>4 DEF after
<1>. QED
  BY <1>1, <1>3, <1>4, <1>5, <1>6 DEF Party

\* A result that could not be stored.
LEMMA ReportFailsKeeps ==
  ASSUME LegacyInv, NEW c \in Party, ReportFails(c)
  PROVE  LegacyInv'
<1>. PICK next : next = Reported(c, FALSE)
  OBVIOUS
<1>1. /\ Becomes(c, next) /\ caller[c].pc = "landed"
      /\ time' = time /\ health' = health /\ credential' = credential /\ trials' = trials
  BY DEF ReportFails
<1>2. /\ next \in CallerRow /\ next.pc \in {"walk", "finish", "done"} /\ next.until = caller[c].until
      /\ c \in Requests => Consistent(next)
  BY <1>1, ReportedRow
<1>. QED
  BY <1>1, <1>2, CallerKnows, QuietMove

\* A settlement succeeds, fails or is repeated.
LEMMA SettlementKeeps ==
  ASSUME LegacyInv, NEW r \in Requests, FinishSucceeds(r) \/ FinishFails(r) \/ DeferredFinish(r)
  PROVE  LegacyInv'
<1>0. /\ r \in Party /\ caller[r] \in CallerRow /\ Consistent(caller[r])
  BY CallerKnows DEF Party
<1>1. ASSUME caller[r].pc \in {"finish", "deferred"},
             NEW pc \in {"deferred", "done"}, NEW reply \in {"none", "stream", "body", "error"},
             NEW settled \in {"open", "charged", "released"},
             Becomes(r, [caller[r] EXCEPT !.pc = pc, !.reply = reply, !.settled = settled]),
             time' = time /\ health' = health /\ credential' = credential /\ trials' = trials,
             pc = "deferred" => settled = "open" /\ reply # "body",
             reply = "stream" => caller[r].stream /\ caller[r].charge,
             caller[r].charge => reply = "stream" \/ caller[r].outcome = "success",
             pc = "done" =>
               /\ settled = "open" \/ settled = Settlement(r)
               /\ reply = "body" => /\ settled = Settlement(r)
                                    /\ caller[r].charge <=> caller[r].outcome = "success"
      PROVE  LegacyInv'
  <2>. DEFINE next == [caller[r] EXCEPT !.pc = pc, !.reply = reply, !.settled = settled]
  <2>1. /\ next \in CallerRow /\ next.pc = pc /\ next.until = caller[r].until
        /\ next.reply = reply /\ next.settled = settled /\ next.stream = caller[r].stream
        /\ next.charge = caller[r].charge /\ next.outcome = caller[r].outcome
    BY <1>0 DEF CallerRow
  <2>2. Becomes(r, next)
    BY <1>1
  <2>. HIDE DEF next
  <2>3. Consistent(next)
    <3>1. CASE pc = "deferred"
      BY <1>1, <2>1, <3>1 DEF Consistent
    <3>2. CASE pc = "done"
      BY <1>1, <2>1, <3>2 DEF Consistent, Settlement
    <3>. QED BY <3>1, <3>2
  <2>. QED BY <1>0, <1>1, <2>1, <2>2, <2>3, CallerKnows, QuietMove
<1>2. Settlement(r) \in {"charged", "released"}
  BY DEF Settlement
<1>3. caller[r].charge \in BOOLEAN
  BY <1>0 DEF CallerRow
<1>4. CASE FinishSucceeds(r)
  <2>. PICK reply : reply = Answered(r, caller[r].answer)
    OBVIOUS
  <2>. PICK settled \in {"charged", "released"} : settled = Settlement(r)
    BY <1>2
  <2>1. caller[r].pc = "finish"
    BY <1>4 DEF FinishSucceeds
  <2>2. /\ Becomes(r, [caller[r] EXCEPT !.pc = "done", !.settled = settled, !.reply = reply])
        /\ time' = time /\ health' = health /\ credential' = credential /\ trials' = trials
    BY <1>4 DEF FinishSucceeds
  <2>3. [caller[r] EXCEPT !.pc = "done", !.settled = settled, !.reply = reply]
          = [caller[r] EXCEPT !.pc = "done", !.reply = reply, !.settled = settled]
    BY <1>0 DEF CallerRow
  <2>4. /\ reply \in {"none", "stream", "body", "error"}
        /\ reply = "stream" => caller[r].stream /\ caller[r].charge
        /\ caller[r].charge => reply = "stream" \/ caller[r].outcome = "success"
        /\ reply = "body" => (caller[r].charge <=> caller[r].outcome = "success")
    BY <1>0, <1>3, <2>1 DEF Consistent, Answered, CallerRow
  <2>. QED BY <1>1, <2>1, <2>2, <2>3, <2>4
<1>5. CASE FinishFails(r)
  <2>. PICK reply : reply = Answered(r, "error")
    OBVIOUS
  <2>1. caller[r].pc = "finish" /\ caller[r].settled = "open"
    BY <1>0, <1>5 DEF FinishFails, Consistent
  <2>2. /\ Becomes(r, [caller[r] EXCEPT !.pc = "deferred", !.reply = reply])
        /\ time' = time /\ health' = health /\ credential' = credential /\ trials' = trials
    BY <1>5 DEF FinishFails
  <2>3. [caller[r] EXCEPT !.pc = "deferred", !.reply = reply]
          = [caller[r] EXCEPT !.pc = "deferred", !.reply = reply, !.settled = "open"]
    BY <1>0, <2>1 DEF CallerRow
  <2>4. /\ reply \in {"none", "stream", "error"}
        /\ reply = "stream" => caller[r].stream /\ caller[r].charge
        /\ caller[r].charge => reply = "stream" \/ caller[r].outcome = "success"
    BY <1>0, <2>1 DEF Consistent, Answered, CallerRow
  <2>. QED BY <1>1, <2>1, <2>2, <2>3, <2>4
<1>6. CASE DeferredFinish(r)
  <2>. PICK settled \in {Settlement(r), caller[r].settled} :
         Becomes(r, [caller[r] EXCEPT !.pc = "done", !.settled = settled])
    BY <1>6 DEF DeferredFinish
  <2>. PICK reply : reply = caller[r].reply
    OBVIOUS
  <2>1. caller[r].pc = "deferred" /\ caller[r].settled = "open"
    BY <1>0, <1>6 DEF DeferredFinish, Consistent
  <2>2. time' = time /\ health' = health /\ credential' = credential /\ trials' = trials
    BY <1>6 DEF DeferredFinish
  <2>3. [caller[r] EXCEPT !.pc = "done", !.settled = settled]
          = [caller[r] EXCEPT !.pc = "done", !.reply = reply, !.settled = settled]
    BY <1>0 DEF CallerRow
  <2>4. /\ reply \in {"none", "stream", "error"}
        /\ reply = "stream" => caller[r].stream /\ caller[r].charge
        /\ caller[r].charge => reply = "stream" \/ caller[r].outcome = "success"
    BY <1>0, <2>1 DEF Consistent, CallerRow
  <2>5. settled \in {"open", "charged", "released"} /\ (settled = "open" \/ settled = Settlement(r))
    BY <1>2, <2>1
  <2>. QED BY <1>1, <2>1, <2>2, <2>3, <2>4, <2>5
<1>. QED
  BY <1>4, <1>5, <1>6

\* A probe that was refused is over.
LEMMA ProbeSkippedKeeps ==
  ASSUME LegacyInv, NEW p \in Probes, ProbeSkipped(p)
  PROVE  LegacyInv'
<1>. DEFINE next == [caller[p] EXCEPT !.pc = "done"]
<1>0. p \in Party /\ p \notin Requests /\ caller[p] \in CallerRow
  BY CallerKnows DEF Party
<1>1. /\ Becomes(p, next) /\ caller[p].pc = "finish"
      /\ time' = time /\ health' = health /\ credential' = credential /\ trials' = trials
  BY DEF ProbeSkipped
<1>2. next \in CallerRow /\ next.pc = "done" /\ next.until = caller[p].until
  BY <1>0 DEF CallerRow
<1>. HIDE DEF next
<1>. QED
  BY <1>0, <1>1, <1>2, CallerKnows, QuietMove

\* The client disconnects, a key is replaced, time passes.
LEMMA EnvironmentKeeps ==
  ASSUME LegacyInv,
         \/ \E r \in Requests : ClientLeaves(r)
         \/ \E t \in Targets : ReplaceSecret(t)
         \/ TimePasses
  PROVE  LegacyInv'
<1>0. /\ LegacyTypeOK /\ time \in Nat
  BY DEF LegacyInv, LegacyTypeOK
<1>1. ASSUME NEW r \in Requests, ClientLeaves(r) PROVE LegacyInv'
  <2>1. /\ r \in Party /\ caller' = [caller EXCEPT ![r] = [caller[r] EXCEPT !.client = FALSE]]
        /\ time' = time /\ health' = health /\ credential' = credential /\ trials' = trials
    BY <1>1 DEF ClientLeaves, Party
  <2>. DEFINE row == [caller[r] EXCEPT !.client = FALSE]
  <2>0. caller[r] \in CallerRow
    BY <1>0, <2>1 DEF LegacyTypeOK
  <2>2. /\ row \in CallerRow /\ row.pc = caller[r].pc /\ row.plan = caller[r].plan
        /\ row.since = caller[r].since /\ row.until = caller[r].until
        /\ row.stream = caller[r].stream /\ row.outcome = caller[r].outcome
        /\ row.charge = caller[r].charge /\ row.answer = caller[r].answer
        /\ row.reply = caller[r].reply /\ row.settled = caller[r].settled
    BY <2>0 DEF CallerRow
  <2>3. caller' = [caller EXCEPT ![r] = row]
    BY <2>1
  <2>. HIDE DEF row
  <2>4. \A c \in Party :
          /\ caller'[c] \in CallerRow /\ caller'[c].pc = caller[c].pc
          /\ caller'[c].plan = caller[c].plan
          /\ caller'[c].since = caller[c].since /\ caller'[c].until = caller[c].until
          /\ caller'[c].stream = caller[c].stream /\ caller'[c].outcome = caller[c].outcome
          /\ caller'[c].charge = caller[c].charge /\ caller'[c].answer = caller[c].answer
          /\ caller'[c].reply = caller[c].reply /\ caller'[c].settled = caller[c].settled
    BY <1>0, <2>2, <2>3 DEF LegacyTypeOK
  <2>5. LegacyTypeOK'
    BY <1>0, <2>1, <2>3, <2>4 DEF LegacyTypeOK
  <2>6. CallerInv'
    BY <2>1, <2>4 DEF LegacyInv, CallerInv, Patience
  <2>7. \A c \in Party : Target(c)' = Target(c)
    BY <2>4 DEF Target
  <2>8. TrialInv' /\ OneTrialPerTarget'
    BY <1>0, <2>1, <2>4, <2>7 DEF LegacyInv, TrialInv, OneTrialPerTarget, LegacyTypeOK
  <2>9. ASSUME NEW q \in Requests PROVE Consistent(caller'[q])
    <3>1. q \in Party /\ Consistent(caller[q])
      BY CallerKnows DEF Party
    <3>. QED BY <2>4, <3>1 DEF Consistent
  <2>. QED BY <2>5, <2>6, <2>8, <2>9 DEF LegacyInv, ChargeInv
<1>2. ASSUME NEW t \in Targets, ReplaceSecret(t) PROVE LegacyInv'
  <2>1. /\ credential' = [credential EXCEPT ![t] = "active"]
        /\ time' = time /\ health' = health /\ caller' = caller /\ trials' = trials
    BY <1>2 DEF ReplaceSecret
  <2>2. LegacyTypeOK'
    BY <1>0, <2>1 DEF LegacyTypeOK
  <2>. QED BY <2>1, <2>2 DEF LegacyInv, CallerInv, Patience, TrialInv, OneTrialPerTarget, ChargeInv,
                             Consistent, Target
<1>3. CASE TimePasses
  <2>1. /\ time < Horizon /\ time' = time + 1
        /\ health' = health /\ credential' = credential /\ caller' = caller /\ trials' = trials
        /\ \A c \in Party : caller[c].pc \in {"flying", "streaming"} => time < caller[c].until
    BY <1>3 DEF TimePasses
  <2>2. LegacyTypeOK'
    BY <1>0, <2>1 DEF LegacyTypeOK
  <2>3. ASSUME NEW c \in Party
        PROVE  /\ caller[c].since <= time + 1
               /\ caller[c].pc \in {"flying", "streaming"} => time + 1 <= caller[c].until
               /\ caller[c].pc # "idle" => caller[c].until <= (time + 1) + Patience(c)
    <3>1. caller[c].since \in Nat /\ caller[c].until \in Nat
      BY <1>0 DEF LegacyTypeOK, CallerRow
    <3>2. /\ Patience(c) \in Nat /\ caller[c].since <= time
          /\ caller[c].pc # "idle" => caller[c].until <= time + Patience(c)
      BY CallerKnows
    <3>3. caller[c].since <= time + 1
      BY <1>0, <3>1, <3>2
    <3>4. caller[c].pc # "idle" => caller[c].until <= (time + 1) + Patience(c)
      BY SMTT(30), <1>0, <3>1, <3>2
    <3>5. caller[c].pc \in {"flying", "streaming"} => time + 1 <= caller[c].until
      BY <1>0, <2>1, <3>1
    <3>. QED BY <3>3, <3>4, <3>5
  <2>4. CallerInv'
    BY <2>1, <2>3 DEF LegacyInv, CallerInv, Patience
  <2>. QED BY <2>1, <2>2, <2>4 DEF LegacyInv, TrialInv, OneTrialPerTarget, ChargeInv, Consistent, Target
<1>. QED
  BY <1>1, <1>2, <1>3

-----------------------------------------------------------------------------
(* Permits and reports                                                       *)

\* The row of a target after somebody was let through.
LEMMA LeaseTaken ==
  ASSUME LegacyTypeOK, NEW t \in Targets, NEW lease \in Nat,
         health' = [health EXCEPT ![t].phase = "half_open", ![t].lease = lease]
  PROVE  /\ health' \in [Targets -> HealthRow]
         /\ health'[t].phase = "half_open" /\ health'[t].lease = lease
         /\ \A u \in Targets \ {t} : health'[u] = health[u]
<1>. DEFINE row == [health[t] EXCEPT !.phase = "half_open", !.lease = lease]
            once == [health EXCEPT ![t].phase = "half_open"]
<1>0. health \in [Targets -> HealthRow] /\ health[t] \in HealthRow
  BY DEF LegacyTypeOK
<1>1. row \in HealthRow /\ row.phase = "half_open" /\ row.lease = lease
  BY <1>0 DEF HealthRow
<1>2. once[t] = [health[t] EXCEPT !.phase = "half_open"]
  BY <1>0
<1>3. /\ once = [u \in Targets |-> once[u]]
      /\ \A u \in Targets \ {t} : once[u] = health[u]
  BY <1>0
<1>4. health' = [once EXCEPT ![t] = [once[t] EXCEPT !.lease = lease]]
  OBVIOUS
<1>5. row = [once[t] EXCEPT !.lease = lease]
  BY <1>0, <1>2 DEF HealthRow
<1>. HIDE DEF once, row
<1>6. health' = [u \in Targets |-> IF u = t THEN row ELSE health[u]]
  BY <1>3, <1>4, <1>5
<1>. QED
  BY <1>0, <1>1, <1>6, Zenon

\* A caller that is let through sets out, or finds its deadline passed.  The
\* lease it respects covers every earlier trial that is still under way, and the
\* lease it takes covers its own.
LEMMA PermitMove ==
  ASSUME LegacyInv, NEW c \in Party, NEW t \in Targets, t = Target(c),
         caller[c].pc = "walk", caller[c].plan # <<>>,
         NEW next \in CallerRow, Becomes(c, next),
         next.pc \in {"flying", "finish"}, next.plan = caller[c].plan,
         next.until = caller[c].until, next.pc = "flying" => time < caller[c].until,
         c \in Requests => Consistent(next),
         NEW now \in PermitStamps(c), ~Refuses(health[t], c, now),
         health[t].phase # "closed",
         health' \in [Targets -> HealthRow],
         health'[t].phase = "half_open", health'[t].lease = now + Lease(c),
         \A u \in Targets \ {t} : health'[u] = health[u],
         trials' = [trials EXCEPT ![t] = @ \union {c}],
         time' = time, credential' = credential
  PROVE  LegacyInv'
<1>0. /\ LegacyTypeOK /\ CallerInv /\ time \in Nat /\ health[t] \in HealthRow
  BY DEF LegacyInv, LegacyTypeOK
<1>1. /\ caller' \in [Party -> CallerRow]
      /\ \A d \in Party \ {c} : caller'[d] = caller[d]
      /\ caller'[c].pc = next.pc /\ caller'[c].plan = next.plan /\ caller'[c].until = next.until
      /\ caller'[c].since = IF next.pc \in {"walk", "landed"} THEN time ELSE 0
      /\ caller'[c].stream = next.stream /\ caller'[c].outcome = next.outcome
      /\ caller'[c].charge = next.charge /\ caller'[c].answer = next.answer
      /\ caller'[c].reply = next.reply /\ caller'[c].settled = next.settled
  BY <1>0, CallerMoves
<1>2. now \in Nat /\ caller[c].since <= now /\ now <= time
  BY <1>0, PermitStampsPast
<1>3. /\ caller[c].until \in Nat /\ caller[c].since \in Nat /\ Patience(c) \in Nat
      /\ caller[c].until <= time + Patience(c)
      /\ caller[c].until <= caller[c].since + Patience(c)
      /\ c \in Probes => ProbeTimeout <= caller[c].until
  BY CallerKnows DEF CallerRow
<1>. PICK lease : lease = now + Lease(c)
  OBVIOUS
<1>4. lease \in Nat /\ caller[c].until < lease
  <2>1. lease = now + (Patience(c) + Slack)
    BY DEF Lease, Patience
  <2>2. \A since, until, patience, slack \in Nat :
          since <= now /\ until <= since + patience /\ slack > 0 =>
            now + (patience + slack) \in Nat /\ until < now + (patience + slack)
    BY <1>2
  <2>3. Slack \in Nat /\ Slack > 0
    OBVIOUS
  <2>4. now + (Patience(c) + Slack) \in Nat /\ caller[c].until < now + (Patience(c) + Slack)
    BY <1>2, <1>3, <2>2, <2>3, ZenonT(20)
  <2>. QED BY <2>1, <2>4, Zenon
<1>5. /\ health' \in [Targets -> HealthRow]
      /\ health'[t].phase = "half_open" /\ health'[t].lease = lease
      /\ \A u \in Targets \ {t} : health'[u] = health[u]
  OBVIOUS
<1>6. /\ trials' \in [Targets -> SUBSET Party] /\ trials'[t] = trials[t] \union {c}
      /\ \A u \in Targets \ {t} : trials'[u] = trials[u]
  BY <1>0 DEF LegacyTypeOK
<1>7. LegacyTypeOK'
  BY <1>0, <1>1, <1>5, <1>6 DEF LegacyTypeOK
<1>8. CallerInv'
  <2>. SUFFICES ASSUME NEW d \in Party
                PROVE  /\ caller'[d].since <= time
                       /\ caller'[d].pc \in {"flying", "streaming", "landed"} => caller'[d].plan # <<>>
                       /\ caller'[d].pc \in {"flying", "streaming"} => time <= caller'[d].until
                       /\ caller'[d].pc # "idle" => caller'[d].until <= time + Patience(d)
                       /\ caller'[d].pc = "walk" => caller'[d].until <= caller'[d].since + Patience(d)
                       /\ d \in Probes /\ caller'[d].pc # "idle" => ProbeTimeout <= caller'[d].until
    BY DEF CallerInv, Patience
  <2>1. CASE d # c
    <3>1. caller'[d] = caller[d]
      BY <1>1, <2>1
    <3>. QED BY <1>0, <3>1 DEF CallerInv
  <2>2. CASE d = c
    <3>1. caller'[c].since = 0 /\ caller'[c].pc \in {"flying", "finish"}
      BY <1>1
    <3>2. caller'[c].until = caller[c].until /\ caller'[c].plan # <<>>
      BY <1>1
    <3>3. caller'[c].pc = "flying" => time <= caller[c].until
      BY SMTT(30), <1>0, <1>1, <1>3
    <3>. QED BY SMTT(30), <1>0, <1>3, <2>2, <3>1, <3>2, <3>3
  <2>. QED BY <2>1, <2>2
<1>9. ASSUME NEW d \in trials[t], caller[d].pc \in {"flying", "streaming"}, Target(d) = t PROVE FALSE
  <2>1. health[t].lease # NoTime /\ caller[d].until < health[t].lease
    BY <1>9 DEF LegacyInv, TrialInv
  <2>2. ~(health[t].lease > now)
    BY <2>1 DEF Refuses
  <2>3. d \in Party /\ health[t].lease \in Nat
    BY <1>0, <2>1 DEF LegacyTypeOK, HealthRow
  <2>4. time <= caller[d].until /\ caller[d].until \in Nat
    BY <1>9, <2>3, CallerKnows DEF CallerRow
  <2>. QED BY SMTT(30), <1>0, <1>2, <2>1, <2>2, <2>3, <2>4
<1>10. /\ Target(c)' = t
       /\ \A d \in Party \ {c} : Target(d)' = Target(d)
  BY <1>1 DEF Target
<1>11. TrialInv'
  <2>. SUFFICES ASSUME NEW u \in Targets
                PROVE  /\ trials'[u] # {} => health'[u].phase = "half_open"
                       /\ \A d \in trials'[u] :
                            caller'[d].pc \in {"flying", "streaming"} /\ Target(d)' = u =>
                              health'[u].lease # NoTime /\ caller'[d].until < health'[u].lease
    BY DEF TrialInv
  <2>1. CASE u = t
    <3>1. lease # NoTime
      BY <1>4
    <3>2. ASSUME NEW d \in trials[t], d # c PROVE ~(caller'[d].pc \in {"flying", "streaming"} /\ Target(d)' = t)
      <4>1. d \in Party
        BY <1>0 DEF LegacyTypeOK
      <4>. QED BY <1>1, <1>9, <1>10, <3>2, <4>1
    <3>. QED BY <1>1, <1>4, <1>5, <1>6, <2>1, <3>1, <3>2
  <2>2. CASE u # t
    <3>1. trials'[u] = trials[u] /\ health'[u] = health[u] /\ trials[u] \subseteq Party
      BY <1>0, <1>5, <1>6, <2>2 DEF LegacyTypeOK
    <3>2. \A d \in trials[u] : Target(d)' = u =>
            d # c /\ caller'[d] = caller[d] /\ Target(d) = u
      BY <1>1, <1>10, <2>2, <3>1
    <3>. QED BY <3>1, <3>2 DEF LegacyInv, TrialInv
  <2>. QED BY <2>1, <2>2
<1>12. OneTrialPerTarget'
  <2>. SUFFICES ASSUME NEW u \in Targets, NEW a \in trials'[u], NEW b \in trials'[u],
                       \A d \in {a, b} : caller'[d].pc \in {"flying", "streaming"} /\ Target(d)' = u
                PROVE  a = b
    BY DEF OneTrialPerTarget
  <2>1. a \in Party /\ b \in Party
    BY <1>6, <1>0 DEF LegacyTypeOK
  <2>2. CASE u = t
    <3>1. \A d \in {a, b} : d = c
      BY <1>1, <1>6, <1>9, <1>10, <2>1, <2>2
    <3>. QED BY <3>1
  <2>3. CASE u # t
    <3>1. a \in trials[u] /\ b \in trials[u]
      BY <1>6, <2>3
    <3>2. \A d \in {a, b} : d # c /\ caller'[d] = caller[d] /\ Target(d) = u
      BY <1>1, <1>10, <2>1, <2>3
    <3>. QED BY <3>1, <3>2 DEF LegacyInv, OneTrialPerTarget
  <2>. QED BY <2>2, <2>3
<1>13. ChargeInv'
  <2>1. ASSUME c \in Requests PROVE Consistent(caller'[c])
    <3>1. Consistent(next)
      BY <2>1
    <3>. QED BY <1>1, <3>1 DEF Consistent
  <2>2. \A d \in Requests \ {c} : caller'[d] = caller[d] /\ Consistent(caller[d])
    BY <1>1 DEF LegacyInv, ChargeInv, Party
  <2>. QED BY <2>1, <2>2 DEF ChargeInv
<1>. QED
  BY <1>7, <1>8, <1>11, <1>12, <1>13 DEF LegacyInv

\* A caller sets out on a target whose circuit is closed: nobody is its trial.
LEMMA ClosedMove ==
  ASSUME LegacyInv, NEW c \in Party, NEW t \in Targets, t = Target(c), trials[t] = {},
         caller[c].pc = "walk", caller[c].plan # <<>>,
         NEW next \in CallerRow, Becomes(c, next),
         next.pc \in {"flying", "finish"}, next.plan = caller[c].plan,
         next.until = caller[c].until, next.pc = "flying" => time < caller[c].until,
         c \in Requests => Consistent(next),
         time' = time, health' = health, credential' = credential, trials' = trials
  PROVE  LegacyInv'
<1>0. /\ LegacyTypeOK /\ CallerInv /\ time \in Nat
  BY DEF LegacyInv, LegacyTypeOK
<1>1. /\ caller' \in [Party -> CallerRow]
      /\ \A d \in Party \ {c} : caller'[d] = caller[d]
      /\ caller'[c].pc = next.pc /\ caller'[c].plan = next.plan /\ caller'[c].until = next.until
      /\ caller'[c].since = IF next.pc \in {"walk", "landed"} THEN time ELSE 0
      /\ caller'[c].stream = next.stream /\ caller'[c].outcome = next.outcome
      /\ caller'[c].charge = next.charge /\ caller'[c].answer = next.answer
      /\ caller'[c].reply = next.reply /\ caller'[c].settled = next.settled
  BY <1>0, CallerMoves
<1>2. LegacyTypeOK'
  BY <1>0, <1>1 DEF LegacyTypeOK
<1>3. /\ caller[c].until \in Nat
      /\ caller[c].until <= time + Patience(c)
      /\ c \in Probes => ProbeTimeout <= caller[c].until
  BY CallerKnows DEF CallerRow
<1>4. CallerInv'
  <2>. SUFFICES ASSUME NEW d \in Party
                PROVE  /\ caller'[d].since <= time
                       /\ caller'[d].pc \in {"flying", "streaming", "landed"} => caller'[d].plan # <<>>
                       /\ caller'[d].pc \in {"flying", "streaming"} => time <= caller'[d].until
                       /\ caller'[d].pc # "idle" => caller'[d].until <= time + Patience(d)
                       /\ caller'[d].pc = "walk" => caller'[d].until <= caller'[d].since + Patience(d)
                       /\ d \in Probes /\ caller'[d].pc # "idle" => ProbeTimeout <= caller'[d].until
    BY DEF CallerInv, Patience
  <2>1. CASE d # c
    <3>1. caller'[d] = caller[d]
      BY <1>1, <2>1
    <3>. QED BY <1>0, <3>1 DEF CallerInv
  <2>2. CASE d = c
    <3>1. caller'[c].since = 0 /\ caller'[c].pc \in {"flying", "finish"}
      BY <1>1
    <3>2. caller'[c].until = caller[c].until /\ caller'[c].plan # <<>>
      BY <1>1
    <3>3. caller'[c].pc = "flying" => time <= caller[c].until
      BY <1>0, <1>1, <1>3
    <3>. QED BY <1>0, <1>3, <2>2, <3>1, <3>2, <3>3
  <2>. QED BY <2>1, <2>2
<1>5. ASSUME NEW u \in Targets, NEW d \in trials[u], Target(d)' = u
      PROVE  caller'[d] = caller[d] /\ Target(d) = u
  <2>1. d \in Party
    BY <1>0 DEF LegacyTypeOK
  <2>2. Target(c)' = t
    BY <1>1 DEF Target
  <2>3. d # c
    BY <1>5, <2>2
  <2>. QED BY <1>1, <1>5, <2>1, <2>3 DEF Target
<1>6. TrialInv'
  BY <1>5 DEF LegacyInv, TrialInv
<1>7. OneTrialPerTarget'
  BY <1>5 DEF LegacyInv, OneTrialPerTarget
<1>8. ChargeInv'
  <2>1. ASSUME c \in Requests PROVE Consistent(caller'[c])
    <3>1. Consistent(next)
      BY <2>1
    <3>. QED BY <1>1, <3>1 DEF Consistent
  <2>2. \A d \in Requests \ {c} : caller'[d] = caller[d] /\ Consistent(caller[d])
    BY <1>1 DEF LegacyInv, ChargeInv, Party
  <2>. QED BY <2>1, <2>2 DEF ChargeInv
<1>. QED
  BY <1>2, <1>4, <1>6, <1>7, <1>8 DEF LegacyInv

\* A caller asks for a permit: it goes on to the next candidate, sets out on a
\* closed circuit, or becomes the trial of an open one.
LEMMA AcquireKeeps ==
  ASSUME LegacyInv, NEW c \in Party, AcquireTargetPermit(c)
  PROVE  LegacyInv'
<1>. PICK t : t = Target(c)
  OBVIOUS
<1>0. /\ LegacyTypeOK /\ caller[c] \in CallerRow /\ time \in Nat
      /\ (c \in Requests => Consistent(caller[c]))
  BY CallerKnows DEF LegacyInv
<1>1. /\ caller[c].pc = "walk" /\ caller[c].plan # <<>> /\ caller[c].budget > 0
      /\ time' = time /\ credential' = credential
  BY DEF AcquireTargetPermit, CandidatesLeft
<1>2. t \in Targets /\ Tail(caller[c].plan) \in Seq(Targets)
  BY <1>0, <1>1, PlanLeft
<1>. PICK refused : refused = [caller[c] EXCEPT !.plan = Tail(caller[c].plan)]
  OBVIOUS
<1>. PICK let : let = IF time < caller[c].until
                      THEN [caller[c] EXCEPT !.pc = "flying", !.budget = @ - 1]
                      ELSE Finishing(c, FALSE, "error")
  OBVIOUS
<1>3. PICK now \in PermitStamps(c) :
        IF Refuses(health[t], c, now)
        THEN Becomes(c, refused) /\ health' = health /\ trials' = trials
        ELSE /\ Becomes(c, let)
             /\ IF health[t].phase = "closed" THEN health' = health /\ trials' = trials
                ELSE /\ health' = [health EXCEPT ![t].phase = "half_open", ![t].lease = now + Lease(c)]
                     /\ trials' = [trials EXCEPT ![t] = @ \union {c}]
  BY DEF AcquireTargetPermit
<1>4. CASE Refuses(health[t], c, now)
  <2>1. /\ refused \in CallerRow /\ refused.pc = "walk" /\ refused.until = caller[c].until
        /\ refused.reply = caller[c].reply /\ refused.stream = caller[c].stream
        /\ refused.settled = caller[c].settled
    BY <1>0, <1>1, <1>2 DEF CallerRow
  <2>2. c \in Requests => Consistent(refused)
    BY <1>0, <1>1, <2>1 DEF Consistent
  <2>3. Becomes(c, refused) /\ health' = health /\ trials' = trials
    BY <1>3, <1>4
  <2>. QED BY <1>1, <2>1, <2>2, <2>3, CallerKnows, QuietMove
<1>5. /\ let \in CallerRow /\ let.pc \in {"flying", "finish"} /\ let.plan = caller[c].plan
      /\ let.until = caller[c].until /\ (let.pc = "flying" => time < caller[c].until)
      /\ (c \in Requests => Consistent(let))
  <2>1. CASE time < caller[c].until
    <3>1. caller[c].budget - 1 \in Nat
      <4>1. caller[c].budget \in Nat
        BY <1>0 DEF CallerRow
      <4>. QED BY SMTT(30), <1>1, <4>1
    <3>2. let = [caller[c] EXCEPT !.pc = "flying", !.budget = caller[c].budget - 1]
      BY <2>1
    <3>. PICK left \in Nat : left = caller[c].budget - 1
      BY <3>1
    <3>3. /\ let \in CallerRow /\ let.pc = "flying" /\ let.plan = caller[c].plan
          /\ let.until = caller[c].until
          /\ let.reply = caller[c].reply /\ let.stream = caller[c].stream
          /\ let.settled = caller[c].settled
      BY <1>0, <3>2 DEF CallerRow
    <3>4. c \in Requests => Consistent(let)
      BY <1>0, <1>1, <3>3 DEF Consistent
    <3>. QED BY <2>1, <3>3, <3>4
  <2>2. CASE ~(time < caller[c].until)
    <3>. PICK ended : ended = Finishing(c, FALSE, "error")
      OBVIOUS
    <3>0. /\ ended \in CallerRow /\ ended.pc = "finish" /\ ended.until = caller[c].until
          /\ ended.plan = caller[c].plan
          /\ ended.reply = caller[c].reply /\ ended.stream = caller[c].stream
          /\ ended.settled = caller[c].settled /\ ended.charge = FALSE /\ ended.answer = "error"
      BY FinishingRow
    <3>1. let = ended
      BY <2>2
    <3>2. /\ let \in CallerRow /\ let.pc = "finish" /\ let.until = caller[c].until
          /\ let.plan = caller[c].plan
          /\ let.reply = caller[c].reply /\ let.stream = caller[c].stream
          /\ let.settled = caller[c].settled /\ let.charge = FALSE /\ let.answer = "error"
      BY <3>0, <3>1
    <3>3. c \in Requests => Consistent(let)
      BY <1>0, <1>1, <3>2 DEF Consistent
    <3>. QED BY <3>2, <3>3
  <2>. QED BY <2>1, <2>2
<1>6. CASE ~Refuses(health[t], c, now) /\ health[t].phase = "closed"
  <2>1. Becomes(c, let) /\ health' = health /\ trials' = trials
    BY <1>3, <1>6
  <2>2. trials[t] = {}
    BY <1>2, <1>6 DEF LegacyInv, TrialInv
  <2>. QED BY <1>1, <1>2, <1>5, <2>1, <2>2, ClosedMove
<1>7. CASE ~Refuses(health[t], c, now) /\ health[t].phase # "closed"
  <2>1. /\ Becomes(c, let)
        /\ health' = [health EXCEPT ![t].phase = "half_open", ![t].lease = now + Lease(c)]
        /\ trials' = [trials EXCEPT ![t] = @ \union {c}]
    BY <1>3, <1>7
  <2>2. now + Lease(c) \in Nat
    <3>1. now \in Nat
      BY <1>0, PermitStampsPast DEF LegacyInv
    <3>2. Lease(c) \in Nat
      BY SMTT(30) DEF Lease
    <3>. QED BY SMTT(30), <3>1, <3>2
  <2>. PICK lease \in Nat : lease = now + Lease(c)
    BY <2>2
  <2>3. /\ health' \in [Targets -> HealthRow]
        /\ health'[t].phase = "half_open" /\ health'[t].lease = lease
        /\ \A u \in Targets \ {t} : health'[u] = health[u]
    BY ZenonT(30), <1>0, <1>2, <2>1, LeaseTaken
  <2>. QED BY <1>1, <1>2, <1>5, <1>7, <2>1, <2>3, PermitMove
<1>. QED
  BY <1>4, <1>6, <1>7

\* What a report leaves behind: the trials of the target are over, or it says
\* nothing about them and the lease stays.
LEMMA RecordedRows ==
  ASSUME LegacyTypeOK, NEW t \in Targets, NEW outcome \in Outcome, NEW now \in Nat,
         Recorded(t, outcome, now)
  PROVE  /\ health' \in [Targets -> HealthRow]
         /\ credential' \in [Targets -> {"active", "invalid"}]
         /\ trials' \in [Targets -> SUBSET Party]
         /\ \A u \in Targets \ {t} : health'[u] = health[u] /\ trials'[u] = trials[u]
         /\ \/ trials'[t] = {}
            \/ /\ trials'[t] = trials[t]
               /\ health'[t].phase = health[t].phase /\ health'[t].lease = health[t].lease
<1>. PICK h : h = health[t]
  OBVIOUS
<1>0. /\ h \in HealthRow /\ health \in [Targets -> HealthRow]
      /\ credential \in [Targets -> {"active", "invalid"}] /\ trials \in [Targets -> SUBSET Party]
  BY DEF LegacyTypeOK
<1>1. AfterSuccess(h) \in HealthRow
  BY <1>0 DEF AfterSuccess, HealthRow
<1>2. ASSUME NEW retry \in BOOLEAN PROVE AfterFailure(h, now, retry) \in HealthRow
  <2>1. FailuresAt(h, now) \in Nat
    <3>1. h.failures \in Nat
      BY <1>0 DEF HealthRow
    <3>. QED BY <3>1 DEF FailuresAt
  <2>2. (now + IF retry THEN RetryAfter ELSE Cooldown) \in Nat
    OBVIOUS
  <2>. PICK failures \in Nat, cooldown \in Nat :
         failures = FailuresAt(h, now) /\ cooldown = now + IF retry THEN RetryAfter ELSE Cooldown
    BY <2>1, <2>2
  <2>3. \/ AfterFailure(h, now, retry) =
             [h EXCEPT !.phase = "open", !.failures = 0, !.last = now, !.lease = NoTime,
                       !.cooldown = cooldown]
        \/ AfterFailure(h, now, retry) =
             [h EXCEPT !.phase = "closed", !.failures = failures, !.last = now,
                       !.lease = NoTime, !.cooldown = NoTime]
    BY DEF AfterFailure
  <2>4. /\ [h EXCEPT !.phase = "open", !.failures = 0, !.last = now, !.lease = NoTime,
                    !.cooldown = cooldown] \in HealthRow
        /\ [h EXCEPT !.phase = "closed", !.failures = failures, !.last = now,
                    !.lease = NoTime, !.cooldown = NoTime] \in HealthRow
    BY <1>0 DEF HealthRow
  <2>. QED BY <2>3, <2>4
<1>3. /\ [h EXCEPT !.capability = "unsupported"] \in HealthRow
      /\ [h EXCEPT !.capability = "unsupported"].phase = h.phase
      /\ [h EXCEPT !.capability = "unsupported"].lease = h.lease
  BY <1>0 DEF HealthRow
<1>. PICK row :
       row = CASE outcome = "success" -> AfterSuccess(h)
               [] outcome = "unsupported" -> [h EXCEPT !.capability = "unsupported"]
               [] outcome \in {"penalize", "retry"} -> AfterFailure(h, now, outcome = "retry")
               [] OTHER -> h
  OBVIOUS
<1>4. row \in HealthRow /\ (outcome \notin {"success", "penalize", "retry"} =>
                             row.phase = h.phase /\ row.lease = h.lease)
  BY <1>0, <1>1, <1>2, <1>3
<1>5. health' = [health EXCEPT ![t] = row]
  BY DEF Recorded
<1>. PICK state : state = CASE outcome = "success" -> "active" [] outcome = "key" -> "invalid"
                            [] OTHER -> credential[t]
  OBVIOUS
<1>6. state \in {"active", "invalid"}
  BY <1>0
<1>7. credential' = [credential EXCEPT ![t] = state]
  BY DEF Recorded
<1>8. trials' = [trials EXCEPT ![t] = IF outcome \in {"success", "penalize", "retry"} THEN {} ELSE @]
  BY DEF Recorded
<1>9. health' \in [Targets -> HealthRow] /\ credential' \in [Targets -> {"active", "invalid"}]
  BY <1>0, <1>4, <1>5, <1>6, <1>7
<1>10. /\ trials' \in [Targets -> SUBSET Party]
       /\ \A u \in Targets \ {t} : health'[u] = health[u] /\ trials'[u] = trials[u]
       /\ health'[t] = row
       /\ trials'[t] = IF outcome \in {"success", "penalize", "retry"} THEN {} ELSE trials[t]
  BY <1>0, <1>5, <1>8
<1>. QED
  BY <1>4, <1>9, <1>10

\* A report is recorded.
LEMMA ReportKeeps ==
  ASSUME LegacyInv, NEW c \in Party, Report(c)
  PROVE  LegacyInv'
<1>. PICK t : t = Target(c)
  OBVIOUS
<1>n. PICK next : next = Reported(c, TRUE)
  OBVIOUS
<1>0. /\ LegacyTypeOK /\ CallerInv /\ time \in Nat /\ caller[c] \in CallerRow
  BY CallerKnows DEF LegacyInv
<1>1. /\ caller[c].pc = "landed" /\ Becomes(c, next) /\ time' = time
  BY <1>n DEF Report
<1>2. PICK now \in IF c \in Probes THEN {caller[c].until - ProbeTimeout} ELSE Stamps(c) :
        Recorded(t, caller[c].outcome, now)
  BY DEF Report
<1>3. now \in Nat
  <2>1. CASE c \in Probes
    <3>1. caller[c].until \in Nat /\ ProbeTimeout <= caller[c].until
      BY <1>1, <2>1, CallerKnows DEF CallerRow
    <3>2. now = caller[c].until - ProbeTimeout
      BY <1>2, <2>1
    <3>. QED BY <3>1, <3>2
  <2>2. CASE c \notin Probes
    BY <1>0, <1>2, <2>2, StampsPast
  <2>. QED BY <2>1, <2>2
<1>4. t \in Targets /\ caller[c].outcome \in Outcome
  <2>1. caller[c].plan # <<>>
    BY <1>1, CallerKnows
  <2>. QED BY <1>0, <2>1, PlanLeft DEF CallerRow
<1>5. /\ health' \in [Targets -> HealthRow]
      /\ credential' \in [Targets -> {"active", "invalid"}]
      /\ trials' \in [Targets -> SUBSET Party]
      /\ \A u \in Targets \ {t} : health'[u] = health[u] /\ trials'[u] = trials[u]
      /\ \/ trials'[t] = {}
         \/ /\ trials'[t] = trials[t]
            /\ health'[t].phase = health[t].phase /\ health'[t].lease = health[t].lease
  BY <1>0, <1>2, <1>3, <1>4, RecordedRows
<1>6. /\ next \in CallerRow /\ next.pc \in {"walk", "finish", "done"} /\ next.until = caller[c].until
      /\ (c \in Requests => Consistent(next))
  BY <1>1, <1>n, ReportedRow
<1>7. /\ caller' \in [Party -> CallerRow]
      /\ \A d \in Party \ {c} : caller'[d] = caller[d]
      /\ caller'[c].pc = next.pc /\ caller'[c].plan = next.plan /\ caller'[c].until = next.until
      /\ caller'[c].since = IF next.pc \in {"walk", "landed"} THEN time ELSE 0
      /\ caller'[c].stream = next.stream /\ caller'[c].outcome = next.outcome
      /\ caller'[c].charge = next.charge /\ caller'[c].answer = next.answer
      /\ caller'[c].reply = next.reply /\ caller'[c].settled = next.settled
  <2>1. LegacyTypeOK /\ next \in CallerRow /\ Becomes(c, next)
    BY <1>0, <1>1, <1>6
  <2>. QED BY <2>1, CallerMoves
<1>8. LegacyTypeOK'
  BY <1>0, <1>1, <1>5, <1>7 DEF LegacyTypeOK
<1>9. CallerInv'
  <2>. SUFFICES ASSUME NEW d \in Party
                PROVE  /\ caller'[d].since <= time
                       /\ caller'[d].pc \in {"flying", "streaming", "landed"} => caller'[d].plan # <<>>
                       /\ caller'[d].pc \in {"flying", "streaming"} => time <= caller'[d].until
                       /\ caller'[d].pc # "idle" => caller'[d].until <= time + Patience(d)
                       /\ caller'[d].pc = "walk" => caller'[d].until <= caller'[d].since + Patience(d)
                       /\ d \in Probes /\ caller'[d].pc # "idle" => ProbeTimeout <= caller'[d].until
    BY <1>1 DEF CallerInv, Patience
  <2>1. CASE d # c
    BY <1>0, <1>7, <2>1 DEF CallerInv
  <2>2. CASE d = c
    <3>1. /\ caller'[c].since \in {0, time} /\ caller'[c].pc \in {"walk", "finish", "done"}
          /\ caller'[c].pc = "walk" => caller'[c].since = time
          /\ caller'[c].until = caller[c].until
      BY <1>6, <1>7
    <3>2. /\ caller[c].until <= time + Patience(c)
          /\ c \in Probes => ProbeTimeout <= caller[c].until
      BY <1>1, CallerKnows
    <3>. QED BY <1>0, <2>2, <3>1, <3>2
  <2>. QED BY <2>1, <2>2
<1>10. ASSUME NEW d \in Party, NEW u, caller'[d].pc \in {"flying", "streaming"}, Target(d)' = u
       PROVE  caller'[d] = caller[d] /\ Target(d) = u
  <2>1. d # c
    BY <1>6, <1>7, <1>10
  <2>. QED BY <1>7, <1>10, <2>1 DEF Target
<1>11. TrialInv'
  <2>. SUFFICES ASSUME NEW u \in Targets
                PROVE  /\ trials'[u] # {} => health'[u].phase = "half_open"
                       /\ \A d \in trials'[u] :
                            caller'[d].pc \in {"flying", "streaming"} /\ Target(d)' = u =>
                              health'[u].lease # NoTime /\ caller'[d].until < health'[u].lease
    BY DEF TrialInv
  <2>1. CASE trials'[u] = {}
    BY <2>1
  <2>2. CASE trials'[u] # {}
    <3>1. /\ trials'[u] = trials[u] /\ trials[u] \subseteq Party
          /\ health'[u].phase = health[u].phase /\ health'[u].lease = health[u].lease
      BY <1>0, <1>5, <2>2 DEF LegacyTypeOK
    <3>. QED BY <1>10, <3>1 DEF LegacyInv, TrialInv
  <2>. QED BY <2>1, <2>2
<1>12. OneTrialPerTarget'
  <2>. SUFFICES ASSUME NEW u \in Targets, NEW a \in trials'[u], NEW b \in trials'[u],
                       \A d \in {a, b} : caller'[d].pc \in {"flying", "streaming"} /\ Target(d)' = u
                PROVE  a = b
    BY DEF OneTrialPerTarget
  <2>1. a \in trials[u] /\ b \in trials[u] /\ a \in Party /\ b \in Party
    BY <1>0, <1>5 DEF LegacyTypeOK
  <2>2. \A d \in {a, b} : caller[d].pc \in {"flying", "streaming"} /\ Target(d) = u
    BY <1>10, <2>1
  <2>. QED BY <2>1, <2>2 DEF LegacyInv, OneTrialPerTarget
<1>13. ChargeInv'
  <2>1. ASSUME c \in Requests PROVE Consistent(caller'[c])
    <3>1. Consistent(next)
      BY <1>6, <2>1
    <3>. QED BY ZenonT(30), <1>7, <3>1 DEF Consistent
  <2>2. \A d \in Requests \ {c} : caller'[d] = caller[d] /\ Consistent(caller[d])
    BY <1>7 DEF LegacyInv, ChargeInv, Party
  <2>. QED BY <2>1, <2>2 DEF ChargeInv
<1>. QED
  BY <1>8, <1>9, <1>11, <1>12, <1>13 DEF LegacyInv

-----------------------------------------------------------------------------
(* The theorems                                                              *)

\* Every step keeps the invariant.
LEMMA NextLegacyInv == LegacyInv /\ [LegacyNext]_legacyVars => LegacyInv'
<1>. SUFFICES ASSUME LegacyInv, [LegacyNext]_legacyVars PROVE LegacyInv'
  OBVIOUS
<1>1. ASSUME NEW c \in Party, PartyStep(c) PROVE LegacyInv'
  <2>1. CASE AcquireTargetPermit(c)
    BY <2>1, AcquireKeeps
  <2>2. CASE PermitFails(c) \/ NoCandidateLeft(c)
    BY <2>2, GivesUpKeeps DEF PermitFails, NoCandidateLeft, CandidatesLeft
  <2>3. CASE Report(c)
    BY <2>3, ReportKeeps
  <2>4. CASE ReportFails(c)
    BY <2>4, ReportFailsKeeps
  <2>. QED BY <1>1, <2>1, <2>2, <2>3, <2>4 DEF PartyStep
<1>2. ASSUME NEW r \in Requests, RequestStep(r) PROVE LegacyInv'
  <2>1. CASE StreamCommits(r) \/ (\E o \in Outcome : CallEnds(r, o)) \/ ClientGone(r)
    BY <2>1, CallKeeps DEF Party
  <2>2. CASE FinishSucceeds(r) \/ FinishFails(r) \/ DeferredFinish(r)
    BY <2>2, SettlementKeeps
  <2>3. CASE ClientLeaves(r)
    BY <2>3, EnvironmentKeeps
  <2>4. CASE \E n \in Budgets, s \in BOOLEAN : PlanRequest(r, n, s)
    BY <2>4, PlanRequestKeeps
  <2>. QED BY <1>2, <2>1, <2>2, <2>3, <2>4 DEF RequestStep
<1>3. ASSUME NEW p \in Probes, ProbeStep(p) PROVE LegacyInv'
  <2>1. CASE \E t \in Targets : PlanProbe(p, t)
    BY <2>1, PlanProbeKeeps
  <2>2. CASE \E o \in Outcome : ProbeCallEnds(p, o)
    BY <2>2, CallKeeps DEF Party
  <2>3. CASE ProbeSkipped(p)
    BY <2>3, ProbeSkippedKeeps
  <2>. QED BY <1>3, <2>1, <2>2, <2>3 DEF ProbeStep
<1>4. CASE (\E t \in Targets : ReplaceSecret(t)) \/ TimePasses
  BY <1>4, EnvironmentKeeps
<1>5. CASE UNCHANGED legacyVars
  BY <1>5 DEF legacyVars, LegacyInv, LegacyTypeOK, CallerInv, Patience, TrialInv,
              OneTrialPerTarget, ChargeInv, Consistent, Target
<1>. QED
  BY <1>1, <1>2, <1>3, <1>4, <1>5 DEF LegacyNext

\* A process starts: nobody is under way, and target_health and the credentials
\* are what the last process left behind, at whatever time that is.
LegacyStart ==
  /\ LegacyTypeOK
  /\ caller = [c \in Party |-> Idling(c)]
  /\ trials = [t \in Targets |-> {}]

\* The program from such a start.
LegacyRun == LegacyStart /\ [][LegacyNext]_legacyVars

\* A start satisfies the invariant.
LEMMA StartLegacyInv == LegacyStart => LegacyInv
<1>. SUFFICES ASSUME LegacyStart PROVE LegacyInv
  OBVIOUS
<1>1. \A c \in Party : /\ caller[c].pc = "idle" /\ caller[c].since = 0
                       /\ caller[c].reply = "none" /\ caller[c].settled = "open"
  BY DEF LegacyStart, Idling
<1>2. time \in Nat
  BY DEF LegacyStart, LegacyTypeOK
<1>3. CallerInv
  BY <1>1, <1>2 DEF CallerInv
<1>4. TrialInv /\ OneTrialPerTarget
  BY DEF LegacyStart, TrialInv, OneTrialPerTarget
<1>5. ChargeInv
  BY <1>1 DEF ChargeInv, Consistent, Party
<1>. QED
  BY <1>3, <1>4, <1>5 DEF LegacyStart, LegacyInv

\* The first start of all is one of them.
LEMMA InitIsStart == LegacyInit => LegacyStart
<1>. SUFFICES ASSUME LegacyInit PROVE LegacyTypeOK
  BY DEF LegacyInit, LegacyStart
<1>1. \A c \in Party : Idling(c) \in CallerRow
  BY DEF Idling, CallerRow, Outcome
<1>2. FreshHealth \in HealthRow
  BY DEF FreshHealth, HealthRow
<1>. QED
  BY <1>1, <1>2 DEF LegacyInit, LegacyTypeOK

\* So what holds of every process holds of the first one.
LEMMA FirstRun == LegacySpec => LegacyRun
  BY InitIsStart DEF LegacySpec, LegacyRun

\* Whatever rows a process finds, and however many requests and probes it runs:
\* leases cover the trials they were given for, and what a request has sent
\* decides what it pays.
THEOREM LegacyInvariant == LegacyRun => []LegacyInv
BY StartLegacyInv, NextLegacyInv, PTL DEF LegacyRun

\* Rows, credentials and callers keep their types.
THEOREM LegacyTypes == LegacyRun => []LegacyTypeOK
<1>1. LegacyInv => LegacyTypeOK
  BY DEF LegacyInv
<1>. QED
  BY <1>1, LegacyInvariant, PTL

\* No two trials of a target are under way together, requests and probes with
\* their different deadlines and old clocks alike.
THEOREM SingleTrial == LegacyRun => []OneTrialPerTarget
<1>1. LegacyInv => OneTrialPerTarget
  BY DEF LegacyInv
<1>. QED
  BY <1>1, LegacyInvariant, PTL

\* The step relation inside LegacyChargedForOutput.
ChargeStep ==
  \A r \in Requests :
    LET k == caller'[r] IN
    /\ caller[r].reply = "stream" =>
         k.reply = "stream" /\ k.settled # "released" /\ k.pc # "walk"
    /\ k.pc = "done" /\ k.reply = "body" =>
         k.settled = IF k.outcome = "success" THEN "charged" ELSE "released"
    /\ k.settled = "charged" => k.reply = "stream" \/ k.outcome = "success"
\* A reply that has begun as a stream stays one.
LEMMA StreamStays ==
  ASSUME LegacyInv, [LegacyNext]_legacyVars, NEW r \in Requests, caller[r].reply = "stream"
  PROVE  caller'[r].reply = "stream"
<1>0. /\ r \in Party /\ caller[r] \in CallerRow /\ Consistent(caller[r]) /\ LegacyTypeOK
  BY CallerKnows DEF Party, LegacyInv
<1>1. ASSUME caller'[r] = caller[r] PROVE caller'[r].reply = "stream"
  BY <1>1
<1>2. ASSUME NEW c \in Party, c # r, NEW next, Becomes(c, next) PROVE caller'[r].reply = "stream"
  BY <1>0, <1>2 DEF Becomes, LegacyTypeOK
<1>3. ASSUME NEW next, Becomes(r, next), next.reply = "stream",
             next \in CallerRow
      PROVE  caller'[r].reply = "stream"
  BY <1>0, <1>3, CallerMoves
<1>4. ASSUME NEW c \in Party, PartyStep(c) PROVE caller'[r].reply = "stream"
  <2>1. CASE c # r
    <3>1. \E next : Becomes(c, next)
      BY <1>4 DEF PartyStep, AcquireTargetPermit, PermitFails, NoCandidateLeft, Report, ReportFails
    <3>. QED BY <1>2, <2>1, <3>1
  <2>2. CASE c = r
    <3>1. caller[r].pc \notin {"walk", "idle"}
      BY <1>0 DEF Consistent
    <3>2. Report(r) \/ ReportFails(r)
      BY <1>4, <2>2, <3>1 DEF PartyStep, AcquireTargetPermit, PermitFails, NoCandidateLeft, CandidatesLeft
    <3>3. PICK recorded \in BOOLEAN : Becomes(r, Reported(r, recorded)) /\ caller[r].pc = "landed"
      BY <3>2 DEF Report, ReportFails
    <3>. PICK next : next = Reported(r, recorded)
      OBVIOUS
    <3>4. next \in CallerRow
      BY <1>0, <3>3, ReportedRow
    <3>5. r \notin Probes /\ Charged(r)
      BY DEF Charged
    <3>. PICK answer \in {"none", "body"} : answer = IF caller[r].stream THEN "none" ELSE "body"
      OBVIOUS
    <3>6. next = Finishing(r, TRUE, answer)
      BY <3>5 DEF Reported
    <3>7. next.reply = "stream"
      BY <1>0, <3>6 DEF Finishing, CallerRow
    <3>. QED BY <1>3, <3>3, <3>4, <3>7
  <2>. QED BY <2>1, <2>2
<1>5. ASSUME NEW q \in Requests, RequestStep(q) PROVE caller'[r].reply = "stream"
  <2>1. CASE ClientLeaves(q)
    BY <1>0, <2>1 DEF ClientLeaves, LegacyTypeOK, CallerRow
  <2>2. CASE q # r /\ ~ClientLeaves(q)
    <3>1. q \in Party /\ \E next : Becomes(q, next)
      BY <1>5, <2>2 DEF RequestStep, StreamCommits, CallEnds, CallLands, ClientGone, FinishSucceeds,
                        FinishFails, DeferredFinish, PlanRequest, Party
    <3>. QED BY <1>2, <2>2, <3>1
  <2>3. CASE q = r /\ ~ClientLeaves(q)
    <3>1. caller[r].pc \notin {"idle", "walk", "flying"}
      BY <1>0 DEF Consistent
    <3>2. CASE \E o \in Outcome : CallEnds(r, o)
      <4>. PICK o \in Outcome : CallEnds(r, o)
        BY <3>2
      <4>. DEFINE next == [caller[r] EXCEPT !.pc = "landed", !.outcome = o]
      <4>1. Becomes(r, next)
        BY DEF CallEnds, CallLands
      <4>2. next \in CallerRow /\ next.reply = "stream"
        BY <1>0 DEF CallerRow
      <4>. HIDE DEF next
      <4>. QED BY <1>3, <4>1, <4>2
    <3>3. CASE ClientGone(r)
      <4>. PICK next : next = Finishing(r, TRUE, "none")
        OBVIOUS
      <4>1. Becomes(r, next)
        BY <3>3 DEF ClientGone
      <4>2. next \in CallerRow /\ next.reply = "stream"
        BY <1>0 DEF Finishing, CallerRow
      <4>. QED BY <1>3, <4>1, <4>2
    <3>4. CASE FinishSucceeds(r)
      <4>. PICK settled \in {"charged", "released"} : settled = Settlement(r)
        BY DEF Settlement
      <4>. DEFINE next == [caller[r] EXCEPT !.pc = "done", !.settled = settled, !.reply = "stream"]
      <4>1. Answered(r, caller[r].answer) = "stream"
        BY <1>0, <3>4 DEF Answered, FinishSucceeds, Consistent
      <4>2. Becomes(r, next)
        BY <3>4, <4>1 DEF FinishSucceeds
      <4>3. next \in CallerRow /\ next.reply = "stream"
        BY <1>0 DEF CallerRow
      <4>. HIDE DEF next
      <4>. QED BY <1>3, <4>2, <4>3
    <3>5. CASE FinishFails(r)
      <4>. DEFINE next == [caller[r] EXCEPT !.pc = "deferred", !.reply = "stream"]
      <4>1. Answered(r, "error") = "stream"
        BY <1>0, <3>5 DEF Answered, FinishFails, Consistent
      <4>2. Becomes(r, next)
        BY <3>5, <4>1 DEF FinishFails
      <4>3. next \in CallerRow /\ next.reply = "stream"
        BY <1>0 DEF CallerRow
      <4>. HIDE DEF next
      <4>. QED BY <1>3, <4>2, <4>3
    <3>6. CASE DeferredFinish(r)
      <4>. PICK settled \in {Settlement(r), caller[r].settled} :
             Becomes(r, [caller[r] EXCEPT !.pc = "done", !.settled = settled])
        BY <3>6 DEF DeferredFinish
      <4>. DEFINE next == [caller[r] EXCEPT !.pc = "done", !.settled = settled]
      <4>1. settled \in {"open", "charged", "released"}
        BY <1>0 DEF Settlement, CallerRow
      <4>2. next \in CallerRow /\ next.reply = "stream"
        BY <1>0, <4>1 DEF CallerRow
      <4>3. Becomes(r, next)
        OBVIOUS
      <4>. HIDE DEF next
      <4>. QED BY <1>3, <4>2, <4>3
    <3>. QED BY <1>5, <2>3, <3>1, <3>2, <3>3, <3>4, <3>5, <3>6 DEF RequestStep, StreamCommits, PlanRequest
  <2>. QED BY <2>1, <2>2, <2>3
<1>6. ASSUME NEW p \in Probes, ProbeStep(p) PROVE caller'[r].reply = "stream"
  <2>1. p \in Party /\ p # r /\ \E next : Becomes(p, next)
    BY <1>6 DEF ProbeStep, PlanProbe, ProbeCallEnds, CallLands, ProbeSkipped, Party
  <2>. QED BY <1>2, <2>1
<1>. QED
  BY <1>1, <1>4, <1>5, <1>6 DEF LegacyNext, ReplaceSecret, TimePasses, legacyVars

\* Who was sent output pays for it and is sent nothing else; nobody else pays.
THEOREM LegacyOutputCharged == LegacyRun => LegacyChargedForOutput
<1>1. LegacyInv /\ LegacyInv' /\ [LegacyNext]_legacyVars => ChargeStep
  <2>. SUFFICES ASSUME LegacyInv, LegacyInv', [LegacyNext]_legacyVars, NEW r \in Requests,
                       NEW k, k = caller'[r]
                PROVE  /\ caller[r].reply = "stream" =>
                            k.reply = "stream" /\ k.settled # "released" /\ k.pc # "walk"
                       /\ k.pc = "done" /\ k.reply = "body" =>
                            k.settled = IF k.outcome = "success" THEN "charged" ELSE "released"
                       /\ k.settled = "charged" => k.reply = "stream" \/ k.outcome = "success"
    BY DEF ChargeStep
  <2>1. Consistent(k)
    BY DEF LegacyInv, ChargeInv
  <2>2. caller[r].reply = "stream" => k.reply = "stream"
    BY StreamStays
  <2>. QED BY <2>1, <2>2 DEF Consistent
<1>2. LegacyRun => [][ChargeStep]_legacyVars
  BY <1>1, LegacyInvariant, PTL DEF LegacyRun
<1>. QED
  BY <1>2, PTL DEF LegacyChargedForOutput, ChargeStep

=============================================================================

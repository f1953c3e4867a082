------------------------ MODULE GatewayRequestProofs ------------------------
(***************************************************************************)
(* Proofs about GatewayRequest for any number of sites and keys, whatever  *)
(* the answers of the permits, the upstreams and the settlements.          *)
(*                                                                         *)
(* One inductive invariant carries all of them.  Its parts say which sites *)
(* the walk has left behind (Walk), that a blamed site is one of these     *)
(* (BlamedBehind), what has been answered at each stage (Answered) and     *)
(* that the decision to charge agrees with it (Charge).                    *)
(***************************************************************************)
EXTENDS GatewayRequest, TLAPS, FiniteSetTheorems

\* The handler still looks for an answer.
Walking == at.pc \in {"site", "key", "call"}

\* Sites that were asked for a permit and given one, and have not answered.
Called == {s \in Site : log[s] \in {"local", "failed"}}

\* The current key is one of the current site's, or just past the last, and
\* each build failure is that of an earlier key.
Place ==
  /\ at.pc \in {"key", "call"} =>
       at.site \in Site /\ at.builds < at.key /\ at.key <= keys[at.site] + 1
  /\ at.pc = "call" => at.key <= keys[at.site]
  /\ at.pc = "site" => at.key = 1 /\ at.builds = 0

\* The sites before the current one have a fate, those after it have none,
\* and the attempts counted are the sites that were called.
Walk ==
  Walking =>
    /\ \A s \in Site : s < at.site => log[s] # "unseen"
    /\ \A s \in Site : s > at.site => log[s] = "unseen"
    /\ at.pc = "site" => \A s \in Site : s = at.site => log[s] = "unseen"
    /\ at.pc # "site" => at.site \in Site /\ log[at.site] = "local"
    /\ at.sites = Cardinality(Called)
    /\ at.sites <= budget

BlamedBehind ==
  \A s \in blamed : log[s] = "failed" /\ (Walking => s < at.site)

Answered ==
  /\ at.pc \in {"site", "key"} => reply = "none"
  /\ at.pc = "call" => reply \in {"none", "stream"}
  /\ at.pc = "finish" => reply = "none" \/ (reply = "stream" /\ pending.answer = "none")

Served == \E s \in Site : log[s] = "served"

Charge ==
  /\ reply = "stream" => at.pc = "call" \/ pending.charge
  /\ Served => ~Walking /\ pending.charge
  /\ pending.charge => ~Walking /\ (reply = "stream" \/ Served)
  /\ at.pc # "done" => settled = "open"
  /\ settled = "charged" => pending.charge
  /\ settled = "released" => ~pending.charge

\* Why the walk stopped without an answer.
StopReason ==
  at.pc = "finish" /\ pending.answer = "error" /\ (\A s \in Site : log[s] # "undecided") =>
    \/ \A s \in Site : log[s] # "unseen"
    \/ Cardinality(Called) = budget

IInv == TypeOK /\ Place /\ Walk /\ BlamedBehind /\ Answered /\ Charge /\ StopReason

-----------------------------------------------------------------------------

\* The sites of a route are finite in number, and so are those called.
LEMMA SiteFinite == IsFiniteSet(Site) /\ IsFiniteSet(Called) /\ Cardinality(Called) \in Nat
<1>1. IsFiniteSet(Site)
  BY SitesAssumption, FS_Interval DEF Site
<1>2. Called \subseteq Site
  BY DEF Called
<1> QED BY <1>1, <1>2, FS_Subset, FS_CardinalityType

\* The position after giving up a site.
LEMMA NextSitePosition ==
  ASSUME at \in Position, at.site \in Site
  PROVE  /\ NextSite \in Position
         /\ NextSite.pc = "site" /\ NextSite.site = at.site + 1 /\ NextSite.key = 1
         /\ NextSite.builds = 0 /\ NextSite.sites = at.sites
<1>1. at.site + 1 \in 1..(Sites + 1) /\ 1 \in 1..(MaxKeys + 1) /\ 0 \in 0..MaxKeys
  BY SitesAssumption, MaxKeysAssumption DEF Site
<1>2. NextSite \in Position
  BY <1>1 DEF NextSite, Position
<1>3. /\ NextSite.pc = "site" /\ NextSite.site = at.site + 1 /\ NextSite.key = 1
      /\ NextSite.builds = 0 /\ NextSite.sites = at.sites
  BY DEF NextSite, Position
<1> QED BY <1>2, <1>3

\* The position after moving within a site or to the end of the walk.
LEMMA MovedPosition ==
  ASSUME at \in Position,
         NEW pc \in {"site", "key", "call", "finish", "deferred", "done"}
  PROVE  /\ [at EXCEPT !.pc = pc] \in Position
         /\ [at EXCEPT !.pc = pc].pc = pc /\ [at EXCEPT !.pc = pc].site = at.site
         /\ [at EXCEPT !.pc = pc].key = at.key /\ [at EXCEPT !.pc = pc].sites = at.sites
         /\ [at EXCEPT !.pc = pc].builds = at.builds
BY DEF Position

\* The initial state satisfies every part.
LEMMA InitInvariant == Init => IInv
<1> SUFFICES ASSUME Init PROVE IInv
  OBVIOUS
<1>1. Called = {}
  BY DEF Init, Called
<1>2. Cardinality(Called) = 0
  BY <1>1, FS_EmptySet
<1>3. at.pc = "site" /\ at.site = 1 /\ at.key = 1 /\ at.sites = 0 /\ at.builds = 0
  BY DEF Init
<1>4. at \in Position
  BY SitesAssumption, MaxKeysAssumption DEF Init, Position
<1>5. pending.charge = FALSE /\ pending \in [charge: BOOLEAN, answer: {"none", "body", "error"}]
  BY DEF Init
<1>6. TypeOK
  BY <1>4, <1>5 DEF Init, TypeOK, Fate
<1>7. Place /\ Walk
  BY <1>2, <1>3, <1>6, SitesAssumption DEF Init, Place, Walk, Walking, Site, TypeOK
<1>8. BlamedBehind /\ Answered /\ Charge /\ StopReason
  BY <1>3, <1>5 DEF Init, BlamedBehind, Answered, Charge, Served, StopReason
<1> QED BY <1>6, <1>7, <1>8 DEF IInv

\* Every step keeps the variables within their types and the key in its place.
LEMMA TypeStep == TypeOK /\ Place /\ [Next]_vars => TypeOK' /\ Place'
<1> SUFFICES ASSUME TypeOK, Place, [Next]_vars PROVE TypeOK' /\ Place'
  OBVIOUS
<1>a. at \in Position /\ keys \in [Site -> 0..MaxKeys]
  BY DEF TypeOK
<1>s. at.site \in Nat /\ at.key \in Nat /\ at.sites \in Nat /\ at.builds \in Nat
  BY <1>a, SitesAssumption, MaxKeysAssumption DEF Position
<1>n. at.pc \in {"key", "call"} => at.site \in Site /\ keys[at.site] \in 0..MaxKeys
  BY <1>a DEF Place
<1>e. ASSUME NEW charge \in BOOLEAN, NEW answer \in {"none", "body", "error"},
             Finishing(charge, answer)
      PROVE  /\ at' \in Position /\ at'.pc = "finish"
             /\ pending' \in [charge: BOOLEAN, answer: {"none", "body", "error"}]
  BY <1>a, <1>e, MovedPosition DEF Finishing
<1>1. CASE Exhausted
  BY <1>1, <1>e DEF Exhausted, TypeOK, Place, route
<1>2. CASE SkipSite \/ PermitRefused
  <2>1. at.site \in Site /\ at' = NextSite
    BY <1>2, <1>s, <1>a DEF SkipSite, PermitRefused, AtSite, Site, Position
  <2> QED BY <1>2, <2>1, <1>a, NextSitePosition
          DEF SkipSite, PermitRefused, TypeOK, Place, route, Fate
<1>3. CASE PermitGranted
  <2>1. at.site \in Site /\ at.sites + 1 \in 0..Sites
    BY <1>3, <1>s, <1>a, SitesAssumption DEF PermitGranted, AtSite, Site, Position, TypeOK
  <2>2. /\ at' \in Position /\ at'.pc = "key" /\ at'.site = at.site
        /\ at'.key = at.key /\ at'.builds = at.builds
    BY <1>3, <1>a, <2>1 DEF PermitGranted, Position
  <2>3. at.key = 1 /\ at.builds = 0 /\ keys[at.site] \in Nat
    BY <1>3, <1>a, <2>1, MaxKeysAssumption DEF PermitGranted, AtSite, Place
  <2> QED BY <1>3, <2>1, <2>2, <2>3 DEF PermitGranted, TypeOK, Place, route, Fate
<1>4. CASE PermitFails
  BY <1>4, <1>e DEF PermitFails, TypeOK, Place, route, Fate
<1>5. CASE KeysExhausted
  <2>1. at' = NextSite /\ at.site \in Site
    BY <1>5, <1>n DEF KeysExhausted
  <2>2. blamed' \subseteq Site
    BY <1>5, <2>1 DEF KeysExhausted, Blame, TypeOK
  <2> QED BY <1>5, <2>1, <2>2, <1>a, NextSitePosition
          DEF KeysExhausted, TypeOK, Place, route, Fate
<1>6. CASE KeyTooLate
  BY <1>6, <1>e DEF KeyTooLate, TypeOK, Place, route, Fate
<1>7. CASE BuildFails
  <2>1. at.key + 1 \in 1..(MaxKeys + 1) /\ at.builds + 1 \in 0..MaxKeys
    BY <1>7, <1>n, <1>s, MaxKeysAssumption DEF BuildFails, KeysLeft, Place
  <2>2. /\ at' \in Position /\ at'.pc = "key" /\ at'.site = at.site
        /\ at'.key = at.key + 1 /\ at'.builds = at.builds + 1
    BY <1>7, <1>a, <2>1 DEF BuildFails, KeysLeft, Position
  <2> QED BY <1>7, <2>2, <1>n, <1>s, MaxKeysAssumption
          DEF BuildFails, KeysLeft, TypeOK, Place, route
<1>8. CASE Call
  BY <1>8, <1>a, <1>n, <1>s, MovedPosition DEF Call, KeysLeft, TypeOK, Place, route
<1>9. CASE CallBreaks \/ SiteRejects
  <2>1. CASE SiteFails
    <3>1. at' = NextSite /\ at.site \in Site /\ blamed' \subseteq Site
      BY <1>9, <2>1, <1>n DEF CallBreaks, SiteRejects, InCall, SiteFails, Blame, TypeOK
    <3> QED BY <1>9, <2>1, <3>1, <1>a, NextSitePosition
            DEF CallBreaks, SiteRejects, SiteFails, TypeOK, Place, route, Fate
  <2>2. CASE CallBreaks /\ ClientGone
    BY <2>2, <1>e DEF CallBreaks, ClientGone, TypeOK, Place, route, Fate
  <2> QED BY <1>9, <2>1, <2>2 DEF CallBreaks, SiteRejects
<1>10. CASE KeyRejected
  <2>1. at.key + 1 \in 1..(MaxKeys + 1)
    BY <1>10, <1>n, <1>s, MaxKeysAssumption DEF KeyRejected, InCall, Place
  <2>2. /\ at' \in Position /\ at'.pc = "key" /\ at'.site = at.site
        /\ at'.key = at.key + 1 /\ at'.builds = at.builds
    BY <1>10, <1>a, <2>1 DEF KeyRejected, InCall, Position
  <2> QED BY <1>10, <2>2, <1>n, <1>s, MaxKeysAssumption
          DEF KeyRejected, InCall, TypeOK, Place, route
<1>11. CASE RequestInvalid \/ Succeeds
  BY <1>11, <1>e DEF RequestInvalid, Succeeds, TypeOK, Place, route, Fate
<1>12. CASE StreamCommits
  BY <1>12 DEF StreamCommits, TypeOK, Place, route
<1>13. CASE StreamSucceeds \/ StreamLeft
  BY <1>13, <1>e DEF StreamSucceeds, StreamLeft, TypeOK, Place, route, Fate
<1>14. CASE StreamBreaks
  <2>1. at.site \in Site /\ blamed' \subseteq Site
    BY <1>14, <1>n DEF StreamBreaks, Committed, Blame, TypeOK
  <2> QED BY <1>14, <2>1, <1>e DEF StreamBreaks, TypeOK, Place, route, Fate
<1>15. CASE FinishSucceeds \/ FinishFails \/ DeferredFinish
  <2>1. at' \in Position /\ at'.pc \in {"deferred", "done"}
    BY <1>15, <1>a, MovedPosition DEF FinishSucceeds, FinishFails, DeferredFinish
  <2>2. reply' \in {"none", "stream", "body", "error"}
    BY <1>15 DEF FinishSucceeds, FinishFails, DeferredFinish, TypeOK
  <2>3. settled' \in {"open", "charged", "released"}
    BY <1>15 DEF FinishSucceeds, FinishFails, DeferredFinish, Outcome, TypeOK
  <2> QED BY <1>15, <2>1, <2>2, <2>3
          DEF FinishSucceeds, FinishFails, DeferredFinish, TypeOK, Place, route
<1>16. CASE ClientLeaves \/ DeadlinePasses \/ UNCHANGED vars
  <2>1. CASE ClientLeaves \/ DeadlinePasses
    BY <2>1 DEF ClientLeaves, DeadlinePasses, TypeOK, Place, route
  <2>2. CASE UNCHANGED vars
    BY <2>2 DEF vars, TypeOK, Place, route
  <2> QED BY <1>16, <2>1, <2>2
<1> QED
  BY <1>1, <1>2, <1>3, <1>4, <1>5, <1>6, <1>7, <1>8, <1>9, <1>10, <1>11, <1>12, <1>13,
     <1>14, <1>15, <1>16
  DEF Next, Handler, Ended

\* Every step keeps the walk in order.
LEMMA WalkStep == TypeOK /\ Place /\ Walk /\ [Next]_vars => Walk'
<1> SUFFICES ASSUME TypeOK, Place, Walk, [Next]_vars PROVE Walk'
  OBVIOUS
<1>a. /\ at \in Position /\ log \in [Site -> Fate] /\ budget \in Nat
      /\ at.site \in Nat \ {0} /\ at.sites \in Nat
  BY SitesAssumption DEF TypeOK, Position
<1>n. at.pc \in {"key", "call"} => at.site \in Site
  BY DEF Place
<1>s. \A s \in Site : s \in Nat
  BY DEF Site
<1>1. CASE ~Walking'
  BY <1>1 DEF Walk
<1>2. CASE SkipSite \/ PermitRefused
  <2>1. /\ at.pc = "site" /\ at.site \in Site /\ at' = NextSite /\ budget' = budget
        /\ log' = [log EXCEPT ![at.site] = "passed"]
    BY <1>2, <1>a, SitesAssumption DEF SkipSite, PermitRefused, AtSite, Site, route
  <2>2. log[at.site] = "unseen" /\ at.sites = Cardinality(Called) /\ at.sites <= budget
    BY <2>1 DEF Walk, Walking
  <2>3. Called' = Called
    BY <1>a, <2>1, <2>2 DEF Called
  <2> HIDE DEF Called
  <2> QED BY <1>a, <1>s, <2>1, <2>2, <2>3, NextSitePosition DEF Walk, Walking
<1>3. CASE PermitGranted
  <2>1. /\ at.pc = "site" /\ at.site \in Site /\ at.sites < budget /\ budget' = budget
        /\ log' = [log EXCEPT ![at.site] = "local"]
        /\ at'.pc = "key" /\ at'.site = at.site /\ at'.sites = at.sites + 1
    BY <1>3, <1>a DEF PermitGranted, AtSite, Site, route, Position
  <2>2. log[at.site] = "unseen" /\ at.sites = Cardinality(Called)
    BY <2>1 DEF Walk, Walking
  <2>3. Called' = Called \union {at.site} /\ at.site \notin Called
    BY <1>a, <2>1, <2>2 DEF Called
  <2>4. Cardinality(Called') = Cardinality(Called) + 1
    BY <2>3, SiteFinite, FS_AddElement
  <2> QED BY <1>a, <1>s, <2>1, <2>2, <2>4 DEF Walk, Walking
<1>4. ASSUME at.pc \in {"key", "call"}, at' = NextSite, budget' = budget,
             \/ log' = log
             \/ log' = [log EXCEPT ![at.site] = "failed"]
             \/ log' = [log EXCEPT ![at.site] = "local"]
      PROVE  Walk'
  <2>1. at.site \in Site /\ log[at.site] = "local" /\ at.sites = Cardinality(Called)
        /\ at.sites <= budget
    BY <1>4 DEF Walk, Walking
  <2>2. Called' = Called
    BY <1>a, <1>4, <2>1 DEF Called
  <2> HIDE DEF Called
  <2> QED BY <1>a, <1>s, <1>4, <2>1, <2>2, NextSitePosition DEF Walk, Walking
<1>5. CASE KeysExhausted
  <2>1. \/ log' = [log EXCEPT ![at.site] = "failed"]
        \/ log' = [log EXCEPT ![at.site] = log[at.site]]
    BY <1>5 DEF KeysExhausted
  <2>2. [log EXCEPT ![at.site] = log[at.site]] = log
    BY <1>a
  <2> QED BY <1>4, <1>5, <2>1, <2>2 DEF KeysExhausted, route
<1>6. CASE (CallBreaks \/ SiteRejects) /\ SiteFails
  BY <1>4, <1>6 DEF CallBreaks, SiteRejects, SiteFails, InCall, route
<1>7. ASSUME log' = log, budget' = budget, at'.site = at.site, at'.sites = at.sites,
             \/ at'.pc = at.pc
             \/ at.pc \in {"key", "call"} /\ at'.pc \in {"key", "call"}
      PROVE  Walk'
  <2>1. Called' = Called
    BY <1>7 DEF Called
  <2> QED BY <1>7, <2>1 DEF Walk, Walking
<1>8. CASE BuildFails \/ Call \/ KeyRejected
  BY <1>7, <1>8, <1>a DEF BuildFails, Call, KeyRejected, InCall, KeysLeft, route, Position
<1>9. CASE StreamCommits \/ ClientLeaves \/ DeadlinePasses \/ UNCHANGED vars
  BY <1>7, <1>9 DEF StreamCommits, ClientLeaves, DeadlinePasses, vars, route
<1>10. CASE \/ Exhausted \/ PermitFails \/ KeyTooLate \/ (CallBreaks /\ ClientGone)
            \/ RequestInvalid \/ Succeeds \/ StreamSucceeds \/ StreamBreaks \/ StreamLeft
  <2>1. at' = [at EXCEPT !.pc = "finish"]
    BY <1>10 DEF Exhausted, PermitFails, KeyTooLate, CallBreaks, ClientGone, RequestInvalid,
         Succeeds, StreamSucceeds, StreamBreaks, StreamLeft, Finishing
  <2> QED BY <2>1, <1>1, <1>a, MovedPosition DEF Walking
<1>11. CASE FinishSucceeds \/ FinishFails \/ DeferredFinish
  <2>1. at' = [at EXCEPT !.pc = "done"] \/ at' = [at EXCEPT !.pc = "deferred"]
    BY <1>11 DEF FinishSucceeds, FinishFails, DeferredFinish
  <2> QED BY <2>1, <1>1, <1>a, MovedPosition DEF Walking
<1>12. CASE CallBreaks \/ SiteRejects
  BY <1>6, <1>10, <1>12 DEF CallBreaks, SiteRejects
<1> QED
  BY <1>2, <1>3, <1>5, <1>8, <1>9, <1>10, <1>11, <1>12 DEF Next, Handler, Ended

\* A site is blamed as it is left behind, and its fate is never rewritten.
LEMMA BlameStep ==
  TypeOK /\ Place /\ BlamedBehind /\ [Next]_vars => BlamedBehind'
<1> SUFFICES ASSUME TypeOK, Place, BlamedBehind, [Next]_vars PROVE BlamedBehind'
  OBVIOUS
<1>a. at \in Position /\ log \in [Site -> Fate] /\ at.site \in Nat \ {0} /\ blamed \subseteq Site
  BY SitesAssumption DEF TypeOK, Position
<1>s. \A s \in Site : s \in Nat
  BY DEF Site
<1>1. ASSUME Walking, blamed' = blamed, log' = log \/ \E f \in Fate : log' = [log EXCEPT ![at.site] = f],
             Walking' => at'.site \in {at.site, at.site + 1}
      PROVE  BlamedBehind'
  <2> SUFFICES ASSUME NEW s \in blamed
               PROVE  log'[s] = "failed" /\ (Walking' => s < at'.site)
    BY <1>1 DEF BlamedBehind
  <2>1. log[s] = "failed" /\ s < at.site /\ s \in Site
    BY <1>1, <1>a DEF BlamedBehind
  <2>2. log'[s] = "failed"
    BY <1>1, <1>a, <1>s, <2>1
  <2> QED BY <1>1, <1>a, <1>s, <2>1, <2>2
<1>2. ASSUME Walking, at.site \in Site, blamed' \in {blamed, blamed \union {at.site}},
             log' = [log EXCEPT ![at.site] = "failed"],
             Walking' => at'.site = at.site + 1
      PROVE  BlamedBehind'
  <2> SUFFICES ASSUME NEW s \in blamed'
               PROVE  log'[s] = "failed" /\ (Walking' => s < at'.site)
    BY DEF BlamedBehind
  <2>1. CASE s = at.site
    BY <1>2, <1>a, <2>1
  <2>2. CASE s # at.site
    <3>1. s \in blamed /\ log[s] = "failed" /\ s < at.site /\ s \in Site
      BY <1>2, <1>a, <2>2 DEF BlamedBehind
    <3> QED BY <1>2, <1>a, <1>s, <2>2, <3>1
  <2> QED BY <2>1, <2>2
<1>3. CASE SkipSite \/ PermitRefused
  <2>1. at.site \in Site /\ at' = NextSite
    BY <1>3, <1>a, SitesAssumption DEF SkipSite, PermitRefused, AtSite, Site
  <2>2. at'.site = at.site + 1
    BY <2>1, <1>a, NextSitePosition
  <2> QED BY <1>1, <1>3, <2>2 DEF SkipSite, PermitRefused, AtSite, Walking, Fate
<1>4. CASE PermitGranted
  <2>1. at'.site = at.site
    BY <1>4, <1>a DEF PermitGranted, Position
  <2> QED BY <1>1, <1>4, <2>1 DEF PermitGranted, AtSite, Walking, Fate
<1>5. CASE KeysExhausted
  <2>1. at.site \in Site /\ at' = NextSite /\ Walking
    BY <1>5 DEF KeysExhausted, Place, Walking
  <2>2. at'.site = at.site + 1
    BY <2>1, <1>a, NextSitePosition
  <2>3. CASE AllBuildsFailed
    BY <1>2, <1>5, <2>1, <2>2, <2>3 DEF KeysExhausted, AllBuildsFailed, Blame
  <2>4. CASE ~AllBuildsFailed
    BY <1>1, <1>5, <2>1, <2>2, <2>4, <1>a DEF KeysExhausted, AllBuildsFailed
  <2> QED BY <2>3, <2>4
<1>6. CASE (CallBreaks \/ SiteRejects) /\ SiteFails
  <2>1. at.site \in Site /\ at' = NextSite /\ Walking
    BY <1>6 DEF CallBreaks, SiteRejects, InCall, SiteFails, Place, Walking
  <2>2. at'.site = at.site + 1
    BY <2>1, <1>a, NextSitePosition
  <2> QED BY <1>2, <1>6, <2>1, <2>2 DEF SiteFails, Blame
<1>7. CASE StreamBreaks
  <2>1. at.site \in Site /\ Walking /\ ~Walking'
    BY <1>7, <1>a, MovedPosition DEF StreamBreaks, Committed, Finishing, Place, Walking
  <2> QED BY <1>2, <1>7, <2>1 DEF StreamBreaks, Blame
<1>8. CASE \/ Exhausted \/ PermitFails \/ KeyTooLate \/ (CallBreaks /\ ClientGone)
           \/ RequestInvalid \/ Succeeds \/ StreamSucceeds \/ StreamLeft
  <2>1. Walking /\ blamed' = blamed /\ (log' = log \/ \E f \in Fate : log' = [log EXCEPT ![at.site] = f])
    BY <1>8 DEF Exhausted, PermitFails, KeyTooLate, KeysLeft, AtSite, CallBreaks, ClientGone,
         InCall, Committed, RequestInvalid, Succeeds, StreamSucceeds, StreamLeft, Walking, Fate
  <2>2. at' = [at EXCEPT !.pc = "finish"]
    BY <1>8 DEF Exhausted, PermitFails, KeyTooLate, CallBreaks, ClientGone, RequestInvalid,
         Succeeds, StreamSucceeds, StreamLeft, Finishing
  <2> QED BY <1>1, <2>1, <2>2, <1>a, MovedPosition
<1>9. CASE BuildFails \/ Call \/ KeyRejected
  <2>1. Walking /\ blamed' = blamed /\ log' = log /\ at'.site = at.site
    BY <1>9, <1>a DEF BuildFails, Call, KeyRejected, InCall, KeysLeft, Walking, Position
  <2> QED BY <1>1, <2>1
<1>10. CASE StreamCommits \/ ClientLeaves \/ DeadlinePasses \/ UNCHANGED vars
  BY <1>10 DEF StreamCommits, ClientLeaves, DeadlinePasses, vars, route, BlamedBehind, Walking
<1>11. CASE FinishSucceeds \/ FinishFails \/ DeferredFinish
  <2>1. at' = [at EXCEPT !.pc = "done"] \/ at' = [at EXCEPT !.pc = "deferred"]
    BY <1>11 DEF FinishSucceeds, FinishFails, DeferredFinish
  <2>2. ~Walking' /\ log' = log /\ blamed' = blamed
    BY <1>11, <2>1, <1>a, MovedPosition DEF FinishSucceeds, FinishFails, DeferredFinish, Walking
  <2> QED BY <2>2 DEF BlamedBehind
<1>12. CASE CallBreaks \/ SiteRejects
  BY <1>6, <1>8, <1>12 DEF CallBreaks, SiteRejects
<1> QED
  BY <1>3, <1>4, <1>5, <1>7, <1>8, <1>9, <1>10, <1>11, <1>12 DEF Next, Handler, Ended

\* The answer and the charge are decided together, once.
LEMMA ChargeStep ==
  TypeOK /\ Place /\ Answered /\ Charge /\ [Next]_vars => Answered' /\ Charge'
<1> SUFFICES ASSUME TypeOK, Place, Answered, Charge, [Next]_vars PROVE Answered' /\ Charge'
  OBVIOUS
<1>a. /\ at \in Position /\ log \in [Site -> Fate]
      /\ pending \in [charge: BOOLEAN, answer: {"none", "body", "error"}]
  BY DEF TypeOK
<1>1. ASSUME Walking, settled' = settled, reply' = reply, pending' = pending, Walking',
             at.pc = "call" => at'.pc = "call" \/ reply = "none",
             log' = log \/ \E f \in Fate \ {"served"} : log' = [log EXCEPT ![at.site] = f]
      PROVE  Answered' /\ Charge'
  <2>1. ~Served /\ ~Served'
    BY <1>1, <1>a DEF Charge, Served, Fate
  <2>2. at.pc # "done" /\ at'.pc \notin {"finish", "done"}
    BY <1>1 DEF Walking
  <2>3. reply = "none" \/ (at.pc = "call" /\ at'.pc = "call" /\ reply = "stream")
    BY <1>1 DEF Answered, Walking
  <2> QED BY <1>1, <2>1, <2>2, <2>3 DEF Answered, Charge, Walking
<1>2. ASSUME Walking, settled' = settled, reply' = reply, NEW charge \in BOOLEAN,
             NEW answer \in {"none", "body", "error"}, Finishing(charge, answer),
             reply = "none" \/ (reply = "stream" /\ answer = "none" /\ charge),
             charge => reply = "stream" \/ Served',
             Served' => charge
      PROVE  Answered' /\ Charge'
  <2>1. at'.pc = "finish" /\ pending'.charge = charge /\ pending'.answer = answer
    BY <1>2, <1>a DEF Finishing, Position
  <2> QED BY <1>2, <2>1 DEF Answered, Charge, Walking
<1>f. ASSUME NEW f \in Fate \ {"served"}, Walking,
             log' = log \/ log' = [log EXCEPT ![at.site] = f]
      PROVE  ~Served'
  BY <1>a, <1>f DEF Charge, Served
<1>3. CASE SkipSite \/ PermitRefused
  <2>1. at'.pc = "site"
    BY <1>3, <1>a DEF SkipSite, PermitRefused, NextSite, Position
  <2> QED BY <1>1, <1>3, <2>1 DEF SkipSite, PermitRefused, AtSite, Walking, Fate
<1>4. CASE PermitGranted \/ BuildFails
  <2>1. at.pc \in {"site", "key"} /\ at'.pc = "key"
    BY <1>4, <1>a DEF PermitGranted, BuildFails, AtSite, KeysLeft, Position
  <2> QED BY <1>1, <1>4, <2>1 DEF PermitGranted, BuildFails, Walking, Fate
<1>5. CASE Call
  <2>1. at.pc = "key" /\ at'.pc = "call"
    BY <1>5, <1>a DEF Call, KeysLeft, Position
  <2> QED BY <1>1, <1>5, <2>1 DEF Call, Walking
<1>6. CASE KeysExhausted
  <2>1. at.pc = "key" /\ at'.pc = "site"
    BY <1>6, <1>a DEF KeysExhausted, NextSite, Position
  <2>2. log' = log \/ log' = [log EXCEPT ![at.site] = "failed"]
    BY <1>6, <1>a DEF KeysExhausted
  <2> QED BY <1>1, <1>6, <2>1, <2>2 DEF KeysExhausted, Walking, Fate
<1>7. CASE (CallBreaks \/ SiteRejects) /\ SiteFails
  <2>1. at.pc = "call" /\ reply = "none" /\ at'.pc = "site"
    BY <1>7, <1>a DEF CallBreaks, SiteRejects, InCall, SiteFails, NextSite, Position
  <2> QED BY <1>1, <1>7, <2>1 DEF CallBreaks, SiteRejects, SiteFails, Walking, Fate
<1>8. CASE KeyRejected
  <2>1. at.pc = "call" /\ reply = "none" /\ at'.pc = "key"
    BY <1>8, <1>a DEF KeyRejected, InCall, Position
  <2> QED BY <1>1, <1>8, <2>1 DEF KeyRejected, Walking, Fate
<1>9. CASE Exhausted \/ PermitFails \/ KeyTooLate \/ (CallBreaks /\ ClientGone)
  <2>1. Walking /\ reply = "none" /\ reply' = reply /\ settled' = settled
    BY <1>9 DEF Exhausted, PermitFails, KeyTooLate, KeysLeft, AtSite, CallBreaks, InCall,
         Answered, Walking
  <2>2. Finishing(FALSE, "error")
    BY <1>9 DEF Exhausted, PermitFails, KeyTooLate, ClientGone
  <2>3. log' = log \/ log' = [log EXCEPT ![at.site] = "undecided"]
    BY <1>9 DEF Exhausted, PermitFails, KeyTooLate, ClientGone
  <2>4. "undecided" \in Fate \ {"served"}
    BY DEF Fate
  <2>5. ~Served'
    BY <1>f, <2>1, <2>3, <2>4
  <2> QED BY <1>2, <2>1, <2>2, <2>5
<1>10. CASE RequestInvalid
  <2>1. ~Served'
    BY <1>10, <1>f DEF RequestInvalid, InCall, Walking, Fate
  <2> QED BY <1>2, <1>10, <2>1 DEF RequestInvalid, InCall, Walking
<1>11. CASE Succeeds
  <2>1. at.site \in Site /\ log' = [log EXCEPT ![at.site] = "served"]
    BY <1>11 DEF Succeeds, InCall, Place
  <2>2. Served'
    BY <1>a, <2>1 DEF Served
  <2> QED BY <1>2, <1>11, <2>2 DEF Succeeds, InCall, Walking
<1>12. CASE StreamCommits
  BY <1>12, <1>a DEF StreamCommits, InCall, Answered, Charge, Served, Walking
<1>13. CASE StreamSucceeds \/ StreamBreaks \/ StreamLeft
  <2>1. Finishing(TRUE, "none") /\ Walking /\ reply = "stream"
    BY <1>13 DEF StreamSucceeds, StreamBreaks, StreamLeft, Committed, Walking
  <2>2. settled' = settled /\ reply' = reply
    BY <1>13 DEF StreamSucceeds, StreamBreaks, StreamLeft
  <2>3. TRUE \in BOOLEAN /\ "none" \in {"none", "body", "error"}
    OBVIOUS
  <2> QED BY <1>2, <2>1, <2>2, <2>3
<1>14. CASE FinishSucceeds
  <2>1. at.pc = "finish" /\ at'.pc = "done" /\ pending' = pending /\ log' = log
    BY <1>14, <1>a DEF FinishSucceeds, Position
  <2>2. reply' = "stream" <=> reply = "stream"
    BY <1>14, <1>a, <2>1 DEF FinishSucceeds, Answered
  <2>3. settled' = IF pending.charge THEN "charged" ELSE "released"
    BY <1>14 DEF FinishSucceeds, Outcome
  <2> QED BY <1>a, <2>1, <2>2, <2>3 DEF Answered, Charge, Served, Walking
<1>15. CASE FinishFails
  <2>1. /\ at.pc = "finish" /\ at'.pc = "deferred" /\ pending' = pending /\ log' = log
        /\ settled' = settled
    BY <1>15, <1>a DEF FinishFails, Position
  <2>2. reply' = "stream" <=> reply = "stream"
    BY <1>15, <1>a, <2>1 DEF FinishFails, Answered
  <2> QED BY <1>a, <2>1, <2>2 DEF Answered, Charge, Served, Walking
<1>16. CASE DeferredFinish
  <2>1. /\ at.pc = "deferred" /\ at'.pc = "done" /\ pending' = pending /\ log' = log
        /\ reply' = reply
    BY <1>16, <1>a DEF DeferredFinish, Position
  <2>2. settled' \in {settled, IF pending.charge THEN "charged" ELSE "released"}
    BY <1>16 DEF DeferredFinish, Outcome
  <2> QED BY <1>a, <2>1, <2>2 DEF Answered, Charge, Served, Walking
<1>17. CASE ClientLeaves \/ DeadlinePasses \/ UNCHANGED vars
  BY <1>17 DEF ClientLeaves, DeadlinePasses, vars, Answered, Charge, Served, Walking
<1>18. CASE CallBreaks \/ SiteRejects
  BY <1>7, <1>9, <1>18 DEF CallBreaks, SiteRejects
<1> QED
  BY <1>3, <1>4, <1>5, <1>6, <1>8, <1>9, <1>10, <1>11, <1>12, <1>13, <1>14, <1>15, <1>16,
     <1>17, <1>18 DEF Next, Handler, Ended

\* The walk stops with a reason.
LEMMA StopStep ==
  TypeOK /\ Place /\ Walk /\ StopReason /\ [Next]_vars => StopReason'
<1> SUFFICES ASSUME TypeOK, Place, Walk, StopReason, [Next]_vars,
                    at'.pc = "finish", pending'.answer = "error",
                    \A s \in Site : log'[s] # "undecided"
             PROVE  \/ \A s \in Site : log'[s] # "unseen"
                    \/ Cardinality(Called') = budget'
  BY DEF StopReason
<1>a. /\ at \in Position /\ log \in [Site -> Fate] /\ at.site \in 1..(Sites + 1)
      /\ at.sites \in Nat /\ budget \in Nat
      /\ pending \in [charge: BOOLEAN, answer: {"none", "body", "error"}]
  BY SitesAssumption DEF TypeOK, Position
<1>1. CASE Exhausted
  <2>1. at.pc = "site" /\ log' = log /\ budget' = budget
    BY <1>1 DEF Exhausted, route
  <2>2. CASE at.site > Sites
    <3>1. \A s \in Site : s < at.site
      BY <1>a, <2>2, SitesAssumption DEF Site
    <3> QED BY <2>1, <3>1 DEF Walk, Walking
  <2>3. CASE at.sites >= budget
    <3>1. Cardinality(Called) = budget
      BY <1>a, <2>1, <2>3 DEF Walk, Walking
    <3> QED BY <2>1, <3>1 DEF Called
  <2> QED BY <1>1, <2>2, <2>3 DEF Exhausted
<1>2. CASE PermitFails \/ KeyTooLate \/ (CallBreaks /\ ClientGone) \/ RequestInvalid
           \/ StreamLeft
  <2>1. at.pc \in {"key", "call"} \/ at.site <= Sites
    BY <1>2 DEF PermitFails, AtSite, KeyTooLate, KeysLeft, CallBreaks, InCall,
         RequestInvalid, StreamLeft, Committed
  <2>3. at.site \in Site
    BY <1>a, <2>1, SitesAssumption DEF Place, Site
  <2>2. log' = [log EXCEPT ![at.site] = "undecided"]
    BY <1>2 DEF PermitFails, KeyTooLate, CallBreaks, ClientGone, RequestInvalid, StreamLeft
  <2> QED BY <1>a, <2>2, <2>3
<1>3. CASE Succeeds \/ StreamSucceeds \/ StreamBreaks
  BY <1>3, <1>a DEF Succeeds, StreamSucceeds, StreamBreaks, Finishing
<1>4. CASE SkipSite \/ PermitRefused \/ KeysExhausted \/ ((CallBreaks \/ SiteRejects) /\ SiteFails)
  BY <1>4, <1>a DEF SkipSite, PermitRefused, KeysExhausted, SiteFails, NextSite, Position
<1>5. CASE PermitGranted \/ BuildFails \/ Call \/ KeyRejected
  BY <1>5, <1>a DEF PermitGranted, BuildFails, Call, KeysLeft, KeyRejected, Position
<1>6. CASE StreamCommits
  BY <1>6 DEF StreamCommits, InCall
<1>7. CASE FinishSucceeds \/ FinishFails \/ DeferredFinish
  BY <1>7, <1>a DEF FinishSucceeds, FinishFails, DeferredFinish, Position
<1>8. CASE ClientLeaves \/ DeadlinePasses \/ UNCHANGED vars
  <2>1. at' = at /\ log' = log /\ pending' = pending /\ budget' = budget
    BY <1>8 DEF ClientLeaves, DeadlinePasses, vars, route
  <2> QED BY <2>1 DEF StopReason, Called
<1>9. CASE CallBreaks \/ SiteRejects
  BY <1>2, <1>4, <1>9 DEF CallBreaks, SiteRejects
<1> QED
  BY <1>1, <1>2, <1>3, <1>4, <1>5, <1>6, <1>7, <1>8, <1>9 DEF Next, Handler, Ended

-----------------------------------------------------------------------------
(* The theorems *)

\* The inductive invariant holds in every state of every behaviour of the
\* handler (serveV3Inference).
THEOREM HandlerInvariant == Spec => []IInv
<1>1. Init => IInv
  BY InitInvariant
<1>2. IInv /\ [Next]_vars => IInv'
  BY TypeStep, WalkStep, BlameStep, ChargeStep, StopStep DEF IInv
<1> QED BY <1>1, <1>2, PTL DEF Spec

\* The handler's variables keep their types.
THEOREM TypeCorrect == Spec => []TypeOK
<1>1. IInv => TypeOK
  BY DEF IInv
<1> QED BY <1>1, HandlerInvariant, PTL

\* Whoever was sent output is charged and nobody else is, through failing
\* settlements and clients that leave at any moment (finalize and its deferred
\* call).
THEOREM OutputIsCharged == Spec => []ChargedForOutput
<1>1. IInv => ChargedForOutput
  <2> SUFFICES ASSUME IInv, at.pc = "done" PROVE ChargedForOutput
    BY DEF ChargedForOutput
  <2>1. reply = "stream" => pending.charge
    BY DEF IInv, Charge
  <2> QED BY <2>1 DEF IInv, Charge, Served, ChargedForOutput
<1> QED BY <1>1, HandlerInvariant, PTL

\* A failure is stored only against a site that failed as a whole
\* (RecordRouteSiteTargetFailure in serveV3Inference).
THEOREM BlameHolds == Spec => []BlameIsDeserved
<1>1. IInv => BlameIsDeserved
  BY DEF IInv, BlamedBehind, BlameIsDeserved
<1> QED BY <1>1, HandlerInvariant, PTL

\* The walk over the sites of the route gives up only with a reason.
THEOREM EverySiteConsidered == Spec => []NoSiteForgotten
<1>1. IInv => NoSiteForgotten
  BY DEF IInv, StopReason, Called, NoSiteForgotten
<1> QED BY <1>1, HandlerInvariant, PTL

\* After output has reached the client no site is called again and no second
\* answer is sent.
THEOREM OutputEndsRetries == Spec => NoRetryAfterOutput
<1> DEFINE Step == reply # "none" =>
                     /\ reply' = reply
                     /\ at'.pc = "call" => /\ at.pc = "call"
                                           /\ at'.site = at.site /\ at'.key = at.key
<1>1. IInv /\ [Next]_vars => [Step]_vars
  <2> SUFFICES ASSUME IInv, Next, reply # "none" PROVE Step
    OBVIOUS
  <2>a. /\ at \in Position /\ at.pc \notin {"site", "key"}
        /\ at.pc \in {"call", "finish"} => reply = "stream"
        /\ at.pc = "finish" => pending.answer = "none"
    BY DEF IInv, TypeOK, Answered
  <2>1. CASE StreamSucceeds \/ StreamBreaks \/ StreamLeft
    <3>1. reply' = reply /\ at'.pc = "finish"
      BY <2>1, <2>a, MovedPosition DEF StreamSucceeds, StreamBreaks, StreamLeft, Finishing
    <3> QED BY <3>1
  <2>2. CASE FinishSucceeds \/ FinishFails \/ DeferredFinish
    <3>1. reply' = reply
      BY <2>2, <2>a DEF FinishSucceeds, FinishFails, DeferredFinish
    <3>2. at'.pc \in {"done", "deferred"}
      BY <2>2, <2>a, MovedPosition DEF FinishSucceeds, FinishFails, DeferredFinish
    <3> QED BY <3>1, <3>2
  <2>3. CASE ClientLeaves \/ DeadlinePasses \/ UNCHANGED vars
    <3>1. reply' = reply /\ at' = at
      BY <2>3 DEF ClientLeaves, DeadlinePasses, vars
    <3> QED BY <3>1
  <2> QED BY <2>a, <2>1, <2>2, <2>3
          DEF Next, Handler, Ended, Exhausted, SkipSite, PermitRefused, PermitGranted,
              PermitFails, AtSite, KeysExhausted, KeyTooLate, BuildFails, Call, KeysLeft,
              CallBreaks, KeyRejected, SiteRejects, RequestInvalid, Succeeds, StreamCommits,
              InCall
<1> QED BY <1>1, HandlerInvariant, PTL DEF Spec, NoRetryAfterOutput

=============================================================================

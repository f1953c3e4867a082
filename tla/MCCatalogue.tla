---------------------------- MODULE MCCatalogue ----------------------------
(* Three scenes of Catalogue for TLC, so that the state spaces add instead  *)
(* of multiplying: a discovery of a site whose configuration is edited, two *)
(* discoveries that overlap, and a route that is edited together with the   *)
(* rows it rests on while the panel shows it.                               *)
EXTENDS Catalogue, TLC

CONSTANTS s1, s2, e1, e2, c1, c2, t1, t2, n1, n2, u1, u2, k1, k2, r1, r2

VARIABLE scene

MCSiteOf == (e1 :> s1) @@ (e2 :> s2) @@ (c1 :> s1) @@ (c2 :> s1)
\* The second key is not offered the second model, and nothing elsewhere.
MCOffers == (u1 :> ((k1 :> {n1, n2}) @@ (k2 :> {n1}))) @@ (u2 :> ((k1 :> {n2}) @@ (k2 :> {})))

\* One site with two keys, and no route; a published model and its sites.
DiscoveryScene ==
  /\ site[s2] = Unborn /\ site[s1] # Unborn
  /\ Here(endpoint[e1]) /\ endpoint[e1].url = u1 /\ endpoint[e1].eligible
  /\ credential[c1] = [secret |-> k1, enabled |-> TRUE]
  /\ credential[c2] = [secret |-> k2, enabled |-> TRUE]
  /\ model[e1] = [n \in Names |-> IF n = n1 THEN "none" ELSE "enabled"]
  /\ published = Unborn /\ profile = Unborn
RouteScene ==
  /\ credential = [c \in Credentials |-> Unborn]
  /\ \A e \in Endpoints : Here(endpoint[e]) => endpoint[e].url = u1 /\ endpoint[e].eligible
  /\ \A e \in Endpoints : Here(endpoint[e])
  /\ \A e \in Endpoints : model[e] = [n \in Names |-> IF n = n1 THEN "enabled" ELSE "none"]
  /\ Here(published) = Here(profile)

MCInit == /\ Init
          /\ scene \in {"edited", "overlapping", "route"}
          /\ IF scene = "route" THEN RouteScene ELSE DiscoveryScene

MCNext ==
  /\ CASE scene = "edited" -> (edits < 2 /\ SiteStep) \/ RunStep(r1)
       [] scene = "overlapping" -> \E r \in Runs : RunStep(r)
       [] scene = "route" -> /\ SiteStep \/ RouteStep \/ ViewStep
                             /\ \A e \in Endpoints : Here(endpoint'[e]) => endpoint'[e].url = u1
                             /\ \A c \in Credentials : Here(credential'[c]) => credential'[c].secret = k1
  /\ UNCHANGED scene

MCSpec == MCInit /\ [][MCNext]_<<vars, scene>>
=============================================================================

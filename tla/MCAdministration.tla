-------------------------- MODULE MCAdministration --------------------------
(* The parts of the administration that share no state, each in a scene of   *)
(* its own, so that their state spaces add up instead of multiplying.        *)
EXTENDS Administration

VARIABLE scene

MCOwners == {"site"}
MCLogins == {"l1", "l2"}
MCCallers == {"admin1"}
MCLimits == {0, 1, 2}

\* The logins need less time than the rate windows for their cases to happen.
LoginTime == 3

\* Two upstreams of one origin that serve the model.
Upstream(o, x, on) == [origin |-> o, url |-> x, routable |-> TRUE, enabled |-> on]
Account(a, x) == [auth |-> a, usage |-> x]

Serving ==
  /\ upstream = <<Upstream("o1", "x", TRUE), Upstream("o1", "y", TRUE), NoRow>>
  /\ source = [u \in Upstreams |-> [n \in Names |-> IF u = 3 THEN "none" ELSE "on"]]
  /\ route = <<<<<<1, 1>>, <<2, 1>>>>>>
  /\ legacyAccount = <<Account("a", NoUsage), NoRow, NoRow>>
  /\ changes = 0

\* A legacy catalogue of up to three upstreams, in any of the states that
\* decide about grouping, merging and accounts.
Grown ==
  /\ \E x, y \in Urls, on \in BOOLEAN, o \in Origins :
       upstream = <<Upstream("o1", "x", on), Upstream("o1", x, TRUE), Upstream(o, y, TRUE)>>
  /\ \E m \in {"on", "off"} :
       source = <<<<"on">>, <<m>>, <<"on">>>>
  /\ route \in {<<<<<<1, 1>>, <<2, 1>>>>>>, <<<<<<3, 1>>, <<2, 1>>, <<1, 1>>>>>>}
  /\ \E x \in Auths : legacyAccount = <<Account("a", NoUsage), Account(x, "p"), NoRow>>
  /\ changes = MaxChanges - 1

MCRoute == <<1, 2>>
MCBudgets == {1, 2}

\* Everybody meets one target, whose cooldown ends in a moment.
Cooling ==
  /\ time = 1
  /\ health = [t \in Targets |-> [FreshHealth EXCEPT !.phase = "open", !.last = 1, !.cooldown = 2]]
  /\ credential = [t \in Targets |-> IF t = 1 THEN "active" ELSE "invalid"]

\* One request meets two targets in any state.
Rows ==
  {FreshHealth,
   [FreshHealth EXCEPT !.failures = 1, !.last = 1],
   [FreshHealth EXCEPT !.phase = "open", !.last = 1, !.cooldown = 3],
   [FreshHealth EXCEPT !.phase = "half_open", !.last = 1, !.cooldown = 2, !.lease = 4],
   [FreshHealth EXCEPT !.capability = "unsupported"]}
Walked ==
  /\ time = 2
  /\ health \in [Targets -> Rows]
  /\ credential \in [Targets -> {"active", "invalid"}]

LegacyStep ==
  \/ /\ scene = "trials" /\ LegacyNext
     /\ credential'[2] = "invalid"
     /\ \A c \in Party : /\ ~caller'[c].stream /\ caller'[c].client
                         /\ caller'[c].pc # "deferred" /\ caller'[c].budget <= 1
                         /\ caller'[c].outcome \in {"success", "penalize", "client"}
  \/ /\ scene = "walk" /\ LegacyNext
     /\ \A c \in Party \ {"q1"} : caller'[c].pc = "idle"

MCInit ==
  /\ scene \in {"accounts", "logins", "rates", "migration", "trials", "walk"}
  /\ caller = [c \in Party |-> Idling(c)] /\ trials = [t \in Targets |-> {}]
  /\ CASE scene = "trials" -> Cooling [] scene = "walk" -> Walked [] OTHER -> LegacyInit
  /\ SyncInit /\ LimitsInit
  /\ scene # "rates" => \A k \in Keys : limit[k] = 0
  /\ IF scene = "migration" THEN NothingMigrated /\ (Serving \/ Grown) ELSE MigrationInit

MCNext ==
  /\ UNCHANGED scene
  /\ \/ scene = "accounts" /\ SyncNext /\ UNCHANGED <<limitVars, migrationVars, legacyVars>>
     \/ /\ scene = "logins" /\ UNCHANGED <<syncVars, migrationVars, legacyVars>>
        /\ (\E a \in Attempts : LoginStep(a)) \/ (clock < LoginTime /\ Tick)
     \/ /\ scene = "rates" /\ UNCHANGED <<syncVars, migrationVars, legacyVars>>
        /\ \/ \E r \in Calls : CallStep(r)
           \/ \E k \in Keys, n \in Limits : SetLimit(k, n)
           \/ Tick
     \/ scene = "migration" /\ MigrationNext /\ UNCHANGED <<syncVars, limitVars, legacyVars>>
     \/ LegacyStep /\ UNCHANGED <<syncVars, limitVars, migrationVars>>

MCSpec == MCInit /\ [][MCNext]_<<syncVars, limitVars, migrationVars, legacyVars, scene>>
=============================================================================

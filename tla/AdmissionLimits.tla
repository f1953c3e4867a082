-------------------------- MODULE AdmissionLimits --------------------------
(***************************************************************************)
(* The two limits that are counted per time: failed logins of a client,    *)
(* kept in a bounded table in memory, and requests of a key per minute,    *)
(* kept in rows that are pruned as time goes by.  In both, the clock is    *)
(* read first and used later, after other requests have been counted.      *)
(*                                                                         *)
(* Sources: internal/httpapi/login_limiter.go and server.go (login),       *)
(* internal/store/keys.go (AuthenticateDownstreamKey, consumeRPM).         *)
(*                                                                         *)
(* Time is in seconds.  The password check itself, cookies and sessions    *)
(* are left out, and so is everything else a key is checked for (see       *)
(* QuotaLedger).                                                           *)
(***************************************************************************)
EXTENDS Integers, FiniteSets

CONSTANTS
  Clients,      \* addresses logins come from
  Attempts,     \* login requests
  MaxEntries,   \* loginLimiterMaxEntries
  IdleTTL,      \* loginLimiterIdleTTL
  BackoffMax,   \* loginBackoffMax
  Keys, Calls,  \* downstream keys and requests that carry them
  Limits,       \* values of rpm_limit; 0 is unlimited
  Window,       \* length of a rate window: a minute
  BusyTimeout,  \* how long a statement waits for the database
  NoEntry, Vacant,
  MaxTime       \* bound of the clock

ASSUME LimiterAssumption == /\ MaxEntries \in Nat \ {0} /\ BackoffMax \in Nat
                            /\ IdleTTL \in Nat /\ IdleTTL > BackoffMax
ASSUME RateAssumption == /\ Limits \subseteq Nat /\ Window \in Nat \ {0}
                         /\ BusyTimeout \in Nat /\ BusyTimeout <= Window
ASSUME ClockAssumption == MaxTime \in Nat
ASSUME RowsAssumption == Clients # {} /\ Keys # {} /\ Vacant \notin Attempts

VARIABLES
  clock,
  entry,     \* loginFailureLimiter.entries
  slot,      \* loginSlots: the login whose password is being checked
  login,     \* the login requests
  limit,     \* rpm_limit of a key
  windows,   \* downstream_key_rate_windows: counts, 0 if there is no row
  call,      \* the requests that carry a key
  accepted,  \* history: requests accepted per key and window
  widest     \* history: the greatest limit a key ever had; 0 if it was unlimited

limiterVars == <<entry, slot, login>>
rateVars == <<limit, windows, call, accepted, widest>>
limitVars == <<clock, limiterVars, rateVars>>

EntryRow == [failures: Nat, until: Nat, seen: Nat]
LoginRow == [pc: {"idle", "allowed", "checking"}, client: Clients, now: Nat]
CallRow == [pc: {"idle", "stamped"}, key: Keys, limit: Nat, now: Nat]

---------------------------------------------------------------------------
(* Failed logins *)

NoLogin == [pc |-> "idle", client |-> CHOOSE c \in Clients : TRUE, now |-> 0]
Answer(a) == login' = [login EXCEPT ![a] = NoLogin]

Known == {c \in Clients : entry[c] # NoEntry}
Blocked(c, now) == c \in Known /\ now < entry[c].until

\* allow: the time is read once, here.
Allow(a, c) ==
  /\ login[a].pc = "idle" /\ ~Blocked(c, clock)
  /\ login' = [login EXCEPT ![a] = [pc |-> "allowed", client |-> c, now |-> clock]]
  /\ UNCHANGED <<clock, entry, slot, rateVars>>

\* One password is checked at a time; another login is turned away.
TakeSlot(a) ==
  /\ login[a].pc = "allowed"
  /\ IF slot = Vacant
     THEN slot' = a /\ login' = [login EXCEPT ![a].pc = "checking"]
     ELSE Answer(a) /\ UNCHANGED slot
  /\ UNCHANGED <<clock, entry, rateVars>>

\* Mutant: an entry is dropped as soon as it has not been seen for a second.
ExpiredAtOnce(e, now) == now - e.seen >= 1

Expired(e, now) == now - e.seen >= IdleTTL

\* 1, 2, 4 ... seconds from the second failure on.
Delay(failures) ==
  LET power == 2 ^ (IF failures - 2 > 6 THEN 6 ELSE failures - 2) IN
  IF power > BackoffMax THEN BackoffMax ELSE power

Failed(e, now) ==
  [failures |-> e.failures + 1, seen |-> now,
   until |-> IF e.failures + 1 > 1 THEN now + Delay(e.failures + 1) ELSE e.until]

\* Mutant: room is made one entry too late.
EvictionsLate(c, kept) == IF c \notin kept /\ Cardinality(kept) > MaxEntries THEN 1 ELSE 0

Evictions(c, kept) == IF c \notin kept /\ Cardinality(kept) >= MaxEntries THEN 1 ELSE 0

\* failure: prune, make room for a new client by dropping the one seen least
\* recently, count.
LoginFails(a) ==
  LET now == login[a].now
      c == login[a].client
      kept == {d \in Known : ~Expired(entry[d], now)}
      oldest == {d \in kept : \A o \in kept : entry[d].seen <= entry[o].seen} IN
  /\ login[a].pc = "checking"
  /\ \E evicted \in SUBSET oldest :
       /\ Cardinality(evicted) = Evictions(c, kept)
       /\ entry' = [d \in Clients |->
            CASE d = c -> Failed(IF c \in kept THEN entry[c]
                                 ELSE [failures |-> 0, until |-> 0, seen |-> 0], now)
              [] d \in kept \ (evicted \union {c}) -> entry[d]
              [] OTHER -> NoEntry]
  /\ slot' = Vacant
  /\ Answer(a)
  /\ UNCHANGED <<clock, rateVars>>

LoginSucceeds(a) ==
  /\ login[a].pc = "checking"
  /\ entry' = [entry EXCEPT ![login[a].client] = NoEntry]
  /\ slot' = Vacant
  /\ Answer(a)
  /\ UNCHANGED <<clock, rateVars>>

---------------------------------------------------------------------------
(* Requests per minute *)

NoCall == [pc |-> "idle", key |-> CHOOSE k \in Keys : TRUE, limit |-> 0, now |-> 0]

WindowOf(now) == now - (now % Window)

SetLimit(k, n) ==
  /\ n \in Limits
  /\ limit' = [limit EXCEPT ![k] = n]
  /\ widest' = [widest EXCEPT ![k] = IF n = 0 \/ @ = 0 THEN 0 ELSE IF n > @ THEN n ELSE @]
  /\ UNCHANGED <<clock, limiterVars, windows, call, accepted>>

\* The key's row is read, then the clock; a key without a limit is not counted.
AuthenticateDownstreamKey(r, k) ==
  /\ call[r].pc = "idle" /\ limit[k] > 0
  /\ call' = [call EXCEPT ![r] = [pc |-> "stamped", key |-> k, limit |-> limit[k], now |-> clock]]
  /\ UNCHANGED <<clock, limiterVars, limit, windows, accepted, widest>>

\* Mutant: the window before the current one is pruned too.
PrunedEarly(w, window) == w < window

Pruned(w, window) == w < window - 2 * Window

\* One transaction: count unless the window is full, and prune the old
\* windows of every key.
ConsumeRPM(r) ==
  LET k == call[r].key
      window == WindowOf(call[r].now) IN
  /\ call[r].pc = "stamped"
  /\ call' = [call EXCEPT ![r] = NoCall]
  /\ IF windows[k][window] >= call[r].limit
     THEN UNCHANGED <<windows, accepted>>
     ELSE /\ windows' = [j \in Keys |-> [w \in 0..MaxTime |->
               IF Pruned(w, window) THEN 0
               ELSE IF j = k /\ w = window THEN windows[k][window] + 1 ELSE windows[j][w]]]
          /\ accepted' = [accepted EXCEPT ![k][window] = @ + 1]
  /\ UNCHANGED <<clock, limiterVars, limit, widest>>

\* The database stays locked for too long.
ConsumeRPMFails(r) ==
  /\ call[r].pc = "stamped"
  /\ call' = [call EXCEPT ![r] = NoCall]
  /\ UNCHANGED <<clock, limiterVars, limit, windows, accepted, widest>>

\* A statement that waits longer than the busy timeout fails.
InTime(now) == \A r \in Calls : call[r].pc = "stamped" => now - call[r].now <= BusyTimeout

Tick ==
  /\ clock < MaxTime /\ InTime(clock + 1)
  /\ clock' = clock + 1
  /\ UNCHANGED <<limiterVars, rateVars>>

---------------------------------------------------------------------------
LimitsInit ==
  /\ clock = 0
  /\ entry = [c \in Clients |-> NoEntry]
  /\ slot = Vacant
  /\ login = [a \in Attempts |-> NoLogin]
  /\ limit \in [Keys -> Limits]
  /\ windows = [k \in Keys |-> [w \in 0..MaxTime |-> 0]]
  /\ call = [r \in Calls |-> NoCall]
  /\ accepted = [k \in Keys |-> [w \in 0..MaxTime |-> 0]]
  /\ widest = limit

LoginStep(a) ==
  \/ \E c \in Clients : Allow(a, c)
  \/ TakeSlot(a) \/ LoginFails(a) \/ LoginSucceeds(a)

CallStep(r) ==
  \/ \E k \in Keys : AuthenticateDownstreamKey(r, k)
  \/ ConsumeRPM(r) \/ ConsumeRPMFails(r)

LimitsNext ==
  \/ \E a \in Attempts : LoginStep(a)
  \/ \E r \in Calls : CallStep(r)
  \/ \E k \in Keys, n \in Limits : SetLimit(k, n)
  \/ Tick

LimitsSpec == LimitsInit /\ [][LimitsNext]_limitVars
---------------------------------------------------------------------------
(* Properties *)

\* The table stays within its bound, and every row keeps its columns.
LimitsTypeOK ==
  /\ clock \in 0..MaxTime
  /\ entry \in [Clients -> EntryRow \union {NoEntry}]
  /\ Cardinality(Known) <= MaxEntries
  /\ slot \in Attempts \union {Vacant}
  /\ login \in [Attempts -> LoginRow]
  /\ limit \in [Keys -> Limits]
  /\ windows \in [Keys -> [0..MaxTime -> Nat]]
  /\ call \in [Calls -> CallRow]
  /\ accepted \in [Keys -> [0..MaxTime -> Nat]]
  /\ widest \in [Keys -> Nat]

\* A client that has to wait is forgotten only by its own successful login,
\* or when the table is full and no other client was seen less recently: the
\* failures of others, stamped with older clocks and pruning on the way, do
\* not lift its block.
BlocksAreHonoured == [][
  \A c \in Clients : Blocked(c, clock) /\ entry'[c] = NoEntry =>
    \/ \E a \in Attempts : slot = a /\ login[a].client = c
    \/ /\ Cardinality(Known) = MaxEntries
       /\ \A d \in Known : entry[c].seen <= entry[d].seen]_limitVars

\* No more requests are accepted in a window than the key's limit allowed,
\* although the rows are pruned and requests are counted later than they were
\* stamped, some after the next minute's requests have been counted.
RateLimitHolds ==
  \A k \in Keys, w \in 0..MaxTime : widest[k] > 0 => accepted[k][w] <= widest[k]

=============================================================================

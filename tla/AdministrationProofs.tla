------------------------ MODULE AdministrationProofs ------------------------
(***************************************************************************)
(* Proofs about AdmissionLimits for any number of clients, keys and        *)
(* requests, any clock and any limits, and about AccountSync for any       *)
(* number of owners, logins and callers.                                   *)
(*                                                                         *)
(* Rate windows: a row that was pruned is so old that no request in flight *)
(* can still be counted in it (Counting).  Failed logins: a block ends     *)
(* before its entry can expire, and every clock a login has read lies in   *)
(* the past (Blocking).                                                    *)
(*                                                                         *)
(* Account synchronisation: who may be using a login.  A goroutine past    *)
(* its lock has the mutex of its owner (Exclusive); a login that was       *)
(* entered and not stored yet is known to nobody else (Unspent); what is   *)
(* about to be written, or was read for a refresh, is still what is stored *)
(* (Writing, Renewing); and a login has one owner at a time (Sole).        *)
(***************************************************************************)
EXTENDS Administration, LegacyProofs, FiniteSetTheorems, TLAPS

\* A key that was always limited never had a greater limit than the widest.
Within(n, k) == widest[k] > 0 => n <= widest[k] /\ n > 0

Counting ==
  /\ \A k \in Keys : Within(limit[k], k)
  /\ \A r \in Calls : call[r].pc = "stamped" =>
       /\ Within(call[r].limit, call[r].key)
       /\ call[r].now <= clock /\ clock <= call[r].now + BusyTimeout
  /\ \A k \in Keys, w \in 0..MaxTime :
       windows[k][w] = accepted[k][w] \/ w + 2 * Window < clock

Blocking ==
  /\ \A c \in Known : entry[c].failures > 0 /\ entry[c].until <= entry[c].seen + BackoffMax
  /\ \A a \in Attempts : login[a].pc # "idle" => login[a].now <= clock
  /\ \A a \in Attempts : login[a].pc = "checking" => slot = a

RateTypes ==
  /\ clock \in 0..MaxTime
  /\ limit \in [Keys -> Limits]
  /\ windows \in [Keys -> [0..MaxTime -> Nat]]
  /\ call \in [Calls -> CallRow]
  /\ accepted \in [Keys -> [0..MaxTime -> Nat]]
  /\ widest \in [Keys -> Nat]

LoginTypes ==
  /\ entry \in [Clients -> EntryRow \union {NoEntry}]
  /\ IsFiniteSet(Known) /\ Cardinality(Known) <= MaxEntries
  /\ slot \in Attempts \union {Vacant}
  /\ login \in [Attempts -> LoginRow]

RateInv == RateTypes /\ Counting /\ RateLimitHolds
LoginInv == clock \in 0..MaxTime /\ LoginTypes /\ Blocking

-----------------------------------------------------------------------------
(* Requests per minute *)

\* The window of a clock is an index of the table, and less than a window away.
LEMMA WindowBounds ==
  ASSUME NEW now \in 0..MaxTime
  PROVE  /\ WindowOf(now) \in 0..MaxTime /\ now < WindowOf(now) + Window
         /\ WindowOf(now) <= now
<1> DEFINE rest == now % Window
<1>1. rest \in Nat /\ rest < Window /\ rest <= now
  BY RateAssumption
<1>2. WindowOf(now) = now - rest
  BY DEF WindowOf
<1> HIDE DEF rest
<1> QED BY <1>1, <1>2, RateAssumption, ClockAssumption

\* Nothing is counted at first.
LEMMA RateInit == LimitsInit => RateInv
<1> SUFFICES ASSUME LimitsInit PROVE RateInv
  OBVIOUS
<1>1. \A k \in Keys : limit[k] \in Nat
  BY RateAssumption DEF LimitsInit
<1>2. ASSUME NEW r \in Calls PROVE call[r] \in CallRow /\ call[r].pc = "idle"
  <2>1. (CHOOSE k \in Keys : TRUE) \in Keys
    BY RowsAssumption
  <2> QED BY <2>1 DEF LimitsInit, NoCall, CallRow
<1>3. RateTypes
  BY <1>1, <1>2, ClockAssumption, RateAssumption DEF LimitsInit, RateTypes
<1>4. Counting /\ RateLimitHolds
  BY <1>1, <1>2, <1>3 DEF LimitsInit, Counting, Within, RateLimitHolds, RateTypes
<1> QED BY <1>3, <1>4 DEF RateInv

\* A greater limit widens; an unlimited key is not bounded any more.
LEMMA SetLimitKeeps ==
  ASSUME RateInv, NEW k \in Keys, NEW n \in Limits, SetLimit(k, n)
  PROVE  RateInv'
<1> USE RateAssumption
<1>1. n \in Nat /\ \A j \in Keys : limit[j] \in Nat /\ widest[j] \in Nat
  BY DEF RateInv, RateTypes
<1>2. /\ limit' = [limit EXCEPT ![k] = n]
      /\ \A j \in Keys \ {k} : widest'[j] = widest[j]
      /\ widest'[k] > 0 => widest[k] > 0 /\ n > 0 /\ n <= widest'[k] /\ widest[k] <= widest'[k]
      /\ UNCHANGED <<clock, windows, call, accepted>>
  BY <1>1 DEF SetLimit, RateInv, RateTypes
<1>3. RateTypes'
  BY <1>1 DEF SetLimit, RateInv, RateTypes
<1>4. \A j \in Keys : /\ widest'[j] \in Nat
                      /\ widest'[j] > 0 => widest[j] > 0 /\ widest[j] <= widest'[j]
  <2>1. \A j \in Keys : widest'[j] \in Nat
    BY <1>3 DEF RateTypes
  <2> QED BY <1>1, <1>2, <2>1
<1>5. \A j \in Keys, m \in Nat : Within(m, j) => (widest'[j] > 0 => m <= widest'[j] /\ m > 0)
  BY <1>1, <1>4 DEF Within
<1>6. Counting'
  <2>1. \A j \in Keys : Within(limit[j], j)'
    <3>1. Within(limit[k], k)'
      BY <1>1, <1>2 DEF RateInv, RateTypes, Within
    <3>2. \A j \in Keys \ {k} : limit'[j] = limit[j]
      BY <1>2 DEF RateInv, RateTypes
    <3> QED BY <1>2, <3>1, <3>2 DEF RateInv, Counting, Within
  <2>2. \A r \in Calls : (call[r].pc = "stamped" => Within(call[r].limit, call[r].key))'
    BY <1>2, <1>5 DEF RateInv, RateTypes, CallRow, Counting, Within
  <2> QED BY <1>2, <2>1, <2>2 DEF RateInv, Counting
<1>7. RateLimitHolds'
  <2>1. \A j \in Keys, w \in 0..MaxTime : accepted[j][w] \in Nat
    BY DEF RateInv, RateTypes
  <2> QED BY <1>1, <1>2, <1>4, <2>1 DEF RateInv, RateLimitHolds
<1> QED BY <1>3, <1>6, <1>7 DEF RateInv

\* The limit and the clock are read here.
LEMMA AuthenticateKeeps ==
  ASSUME RateInv, NEW r \in Calls, NEW k \in Keys, AuthenticateDownstreamKey(r, k)
  PROVE  RateInv'
<1> USE RateAssumption
<1> DEFINE row == [pc |-> "stamped", key |-> k, limit |-> limit[k], now |-> clock]
<1>1. row \in CallRow
  <2>1. limit[k] \in Limits /\ clock \in 0..MaxTime
    BY DEF RateInv, RateTypes
  <2>2. limit[k] \in Nat
    BY <2>1
  <2>3. clock \in Nat
    BY <2>1, ClockAssumption
  <2> QED BY <2>2, <2>3 DEF CallRow
<1>2. call' = [call EXCEPT ![r] = row]
      /\ UNCHANGED <<clock, limit, windows, accepted, widest>>
  BY DEF AuthenticateDownstreamKey
<1>3. RateTypes'
  BY <1>1, <1>2 DEF RateInv, RateTypes
<1>4. \A q \in Calls : call'[q] = IF q = r THEN row ELSE call[q]
  BY <1>2 DEF RateInv, RateTypes
<1>5. Counting'
  BY <1>2, <1>4 DEF RateInv, RateTypes, Counting, Within
<1> QED BY <1>2, <1>3, <1>5 DEF RateInv, RateLimitHolds

\* A request is counted in a row that nobody has pruned.
LEMMA ConsumeKeeps ==
  ASSUME RateInv, NEW r \in Calls, ConsumeRPM(r)
  PROVE  RateInv'
<1> DEFINE k == call[r].key
<1> DEFINE window == WindowOf(call[r].now)
<1>1. /\ call[r] \in CallRow /\ call[r].pc = "stamped" /\ k \in Keys
      /\ call[r].now \in 0..MaxTime /\ call[r].limit \in Nat
  BY ClockAssumption DEF ConsumeRPM, RateInv, RateTypes, CallRow, Counting
<1>2. window \in 0..MaxTime /\ call[r].now < window + Window /\ window <= call[r].now
  BY <1>1, WindowBounds
<1>3. windows[k][window] = accepted[k][window]
  BY SMTT(30), <1>1, <1>2, RateAssumption DEF RateInv, RateTypes, Counting
<1>4. NoCall \in CallRow /\ NoCall.pc = "idle"
  <2>1. (CHOOSE j \in Keys : TRUE) \in Keys
    BY RowsAssumption
  <2> QED BY <2>1 DEF NoCall, CallRow
<1>5. /\ call' = [call EXCEPT ![r] = NoCall]
      /\ UNCHANGED <<clock, limit, widest>>
  BY DEF ConsumeRPM
<1>6. \A q \in Calls : call'[q] = IF q = r THEN NoCall ELSE call[q]
  BY <1>5 DEF RateInv, RateTypes
<1>7. call' \in [Calls -> CallRow]
  BY <1>4, <1>5 DEF RateInv, RateTypes
<1>8. CASE windows[k][window] >= call[r].limit
  <2>1. UNCHANGED <<windows, accepted>>
    BY <1>8 DEF ConsumeRPM
  <2> QED BY <1>4, <1>5, <1>6, <1>7, <2>1
          DEF RateInv, RateTypes, Counting, Within, RateLimitHolds
<1>9. CASE ~(windows[k][window] >= call[r].limit)
  <2>1. /\ windows' = [j \in Keys |-> [w \in 0..MaxTime |->
             IF Pruned(w, window) THEN 0
             ELSE IF j = k /\ w = window THEN windows[k][window] + 1 ELSE windows[j][w]]]
        /\ accepted' = [accepted EXCEPT ![k][window] = @ + 1]
    BY <1>9 DEF ConsumeRPM
  <2>2. \A j \in Keys, w \in 0..MaxTime : windows[j][w] \in Nat /\ accepted[j][w] \in Nat
    BY DEF RateInv, RateTypes
  <2>3. windows' \in [Keys -> [0..MaxTime -> Nat]]
    BY <1>1, <1>2, <2>1, <2>2
  <2>4. \A j \in Keys, w \in 0..MaxTime :
          accepted'[j][w] = IF j = k /\ w = window THEN accepted[j][w] + 1 ELSE accepted[j][w]
    BY <1>1, <1>2, <2>1 DEF RateInv, RateTypes
  <2>5. accepted' \in [Keys -> [0..MaxTime -> Nat]]
    BY SMTT(30), <1>1, <1>2, <2>1, <2>2 DEF RateInv, RateTypes
  <2>6. RateTypes'
    BY <1>5, <1>7, <2>3, <2>5 DEF RateInv, RateTypes
  <2>7. \A j \in Keys, w \in 0..MaxTime :
          windows'[j][w] = accepted'[j][w] \/ w + 2 * Window < clock
    <3> TAKE j \in Keys, w \in 0..MaxTime
    <3>1. CASE Pruned(w, window)
      <4>1. w < window - 2 * Window /\ window <= call[r].now /\ call[r].now <= clock
        BY <1>1, <1>2, <3>1 DEF Pruned, RateInv, Counting
      <4> QED BY <1>1, <1>2, <4>1, RateAssumption DEF RateInv, RateTypes
    <3>2. CASE ~Pruned(w, window) /\ j = k /\ w = window
      BY SMTT(30), <1>3, <2>1, <2>4, <3>2
    <3>3. CASE ~Pruned(w, window) /\ ~(j = k /\ w = window)
      BY <2>1, <2>4, <3>3 DEF RateInv, Counting
    <3> QED BY <3>1, <3>2, <3>3
  <2>8. Counting'
    BY <1>4, <1>5, <1>6, <2>7 DEF RateInv, Counting, Within
  <2>9. RateLimitHolds'
    <3> SUFFICES ASSUME NEW j \in Keys, NEW w \in 0..MaxTime, widest[j] > 0
                 PROVE  accepted'[j][w] <= widest[j]
      BY <1>5 DEF RateLimitHolds
    <3>1. CASE j = k /\ w = window
      <4>1. call[r].limit <= widest[j] /\ widest[j] \in Nat
        BY <1>1, <3>1 DEF RateInv, RateTypes, Counting, Within
      <4> QED BY <1>1, <1>2, <1>3, <1>9, <2>2, <2>4, <3>1, <4>1
    <3>2. CASE ~(j = k /\ w = window)
      BY <2>4, <3>2 DEF RateInv, RateLimitHolds
    <3> QED BY <3>1, <3>2
  <2> QED BY <2>6, <2>8, <2>9 DEF RateInv
<1> QED BY <1>8, <1>9

\* A request that is not counted is not accepted.
LEMMA ConsumeFailsKeeps ==
  ASSUME RateInv, NEW r \in Calls, ConsumeRPMFails(r)
  PROVE  RateInv'
<1>1. NoCall \in CallRow /\ NoCall.pc = "idle"
  <2>1. (CHOOSE j \in Keys : TRUE) \in Keys
    BY RowsAssumption
  <2> QED BY <2>1 DEF NoCall, CallRow
<1>2. /\ call' = [call EXCEPT ![r] = NoCall]
      /\ UNCHANGED <<clock, limit, windows, accepted, widest>>
  BY DEF ConsumeRPMFails
<1>3. \A q \in Calls : call'[q] = IF q = r THEN NoCall ELSE call[q]
  BY <1>2 DEF RateInv, RateTypes
<1>4. RateTypes'
  BY <1>1, <1>2 DEF RateInv, RateTypes
<1> QED BY <1>1, <1>2, <1>3, <1>4 DEF RateInv, Counting, Within, RateLimitHolds

\* No statement is under way for longer than the busy timeout.
LEMMA TickKeepsRates ==
  ASSUME RateInv, Tick
  PROVE  RateInv'
<1>1. /\ clock' = clock + 1 /\ clock' \in 0..MaxTime
      /\ UNCHANGED <<limit, windows, call, accepted, widest>>
  BY ClockAssumption DEF Tick, rateVars, RateInv, RateTypes
<1>2. \A r \in Calls : call[r].pc = "stamped" =>
        /\ clock + 1 - call[r].now <= BusyTimeout /\ call[r].now \in Nat
  BY DEF Tick, InTime, RateInv, RateTypes, CallRow
<1>3. RateTypes'
  BY <1>1 DEF RateInv, RateTypes
<1>4. Counting'
  <2>1. \A r \in Calls : call[r].pc = "stamped" =>
          /\ Within(call[r].limit, call[r].key)
          /\ call[r].now <= clock + 1 /\ clock + 1 <= call[r].now + BusyTimeout
    BY <1>2, RateAssumption DEF RateInv, RateTypes, Counting
  <2>2. \A k \in Keys, w \in 0..MaxTime :
          windows[k][w] = accepted[k][w] \/ w + 2 * Window < clock + 1
    BY RateAssumption DEF RateInv, RateTypes, Counting
  <2> QED BY <1>1, <2>1, <2>2 DEF RateInv, Counting, Within
<1> QED BY <1>1, <1>3, <1>4 DEF RateInv, RateLimitHolds

\* Logins do not touch the rates.
LEMMA RateStep == RateInv /\ [LimitsNext]_limitVars => RateInv'
<1> SUFFICES ASSUME RateInv, [LimitsNext]_limitVars PROVE RateInv'
  OBVIOUS
<1>1. ASSUME UNCHANGED <<clock, rateVars>> PROVE RateInv'
  BY <1>1 DEF rateVars, RateInv, RateTypes, Counting, Within, RateLimitHolds
<1>2. ASSUME NEW a \in Attempts, LoginStep(a) PROVE RateInv'
  BY <1>1, <1>2 DEF LoginStep, Allow, TakeSlot, LoginFails, LoginSucceeds
<1>3. CASE UNCHANGED limitVars
  BY <1>1, <1>3 DEF limitVars
<1> QED BY <1>2, <1>3, SetLimitKeeps, AuthenticateKeeps, ConsumeKeeps, ConsumeFailsKeeps,
           TickKeepsRates DEF LimitsNext, CallStep

\* No more requests are accepted in a window than the limit of the key
\* allowed: what AuthenticateDownstreamKey prunes is never counted in again.
THEOREM RateLimited == LimitsSpec => []RateLimitHolds
<1>1. RateInv => RateLimitHolds
  BY DEF RateInv
<1> QED BY <1>1, RateInit, RateStep, PTL DEF LimitsSpec

-----------------------------------------------------------------------------
(* Failed logins *)

\* A block lasts one second to BackoffMax.
LEMMA DelayBounds ==
  ASSUME NEW n \in Nat, n > 1
  PROVE  Delay(n) \in Nat /\ Delay(n) <= BackoffMax
<1> DEFINE shift == IF n - 2 > 6 THEN 6 ELSE n - 2
<1> DEFINE power == 2 ^ shift
<1>1. power \in Nat
  <2>1. \/ shift = 0 \/ shift = 1 \/ shift = 2 \/ shift = 3 \/ shift = 4 \/ shift = 5 \/ shift = 6
    OBVIOUS
  <2>2. /\ 2 ^ 0 \in Nat /\ 2 ^ 1 \in Nat /\ 2 ^ 2 \in Nat /\ 2 ^ 3 \in Nat /\ 2 ^ 4 \in Nat
        /\ 2 ^ 5 \in Nat /\ 2 ^ 6 \in Nat
    OBVIOUS
  <2> QED BY <2>1, <2>2
<1>2. Delay(n) = IF power > BackoffMax THEN BackoffMax ELSE power
  BY DEF Delay
<1> HIDE DEF power
<1> QED BY <1>1, <1>2, LimiterAssumption

\* What a failure leaves in the table.
LEMMA FailedRow ==
  ASSUME NEW e \in EntryRow, NEW now \in Nat, e.failures > 0 \/ e.until = 0
  PROVE  /\ Failed(e, now) \in EntryRow /\ Failed(e, now).failures > 0
         /\ Failed(e, now).until <= Failed(e, now).seen + BackoffMax
<1>1. e.failures \in Nat /\ e.until \in Nat
  BY DEF EntryRow
<1>2. CASE e.failures + 1 > 1
  <2>1. Delay(e.failures + 1) \in Nat /\ Delay(e.failures + 1) <= BackoffMax
    BY <1>1, <1>2, DelayBounds
  <2>2. Failed(e, now) = [failures |-> e.failures + 1, seen |-> now,
                          until |-> now + Delay(e.failures + 1)]
    BY <1>2 DEF Failed
  <2> QED BY <1>1, <2>1, <2>2, LimiterAssumption DEF EntryRow
<1>3. CASE ~(e.failures + 1 > 1)
  <2>1. Failed(e, now) = [failures |-> e.failures + 1, seen |-> now, until |-> e.until]
    BY <1>3 DEF Failed
  <2> QED BY <1>1, <1>3, <2>1, LimiterAssumption DEF EntryRow
<1> QED BY <1>2, <1>3

\* The resting login is one.
LEMMA NoLoginRow == NoLogin \in LoginRow /\ NoLogin.pc = "idle"
<1>1. (CHOOSE c \in Clients : TRUE) \in Clients
  BY RowsAssumption
<1> QED BY <1>1 DEF NoLogin, LoginRow

\* Nobody has failed at first.
LEMMA LoginInit == LimitsInit => LoginInv
<1> SUFFICES ASSUME LimitsInit PROVE LoginInv
  OBVIOUS
<1>1. Known = {}
  BY DEF LimitsInit, Known
<1>2. LoginTypes
  BY <1>1, NoLoginRow, FS_EmptySet, LimiterAssumption DEF LimitsInit, LoginTypes
<1>3. Blocking
  BY <1>1, NoLoginRow DEF LimitsInit, Blocking
<1> QED BY <1>2, <1>3, ClockAssumption DEF LoginInv, LimitsInit

\* The clock is read with the table.
LEMMA AllowKeeps ==
  ASSUME LoginInv, NEW a \in Attempts, NEW c \in Clients, Allow(a, c)
  PROVE  LoginInv'
<1> DEFINE row == [pc |-> "allowed", client |-> c, now |-> clock]
<1>1. row \in LoginRow
  BY DEF LoginInv, LoginRow
<1>2. login' = [login EXCEPT ![a] = row] /\ UNCHANGED <<clock, entry, slot>>
  BY DEF Allow
<1>3. LoginTypes'
  BY <1>1, <1>2 DEF LoginInv, LoginTypes, Known
<1>4. Blocking'
  BY <1>2 DEF LoginInv, LoginTypes, Blocking, Known
<1> QED BY <1>2, <1>3, <1>4 DEF LoginInv

\* One login at a time has the slot.
LEMMA TakeSlotKeeps ==
  ASSUME LoginInv, NEW a \in Attempts, TakeSlot(a)
  PROVE  LoginInv'
<1>1. UNCHANGED <<clock, entry>> /\ login[a].pc = "allowed"
  BY DEF TakeSlot
<1>2. CASE slot = Vacant
  <2>1. slot' = a /\ login' = [login EXCEPT ![a].pc = "checking"]
    BY <1>2 DEF TakeSlot
  <2>2. login' \in [Attempts -> LoginRow]
    BY <2>1 DEF LoginInv, LoginTypes, LoginRow
  <2>3. LoginTypes'
    BY <1>1, <2>1, <2>2 DEF LoginInv, LoginTypes, Known
  <2>4. \A b \in Attempts : login[b].pc # "checking"
    BY <1>2, RowsAssumption DEF LoginInv, Blocking
  <2>5. Blocking'
    BY <1>1, <2>1, <2>4 DEF LoginInv, LoginTypes, LoginRow, Blocking, Known
  <2> QED BY <1>1, <2>3, <2>5 DEF LoginInv
<1>3. CASE slot # Vacant
  <2>1. UNCHANGED slot /\ login' = [login EXCEPT ![a] = NoLogin]
    BY <1>3 DEF TakeSlot, Answer
  <2>2. LoginTypes'
    BY <1>1, <2>1, NoLoginRow DEF LoginInv, LoginTypes, Known
  <2>3. Blocking'
    BY <1>1, <2>1, NoLoginRow DEF LoginInv, LoginTypes, Blocking, Known
  <2> QED BY <1>1, <2>2, <2>3 DEF LoginInv
<1> QED BY <1>2, <1>3

\* What a failed login does to the table: its own client is counted, and of the
\* others one is dropped at most, the one seen least recently, when there is no
\* room; what has expired was not blocked any more.
LEMMA FailureEffect ==
  ASSUME LoginInv, NEW a \in Attempts, LoginFails(a)
  PROVE  /\ LoginInv'
         /\ slot = a
         /\ \A d \in Clients \ {login[a].client} :
              \/ entry'[d] = entry[d]
              \/ ~Blocked(d, clock)
              \/ /\ Cardinality(Known) = MaxEntries
                 /\ \A o \in Known : entry[d].seen <= entry[o].seen
<1> DEFINE now == login[a].now
<1> DEFINE c == login[a].client
<1> DEFINE kept == {d \in Known : ~Expired(entry[d], now)}
<1> DEFINE oldest == {d \in kept : \A o \in kept : entry[d].seen <= entry[o].seen}
<1> DEFINE counted == Failed(IF c \in kept THEN entry[c]
                             ELSE [failures |-> 0, until |-> 0, seen |-> 0], now)
<1>1. PICK evicted \in SUBSET oldest :
        /\ Cardinality(evicted) = Evictions(c, kept)
        /\ entry' = [d \in Clients |->
             CASE d = c -> counted
               [] d \in kept \ (evicted \union {c}) -> entry[d]
               [] OTHER -> NoEntry]
  BY DEF LoginFails
<1>2. /\ slot = a /\ slot' = Vacant /\ UNCHANGED clock
      /\ login' = [login EXCEPT ![a] = NoLogin]
  BY DEF LoginFails, Answer, LoginInv, Blocking
<1>3. now \in Nat /\ now <= clock /\ clock \in Nat /\ c \in Clients
  BY ClockAssumption DEF LoginFails, LoginInv, LoginTypes, LoginRow, Blocking
<1>4. kept \subseteq Known /\ Known \subseteq Clients /\ oldest \subseteq kept
  BY DEF Known
<1>5. \A d \in Known : entry[d] \in EntryRow
  BY DEF Known, LoginInv, LoginTypes
<1>6. /\ IsFiniteSet(kept) /\ Cardinality(kept) \in Nat /\ Cardinality(kept) <= Cardinality(Known)
      /\ Cardinality(kept) = Cardinality(Known) => kept = Known
      /\ IsFiniteSet(evicted) /\ Cardinality(Known) \in Nat /\ Cardinality(Known) <= MaxEntries
  BY <1>4, FS_Subset, FS_CardinalityType DEF LoginInv, LoginTypes
<1>7. counted \in EntryRow /\ counted.failures > 0 /\ counted.until <= counted.seen + BackoffMax
  <2>1. CASE c \in kept
    <3>1. entry[c] \in EntryRow /\ entry[c].failures > 0
      BY <1>4, <1>5, <2>1 DEF LoginInv, Blocking
    <3> QED BY <1>3, <2>1, <3>1, FailedRow
  <2>2. CASE c \notin kept
    <3> DEFINE fresh == [failures |-> 0, until |-> 0, seen |-> 0]
    <3>1. fresh \in EntryRow /\ fresh.until = 0
      BY DEF EntryRow
    <3> HIDE DEF fresh
    <3>2. counted = Failed(fresh, now)
      BY <2>2 DEF fresh
    <3> QED BY <1>3, <3>1, <3>2, FailedRow
  <2> QED BY <2>1, <2>2
<1>8. \A d \in Clients : entry'[d] = IF d = c THEN counted
                                     ELSE IF d \in kept \ evicted THEN entry[d] ELSE NoEntry
  BY <1>1
<1>9. Known' \subseteq (kept \ evicted) \union {c}
  BY <1>8 DEF Known
<1> HIDE DEF kept, oldest, counted, now, c
<1>10. IsFiniteSet(Known') /\ Cardinality(Known') <= MaxEntries
  <2>1. CASE c \in kept
    <3>1. Known' \subseteq kept
      BY <1>9, <2>1
    <3>2. IsFiniteSet(Known') /\ Cardinality(Known') <= Cardinality(kept)
      BY <1>6, <3>1, FS_Subset
    <3> QED BY <1>6, <3>1, <3>2, FS_CardinalityType, LimiterAssumption
  <2>2. CASE c \notin kept
    <3> DEFINE rest == kept \ evicted
    <3>1. /\ IsFiniteSet(rest) /\ Cardinality(rest) \in Nat
          /\ Cardinality(rest) = Cardinality(kept) - Cardinality(evicted)
      <4>1. kept \cap evicted = evicted
        BY <1>4
      <4> QED BY ZenonT(60), <1>6, <4>1, FS_Difference, FS_CardinalityType
    <3>2. Cardinality(rest) <= MaxEntries - 1
      BY <1>1, <1>6, <2>2, <3>1, LimiterAssumption DEF Evictions
    <3>3. /\ IsFiniteSet(rest \union {c}) /\ Cardinality(rest \union {c}) <= MaxEntries
          /\ Cardinality(rest \union {c}) \in Nat
      <4>1. /\ IsFiniteSet(rest \union {c})
            /\ Cardinality(rest \union {c}) \in {Cardinality(rest), Cardinality(rest) + 1}
        BY <3>1, FS_AddElement
      <4> QED BY <3>1, <3>2, <4>1, LimiterAssumption
    <3>4. IsFiniteSet(Known') /\ Cardinality(Known') <= Cardinality(rest \union {c})
      BY <1>9, <3>3, FS_Subset
    <3> QED BY <3>3, <3>4, FS_CardinalityType, LimiterAssumption
  <2> QED BY <2>1, <2>2
<1>11. LoginTypes'
  <2>1. entry' \in [Clients -> EntryRow \union {NoEntry}]
    <3>1. \A d \in Clients : entry'[d] \in EntryRow \union {NoEntry}
      BY <1>4, <1>5, <1>7, <1>8
    <3> QED BY <1>1, <3>1
  <2>2. login' \in [Attempts -> LoginRow]
    BY <1>2, NoLoginRow DEF LoginInv, LoginTypes
  <2> QED BY <1>2, <1>10, <2>1, <2>2 DEF LoginTypes
<1>12. Blocking'
  <2>1. \A d \in Known' : entry'[d].failures > 0 /\ entry'[d].until <= entry'[d].seen + BackoffMax
    <3> TAKE d \in Known'
    <3>1. d \in Clients /\ entry'[d] # NoEntry
      BY DEF Known
    <3> QED BY <1>4, <1>7, <1>8, <3>1 DEF LoginInv, Blocking
  <2>2. \A b \in Attempts : b # a => login'[b] = login[b] /\ login[b].pc # "checking"
    BY <1>2 DEF LoginInv, LoginTypes, Blocking
  <2>3. login'[a].pc = "idle"
    BY <1>2, NoLoginRow DEF LoginInv, LoginTypes
  <2> QED BY <1>2, <2>1, <2>2, <2>3 DEF LoginInv, Blocking
<1>13. ASSUME NEW d \in Clients, d # c, entry'[d] # entry[d], Blocked(d, clock)
       PROVE  /\ Cardinality(Known) = MaxEntries
              /\ \A o \in Known : entry[d].seen <= entry[o].seen
  <2>1. d \in Known /\ d \notin kept \ evicted
    BY <1>8, <1>13 DEF Blocked
  <2>2. d \in kept
    <3>1. /\ entry[d].until <= entry[d].seen + BackoffMax /\ clock < entry[d].until
          /\ entry[d].seen \in Nat /\ entry[d].until \in Nat
      BY <1>5, <1>13, <2>1 DEF LoginInv, Blocking, Blocked, EntryRow
    <3>2. ~(now - entry[d].seen >= IdleTTL)
      BY <1>3, <3>1, LimiterAssumption
    <3> QED BY <2>1, <3>2 DEF kept, Expired
  <2>3. d \in evicted
    BY <2>1, <2>2
  <2>4. Cardinality(evicted) # 0
    BY <1>6, <2>3, FS_EmptySet
  <2>5. Cardinality(kept) >= MaxEntries
    BY <1>1, <2>4 DEF Evictions
  <2>6. kept = Known /\ Cardinality(Known) = MaxEntries
    BY <1>6, <2>5, LimiterAssumption
  <2> QED BY <1>1, <2>3, <2>6 DEF oldest
<1>14. LoginInv'
  BY <1>2, <1>11, <1>12 DEF LoginInv
<1> QED BY <1>2, <1>13, <1>14 DEF c

\* A successful login is forgotten.
LEMMA SucceedsKeeps ==
  ASSUME LoginInv, NEW a \in Attempts, LoginSucceeds(a)
  PROVE  /\ LoginInv' /\ slot = a
         /\ \A d \in Clients \ {login[a].client} : entry'[d] = entry[d]
<1> DEFINE c == login[a].client
<1>1. /\ slot = a /\ slot' = Vacant /\ UNCHANGED clock /\ c \in Clients
      /\ login' = [login EXCEPT ![a] = NoLogin] /\ entry' = [entry EXCEPT ![c] = NoEntry]
  BY DEF LoginSucceeds, Answer, LoginInv, LoginTypes, LoginRow, Blocking
<1>2. Known' \subseteq Known /\ \A d \in Clients \ {c} : entry'[d] = entry[d]
  BY <1>1 DEF Known, LoginInv, LoginTypes
<1>3. IsFiniteSet(Known') /\ Cardinality(Known') <= MaxEntries
  <2>1. /\ IsFiniteSet(Known') /\ Cardinality(Known') <= Cardinality(Known)
        /\ Cardinality(Known) \in Nat /\ Cardinality(Known) <= MaxEntries
    BY <1>2, FS_Subset, FS_CardinalityType DEF LoginInv, LoginTypes
  <2> QED BY <2>1, FS_CardinalityType, LimiterAssumption
<1>4. LoginTypes'
  BY <1>1, <1>3, NoLoginRow DEF LoginInv, LoginTypes
<1>5. \A b \in Attempts : b # a => login'[b] = login[b] /\ login[b].pc # "checking"
  BY <1>1 DEF LoginInv, LoginTypes, Blocking
<1>6. login'[a].pc = "idle"
  BY <1>1, NoLoginRow DEF LoginInv, LoginTypes
<1>7. Blocking'
  <2>1. \A d \in Known' : entry'[d] = entry[d]
    BY <1>1, <1>2 DEF Known, LoginInv, LoginTypes
  <2> QED BY <1>1, <1>2, <1>5, <1>6, <2>1 DEF LoginInv, Blocking
<1> QED BY <1>1, <1>2, <1>4, <1>7 DEF LoginInv

\* Blocks end by themselves.
LEMMA TickKeepsLogins ==
  ASSUME LoginInv, Tick
  PROVE  LoginInv' /\ UNCHANGED entry
<1>1. clock' = clock + 1 /\ clock' \in 0..MaxTime /\ UNCHANGED <<entry, slot, login>>
  BY ClockAssumption DEF Tick, limiterVars, LoginInv
<1>2. \A a \in Attempts : login[a].pc # "idle" => login[a].now <= clock + 1
  BY ClockAssumption DEF LoginInv, LoginTypes, LoginRow, Blocking
<1> QED BY <1>1, <1>2 DEF LoginInv, LoginTypes, Blocking, Known

\* Every step keeps the table, and lifts a block only as it should.
LEMMA LoginsStep ==
  ASSUME LoginInv, [LimitsNext]_limitVars
  PROVE  /\ LoginInv'
         /\ \A c \in Clients : Blocked(c, clock) /\ entry'[c] = NoEntry =>
              \/ \E a \in Attempts : slot = a /\ login[a].client = c
              \/ /\ Cardinality(Known) = MaxEntries
                 /\ \A d \in Known : entry[c].seen <= entry[d].seen
<1>1. \A c \in Clients : Blocked(c, clock) => entry[c] # NoEntry
  BY DEF Blocked, Known
<1>2. ASSUME UNCHANGED <<clock, limiterVars>>
      PROVE  LoginInv' /\ UNCHANGED entry
  BY <1>2 DEF limiterVars, LoginInv, LoginTypes, Blocking, Known
<1>3. CASE UNCHANGED limitVars
  BY <1>1, <1>2, <1>3 DEF limitVars
<1>4. CASE \E r \in Calls : CallStep(r)
  BY <1>1, <1>2, <1>4 DEF CallStep, AuthenticateDownstreamKey, ConsumeRPM, ConsumeRPMFails
<1>5. CASE \E k \in Keys, n \in Limits : SetLimit(k, n)
  BY <1>1, <1>2, <1>5 DEF SetLimit
<1>6. CASE Tick
  BY <1>1, <1>6, TickKeepsLogins
<1>7. ASSUME NEW a \in Attempts, NEW c \in Clients, Allow(a, c)
      PROVE  LoginInv' /\ UNCHANGED entry
  BY <1>7, AllowKeeps DEF Allow
<1>8. ASSUME NEW a \in Attempts, TakeSlot(a)
      PROVE  LoginInv' /\ UNCHANGED entry
  BY <1>8, TakeSlotKeeps DEF TakeSlot
<1>9. ASSUME NEW a \in Attempts, LoginFails(a)
      PROVE  /\ LoginInv'
             /\ \A c \in Clients : Blocked(c, clock) /\ entry'[c] = NoEntry =>
                  \/ slot = a /\ login[a].client = c
                  \/ /\ Cardinality(Known) = MaxEntries
                     /\ \A d \in Known : entry[c].seen <= entry[d].seen
  BY <1>1, <1>9, FailureEffect
<1>10. ASSUME NEW a \in Attempts, LoginSucceeds(a)
       PROVE  /\ LoginInv'
              /\ \A c \in Clients : Blocked(c, clock) /\ entry'[c] = NoEntry =>
                   slot = a /\ login[a].client = c
  BY <1>1, <1>10, SucceedsKeeps
<1> QED BY <1>1, <1>3, <1>4, <1>5, <1>6, <1>7, <1>8, <1>9, <1>10 DEF LimitsNext, LoginStep

\* A block is lifted by the client's own login or by a full table only:
\* loginFailureLimiter prunes with the clocks of other logins, however old.
THEOREM BlocksHonoured == LimitsSpec => BlocksAreHonoured
<1>1. LoginInv /\ [LimitsNext]_limitVars => LoginInv'
  BY LoginsStep
<1>2. LoginInv /\ [LimitsNext]_limitVars =>
        [\A c \in Clients : Blocked(c, clock) /\ entry'[c] = NoEntry =>
           \/ \E a \in Attempts : slot = a /\ login[a].client = c
           \/ /\ Cardinality(Known) = MaxEntries
              /\ \A d \in Known : entry[c].seen <= entry[d].seen]_limitVars
  BY LoginsStep
<1> QED BY <1>1, <1>2, LoginInit, PTL DEF LimitsSpec, BlocksAreHonoured

\* The table stays within its bound, and every row keeps its columns.
THEOREM LimitsTypeCorrect == LimitsSpec => []LimitsTypeOK
<1>1. RateInv /\ LoginInv => LimitsTypeOK
  BY DEF RateInv, RateTypes, LoginInv, LoginTypes, LimitsTypeOK
<1>2. LoginInv /\ [LimitsNext]_limitVars => LoginInv'
  BY LoginsStep
<1> QED BY <1>1, <1>2, LoginInit, RateInit, RateStep, PTL DEF LimitsSpec

-----------------------------------------------------------------------------
(* Account synchronisation. *)

Holding == {"existing", "write", "remove", "read"} \union Refreshing

Exclusive == \A w \in Workers : worker[w].pc \in Holding => mutex[worker[w].owner] = w

\* w carries a login that the administrator has just entered.
Entered(w) == worker[w].pc \in {"configure", "existing", "write"} /\ worker[w].input \in Logins

Unspent ==
  /\ \A l \in Logins : l \notin used => issued[l] = 0
  /\ \A o \in Owners : Configured(o) => account[o].cred.login \in used
  /\ \A w \in Workers : Entered(w) =>
       /\ worker[w].input \in used /\ issued[worker[w].input] = 0
       /\ \A o \in Owners : Configured(o) => account[o].cred.login # worker[w].input
       /\ \A v \in Workers : worker[v].pc \in Refreshing => worker[v].conn.login # worker[w].input
       /\ \A v \in Workers : Entered(v) /\ worker[v].input = worker[w].input => v = w

Writing ==
  \A w \in Workers : worker[w].pc = "write" =>
    \/ worker[w].input \in Logins /\ worker[w].read = [login |-> worker[w].input, gen |-> 0]
    \/ account[worker[w].owner] = NoOwner
    \/ Configured(worker[w].owner) /\ worker[w].read = account[worker[w].owner].cred

Renewing ==
  \A w \in Workers : worker[w].pc \in Refreshing =>
    /\ worker[w].conn.login = worker[w].read.login
    /\ worker[w].conn.login \in used
    /\ worker[w].read.gen <= worker[w].conn.gen
    /\ \/ account[worker[w].owner] = NoOwner
       \/ Configured(worker[w].owner) /\ worker[w].read = account[worker[w].owner].cred
    /\ \/ worker[w].conn.gen = issued[worker[w].conn.login]
       \/ worker[w].conn.login \in lost

Sole ==
  /\ \A o, p \in Owners :
       Configured(o) /\ Configured(p) /\ account[o].cred.login = account[p].cred.login => o = p
  /\ \A w \in Workers, o \in Owners :
       worker[w].pc \in Refreshing /\ Configured(o) /\ account[o].cred.login = worker[w].conn.login
         => worker[w].owner = o
  /\ \A v, w \in Workers :
       /\ worker[v].pc \in Refreshing /\ worker[w].pc \in Refreshing
       /\ worker[v].conn.login = worker[w].conn.login
       => v = w

IInv == SyncTypeOK /\ Exclusive /\ Unspent /\ Writing /\ Renewing /\ Sole /\ CredentialsAreKept

-----------------------------------------------------------------------------

\* The resting goroutine is one.
LEMMA IdleWorker == Idle \in WorkerRow /\ Idle.pc = "idle"
<1>1. (CHOOSE l \in Logins : TRUE) \in Logins /\ (CHOOSE o \in Owners : TRUE) \in Owners
  BY PresenceAssumption
<1>2. NoCredentials \in Credentials
  BY <1>1, GenerationAssumption DEF NoCredentials, Credentials
<1> QED BY <1>1, <1>2 DEF Idle, WorkerRow

\* The initial state satisfies every part.
LEMMA InitInvariant == SyncInit => IInv
<1> SUFFICES ASSUME SyncInit PROVE IInv
  OBVIOUS
<1>1. \A o \in Owners : ~Configured(o)
  BY DEF SyncInit, Configured
<1>2. \A w \in Workers : worker[w].pc = "idle"
  BY IdleWorker DEF SyncInit
<1>3. (CHOOSE l \in Logins : TRUE) \in Logins
  BY PresenceAssumption
<1>4. SyncTypeOK
  <2>1. issued \in [Logins -> 0..MaxGeneration]
    BY GenerationAssumption DEF SyncInit
  <2>2. worker \in [Workers -> WorkerRow]
    BY IdleWorker DEF SyncInit
  <2> QED BY <1>3, <2>1, <2>2 DEF SyncInit, SyncTypeOK
<1>5. Unspent
  BY <1>1, <1>2 DEF SyncInit, Unspent, Entered
<1>6. Exclusive /\ Writing /\ Renewing /\ Sole /\ CredentialsAreKept
  BY <1>1, <1>2 DEF Exclusive, Writing, Renewing, Sole, CredentialsAreKept, Holding, Refreshing,
     Calling
<1> QED BY <1>4, <1>5, <1>6 DEF IInv

-----------------------------------------------------------------------------
(* Steps *)

USE SweeperAssumption, NobodyAssumption, KeepAssumption, GenerationAssumption
    DEF Workers, Configured, Rotated, Holding, Refreshing, Calling

\* An entered login is new to everybody.
LEMMA ConfigureKeeps ==
  ASSUME IInv, NEW w \in Callers, NEW o \in Owners, NEW input \in Logins \union {Keep},
         NEW enable \in BOOLEAN, NEW now \in BOOLEAN, Configure(w, o, input, enable, now)
  PROVE  IInv'
<1>1. SyncTypeOK'
  <2> DEFINE k == [worker[w] EXCEPT !.pc = "configure", !.owner = o, !.input = input,
                                 !.enable = enable, !.now = now, !.alive = TRUE]
  <2>1. worker' = [worker EXCEPT ![w] = k]
    BY DEF IInv, SyncTypeOK, WorkerRow, Configure
  <2>2. w \in Workers /\ k \in WorkerRow
    <3>1. w \in Workers /\ worker[w] \in WorkerRow
      BY DEF IInv, SyncTypeOK
    <3> QED BY <3>1 DEF WorkerRow
  <2>3. worker' \in [Workers -> WorkerRow]
    BY <2>1, <2>2 DEF IInv, SyncTypeOK
  <2> QED BY <2>3 DEF IInv, SyncTypeOK, Configure
<1>2. Exclusive'
  BY DEF IInv, SyncTypeOK, Exclusive, Configure
<1>8. /\ used' = used \union (Logins \intersect {input}) /\ input \notin used
      /\ UNCHANGED <<account, mutex, due, issued, entered, lost>>
  BY DEF Configure
<1>9. /\ worker'[w].pc = "configure" /\ worker'[w].input = input
      /\ \A v \in Workers : v # w => worker'[v] = worker[v]
  BY DEF IInv, SyncTypeOK, WorkerRow, Configure
<1>3. Unspent'
  BY <1>8, <1>9 DEF IInv, Unspent, Entered, Renewing
<1>4. Writing'
  BY DEF IInv, SyncTypeOK, Writing, Configure
<1>5. Renewing'
  BY <1>8, <1>9 DEF IInv, Renewing
<1>6. Sole'
  BY <1>8, <1>9 DEF IInv, Sole
<1>7. CredentialsAreKept'
  BY DEF IInv, SyncTypeOK, CredentialsAreKept, Configure
<1> QED BY <1>1, <1>2, <1>3, <1>4, <1>5, <1>6, <1>7 DEF IInv

\* A deletion that waits changes nothing.
LEMMA DeleteKeeps ==
  ASSUME IInv, NEW w \in Callers, NEW o \in Owners, Delete(w, o)
  PROVE  IInv'
<1>1. SyncTypeOK'
  <2>1. worker' = [worker EXCEPT ![w] =
          [worker[w] EXCEPT !.pc = "delete", !.owner = o, !.alive = TRUE]]
    BY DEF IInv, SyncTypeOK, WorkerRow, Delete
  <2>2. /\ w \in Workers
        /\ [worker[w] EXCEPT !.pc = "delete", !.owner = o, !.alive = TRUE] \in WorkerRow
    <3>1. w \in Workers /\ worker[w] \in WorkerRow
      BY DEF IInv, SyncTypeOK
    <3> QED BY <3>1 DEF WorkerRow
  <2>3. worker' \in [Workers -> WorkerRow]
    BY <2>1, <2>2 DEF IInv, SyncTypeOK
  <2> QED BY <2>3 DEF IInv, SyncTypeOK, Delete
<1>2. Exclusive'
  BY DEF IInv, SyncTypeOK, Exclusive, Delete
<1>3. Unspent'
  BY DEF IInv, SyncTypeOK, Unspent, Entered, Delete
<1>4. Writing'
  BY DEF IInv, SyncTypeOK, Writing, Delete
<1>5. Renewing'
  BY DEF IInv, SyncTypeOK, Renewing, Delete
<1>6. Sole'
  BY DEF IInv, SyncTypeOK, Sole, Delete
<1>7. CredentialsAreKept'
  BY DEF IInv, SyncTypeOK, CredentialsAreKept, Delete
<1> QED BY <1>1, <1>2, <1>3, <1>4, <1>5, <1>6, <1>7 DEF IInv

\* Whoever waited finds the mutex free.
LEMMA LockKeeps ==
  ASSUME IInv, NEW w \in Callers, Lock(w)
  PROVE  IInv'
<1>1. SyncTypeOK'
  BY DEF IInv, SyncTypeOK, WorkerRow, Lock, Unlocked, At
<1>2. Exclusive'
  BY DEF IInv, SyncTypeOK, WorkerRow, Exclusive, Lock, Unlocked, At
<1>3. Unspent'
  BY DEF IInv, Unspent, Entered, Lock, Unlocked, At
<1>4. Writing'
  BY DEF IInv, Writing, Lock, Unlocked, At
<1>5. Renewing'
  BY DEF IInv, Renewing, Lock, Unlocked, At
<1>6. Sole'
  BY DEF IInv, Sole, Lock, Unlocked, At
<1>7. CredentialsAreKept'
  BY DEF IInv, CredentialsAreKept, Lock, Unlocked, At
<1> QED BY <1>1, <1>2, <1>3, <1>4, <1>5, <1>6, <1>7 DEF IInv

\* A failed statement leaves everything as it is.
LEMMA StatementFailsKeeps ==
  ASSUME IInv, NEW w \in Workers, StatementFails(w)
  PROVE  IInv'
<1>1. SyncTypeOK'
  BY IdleWorker DEF IInv, SyncTypeOK, StatementFails, Return
<1>2. Exclusive'
  BY IdleWorker DEF IInv, SyncTypeOK, Exclusive, StatementFails, Return
<1>3. Unspent'
  BY IdleWorker DEF IInv, Unspent, Entered, StatementFails, Return
<1>4. Writing'
  BY IdleWorker DEF IInv, Writing, StatementFails, Return
<1>5. Renewing'
  BY IdleWorker DEF IInv, Renewing, StatementFails, Return
<1>6. Sole'
  BY IdleWorker DEF IInv, Sole, StatementFails, Return
<1>7. CredentialsAreKept'
  BY IdleWorker DEF IInv, SyncTypeOK, WorkerRow, Exclusive, Unspent, Entered, Writing, Renewing,
    Sole, CredentialsAreKept, StatementFails, Return
<1> QED BY <1>1, <1>2, <1>3, <1>4, <1>5, <1>6, <1>7 DEF IInv

\* What is merged stays stored while the mutex is held.
LEMMA ReadExistingKeeps ==
  ASSUME IInv, NEW w \in Callers, ReadExisting(w)
  PROVE  IInv'
<1>1. CASE StatementFails(w)
  BY <1>1, StatementFailsKeeps
<1>2. CASE ~StatementFails(w)
  <2>1. /\ worker[w].pc = "existing"
        /\ worker' = [worker EXCEPT ![w].pc = "write", ![w].read = Merged(w)]
        /\ worker[w].input = Keep => Configured(worker[w].owner)
        /\ UNCHANGED <<account, mutex, due, issued, used, entered, lost>>
    <3>. PICK refused : refused = (\/ account[worker[w].owner] = NoOwner
                                  \/ (worker[w].input = Keep /\ ~Configured(worker[w].owner))
                                  \/ ~worker[w].alive)
      OBVIOUS
    <3>1. /\ worker[w].pc = "existing"
          /\ UNCHANGED <<account, due, issued, used, entered, lost>>
          /\ IF refused THEN Return(w)
             ELSE worker' = [worker EXCEPT ![w].pc = "write", ![w].read = Merged(w)] /\ UNCHANGED mutex
      BY ZenonT(30) DEF ReadExisting
    <3>2. refused => StatementFails(w)
      BY ZenonT(30), <3>1 DEF StatementFails
    <3>3. worker[w].input = Keep => Configured(worker[w].owner)
      BY <1>2, <3>2
    <3>. QED BY <1>2, <3>1, <3>2, <3>3
  <2>2. Merged(w) \in Credentials
    <3>1. worker[w] \in WorkerRow /\ worker[w].owner \in Owners
      BY DEF IInv, SyncTypeOK, WorkerRow
    <3>2. CASE worker[w].input = Keep
      BY <2>1, <3>1, <3>2 DEF IInv, SyncTypeOK, AccountRow, Merged
    <3>3. CASE worker[w].input # Keep
      BY <3>1, <3>3 DEF WorkerRow, Credentials, Merged
    <3> QED BY <3>2, <3>3
  <2>3. worker' \in [Workers -> WorkerRow]
    <3>1. worker' = [worker EXCEPT ![w] = [worker[w] EXCEPT !.pc = "write", !.read = Merged(w)]]
      BY <2>1 DEF IInv, SyncTypeOK, WorkerRow
    <3>2. [worker[w] EXCEPT !.pc = "write", !.read = Merged(w)] \in WorkerRow
      <4>1. worker[w] \in WorkerRow
        BY DEF IInv, SyncTypeOK
      <4> QED BY <2>2, <4>1 DEF WorkerRow
    <3> QED BY <3>1, <3>2 DEF IInv, SyncTypeOK
  <2>4. SyncTypeOK'
    BY <2>1, <2>3 DEF IInv, SyncTypeOK
  <2>5. Exclusive'
    BY <2>1 DEF IInv, SyncTypeOK, WorkerRow, Exclusive
  <2>6. Unspent'
    BY <2>1 DEF IInv, SyncTypeOK, WorkerRow, Unspent, Entered
  <2>7. Writing'
    BY <2>1, <2>2 DEF IInv, SyncTypeOK, WorkerRow, Writing, Merged
  <2>8. Renewing' /\ Sole'
    BY <2>1 DEF IInv, SyncTypeOK, WorkerRow, Renewing, Sole
  <2>9. CredentialsAreKept'
    BY <2>1 DEF IInv, SyncTypeOK, WorkerRow, CredentialsAreKept
  <2> QED BY <2>4, <2>5, <2>6, <2>7, <2>8, <2>9 DEF IInv
<1> QED BY <1>1, <1>2

\* What is written is a new login, or what was stored.
LEMMA WriteConfigurationKeeps ==
  ASSUME IInv, NEW w \in Callers, WriteConfiguration(w)
  PROVE  IInv'
<1> DEFINE o == worker[w].owner
<1> DEFINE row == [cred |-> worker[w].read, enabled |-> worker[w].enable, sync |-> "pending"]
<1> DEFINE next == [Idle EXCEPT !.pc = "read", !.owner = o, !.alive = TRUE]
<1>1. /\ worker[w].pc = "write" /\ account[o] # NoOwner
      /\ account' = [account EXCEPT ![o] = row]
      /\ entered' = [entered EXCEPT ![o] = worker[w].read.login]
      /\ UNCHANGED <<due, issued, used, lost>>
  BY DEF WriteConfiguration
<1>2. w \in Workers /\ o \in Owners /\ worker[w] \in WorkerRow /\ mutex[o] = w
  BY <1>1 DEF IInv, SyncTypeOK, WorkerRow, Exclusive
<1>3. row \in AccountRow /\ row.cred = worker[w].read /\ worker[w].read.login \in Logins
  BY <1>2 DEF WorkerRow, AccountRow, Credentials
<1>4. next \in WorkerRow /\ next.pc = "read" /\ next.owner = o
  BY <1>2, IdleWorker DEF WorkerRow
<1>5. PICK k \in WorkerRow :
        /\ worker' = [worker EXCEPT ![w] = k]
        /\ \/ k.pc = "read" /\ k.owner = o /\ UNCHANGED mutex
           \/ k.pc = "idle" /\ mutex' = [mutex EXCEPT ![o] = Nobody]
  <2>1. CASE worker[w].now /\ worker[w].enable
    BY <1>4, <2>1 DEF WriteConfiguration
  <2>2. CASE ~(worker[w].now /\ worker[w].enable)
    BY IdleWorker, <2>2 DEF WriteConfiguration, Return
  <2> QED BY <2>1, <2>2
<1> HIDE DEF row, next
<1>6. \/ /\ worker[w].input \in Logins /\ Entered(w)
         /\ worker[w].read = [login |-> worker[w].input, gen |-> 0]
      \/ Configured(o) /\ worker[w].read = account[o].cred
  BY <1>1, <1>2 DEF IInv, Writing, Entered
<1>7. SyncTypeOK'
  BY <1>1, <1>2, <1>3, <1>5 DEF IInv, SyncTypeOK
<1>9. worker[w].read.login \in used
  BY <1>2, <1>6 DEF IInv, Unspent
<1>10. \A p \in Owners : Configured(p)' =>
         \/ p = o /\ account'[p].cred = worker[w].read
         \/ p # o /\ Configured(p) /\ account'[p] = account[p]
  BY <1>1, <1>2, <1>3 DEF IInv, SyncTypeOK
<1>11. \A v \in Workers : v # w =>
           worker'[v] = worker[v] /\ (worker[v].pc \in Holding => worker[v].owner # o)
  BY <1>1, <1>2, <1>5 DEF IInv, SyncTypeOK, Exclusive
<1>12. worker'[w] = k
  BY <1>2, <1>5 DEF IInv, SyncTypeOK
<1>8. Exclusive'
  <2>1. mutex'[o] = w \/ k.pc = "idle"
    BY <1>2, <1>5
  <2>2. \A p \in Owners : p # o => mutex'[p] = mutex[p]
    BY <1>5 DEF IInv, SyncTypeOK
  <2>3. \A v \in Workers : worker[v].owner \in Owners
    BY DEF IInv, SyncTypeOK, WorkerRow
  <2>4. k.pc \in Holding => k.owner = o /\ mutex'[o] = w
    BY <1>5, <2>1
  <2> QED BY <1>11, <1>12, <2>2, <2>3, <2>4 DEF IInv, Exclusive
<1>13. Unspent'
  BY <1>1, <1>2, <1>5, <1>6, <1>9, <1>10, <1>11, <1>12 DEF IInv, Unspent, Entered
<1>14. Writing'
  BY <1>1, <1>2, <1>5, <1>11, <1>12 DEF IInv, SyncTypeOK, WorkerRow, Writing
<1>15. Renewing'
  BY <1>1, <1>2, <1>5, <1>11, <1>12 DEF IInv, SyncTypeOK, WorkerRow, Renewing
<1>16. Sole'
  BY <1>1, <1>2, <1>5, <1>6, <1>10, <1>11, <1>12 DEF IInv, Unspent, Entered, Sole
<1>17. CredentialsAreKept'
  <2> SUFFICES ASSUME NEW p \in Owners, Configured(p)'
               PROVE  (/\ account[p].cred.login = entered[p]
                       /\ \/ account[p].cred.gen = issued[account[p].cred.login]
                          \/ account[p].cred.login \in lost
                          \/ /\ mutex[p] # Nobody /\ Rotated(mutex[p]) /\ worker[mutex[p]].owner = p
                             /\ worker[mutex[p]].conn = [login |-> account[p].cred.login,
                                                         gen |-> issued[account[p].cred.login]])'
    BY DEF CredentialsAreKept
  <2>1. CASE p = o
    <3>1. account'[p].cred = worker[w].read /\ entered'[p] = worker[w].read.login
      BY <1>1, <1>10, <2>1 DEF IInv, SyncTypeOK
    <3>2. worker[w].read.gen = issued[worker[w].read.login] \/ worker[w].read.login \in lost
      <4>1. CASE Entered(w) /\ worker[w].read = [login |-> worker[w].input, gen |-> 0]
        BY <1>2, <4>1 DEF IInv, Unspent
      <4>2. CASE Configured(o) /\ worker[w].read = account[o].cred
        <5>1. ~Rotated(mutex[o])
          BY <1>1, <1>2
        <5> QED BY <1>2, <4>2, <5>1 DEF IInv, CredentialsAreKept
      <4> QED BY <1>6, <4>1, <4>2
    <3> QED BY <1>1, <3>1, <3>2
  <2>2. CASE p # o
    <3>1. account'[p] = account[p] /\ entered'[p] = entered[p] /\ Configured(p)
          /\ mutex'[p] = mutex[p]
      BY <1>1, <1>2, <1>5, <1>10, <2>2 DEF IInv, SyncTypeOK
    <3>2. mutex[p] # Nobody /\ Rotated(mutex[p]) => mutex[p] # w /\ mutex[p] \in Workers
      BY <1>1, <1>2 DEF IInv, SyncTypeOK
    <3> QED BY <1>1, <1>11, <3>1, <3>2 DEF IInv, CredentialsAreKept
  <2> QED BY <2>1, <2>2
<1> QED BY <1>7, <1>8, <1>13, <1>14, <1>15, <1>16, <1>17 DEF IInv

\* A deletion holds the mutex: no refresh loses its account to it.
LEMMA DeleteAccountKeeps ==
  ASSUME IInv, NEW w \in Callers, DeleteAccount(w)
  PROVE  IInv'
<1>1. SyncTypeOK'
  BY IdleWorker DEF IInv, SyncTypeOK, DeleteAccount, Return
<1>2. Exclusive'
  BY IdleWorker DEF IInv, SyncTypeOK, Exclusive, DeleteAccount, Return
<1>3. Unspent'
  BY IdleWorker DEF IInv, Unspent, Entered, DeleteAccount, Return
<1>4. Writing'
  BY IdleWorker DEF IInv, SyncTypeOK, WorkerRow, Exclusive, Unspent, Entered, Writing,
    DeleteAccount, Return
<1>5. Renewing'
  BY IdleWorker DEF IInv, SyncTypeOK, WorkerRow, Exclusive, Unspent, Writing, Renewing, Sole,
    DeleteAccount, Return
<1>6. Sole'
  BY IdleWorker DEF IInv, Sole, DeleteAccount, Return
<1>7. CredentialsAreKept'
  <2>1. /\ worker[w].pc = "remove" /\ UNCHANGED <<issued, entered, lost>>
        /\ \A v \in Workers : v # w => worker'[v] = worker[v]
        /\ \A p \in Owners : p # worker[w].owner => mutex'[p] = mutex[p] /\ account'[p] = account[p]
        /\ \A p \in Owners : mutex[p] \in Workers \union {Nobody}
        /\ account'[worker[w].owner] \in {NoAccount, NoOwner}
    <3>1. /\ worker \in [Workers -> WorkerRow] /\ worker[w].owner \in Owners
          /\ account \in [Owners -> AccountRow \union {NoAccount, NoOwner}]
          /\ mutex \in [Owners -> Workers \union {Nobody}]
      BY DEF IInv, SyncTypeOK, WorkerRow
    <3>2. /\ worker[w].pc = "remove" /\ UNCHANGED <<issued, entered, lost>>
          /\ worker' = [worker EXCEPT ![w] = Idle]
          /\ mutex' = [mutex EXCEPT ![worker[w].owner] = Nobody]
          /\ account' = [account EXCEPT ![worker[w].owner] =
                           IF Configured(worker[w].owner) THEN NoAccount ELSE @]
      BY DEF DeleteAccount, Return
    <3> QED BY <3>1, <3>2
  <2> SUFFICES ASSUME NEW p \in Owners, Configured(p)'
               PROVE  (/\ account[p].cred.login = entered[p]
                       /\ \/ account[p].cred.gen = issued[account[p].cred.login]
                          \/ account[p].cred.login \in lost
                          \/ /\ mutex[p] # Nobody /\ Rotated(mutex[p]) /\ worker[mutex[p]].owner = p
                             /\ worker[mutex[p]].conn = [login |-> account[p].cred.login,
                                                         gen |-> issued[account[p].cred.login]])'
    BY DEF CredentialsAreKept
  <2>2. p # worker[w].owner /\ account'[p] = account[p] /\ mutex'[p] = mutex[p]
    BY <2>1
  <2>3. mutex[p] # Nobody /\ Rotated(mutex[p]) => worker'[mutex[p]] = worker[mutex[p]]
    BY <2>1
  <2> QED BY <2>1, <2>2, <2>3 DEF IInv, CredentialsAreKept
<1> QED BY <1>1, <1>2, <1>3, <1>4, <1>5, <1>6, <1>7 DEF IInv

\* A refresh begins with the mutex.
LEMMA RefreshByHandKeeps ==
  ASSUME IInv, NEW w \in Callers, NEW o \in Owners, RefreshByHand(w, o)
  PROVE  IInv'
<1>1. SyncTypeOK'
  <2>1. worker' = [worker EXCEPT ![w] =
          [worker[w] EXCEPT !.pc = "read", !.owner = o, !.alive = TRUE]]
    BY DEF IInv, SyncTypeOK, WorkerRow, RefreshByHand, Refresh
  <2>2. /\ w \in Workers
        /\ [worker[w] EXCEPT !.pc = "read", !.owner = o, !.alive = TRUE] \in WorkerRow
    <3>1. w \in Workers /\ worker[w] \in WorkerRow
      BY DEF IInv, SyncTypeOK
    <3> QED BY <3>1 DEF WorkerRow
  <2>3. worker' \in [Workers -> WorkerRow]
    BY <2>1, <2>2 DEF IInv, SyncTypeOK
  <2> QED BY <2>3 DEF IInv, SyncTypeOK, RefreshByHand, Refresh
<1>2. Exclusive'
  BY DEF IInv, SyncTypeOK, Exclusive, RefreshByHand, Refresh, Unlocked
<1>3. Unspent'
  BY DEF IInv, SyncTypeOK, Unspent, Entered, RefreshByHand, Refresh, Unlocked
<1>4. Writing'
  BY DEF IInv, SyncTypeOK, Writing, RefreshByHand, Refresh, Unlocked
<1>5. Renewing'
  BY DEF IInv, SyncTypeOK, Renewing, RefreshByHand, Refresh, Unlocked
<1>6. Sole'
  BY DEF IInv, SyncTypeOK, Sole, RefreshByHand, Refresh, Unlocked
<1>7. CredentialsAreKept'
  BY DEF IInv, SyncTypeOK, CredentialsAreKept, RefreshByHand, Refresh, Unlocked
<1> QED BY <1>1, <1>2, <1>3, <1>4, <1>5, <1>6, <1>7 DEF IInv

\* The sweep's list is only a list.
LEMMA ListDueKeeps ==
  ASSUME IInv, NEW O \in SUBSET Owners, ListDue(O)
  PROVE  IInv'
<1>1. SyncTypeOK'
  BY DEF IInv, SyncTypeOK, ListDue
<1>2. Exclusive'
  BY DEF IInv, Exclusive, ListDue
<1>3. Unspent'
  BY DEF IInv, Unspent, Entered, ListDue
<1>4. Writing'
  BY DEF IInv, Writing, ListDue
<1>5. Renewing'
  BY DEF IInv, Renewing, ListDue
<1>6. Sole'
  BY DEF IInv, Sole, ListDue
<1>7. CredentialsAreKept'
  BY DEF IInv, CredentialsAreKept, ListDue
<1> QED BY <1>1, <1>2, <1>3, <1>4, <1>5, <1>6, <1>7 DEF IInv

\* The sweep begins a refresh, or skips the account.
LEMMA SyncDueKeeps ==
  ASSUME IInv, NEW o \in Owners, SyncDue(o)
  PROVE  IInv'
<1>1. SyncTypeOK'
  <2>1. worker' \in [Workers -> WorkerRow]
    BY DEF IInv, SyncTypeOK, WorkerRow, SyncDue, Refresh
  <2> QED BY <2>1 DEF IInv, SyncTypeOK, SyncDue, Refresh, Unlocked
<1>2. Exclusive'
  BY DEF IInv, SyncTypeOK, WorkerRow, Exclusive, SyncDue, Refresh, Unlocked
<1>3. Unspent'
  BY DEF IInv, SyncTypeOK, WorkerRow, Unspent, Entered, SyncDue, Refresh, Unlocked
<1>4. Writing'
  BY DEF IInv, SyncTypeOK, WorkerRow, Writing, SyncDue, Refresh, Unlocked
<1>5. Renewing'
  BY DEF IInv, SyncTypeOK, WorkerRow, Renewing, SyncDue, Refresh, Unlocked
<1>6. Sole'
  BY DEF IInv, SyncTypeOK, WorkerRow, Sole, SyncDue, Refresh, Unlocked
<1>7. CredentialsAreKept'
  BY DEF IInv, SyncTypeOK, CredentialsAreKept, SyncDue, Refresh, Unlocked
<1> QED BY <1>1, <1>2, <1>3, <1>4, <1>5, <1>6, <1>7 DEF IInv

\* A refresh begins with what is stored.
LEMMA ReadAccountKeeps ==
  ASSUME IInv, NEW w \in Workers, ReadAccount(w)
  PROVE  IInv'
<1>1. CASE StatementFails(w)
  BY <1>1, StatementFailsKeeps
<1>2. CASE ~StatementFails(w)
  <2> DEFINE o == worker[w].owner
  <2>1. /\ worker[w].pc = "read" /\ Configured(o)
        /\ worker' = [worker EXCEPT ![w].pc = "snapshot", ![w].read = account[o].cred,
                                    ![w].conn = account[o].cred]
        /\ UNCHANGED <<account, mutex, due, issued, used, entered, lost>>
    BY <1>2 DEF ReadAccount, StatementFails
  <2>2. account[o].cred \in Credentials /\ o \in Owners /\ mutex[o] = w
    BY <2>1 DEF IInv, SyncTypeOK, WorkerRow, AccountRow, Exclusive
  <2>3. worker' \in [Workers -> WorkerRow]
    BY <2>1, <2>2 DEF IInv, SyncTypeOK, WorkerRow
  <2>4. SyncTypeOK'
    BY <2>1, <2>3 DEF IInv, SyncTypeOK
  <2>5. Exclusive'
    BY <2>1 DEF IInv, SyncTypeOK, WorkerRow, Exclusive
  <2>12. /\ worker'[w].pc = "snapshot" /\ worker'[w].owner = o
         /\ worker'[w].read = account[o].cred /\ worker'[w].conn = account[o].cred
         /\ \A v \in Workers : v # w => worker'[v] = worker[v]
    BY <2>1 DEF IInv, SyncTypeOK, WorkerRow
  <2>13. Configured(o) /\ UNCHANGED <<account, mutex, due, issued, used, entered, lost>>
    BY <2>1
  <2>6. Unspent'
    BY <2>2, <2>12, <2>13 DEF IInv, Unspent, Entered
  <2>7. Writing'
    BY <2>12, <2>13 DEF IInv, Writing
  <2>8. account[o].cred.gen = issued[account[o].cred.login] \/ account[o].cred.login \in lost
    BY <2>1, <2>2 DEF IInv, CredentialsAreKept
  <2>9. Renewing'
    <3>3. account[o].cred.login \in used /\ account[o].cred.gen \in Nat
      BY <2>1, <2>2 DEF IInv, Unspent, Credentials
    <3>4. (/\ worker[w].conn.login = worker[w].read.login
           /\ worker[w].conn.login \in used
           /\ worker[w].read.gen <= worker[w].conn.gen
           /\ Configured(worker[w].owner) /\ worker[w].read = account[worker[w].owner].cred
           /\ \/ worker[w].conn.gen = issued[worker[w].conn.login]
              \/ worker[w].conn.login \in lost)'
      BY <2>8, <2>12, <2>13, <3>3
    <3>5. ASSUME NEW v \in Workers, v # w, (worker[v].pc \in Refreshing)'
          PROVE  (/\ worker[v].conn.login = worker[v].read.login
                  /\ worker[v].conn.login \in used
                  /\ worker[v].read.gen <= worker[v].conn.gen
                  /\ \/ account[worker[v].owner] = NoOwner
                     \/ /\ Configured(worker[v].owner)
                        /\ worker[v].read = account[worker[v].owner].cred
                  /\ \/ worker[v].conn.gen = issued[worker[v].conn.login]
                     \/ worker[v].conn.login \in lost)'
      <4>1. worker'[v] = worker[v] /\ worker[v].pc \in Refreshing
        BY <2>12, <3>5
      <4>2. /\ worker[v].conn.login = worker[v].read.login
            /\ worker[v].conn.login \in used
            /\ worker[v].read.gen <= worker[v].conn.gen
            /\ \/ account[worker[v].owner] = NoOwner
               \/ /\ Configured(worker[v].owner)
                  /\ worker[v].read = account[worker[v].owner].cred
            /\ \/ worker[v].conn.gen = issued[worker[v].conn.login]
               \/ worker[v].conn.login \in lost
        BY <4>1 DEF IInv, Renewing
      <4>3. UNCHANGED <<account, issued, used, lost>>
        BY <2>13
      <4> HIDE <2>12, <2>13
      <4> QED BY <4>1, <4>2, <4>3
    <3> QED BY <3>4, <3>5 DEF Renewing
  <2>10. Sole'
    BY <2>2, <2>12, <2>13 DEF IInv, Exclusive, Sole
  <2>11. CredentialsAreKept'
    <3> SUFFICES ASSUME NEW p \in Owners, Configured(p)
                 PROVE  (/\ account[p].cred.login = entered[p]
                         /\ \/ account[p].cred.gen = issued[account[p].cred.login]
                            \/ account[p].cred.login \in lost
                            \/ /\ mutex[p] # Nobody /\ Rotated(mutex[p]) /\ worker[mutex[p]].owner = p
                               /\ worker[mutex[p]].conn = [login |-> account[p].cred.login,
                                                           gen |-> issued[account[p].cred.login]])'
      BY <2>13 DEF CredentialsAreKept
    <3>1. CASE p = o
      BY <2>8, <2>13, <3>1 DEF IInv, CredentialsAreKept
    <3>2. CASE p # o
      <4>1. mutex[p] \in Workers \union {Nobody} /\ (worker[mutex[p]].owner = p => mutex[p] # w)
        BY <3>2 DEF IInv, SyncTypeOK
      <4> QED BY <2>12, <2>13, <4>1 DEF IInv, CredentialsAreKept
    <3> QED BY <3>1, <3>2
  <2> QED BY <2>4, <2>5, <2>6, <2>7, <2>9, <2>10, <2>11 DEF IInv
<1> QED BY <1>1, <1>2

\* A call without an exchange changes no credentials.
LEMMA CallProviderKeeps ==
  ASSUME IInv, NEW w \in Workers, NEW ok \in BOOLEAN, CallProvider(w, ok)
  PROVE  IInv'
<1>1. SyncTypeOK'
  BY DEF IInv, SyncTypeOK, WorkerRow, CallProvider, NextCalls, At
<1>2. Exclusive'
  BY DEF IInv, Exclusive, CallProvider, NextCalls, At
<1>3. Unspent'
  BY DEF IInv, Unspent, Entered, CallProvider, NextCalls, At
<1>4. Writing'
  BY DEF IInv, Writing, CallProvider, NextCalls, At
<1>5. Renewing'
  BY DEF IInv, Renewing, CallProvider, NextCalls, At
<1>6. Sole'
  BY DEF IInv, Sole, CallProvider, NextCalls, At
<1>7. CredentialsAreKept'
  BY DEF IInv, CredentialsAreKept, CallProvider, NextCalls, At
<1> QED BY <1>1, <1>2, <1>3, <1>4, <1>5, <1>6, <1>7 DEF IInv

\* The new pair is in the hands of the refresh that has the mutex.
LEMMA CallRotatesKeeps ==
  ASSUME IInv, NEW w \in Workers, NEW ok \in BOOLEAN, CallRotates(w, ok)
  PROVE  IInv'
<1>1. SyncTypeOK'
  BY DEF IInv, SyncTypeOK, AccountRow, WorkerRow, Credentials, CallRotates, NextCalls
<1>2. Exclusive'
  BY DEF IInv, SyncTypeOK, Exclusive, CallRotates, NextCalls
<1>8. /\ worker[w].pc \in Refreshing /\ worker'[w].pc \in Refreshing
      /\ worker'[w].read = worker[w].read /\ worker'[w].owner = worker[w].owner
      /\ worker'[w].conn.login = worker[w].conn.login /\ worker'[w].conn.gen = worker[w].conn.gen + 1
      /\ worker[w].conn.gen = issued[worker[w].conn.login]
      /\ UNCHANGED <<account, mutex, used, entered, lost>>
      /\ \A v \in Workers : v # w => worker'[v] = worker[v]
  BY DEF IInv, SyncTypeOK, WorkerRow, Credentials, CallRotates, NextCalls
<1>9. /\ worker[w].conn.login \in Logins
      /\ issued'[worker[w].conn.login] = issued[worker[w].conn.login] + 1
      /\ \A l \in Logins : l # worker[w].conn.login => issued'[l] = issued[l]
      /\ worker[w].read.gen \in Nat /\ worker[w].conn.gen \in Nat
  BY DEF IInv, SyncTypeOK, WorkerRow, Credentials, CallRotates
<1>3. Unspent'
  BY <1>8, <1>9 DEF IInv, Unspent, Entered, Renewing
<1>4. Writing'
  BY DEF IInv, SyncTypeOK, Writing, CallRotates, NextCalls
<1>5. Renewing'
  <2> SUFFICES ASSUME NEW v \in Workers, worker'[v].pc \in Refreshing
               PROVE  (/\ worker[v].conn.login = worker[v].read.login
                       /\ worker[v].conn.login \in used
                       /\ worker[v].read.gen <= worker[v].conn.gen
                       /\ \/ account[worker[v].owner] = NoOwner
                          \/ /\ Configured(worker[v].owner)
                             /\ worker[v].read = account[worker[v].owner].cred
                       /\ \/ worker[v].conn.gen = issued[worker[v].conn.login]
                          \/ worker[v].conn.login \in lost)'
    BY DEF Renewing
  <2>1. CASE v = w
    BY <1>8, <1>9, <2>1 DEF IInv, Renewing
  <2>2. CASE v # w
    <3>1. worker'[v] = worker[v] /\ worker[v].conn.login \in Logins
      BY <1>8, <2>2 DEF IInv, SyncTypeOK, WorkerRow, Credentials
    <3>2. worker[v].conn.login # worker[w].conn.login
      BY <1>8, <2>2, <3>1 DEF IInv, Sole
    <3> QED BY <1>8, <1>9, <3>1, <3>2 DEF IInv, Renewing
  <2> QED BY <2>1, <2>2
<1>6. Sole'
  BY DEF IInv, SyncTypeOK, Sole, CallRotates, NextCalls
<1>7. CredentialsAreKept'
  <2> DEFINE l == worker[w].conn.login
  <2>1. /\ worker[w].pc \in Refreshing /\ worker'[w].pc \in Refreshing
        /\ worker'[w].conn = [worker[w].conn EXCEPT !.gen = issued[l] + 1]
        /\ worker'[w].read = worker[w].read /\ worker'[w].owner = worker[w].owner
        /\ worker[w].conn.gen = issued[l]
        /\ issued' = [issued EXCEPT ![l] = @ + 1]
        /\ UNCHANGED <<account, mutex, entered, lost>>
        /\ \A v \in Workers : v # w => worker'[v] = worker[v]
    BY DEF IInv, SyncTypeOK, WorkerRow, Credentials, CallRotates, NextCalls
  <2>2. l \in Logins /\ worker[w].owner \in Owners /\ mutex[worker[w].owner] = w
        /\ issued[l] \in Nat /\ worker[w].conn \in Credentials
    BY <2>1 DEF IInv, SyncTypeOK, WorkerRow, Credentials, Exclusive
  <2>3. ASSUME NEW o \in Owners, Configured(o), account[o].cred.login = l
        PROVE  /\ mutex[o] = w /\ w # Nobody /\ worker'[w].owner = o
               /\ worker'[w].conn # worker'[w].read
               /\ worker'[w].conn = [login |-> l, gen |-> issued'[l]]
    <3>1. worker[w].owner = o
      BY <2>1, <2>3 DEF IInv, Sole
    <3>2. worker'[w].conn = [login |-> l, gen |-> issued[l] + 1] /\ issued'[l] = issued[l] + 1
      BY <2>1, <2>2 DEF IInv, SyncTypeOK, Credentials
    <3>3. worker[w].read.gen <= issued[l] /\ worker[w].read.gen \in Nat
      BY <2>1 DEF IInv, SyncTypeOK, WorkerRow, Credentials, Renewing
    <3> QED BY <2>1, <2>2, <3>1, <3>2, <3>3
  <2>4. ASSUME NEW o \in Owners, Configured(o), account[o].cred.login # l
        PROVE  /\ issued'[account[o].cred.login] = issued[account[o].cred.login]
               /\ mutex[o] # Nobody /\ Rotated(mutex[o]) /\ worker[mutex[o]].owner = o
                  /\ worker[mutex[o]].conn.login = account[o].cred.login => mutex[o] # w
    BY <2>1, <2>4 DEF IInv, SyncTypeOK, AccountRow, Credentials
  <2> SUFFICES ASSUME NEW o \in Owners, Configured(o)
               PROVE  (/\ account[o].cred.login = entered[o]
                       /\ \/ account[o].cred.gen = issued[account[o].cred.login]
                          \/ account[o].cred.login \in lost
                          \/ /\ mutex[o] # Nobody /\ Rotated(mutex[o]) /\ worker[mutex[o]].owner = o
                             /\ worker[mutex[o]].conn = [login |-> account[o].cred.login,
                                                         gen |-> issued[account[o].cred.login]])'
    BY <2>1 DEF CredentialsAreKept
  <2>5. account[o].cred.login = entered[o]
    BY DEF IInv, CredentialsAreKept
  <2>6. CASE account[o].cred.login = l
    BY <2>1, <2>3, <2>5, <2>6
  <2>7. CASE account[o].cred.login # l
    <3>1. CASE account[o].cred.gen = issued[account[o].cred.login] \/ account[o].cred.login \in lost
      BY <2>1, <2>4, <2>5, <2>7, <3>1
    <3>2. CASE /\ mutex[o] # Nobody /\ Rotated(mutex[o]) /\ worker[mutex[o]].owner = o
               /\ worker[mutex[o]].conn = [login |-> account[o].cred.login,
                                           gen |-> issued[account[o].cred.login]]
      <4>1. mutex[o] \in Workers /\ mutex[o] # w
        BY <2>1, <2>7, <3>2 DEF IInv, SyncTypeOK
      <4>2. worker'[mutex[o]] = worker[mutex[o]]
        BY <2>1, <4>1
      <4> QED BY <2>1, <2>4, <2>5, <2>7, <3>2, <4>2
    <3> QED BY <3>1, <3>2 DEF IInv, CredentialsAreKept
  <2> QED BY <2>6, <2>7
<1> QED BY <1>1, <1>2, <1>3, <1>4, <1>5, <1>6, <1>7 DEF IInv

\* An exchange without an answer is recorded in lost.
LEMMA RotationUnansweredKeeps ==
  ASSUME IInv, NEW w \in Workers, RotationUnanswered(w)
  PROVE  IInv'
<1>1. SyncTypeOK'
  BY DEF IInv, SyncTypeOK, AccountRow, WorkerRow, Credentials, RotationUnanswered, NextCalls, At
<1>2. Exclusive'
  BY DEF IInv, Exclusive, RotationUnanswered, NextCalls, At
<1>3. Unspent'
  BY SMTT(30) DEF IInv, SyncTypeOK, WorkerRow, Exclusive, Unspent, Entered, Writing, Renewing, Sole,
    RotationUnanswered, NextCalls, At
<1>4. Writing'
  BY DEF IInv, Writing, RotationUnanswered, NextCalls, At
<1>5. Renewing'
  BY DEF IInv, Renewing, RotationUnanswered, NextCalls, At
<1>6. Sole'
  BY DEF IInv, Sole, RotationUnanswered, NextCalls, At
<1>7. CredentialsAreKept'
  BY SMTT(30) DEF IInv, SyncTypeOK, AccountRow, WorkerRow, Credentials, Exclusive, Unspent, Entered,
    Writing, Renewing, Sole, CredentialsAreKept, RotationUnanswered, NextCalls, At
<1> QED BY <1>1, <1>2, <1>3, <1>4, <1>5, <1>6, <1>7 DEF IInv

\* What the two final writes have in common.
Stores(w, sync) ==
  /\ worker[w].pc \in {"save", "fail"} /\ Configured(worker[w].owner)
  /\ Stored(w, sync) /\ Return(w)
  /\ UNCHANGED <<due, issued, used, entered, lost>>

\* The pair in use is stored, with whatever result.
LEMMA StoresKeeps ==
  ASSUME IInv, NEW w \in Workers, NEW sync \in {"healthy", "error"}, Stores(w, sync)
  PROVE  IInv'
<1> DEFINE o == worker[w].owner
<1> DEFINE row == [account[o] EXCEPT !.sync = sync,
                     !.cred = IF Rotated(w) THEN worker[w].conn ELSE account[o].cred]
<1>1. /\ worker[w].pc \in Refreshing /\ worker[w] \in WorkerRow /\ o \in Owners
      /\ account[o] \in AccountRow /\ mutex[o] = w
  BY DEF IInv, SyncTypeOK, WorkerRow, Exclusive, Stores
<1>2. /\ account' = [account EXCEPT ![o] = row]
      /\ worker' = [worker EXCEPT ![w] = Idle] /\ mutex' = [mutex EXCEPT ![o] = Nobody]
      /\ UNCHANGED <<due, issued, used, entered, lost>>
  <2>1. account' = [account EXCEPT ![o] =
          [account[o] EXCEPT !.sync = sync,
                             !.cred = IF Rotated(w) THEN worker[w].conn ELSE account[o].cred]]
    BY DEF Stores, Stored
  <2>2. account' = [account EXCEPT ![o] = row]
    BY <1>1, <2>1 DEF IInv, SyncTypeOK
  <2>3. /\ worker' = [worker EXCEPT ![w] = Idle] /\ mutex' = [mutex EXCEPT ![o] = Nobody]
        /\ UNCHANGED <<due, issued, used, entered, lost>>
    BY DEF Stores, Return
  <2> QED BY <2>2, <2>3
<1>3. worker[w].conn \in Credentials
  BY <1>1 DEF WorkerRow
<1>4. row \in AccountRow
  BY <1>1, <1>3 DEF AccountRow
<1>5. account[o].cred = worker[w].read /\ row.cred = worker[w].conn
  BY <1>1 DEF IInv, Renewing, AccountRow, Stores
<1>6. row.cred.login = account[o].cred.login
  BY <1>1, <1>5 DEF IInv, Renewing
<1> HIDE DEF row
<1>7. \A p \in Owners : Configured(p)' =>
        /\ Configured(p) /\ account'[p].cred.login = account[p].cred.login
        /\ p # o => account'[p] = account[p] /\ mutex'[p] = mutex[p]
        /\ p = o => account'[p] = row
  BY <1>1, <1>2, <1>4, <1>6 DEF IInv, SyncTypeOK, Stores
<1>8. \A v \in Workers : v # w =>
          worker'[v] = worker[v] /\ (worker[v].pc \in Holding => worker[v].owner # o)
  BY <1>1, <1>2 DEF IInv, SyncTypeOK, Exclusive
<1>9. worker'[w] = Idle /\ Idle.pc = "idle"
  BY <1>2, IdleWorker DEF IInv, SyncTypeOK
<1>10. SyncTypeOK'
  BY <1>1, <1>2, <1>4, IdleWorker DEF IInv, SyncTypeOK
<1>11. Exclusive'
  BY <1>1, <1>2, <1>8, <1>9 DEF IInv, SyncTypeOK, WorkerRow, Exclusive
<1>12. Unspent'
  BY <1>2, <1>7, <1>8, <1>9 DEF IInv, Unspent, Entered
<1>13. \A v \in Workers : v # w /\ worker[v].pc \in Holding =>
         /\ Configured(worker[v].owner)' = Configured(worker[v].owner)
         /\ account'[worker[v].owner] = account[worker[v].owner]
  BY <1>1, <1>2, <1>8 DEF IInv, SyncTypeOK, WorkerRow
<1>14. Writing'
  BY <1>8, <1>9, <1>13 DEF IInv, Writing
<1>15. Renewing'
  BY <1>2, <1>8, <1>9, <1>13 DEF IInv, Renewing
<1>16. Sole'
  BY <1>7, <1>8, <1>9 DEF IInv, Sole
<1>17. CredentialsAreKept'
  <2> SUFFICES ASSUME NEW p \in Owners, Configured(p)'
               PROVE  (/\ account[p].cred.login = entered[p]
                       /\ \/ account[p].cred.gen = issued[account[p].cred.login]
                          \/ account[p].cred.login \in lost
                          \/ /\ mutex[p] # Nobody /\ Rotated(mutex[p]) /\ worker[mutex[p]].owner = p
                             /\ worker[mutex[p]].conn = [login |-> account[p].cred.login,
                                                         gen |-> issued[account[p].cred.login]])'
    BY DEF CredentialsAreKept
  <2>1. Configured(p) /\ account'[p].cred.login = entered'[p]
    BY ZenonT(60), <1>2, <1>7 DEF IInv, CredentialsAreKept
  <2>2. CASE p = o
    BY <1>1, <1>2, <1>5, <1>7, <2>1, <2>2 DEF IInv, Renewing
  <2>3. CASE p # o
    <3>1. account'[p] = account[p] /\ mutex'[p] = mutex[p]
      BY <1>7, <2>3
    <3>2. mutex[p] # Nobody /\ worker[mutex[p]].owner = p => mutex[p] # w /\ mutex[p] \in Workers
      BY <2>3 DEF IInv, SyncTypeOK
    <3> QED BY <1>2, <1>8, <2>1, <3>1, <3>2 DEF IInv, CredentialsAreKept
  <2> QED BY <2>2, <2>3
<1> QED BY <1>10, <1>11, <1>12, <1>14, <1>15, <1>16, <1>17 DEF IInv

\* The pair in use is stored.
LEMMA SaveSuccessKeeps ==
  ASSUME IInv, NEW w \in Workers, SaveSuccess(w)
  PROVE  IInv'
<1>1. Stores(w, "healthy")
  BY DEF SaveSuccess, Stores
<1> QED BY <1>1, StoresKeeps

\* There is a second write to come.
LEMMA SaveFailsKeeps ==
  ASSUME IInv, NEW w \in Workers, SaveFails(w)
  PROVE  IInv'
<1>1. SyncTypeOK'
  <2>1. worker' \in [Workers -> WorkerRow]
    BY DEF IInv, SyncTypeOK, WorkerRow, SaveFails, At
  <2> QED BY <2>1 DEF IInv, SyncTypeOK, SaveFails
<1>2. Exclusive'
  BY DEF IInv, Exclusive, SaveFails, At
<1>3. Unspent'
  BY DEF IInv, Unspent, Entered, SaveFails, At
<1>4. Writing'
  BY DEF IInv, Writing, SaveFails, At
<1>5. Renewing'
  BY DEF IInv, Renewing, SaveFails, At
<1>6. Sole'
  BY DEF IInv, Sole, SaveFails, At
<1>7. CredentialsAreKept'
  BY DEF IInv, CredentialsAreKept, SaveFails, At
<1> QED BY <1>1, <1>2, <1>3, <1>4, <1>5, <1>6, <1>7 DEF IInv

\* The pair in use is stored with the failure.
LEMMA RecordFailureKeeps ==
  ASSUME IInv, NEW w \in Workers, RecordFailure(w)
  PROVE  IInv'
<1>1. Stores(w, "error")
  BY DEF RecordFailure, Stores
<1> QED BY <1>1, StoresKeeps

\* A new pair that cannot be stored is recorded in lost.
LEMMA RecordFailureFailsKeeps ==
  ASSUME IInv, NEW w \in Workers, RecordFailureFails(w)
  PROVE  IInv'
<1>1. SyncTypeOK'
  BY IdleWorker DEF IInv, SyncTypeOK, AccountRow, WorkerRow, Credentials, RecordFailureFails,
    Return
<1>2. Exclusive'
  BY IdleWorker DEF IInv, SyncTypeOK, Exclusive, RecordFailureFails, Return
<1>3. Unspent'
  BY IdleWorker DEF IInv, Unspent, Entered, RecordFailureFails, Return
<1>4. Writing'
  BY IdleWorker DEF IInv, Writing, RecordFailureFails, Return
<1>5. Renewing'
  BY IdleWorker DEF IInv, Renewing, RecordFailureFails, Return
<1>6. Sole'
  BY IdleWorker DEF IInv, Sole, RecordFailureFails, Return
<1>7. CredentialsAreKept'
  BY IdleWorker DEF IInv, SyncTypeOK, WorkerRow, Exclusive, Unspent, Entered, Writing, Renewing,
    Sole, CredentialsAreKept, RecordFailureFails, Return
<1> QED BY <1>1, <1>2, <1>3, <1>4, <1>5, <1>6, <1>7 DEF IInv

\* A closed browser changes nothing yet.
LEMMA CancelRequestKeeps ==
  ASSUME IInv, NEW w \in Callers, CancelRequest(w)
  PROVE  IInv'
<1>1. SyncTypeOK'
  <2>1. worker' = [worker EXCEPT ![w] = [worker[w] EXCEPT !.alive = FALSE]]
    BY DEF IInv, SyncTypeOK, WorkerRow, CancelRequest
  <2>2. w \in Workers /\ [worker[w] EXCEPT !.alive = FALSE] \in WorkerRow
    <3>1. w \in Workers /\ worker[w] \in WorkerRow
      BY DEF IInv, SyncTypeOK
    <3> QED BY <3>1 DEF WorkerRow
  <2>3. worker' \in [Workers -> WorkerRow]
    BY <2>1, <2>2 DEF IInv, SyncTypeOK
  <2> QED BY <2>3 DEF IInv, SyncTypeOK, CancelRequest
<1>2. Exclusive'
  BY DEF IInv, Exclusive, CancelRequest
<1>3. Unspent'
  BY DEF IInv, Unspent, Entered, CancelRequest
<1>4. Writing'
  BY DEF IInv, Writing, CancelRequest
<1>5. Renewing'
  BY DEF IInv, Renewing, CancelRequest
<1>6. Sole'
  BY DEF IInv, Sole, CancelRequest
<1>7. CredentialsAreKept'
  BY DEF IInv, CredentialsAreKept, CancelRequest
<1> QED BY <1>1, <1>2, <1>3, <1>4, <1>5, <1>6, <1>7 DEF IInv

\* A deleted owner has no account, and gets none.
LEMMA DeleteOwnerKeeps ==
  ASSUME IInv, NEW o \in Owners, DeleteOwner(o)
  PROVE  IInv'
<1>1. SyncTypeOK'
  BY DEF IInv, SyncTypeOK, DeleteOwner
<1>2. Exclusive'
  BY DEF IInv, Exclusive, DeleteOwner
<1>3. Unspent'
  BY DEF IInv, Unspent, Entered, DeleteOwner
<1>4. Writing'
  BY DEF IInv, Writing, DeleteOwner
<1>5. Renewing'
  BY DEF IInv, Renewing, DeleteOwner
<1>6. Sole'
  BY DEF IInv, Sole, DeleteOwner
<1>7. CredentialsAreKept'
  BY DEF IInv, CredentialsAreKept, DeleteOwner
<1> QED BY <1>1, <1>2, <1>3, <1>4, <1>5, <1>6, <1>7 DEF IInv

\* A restart loses the pairs that were not stored.
LEMMA SyncRestartKeeps ==
  ASSUME IInv, SyncRestart
  PROVE  IInv'
<1>1. SyncTypeOK'
  BY IdleWorker DEF IInv, SyncTypeOK, AccountRow, WorkerRow, Credentials, SyncRestart
<1>2. Exclusive'
  BY IdleWorker DEF IInv, Exclusive, SyncRestart
<1>3. Unspent'
  BY IdleWorker DEF IInv, Unspent, Entered, SyncRestart
<1>4. Writing'
  BY IdleWorker DEF IInv, Writing, SyncRestart
<1>5. Renewing'
  BY IdleWorker DEF IInv, Renewing, SyncRestart
<1>6. Sole'
  BY IdleWorker DEF IInv, Sole, SyncRestart
<1>7. CredentialsAreKept'
  <2> SUFFICES ASSUME NEW o \in Owners, Configured(o)
               PROVE  /\ account[o].cred.login = entered[o]
                      /\ \/ account[o].cred.gen = issued[account[o].cred.login]
                         \/ account[o].cred.login \in lost'
    BY DEF SyncRestart, CredentialsAreKept
  <2>1. mutex[o] # Nobody => mutex[o] \in Workers
    BY DEF IInv, SyncTypeOK
  <2>2. ASSUME mutex[o] # Nobody, Rotated(mutex[o]),
               worker[mutex[o]].conn = [login |-> account[o].cred.login,
                                        gen |-> issued[account[o].cred.login]]
        PROVE  account[o].cred.login \in lost'
    <3>1. worker[mutex[o]].conn.login = account[o].cred.login
      BY <2>2
    <3>2. mutex[o] \in {v \in Workers : Rotated(v)}
      BY <2>1, <2>2
    <3> QED BY <3>1, <3>2 DEF SyncRestart
  <2>3. lost \subseteq lost'
    BY DEF SyncRestart
  <2> QED BY <2>2, <2>3 DEF IInv, CredentialsAreKept
<1> QED BY <1>1, <1>2, <1>3, <1>4, <1>5, <1>6, <1>7 DEF IInv

-----------------------------------------------------------------------------

\* Every step keeps the invariant.
LEMMA StepInvariant == IInv /\ [SyncNext]_syncVars => IInv'
<1> SUFFICES ASSUME IInv, [SyncNext]_syncVars PROVE IInv'
  OBVIOUS
<1>1. ASSUME NEW w \in Callers, CallerStep(w) PROVE IInv'
  BY <1>1, ConfigureKeeps, DeleteKeeps, RefreshByHandKeeps, LockKeeps, ReadExistingKeeps,
     WriteConfigurationKeeps, DeleteAccountKeeps, CancelRequestKeeps DEF CallerStep
<1>2. ASSUME NEW w \in Workers, RefreshStep(w) PROVE IInv'
  BY <1>2, StatementFailsKeeps, ReadAccountKeeps, CallProviderKeeps, CallRotatesKeeps,
     RotationUnansweredKeeps, SaveSuccessKeeps, SaveFailsKeeps, RecordFailureKeeps,
     RecordFailureFailsKeeps DEF RefreshStep
<1>3. CASE UNCHANGED syncVars
  BY <1>3 DEF syncVars, IInv, SyncTypeOK, Exclusive, Unspent, Entered, Writing, Renewing, Sole,
     CredentialsAreKept
<1> QED BY <1>1, <1>2, <1>3, ListDueKeeps, SyncDueKeeps, DeleteOwnerKeeps, SyncRestartKeeps
        DEF SyncNext

\* The inductive invariant of accounts, goroutines and logins.
THEOREM SyncInvariant == SyncSpec => []IInv
BY InitInvariant, StepInvariant, PTL DEF SyncSpec

\* Rows, goroutines and the provider keep their types.
THEOREM SyncTypeCorrect == SyncSpec => []SyncTypeOK
<1>1. IInv => SyncTypeOK
  BY DEF IInv
<1> QED BY <1>1, SyncInvariant, PTL

\* No refresh, configuration or deletion loses the only valid credentials of an
\* account, outside the cases recorded in lost (refreshSiteLocked and its
\* legacy twin store a rotated pair with the success or with the failure).
THEOREM CredentialsSafe == SyncSpec => []CredentialsAreKept
<1>1. IInv => CredentialsAreKept
  BY DEF IInv
<1> QED BY <1>1, SyncInvariant, PTL

\* Two refreshes never use one login at a time.
THEOREM OneRefreshPerLogin == SyncSpec => []Sole
<1>1. IInv => Sole
  BY DEF IInv
<1> QED BY <1>1, SyncInvariant, PTL

-----------------------------------------------------------------------------
(* All parts together. *)

\* The rows of accounts, limits, both catalogues, the migration and the legacy
\* circuit keep their columns, whatever order the parts take their steps in.
THEOREM AdministrationTypes == AdministrationSpec => []AdminTypeOK
<1>1. LegacySpec => []LegacyTypeOK
  BY FirstRun, LegacyTypes
<1>2. SyncTypeOK /\ LimitsTypeOK /\ MigrationTypeOK /\ LegacyTypeOK => AdminTypeOK
  BY DEF AdminTypeOK
<1>. QED
  BY <1>1, <1>2, SyncTypeCorrect, LimitsTypeCorrect, MigrationTypes, PTL DEF AdministrationSpec

=============================================================================

----------------------------- MODULE QuotaLedger -----------------------------
(***************************************************************************)
(* Quota accounting of downstream API keys: the rows of downstream_keys,   *)
(* request_logs and quota_ledger, the requests that the gateway carries in *)
(* memory, and the restart of the process.                                 *)
(*                                                                         *)
(* Sources: internal/store/logs.go, internal/store/keys.go,                *)
(* internal/store/recovery.go, and the accounting calls of                 *)
(* internal/gateway (v3.go, gateway.go).  Every action is one SQLite       *)
(* transaction, which is what the code makes atomic; the gateway's memory  *)
(* is a snapshot that can be stale by the time it is used.                 *)
(***************************************************************************)
EXTENDS Integers, FiniteSets, FiniteSetsExt

CONSTANTS
  Key,        \* downstream key ids; AUTOINCREMENT never reuses one
  Request,    \* request ids (newID), each used once
  NoKey,      \* SQL NULL in a key column
  Unlimited,  \* SQL NULL in quota_micro_usd
  Quotas,     \* finite quotas an administrator may set, in micro-USD
  Amounts,    \* what the price engine may reserve or charge, in micro-USD
  MaxInt      \* math.MaxInt64

ASSUME KeyAssumption == NoKey \notin Key
ASSUME MaxIntAssumption == MaxInt \in Nat
ASSUME QuotasAssumption == Quotas \subseteq 0..MaxInt /\ Unlimited \notin Nat
ASSUME AmountsAssumption == Amounts \subseteq Nat

VARIABLES
  keys,    \* downstream_keys
  log,     \* request_logs
  ledger,  \* quota_ledger, a set of rows
  gw,      \* what the gateway goroutine of each request remembers
  up       \* the process has finished startup and serves traffic

vars == <<keys, log, ledger, gw, up>>

EntryType == {"reserve", "settle", "release", "additional"}

\* "enabled" stands for enabled = 1 and expires_at not passed.
KeyRow == [row: {"none", "live", "deleted"}, enabled: BOOLEAN,
           quota: Quotas \union {Unlimited}, used: Nat, reserved: Nat]

LogRow == [status: {"none", "running", "finished", "deleted"},
           key: Key \union {NoKey}]

LedgerRow == [key: Key, request: Request, type: EntryType, amount: Nat]

\* authed: holds a key snapshot; inflight: admitted and not yet finalised;
\* retry: the first finish() returned an error, the deferred one will run.
GatewayRow == [pc: {"idle", "authed", "inflight", "retry", "gone"},
               key: Key \union {NoKey}, finite: BOOLEAN, reserved: Nat]

TypeOK ==
  /\ keys \in [Key -> KeyRow]
  /\ log \in [Request -> LogRow]
  /\ ledger \subseteq LedgerRow
  /\ gw \in [Request -> GatewayRow]
  /\ up \in BOOLEAN

Init ==
  /\ keys = [k \in Key |-> [row |-> "none", enabled |-> FALSE,
                            quota |-> Unlimited, used |-> 0, reserved |-> 0]]
  /\ log = [r \in Request |-> [status |-> "none", key |-> NoKey]]
  /\ ledger = {}
  /\ gw = [r \in Request |-> [pc |-> "idle", key |-> NoKey,
                              finite |-> FALSE, reserved |-> 0]]
  /\ up = TRUE

-----------------------------------------------------------------------------
(* Helpers *)

Live(k) == k \in Key /\ keys[k].row = "live"

Finite(k) == keys[k].quota # Unlimited

Running(r) == log[r].status = "running"

\* The row that insertQuotaLedger writes; it refuses an amount of zero, and
\* every caller tests for that first.
Entry(k, r, type, amount) ==
  IF amount > 0 THEN {[key |-> k, request |-> r, type |-> type, amount |-> amount]}
  ELSE {}

Total(rows, types) ==
  MapThenSumSet(LAMBDA row : row.amount, {row \in rows : row.type \in types})

RowsOf(r, k) == {row \in ledger : row.request = r /\ row.key = k}

\* outstanding_micro_usd of the recovery query.
Outstanding(r, k) ==
  Total(RowsOf(r, k), {"reserve"}) - Total(RowsOf(r, k), {"settle", "release"})

\* Mutant: the recovery query looks at enabled keys only.
OrphanedOfEnabledKeys(k) ==
  IF ~keys[k].enabled THEN 0
  ELSE MapThenSumSet(LAMBDA r : Outstanding(r, k), {r \in Request : Running(r)})

\* What recovery gives back to key k over all interrupted requests.
Orphaned(k) ==
  MapThenSumSet(LAMBDA r : Outstanding(r, k), {r \in Request : Running(r)})

-----------------------------------------------------------------------------
(* Administration of keys (internal/store/keys.go) *)

CreateDownstreamKey(k, quota) ==
  /\ up
  /\ keys[k].row = "none"
  /\ keys' = [keys EXCEPT ![k] = [row |-> "live", enabled |-> TRUE,
                                  quota |-> quota, used |-> 0, reserved |-> 0]]
  /\ UNCHANGED <<log, ledger, gw, up>>

\* Mutant: the new quota is compared with what is used only.
UpdateIgnoresReserved(k, quota, enabled) ==
  /\ up
  /\ Live(k)
  /\ quota # Unlimited => quota >= keys[k].used
  /\ keys' = [keys EXCEPT ![k] = [@ EXCEPT !.quota = quota, !.enabled = enabled]]
  /\ UNCHANGED <<log, ledger, gw, up>>

\* Mutant: lifting the quota also forgets the reservations made under it.
UpdateDropsReserved(k, quota, enabled) ==
  /\ up
  /\ Live(k)
  /\ quota # Unlimited => quota - keys[k].used >= keys[k].reserved
  /\ keys' = [keys EXCEPT ![k] = [@ EXCEPT !.quota = quota, !.enabled = enabled,
                !.reserved = IF quota = Unlimited THEN 0 ELSE keys[k].reserved]]
  /\ UNCHANGED <<log, ledger, gw, up>>

\* A finite quota must cover what is already used and reserved.
UpdateDownstreamKey(k, quota, enabled) ==
  /\ up
  /\ Live(k)
  /\ quota # Unlimited => /\ quota >= keys[k].used
                          /\ quota - keys[k].used >= keys[k].reserved
  /\ keys' = [keys EXCEPT ![k] = [@ EXCEPT !.quota = quota, !.enabled = enabled]]
  /\ UNCHANGED <<log, ledger, gw, up>>

\* Foreign keys: the ledger rows cascade, request_logs keep a NULL key.
DeleteDownstreamKey(k) ==
  /\ up
  /\ Live(k)
  /\ keys[k].reserved = 0
  /\ keys' = [keys EXCEPT ![k] = [row |-> "deleted", enabled |-> FALSE,
                                  quota |-> Unlimited, used |-> 0, reserved |-> 0]]
  /\ ledger' = {row \in ledger : row.key # k}
  /\ log' = [r \in Request |->
               IF log[r].key = k THEN [log[r] EXCEPT !.key = NoKey] ELSE log[r]]
  /\ UNCHANGED <<gw, up>>

ResetDownstreamKeyUsage(k) ==
  /\ up
  /\ Live(k)
  /\ keys[k].reserved = 0
  /\ keys' = [keys EXCEPT ![k].used = 0]
  /\ ledger' = {row \in ledger : row.key # k}
  /\ UNCHANGED <<log, gw, up>>

-----------------------------------------------------------------------------
(* One request through the gateway *)

\* AuthenticateDownstreamKey reads a snapshot of the key row.
AuthenticateDownstreamKey(r, k) ==
  /\ up
  /\ gw[r].pc = "idle"
  /\ Live(k)
  /\ keys[k].enabled
  /\ Finite(k) => keys[k].used + keys[k].reserved < keys[k].quota
  /\ gw' = [gw EXCEPT ![r] = [pc |-> "authed", key |-> k,
                              finite |-> Finite(k), reserved |-> 0]]
  /\ UNCHANGED <<keys, log, ledger, up>>

\* prepareAccounting: a metered key reserves at least one micro-USD, an
\* unlimited one reserves nothing.
Reservation(r, amount) ==
  IF ~gw[r].finite THEN 0 ELSE IF amount = 0 THEN 1 ELSE amount

\* The conditional UPDATE of StartRequestWithReservation.
Admits(k, amount) ==
  /\ Live(k)
  /\ keys[k].enabled
  /\ Finite(k)
  /\ keys[k].used <= keys[k].quota
  /\ keys[k].reserved <= keys[k].quota - keys[k].used
  /\ amount <= keys[k].quota - keys[k].used - keys[k].reserved

\* A key read as unlimited is not looked at again: only the foreign key of
\* the log row still needs it to exist.
StartRequest(r, amount) ==
  LET k == gw[r].key
      reserved == Reservation(r, amount)
  IN /\ up
     /\ gw[r].pc = "authed"
     /\ IF gw[r].finite THEN Admits(k, reserved) ELSE Live(k)
     /\ keys' = [keys EXCEPT ![k].reserved = @ + reserved]
     /\ log' = [log EXCEPT ![r] = [status |-> "running", key |-> k]]
     /\ ledger' = ledger \union Entry(k, r, "reserve", reserved)
     /\ gw' = [gw EXCEPT ![r] = [@ EXCEPT !.pc = "inflight", !.reserved = reserved]]
     /\ UNCHANGED up

\* The gateway no longer knows the request.
Forgotten == [pc |-> "gone", key |-> NoKey, finite |-> FALSE, reserved |-> 0]

\* ErrQuotaExceeded, a failed foreign key or a database error: nothing stored.
StartRequestRejected(r) ==
  /\ up
  /\ gw[r].pc = "authed"
  /\ gw' = [gw EXCEPT ![r] = Forgotten]
  /\ UNCHANGED <<keys, log, ledger, up>>

\* Room left for the charge once this request's own reservation is removed.
Available(k, reserved) ==
  keys[k].quota - keys[k].used - (keys[k].reserved - reserved)

\* Mutant: the charge is taken in full.
AppliedInFull(k, reserved, charged) == charged

\* A charge above what is left exhausts the key and no more.
Applied(k, reserved, charged) ==
  IF Finite(k) /\ charged > Available(k, reserved) THEN Available(k, reserved)
  ELSE charged

\* The checks after which FinishRequestAndSettle returns ErrInvalidQuotaState.
QuotaStateValid(k, reserved) ==
  /\ keys[k].reserved >= reserved
  /\ Finite(k) => Available(k, reserved) >= 0

\* The ledger rows of a settlement.
SettlementRows(k, r, reserved, applied) ==
  IF reserved = 0 THEN Entry(k, r, "settle", applied)
  ELSE IF applied <= reserved
       THEN Entry(k, r, "settle", applied) \union Entry(k, r, "release", reserved - applied)
       ELSE Entry(k, r, "settle", reserved) \union Entry(k, r, "additional", applied - reserved)

\* Mutant: the UPDATE of the log row lacks status='running'.
LogRowStored(r, k) == log[r].status \in {"running", "finished"} /\ log[r].key = k

\* The WHERE clause of the log row's UPDATE.
LogRowOpen(r, k) == Running(r) /\ log[r].key = k

\* Mutant: the reservation is reduced by the charge instead of removed.
SettledByCharge(row, reserved, applied) ==
  [row EXCEPT !.reserved = row.reserved - applied, !.used = row.used + applied]

\* The key row after settlement.
Settled(row, reserved, applied) ==
  [row EXCEPT !.reserved = row.reserved - reserved, !.used = row.used + applied]

\* The committed transaction of FinishRequestAndSettle.
Settle(r, charged) ==
  LET k == gw[r].key
      reserved == gw[r].reserved
      applied == Applied(k, reserved, charged)
  IN /\ Live(k)
     /\ QuotaStateValid(k, reserved)
     /\ LogRowOpen(r, k)
     /\ keys[k].used <= MaxInt - applied
     /\ keys' = [keys EXCEPT ![k] = Settled(keys[k], reserved, applied)]
     /\ log' = [log EXCEPT ![r].status = "finished"]
     /\ ledger' = ledger \union SettlementRows(k, r, reserved, applied)

\* A finish() that returned an error is called once more by the deferred
\* function of the handler; after that the gateway forgets the request.
AfterError(row) ==
  IF row.pc = "inflight" THEN [row EXCEPT !.pc = "retry"] ELSE Forgotten

Finish(r, charged) ==
  /\ up
  /\ gw[r].pc \in {"inflight", "retry"}
  /\ Settle(r, charged)
  /\ gw' = [gw EXCEPT ![r] = Forgotten]
  /\ UNCHANGED up

\* The commit reaches the disk and its acknowledgement does not (an I/O error).
FinishAcknowledgementLost(r, charged) ==
  /\ up
  /\ gw[r].pc \in {"inflight", "retry"}
  /\ Settle(r, charged)
  /\ gw' = [gw EXCEPT ![r] = AfterError(@)]
  /\ UNCHANGED up

\* SQLite busy past its timeout, ErrNoRows, ErrRequestAlreadyFinished,
\* ErrInvalidQuotaState: the transaction rolls back.
FinishFails(r) ==
  /\ up
  /\ gw[r].pc \in {"inflight", "retry"}
  /\ gw' = [gw EXCEPT ![r] = AfterError(@)]
  /\ UNCHANGED <<keys, log, ledger, up>>

-----------------------------------------------------------------------------
(* Housekeeping, crash and startup *)

\* The hourly cleanup: old is the set of logs started before the cutoff.
DeleteOldLogs(old) ==
  /\ up
  /\ \E r \in old : log[r].status = "finished"
  /\ log' = [r \in Request |->
               IF r \in old /\ log[r].status = "finished"
               THEN [log[r] EXCEPT !.status = "deleted"] ELSE log[r]]
  /\ ledger' = {row \in ledger : log'[row.request].status \notin {"none", "deleted"}}
  /\ UNCHANGED <<keys, gw, up>>

Crash ==
  /\ up
  /\ up' = FALSE
  /\ gw' = [r \in Request |->
              IF gw[r].pc = "idle" THEN gw[r] ELSE Forgotten]
  /\ UNCHANGED <<keys, log, ledger>>

\* RecoverRunningRequests, before the gateway accepts traffic: one transaction
\* that aborts startup on a negative or unbacked reservation.
RecoverRunningRequests ==
  /\ ~up
  /\ \A r \in Request, k \in Key : Running(r) => Outstanding(r, k) \in Nat
  /\ \A k \in Key : Orphaned(k) \in 0..keys[k].reserved
  /\ keys' = [k \in Key |-> [keys[k] EXCEPT !.reserved = @ - Orphaned(k)]]
  /\ ledger' = ledger \union UNION {Entry(k, r, "release", Outstanding(r, k)) :
                                      k \in Key, r \in {q \in Request : Running(q)}}
  /\ log' = [r \in Request |->
               IF Running(r) THEN [log[r] EXCEPT !.status = "finished"] ELSE log[r]]
  /\ up' = TRUE
  /\ UNCHANGED gw

-----------------------------------------------------------------------------

AdminNext ==
  \E k \in Key :
    \/ \E q \in Quotas \union {Unlimited} : CreateDownstreamKey(k, q)
    \/ \E q \in Quotas \union {Unlimited}, e \in BOOLEAN : UpdateDownstreamKey(k, q, e)
    \/ DeleteDownstreamKey(k)
    \/ ResetDownstreamKeyUsage(k)

RequestNext ==
  \E r \in Request :
    \/ \E k \in Key : AuthenticateDownstreamKey(r, k)
    \/ \E a \in Amounts : StartRequest(r, a)
    \/ StartRequestRejected(r)
    \/ \E a \in Amounts : Finish(r, a)
    \/ \E a \in Amounts : FinishAcknowledgementLost(r, a)
    \/ FinishFails(r)

Next ==
  \/ AdminNext
  \/ RequestNext
  \/ \E old \in SUBSET Request : DeleteOldLogs(old)
  \/ Crash
  \/ RecoverRunningRequests

\* The container supervisor restarts the process, and startup runs to its end.
Fairness == WF_vars(RecoverRunningRequests)

Spec == Init /\ [][Next]_vars

LiveSpec == Spec /\ Fairness

-----------------------------------------------------------------------------
(* Properties *)

\* Whatever requests run, and however the administrator changes the quota
\* under them, the money spent and promised never exceeds a finite quota
\* (StartRequestWithReservation, FinishRequestAndSettle, UpdateDownstreamKey).
QuotaNeverOverspent ==
  \A k \in Key : Live(k) /\ Finite(k) => keys[k].used + keys[k].reserved <= keys[k].quota

\* used_micro_usd never leaves the 64-bit column, on unlimited keys either.
UsageFitsWidth == \A k \in Key : keys[k].used <= MaxInt

\* FinishRequestAndSettle never meets ErrInvalidQuotaState for a request that
\* is still running on an existing key.
SettlementNeverRefused ==
  \A r \in Request :
    gw[r].pc \in {"inflight", "retry"} /\ Running(r) /\ Live(gw[r].key) =>
      QuotaStateValid(gw[r].key, gw[r].reserved)

\* Finishing is final: no later step, neither the repeated finish() of the
\* gateway nor recovery, reopens a request or writes a ledger row for it.
FinishedIsFinal ==
  [][\A r \in Request :
       log[r].status \in {"finished", "deleted"} =>
         /\ log'[r].status \in {log[r].status, "deleted"}
         /\ \A row \in ledger' : row.request = r => row \in ledger]_vars

\* A finished request is never charged again, by a repeated finish() or by
\* recovery: used_micro_usd moves only with new ledger rows of one request
\* that this step finishes, and by as much, or is reset together with them.
SpendingIsJournaled ==
  [][\A k \in Key :
       keys'[k].used # keys[k].used =>
         \/ keys'[k].used = 0 /\ \A row \in ledger' : row.key # k
         \/ \E r \in Request :
              /\ Running(r) /\ log'[r].status = "finished"
              /\ keys'[k].used - keys[k].used =
                   Total({row \in ledger' \ ledger : row.key = k /\ row.request = r},
                         {"settle", "additional"})]_vars

(* How the rows read as prepaid accounts. *)

StageOf(r) ==
  CASE log[r].status = "none" -> "new" [] Running(r) -> "running" [] OTHER -> "ended"

HoldOf(r) ==
  IF Running(r) THEN [key |-> log[r].key, amount |-> Outstanding(r, log[r].key)]
  ELSE [key |-> NoKey, amount |-> 0]

AccountOf(k) ==
  [state |-> CASE keys[k].row = "none" -> "none" [] Live(k) -> "open" [] OTHER -> "closed",
   quota |-> keys[k].quota, spent |-> keys[k].used, held |-> keys[k].reserved]

Prepaid == INSTANCE PrepaidKeys WITH
  account <- [k \in Key |-> AccountOf(k)],
  stage <- [r \in Request |-> StageOf(r)],
  hold <- [r \in Request |-> HoldOf(r)]

\* Rows, journal, the gateway's stale memory, repeated settlements, crashes and
\* recovery keep the promise of a prepaid account: a request holds what it
\* reserved and ends once, a key's reserved_micro_usd is the sum of the holds,
\* and a startup gives every interrupted hold back and charges nobody.
KeysArePrepaid == Prepaid!PrepaidSpec

\* Recovery is never blocked by its own consistency checks: a request
\* interrupted by a crash is finished by the next startup.
RestartFinishesEveryOrphan ==
  \A r \in Request :
    (~up /\ log[r].status = "running") ~> (log[r].status # "running")

=============================================================================

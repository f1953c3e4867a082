---------------------------- MODULE AccountSync ----------------------------
(***************************************************************************)
(* Synchronisation of provider accounts: an owner (a site, or a legacy     *)
(* upstream: the service has one half for each, statement for statement    *)
(* the same) has at most one account with encrypted credentials.  A        *)
(* refresh makes several calls to the provider, any of which may exchange  *)
(* the stored refresh token for a new pair - the old one is worthless from *)
(* then on - and stores the new pair only at its end.  An administrator    *)
(* configures, refreshes and deletes accounts while the sweep refreshes    *)
(* the ones that are due.                                                  *)
(*                                                                         *)
(* Sources: internal/accountsync/service.go, internal/accountadapter,      *)
(* internal/store/site_accounts.go and accounts.go.                        *)
(*                                                                         *)
(* A login is one session at the provider, and credentials are a login and *)
(* a generation of its token pair.  The snapshot, the subscriptions and    *)
(* the usage rows themselves are left out, and so is time: what is due is  *)
(* any set of enabled accounts.                                            *)
(***************************************************************************)
EXTENDS Integers, FiniteSets

CONSTANTS
  Owners,        \* sites and legacy upstreams
  Logins,        \* sessions at the provider
  Callers,       \* goroutines that serve the administrator
  Sweeper,       \* the goroutine of Run
  Nobody,        \* an unlocked mutex
  Keep,          \* a configuration without new credentials
  NoAccount, NoOwner,
  MaxGeneration  \* bound of the rotations of a login

ASSUME SweeperAssumption == Sweeper \notin Callers
ASSUME NobodyAssumption == Nobody \notin Callers \union {Sweeper}
ASSUME KeepAssumption == Keep \notin Logins
ASSUME GenerationAssumption == MaxGeneration \in Nat
ASSUME PresenceAssumption == Owners # {} /\ Logins # {}

Workers == Callers \union {Sweeper}

VARIABLES
  account,  \* the row of site_accounts or upstream_accounts
  mutex,    \* the mutex of an owner
  worker,   \* the goroutines
  due,      \* what the sweep has listed and not refreshed yet
  issued,   \* the provider: the newest generation of a login
  used,     \* the logins the administrator has entered so far
  entered,  \* history: the login the stored configuration was given
  lost      \* history: logins whose newest pair nobody holds any more

syncVars == <<account, mutex, worker, due, issued, used, entered, lost>>

Credentials == [login: Logins, gen: 0..MaxGeneration]
AccountRow == [cred: Credentials, enabled: BOOLEAN, sync: {"pending", "healthy", "error"}]

\* read and conn: the credentials that were stored, and those in use now.
WorkerRow == [pc: {"idle", "configure", "delete", "existing", "write", "remove", "read",
                   "snapshot", "subscriptions", "usage", "save", "fail"},
              owner: Owners, input: Logins \union {Keep}, enable: BOOLEAN, now: BOOLEAN,
              alive: BOOLEAN, read: Credentials, conn: Credentials]

Configured(o) == account[o] \notin {NoAccount, NoOwner}
Calling == {"snapshot", "subscriptions", "usage"}
Refreshing == Calling \union {"save", "fail"}
Rotated(w) == worker[w].pc \in Refreshing /\ worker[w].conn # worker[w].read

At(w, pc) == worker' = [worker EXCEPT ![w].pc = pc]

\* Mutant: the mutex is not looked at.
UnlockedAlways(o) == TRUE
Unlocked(o) == mutex[o] = Nobody

NoCredentials == [login |-> CHOOSE l \in Logins : TRUE, gen |-> 0]
Idle == [pc |-> "idle", owner |-> CHOOSE o \in Owners : TRUE, input |-> Keep, enable |-> FALSE,
         now |-> FALSE, alive |-> FALSE, read |-> NoCredentials, conn |-> NoCredentials]

\* The end of a goroutine's work on its owner: the deferred Unlock.
Return(w) ==
  /\ worker' = [worker EXCEPT ![w] = Idle]
  /\ mutex' = [mutex EXCEPT ![worker[w].owner] = Nobody]

---------------------------------------------------------------------------
(* Configuration *)

Configure(w, o, input, enable, now) ==
  /\ worker[w].pc = "idle" /\ input \notin used
  /\ worker' = [worker EXCEPT ![w].pc = "configure", ![w].owner = o, ![w].input = input,
                              ![w].enable = enable, ![w].now = now, ![w].alive = TRUE]
  /\ used' = used \union (Logins \intersect {input})
  /\ UNCHANGED <<account, mutex, due, issued, entered, lost>>

Delete(w, o) ==
  /\ worker[w].pc = "idle"
  /\ worker' = [worker EXCEPT ![w].pc = "delete", ![w].owner = o, ![w].alive = TRUE]
  /\ UNCHANGED <<account, mutex, due, issued, used, entered, lost>>

\* Both wait for the mutex.
Lock(w) ==
  /\ worker[w].pc \in {"configure", "delete"} /\ Unlocked(worker[w].owner)
  /\ mutex' = [mutex EXCEPT ![worker[w].owner] = w]
  /\ At(w, IF worker[w].pc = "delete" THEN "remove" ELSE "existing")
  /\ UNCHANGED <<account, due, issued, used, entered, lost>>

\* mergeAuth: credentials that are not entered are taken from the stored row.
Merged(w) == IF worker[w].input = Keep THEN account[worker[w].owner].cred
             ELSE [login |-> worker[w].input, gen |-> 0]

ReadExisting(w) ==
  LET o == worker[w].owner IN
  /\ worker[w].pc = "existing"
  /\ IF account[o] = NoOwner \/ (worker[w].input = Keep /\ ~Configured(o)) \/ ~worker[w].alive
     THEN Return(w)
     ELSE /\ worker' = [worker EXCEPT ![w].pc = "write", ![w].read = Merged(w)]
          /\ UNCHANGED mutex
  /\ UNCHANGED <<account, due, issued, used, entered, lost>>

\* With RefreshNow the first refresh runs under the same mutex.
WriteConfiguration(w) ==
  LET o == worker[w].owner IN
  /\ worker[w].pc = "write" /\ worker[w].alive /\ account[o] # NoOwner
  /\ account' = [account EXCEPT ![o] =
       [cred |-> worker[w].read, enabled |-> worker[w].enable, sync |-> "pending"]]
  /\ entered' = [entered EXCEPT ![o] = worker[w].read.login]
  /\ IF worker[w].now /\ worker[w].enable
     THEN /\ worker' = [worker EXCEPT ![w] = [Idle EXCEPT !.pc = "read", !.owner = o, !.alive = TRUE]]
          /\ UNCHANGED mutex
     ELSE Return(w)
  /\ UNCHANGED <<due, issued, used, lost>>

DeleteAccount(w) ==
  LET o == worker[w].owner IN
  /\ worker[w].pc = "remove" /\ worker[w].alive
  /\ account' = [account EXCEPT ![o] = IF Configured(o) THEN NoAccount ELSE @]
  /\ Return(w)
  /\ UNCHANGED <<due, issued, used, entered, lost>>

\* A statement of a configuration or a deletion fails.
StatementFails(w) ==
  /\ worker[w].pc \in {"existing", "write", "remove", "read"}
  /\ Return(w)
  /\ UNCHANGED <<account, due, issued, used, entered, lost>>

---------------------------------------------------------------------------
(* Refresh *)

\* TryLock: a refresh never waits.
Refresh(w, o) ==
  /\ worker[w].pc = "idle" /\ Unlocked(o)
  /\ mutex' = [mutex EXCEPT ![o] = w]
  /\ worker' = [worker EXCEPT ![w].pc = "read", ![w].owner = o, ![w].alive = TRUE]

RefreshByHand(w, o) ==
  /\ w # Sweeper /\ Refresh(w, o)
  /\ UNCHANGED <<account, due, issued, used, entered, lost>>

\* The list is a snapshot, and the accounts are refreshed one by one.
ListDue(O) ==
  /\ worker[Sweeper].pc = "idle" /\ due = {}
  /\ O # {} /\ \A o \in O : Configured(o) /\ account[o].enabled
  /\ due' = O
  /\ UNCHANGED <<account, mutex, worker, issued, used, entered, lost>>

\* ErrSyncInProgress is ignored.
SyncDue(o) ==
  /\ worker[Sweeper].pc = "idle" /\ o \in due
  /\ Refresh(Sweeper, o) \/ (~Unlocked(o) /\ UNCHANGED <<mutex, worker>>)
  /\ due' = due \ {o}
  /\ UNCHANGED <<account, issued, used, entered, lost>>

ReadAccount(w) ==
  LET o == worker[w].owner IN
  /\ worker[w].pc = "read"
  /\ IF Configured(o) /\ account[o].enabled /\ worker[w].alive
     THEN /\ worker' = [worker EXCEPT ![w].pc = "snapshot", ![w].read = account[o].cred,
                                      ![w].conn = account[o].cred]
          /\ UNCHANGED mutex
     ELSE Return(w)
  /\ UNCHANGED <<account, due, issued, used, entered, lost>>

\* What follows a call: only an error of the snapshot fails the refresh, the
\* other two become warnings; an adapter may lack subscriptions or usage, and
\* usage has several pages.
NextCalls(pc, ok) ==
  CASE pc = "snapshot" -> IF ok THEN {"subscriptions", "usage", "save"} ELSE {"fail"}
    [] pc = "subscriptions" -> {"usage", "save"}
    [] pc = "usage" -> IF ok THEN {"usage", "save"} ELSE {"save"}

\* The access token was accepted, or the call failed in any way.
CallProvider(w, ok) ==
  /\ worker[w].pc \in Calling /\ (ok => worker[w].alive)
  /\ \E pc \in NextCalls(worker[w].pc, ok) : At(w, pc)
  /\ UNCHANGED <<account, mutex, due, issued, used, entered, lost>>

\* The access token had expired: the adapter exchanges the refresh token and
\* repeats the call, which may fail as well; the new pair is returned with
\* the error.
CallRotates(w, ok) ==
  LET l == worker[w].conn.login IN
  /\ worker[w].pc \in Calling /\ worker[w].alive
  /\ worker[w].conn.gen = issued[l] /\ issued[l] < MaxGeneration
  /\ issued' = [issued EXCEPT ![l] = @ + 1]
  /\ \E pc \in NextCalls(worker[w].pc, ok) :
       worker' = [worker EXCEPT ![w].pc = pc, ![w].conn.gen = issued[l] + 1]
  /\ UNCHANGED <<account, mutex, due, used, entered, lost>>

\* The provider's answer to the exchange never arrives.
RotationUnanswered(w) ==
  LET l == worker[w].conn.login IN
  /\ worker[w].pc \in Calling /\ worker[w].alive
  /\ worker[w].conn.gen = issued[l] /\ issued[l] < MaxGeneration
  /\ issued' = [issued EXCEPT ![l] = @ + 1]
  /\ \E pc \in NextCalls(worker[w].pc, FALSE) : At(w, pc)
  /\ lost' = lost \union {l}
  /\ UNCHANGED <<account, mutex, due, used, entered>>

\* rotatedAuthCipher: the column is only written when the credentials changed.
Stored(w, sync) ==
  LET o == worker[w].owner IN
  account' = [account EXCEPT ![o] =
    [account[o] EXCEPT !.sync = sync,
                       !.cred = IF Rotated(w) THEN worker[w].conn ELSE account[o].cred]]

SaveSuccess(w) ==
  /\ worker[w].pc = "save" /\ worker[w].alive /\ Configured(worker[w].owner)
  /\ Stored(w, "healthy")
  /\ Return(w)
  /\ UNCHANGED <<due, issued, used, entered, lost>>

\* The transaction fails, or its account is gone: the failure is stored next,
\* with the new pair.
SaveFails(w) ==
  /\ worker[w].pc = "save"
  /\ At(w, "fail")
  /\ UNCHANGED <<account, mutex, due, issued, used, entered, lost>>

RecordFailure(w) ==
  /\ worker[w].pc = "fail" /\ worker[w].alive /\ Configured(worker[w].owner)
  /\ Stored(w, "error")
  /\ Return(w)
  /\ UNCHANGED <<due, issued, used, entered, lost>>

\* Only logged.
RecordFailureFails(w) ==
  /\ worker[w].pc = "fail"
  /\ lost' = IF Rotated(w) THEN lost \union {worker[w].conn.login} ELSE lost
  /\ Return(w)
  /\ UNCHANGED <<account, due, issued, used, entered>>

---------------------------------------------------------------------------
(* The environment *)

\* The browser closes: the request's context is the context of every call and
\* statement of the refresh.
CancelRequest(w) ==
  /\ w # Sweeper /\ worker[w].pc # "idle" /\ worker[w].alive
  /\ worker' = [worker EXCEPT ![w].alive = FALSE]
  /\ UNCHANGED <<account, mutex, due, issued, used, entered, lost>>

\* Deleting a site or an upstream takes its account along, without the mutex.
DeleteOwner(o) ==
  /\ account[o] # NoOwner
  /\ account' = [account EXCEPT ![o] = NoOwner]
  /\ UNCHANGED <<mutex, worker, due, issued, used, entered, lost>>

SyncRestart ==
  /\ worker' = [w \in Workers |-> Idle]
  /\ mutex' = [o \in Owners |-> Nobody]
  /\ due' = {}
  /\ lost' = lost \union {worker[w].conn.login : w \in {v \in Workers : Rotated(v)}}
  /\ UNCHANGED <<account, issued, used, entered>>

---------------------------------------------------------------------------
SyncInit ==
  /\ account = [o \in Owners |-> NoAccount]
  /\ mutex = [o \in Owners |-> Nobody]
  /\ worker = [w \in Workers |-> Idle]
  /\ due = {}
  /\ issued = [l \in Logins |-> 0]
  /\ used = {}
  /\ entered = [o \in Owners |-> CHOOSE l \in Logins : TRUE]
  /\ lost = {}

CallerStep(w) ==
  \/ \E o \in Owners : Delete(w, o) \/ RefreshByHand(w, o)
  \/ \E o \in Owners, input \in Logins \union {Keep}, enable, now \in BOOLEAN :
       Configure(w, o, input, enable, now)
  \/ Lock(w) \/ ReadExisting(w) \/ WriteConfiguration(w) \/ DeleteAccount(w) \/ CancelRequest(w)

RefreshStep(w) ==
  \/ StatementFails(w) \/ ReadAccount(w)
  \/ \E ok \in BOOLEAN : CallProvider(w, ok) \/ CallRotates(w, ok)
  \/ RotationUnanswered(w)
  \/ SaveSuccess(w) \/ SaveFails(w) \/ RecordFailure(w) \/ RecordFailureFails(w)

SyncNext ==
  \/ \E w \in Callers : CallerStep(w)
  \/ \E w \in Workers : RefreshStep(w)
  \/ \E O \in SUBSET Owners : ListDue(O)
  \/ \E o \in Owners : SyncDue(o) \/ DeleteOwner(o)
  \/ SyncRestart

SyncSpec == SyncInit /\ [][SyncNext]_syncVars
---------------------------------------------------------------------------
(* Properties *)

\* Rows, goroutines and the provider keep their types.
SyncTypeOK ==
  /\ account \in [Owners -> AccountRow \union {NoAccount, NoOwner}]
  /\ mutex \in [Owners -> Workers \union {Nobody}]
  /\ worker \in [Workers -> WorkerRow]
  /\ due \subseteq Owners
  /\ issued \in [Logins -> 0..MaxGeneration]
  /\ used \subseteq Logins
  /\ entered \in [Owners -> Logins]
  /\ lost \subseteq Logins

\* The credentials of an account are never lost by the program itself: the
\* stored pair is the one the provider accepts, or a refresh that holds the
\* owner's mutex has the new one and will store it - whatever calls failed,
\* whichever of its two final writes failed, and whoever configured, deleted
\* or refreshed the account meanwhile.  Nor does a refresh that began with old
\* credentials overwrite what the administrator entered since.  Exceptions are
\* the three ways the code cannot or does not guard against, recorded in lost:
\* the provider's answer never arrives, both final writes fail (a closed
\* browser is one way), or the process stops first.
CredentialsAreKept ==
  \A o \in Owners : Configured(o) =>
    LET cred == account[o].cred IN
    /\ cred.login = entered[o]
    /\ \/ cred.gen = issued[cred.login]
       \/ cred.login \in lost
       \/ /\ mutex[o] # Nobody /\ Rotated(mutex[o]) /\ worker[mutex[o]].owner = o
          /\ worker[mutex[o]].conn = [login |-> cred.login, gen |-> issued[cred.login]]

=============================================================================

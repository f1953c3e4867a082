----------------------------- MODULE PrepaidKeys -----------------------------
(***************************************************************************)
(* What quota accounting promises, without logs, ledgers, goroutines and   *)
(* crashes: a key is a prepaid account, a request holds an amount of it    *)
(* while it runs and ends once, with a charge or without one.              *)
(* QuotaLedger implements this.                                            *)
(***************************************************************************)
EXTENDS Integers, FiniteSets, FiniteSetsExt

CONSTANTS Key, Request, NoKey, Unlimited, Quotas

VARIABLES
  account, \* of a key: its state, its quota, what is spent and what is held
  stage,   \* of a request: "new", "running", "ended"
  hold     \* of a running request: the key it is on account of, and the amount

promised == <<account, stage, hold>>

Nothing == [key |-> NoKey, amount |-> 0]

PrepaidInit ==
  /\ account = [k \in Key |-> [state |-> "none", quota |-> Unlimited, spent |-> 0, held |-> 0]]
  /\ stage = [r \in Request |-> "new"]
  /\ hold = [r \in Request |-> Nothing]

Within(a) == a.quota # Unlimited => a.spent + a.held <= a.quota

\* A key is opened once, and its quota is never set below what is promised.
SetAccount(k) ==
  /\ account[k].state # "closed"
  /\ account'[k].quota \in Quotas \union {Unlimited}
  /\ account' = [account EXCEPT ![k].state = "open", ![k].quota = account'[k].quota]
  /\ Within(account'[k])
  /\ UNCHANGED <<stage, hold>>

\* Requests that hold nothing lose their key and go on.
Close(k) ==
  /\ account[k].state = "open" /\ account[k].held = 0
  /\ account' = [account EXCEPT ![k] = [state |-> "closed", quota |-> Unlimited,
                                        spent |-> 0, held |-> 0]]
  /\ hold' = [r \in Request |-> IF hold[r].key = k THEN Nothing ELSE hold[r]]
  /\ UNCHANGED stage

Reset(k) ==
  /\ account[k].state = "open" /\ account[k].held = 0 /\ account'[k].spent = 0
  /\ account' = [account EXCEPT ![k].spent = 0]
  /\ UNCHANGED <<stage, hold>>

Start(r) ==
  /\ stage[r] = "new" /\ stage'[r] = "running"
  /\ stage' = [stage EXCEPT ![r] = "running"]
  /\ hold' = [hold EXCEPT ![r] = hold'[r]]
  /\ \E k \in Key :
       /\ account[k].state = "open"
       /\ hold'[r].key = k
       /\ account' = [account EXCEPT ![k].held = @ + hold'[r].amount]
       /\ Within(account'[k])

\* The whole hold is given back for a charge that stays within the quota.
Charge(r) ==
  LET k == hold[r].key IN
  /\ stage[r] = "running" /\ stage'[r] = "ended" /\ k # NoKey
  /\ stage' = [stage EXCEPT ![r] = "ended"]
  /\ account' = [account EXCEPT ![k].held = @ - hold[r].amount, ![k].spent = account'[k].spent]
  /\ hold' = [hold EXCEPT ![r] = Nothing]
  /\ account'[k].spent >= account[k].spent
  /\ Within(account'[k])

Interrupted == {r \in Request : stage[r] = "running"}

HeldBy(requests) == MapThenSumSet(LAMBDA r : hold[r].amount, requests)

HeldOn(k) == HeldBy({r \in Interrupted : hold[r].key = k})

\* Everything that was interrupted ends together, and nobody is charged.
Release ==
  /\ Interrupted # {}
  /\ stage' = [r \in Request |-> IF r \in Interrupted THEN "ended" ELSE stage[r]]
  /\ hold' = [r \in Request |-> Nothing]
  /\ account' = [k \in Key |-> [account[k] EXCEPT !.held = @ - HeldOn(k)]]
  /\ \A k \in Key : account'[k].held = 0

PrepaidNext ==
  \/ \E k \in Key : SetAccount(k) \/ Close(k) \/ Reset(k)
  \/ \E r \in Request : Start(r) \/ Charge(r)
  \/ Release

PrepaidSpec == PrepaidInit /\ [][PrepaidNext]_promised

=============================================================================

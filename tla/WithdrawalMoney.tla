-------------------------- MODULE WithdrawalMoney --------------------------
(***************************************************************************)
(* The part of the double-entry ledger a withdrawal touches: the spendable *)
(* and the pending balance of each user, what left the platform, and the   *)
(* three postings of ledgerService.js a withdrawal can cause.              *)
(***************************************************************************)
EXTENDS Integers, FiniteSets

CONSTANTS
    Users,          \* user ids
    Withdrawals,    \* withdrawal ids (random UUIDs, never reused)
    NoUser,         \* "nobody": the owner of a request not made yet
    Amounts,        \* the amounts a player may ask for, in minor units
    Funds           \* PLAYER_AVAILABLE of each user at the start

ASSUME UsersAssumption == NoUser \notin Users
ASSUME WithdrawalsAssumption == IsFiniteSet(Withdrawals)
ASSUME AmountsAssumption == Amounts \subseteq Nat \ {0}
ASSUME FundsAssumption == Funds \in [Users -> Nat]

VARIABLES
    request,    \* whose money a withdrawal is and how much
    spendable,  \* PLAYER_AVAILABLE of each user
    pending,    \* PLAYER_WITHDRAWAL_PENDING of each user
    paidOut     \* what left the platform: CUSTOMER_LIABILITY since the start

balances == <<spendable, pending, paidOut>>
-----------------------------------------------------------------------------
NoRequest == [owner |-> NoUser, amount |-> 0]

Requests == [owner : Users, amount : Amounts]

-----------------------------------------------------------------------------
(* The three balanced postings of a withdrawal. *)

Reserve(r) ==
    /\ spendable' = [spendable EXCEPT ![r.owner] = @ - r.amount]
    /\ pending' = [pending EXCEPT ![r.owner] = @ + r.amount]
    /\ UNCHANGED paidOut

Complete(r) ==
    /\ pending' = [pending EXCEPT ![r.owner] = @ - r.amount]
    /\ paidOut' = paidOut + r.amount
    /\ UNCHANGED spendable

(* Mutant: the refund leaves the amount pending. *)
RefundStillPending(r) ==
    /\ spendable' = [spendable EXCEPT ![r.owner] = @ + r.amount]
    /\ UNCHANGED <<pending, paidOut>>

Refund(r) ==
    /\ pending' = [pending EXCEPT ![r.owner] = @ - r.amount]
    /\ spendable' = [spendable EXCEPT ![r.owner] = @ + r.amount]
    /\ UNCHANGED paidOut
-----------------------------------------------------------------------------
MoneyInit ==
    /\ request = [w \in Withdrawals |-> NoRequest]
    /\ spendable = Funds
    /\ pending = [u \in Users |-> 0]
    /\ paidOut = 0

MoneyTypeOK ==
    /\ request \in [Withdrawals -> Requests \cup {NoRequest}]
    /\ spendable \in [Users -> Int]
    /\ pending \in [Users -> Int]
    /\ paidOut \in Int
=============================================================================

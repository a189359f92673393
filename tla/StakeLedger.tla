---------------------------- MODULE StakeLedger ----------------------------
(***************************************************************************)
(* The part of the double-entry ledger a match touches: the spendable and  *)
(* the locked balance of each player and the platform's revenue, the       *)
(* frozen terms of each match, and the three postings of ledgerService.js  *)
(* a match can cause.  A balance is the sum of the account's entries; the  *)
(* model keeps the sum and not the entries.                                *)
(***************************************************************************)
EXTENDS Integers, FiniteSets, Functions

CONSTANTS
    Players,    \* user ids
    Matches,    \* match ids (random UUIDs in the code, never reused)
    NoPlayer,   \* "nobody": the winnerId null of a draw
    Stakes,     \* the stakes a match may be played for, in minor units
    Percents,   \* the commission percentages the platform may be set to
    Funds       \* PLAYER_AVAILABLE of each player at the start

ASSUME PlayersAssumption == NoPlayer \notin Players /\ IsFiniteSet(Players)
ASSUME StakesAssumption == Stakes \subseteq Nat \ {0}
ASSUME PercentsAssumption == Percents \subseteq 0..100
ASSUME FundsAssumption == Funds \in [Players -> Nat]

VARIABLES
    terms,      \* the frozen terms of each match
    avail,      \* PLAYER_AVAILABLE of each player
    locked,     \* PLAYER_LOCKED of each player
    revenue     \* PLATFORM_REVENUE

balances == <<avail, locked, revenue>>
-----------------------------------------------------------------------------
(* Terms of a match: its two seats, its stake and its commission. *)

Terms == [light : Players, dark : Players, stake : Stakes, pct : Percents]

NoTerms == [light |-> NoPlayer, dark |-> NoPlayer, stake |-> 0, pct |-> 0]

Seats(t) == {t.light, t.dark}

Pot(t) == 2 * t.stake

(* The house's cut of a decided match, rounded down, and what the winner gets. *)
Commission(t) == (Pot(t) * t.pct) \div 100

(* Mutant: the winner gets the pot and the house its cut as well. *)
PayoutOfPot(t) == Pot(t)

Payout(t) == Pot(t) - Commission(t)
-----------------------------------------------------------------------------
(* The three balanced postings a match can cause. *)

LockStakes(t) ==
    /\ avail' = [p \in Players |-> IF p \in Seats(t) THEN avail[p] - t.stake ELSE avail[p]]
    /\ locked' = [p \in Players |-> IF p \in Seats(t) THEN locked[p] + t.stake ELSE locked[p]]
    /\ UNCHANGED revenue

ReturnStakes(t) ==
    /\ locked' = [p \in Players |-> IF p \in Seats(t) THEN locked[p] - t.stake ELSE locked[p]]
    /\ avail' = [p \in Players |-> IF p \in Seats(t) THEN avail[p] + t.stake ELSE avail[p]]
    /\ UNCHANGED revenue

PayWinner(t, w) ==
    /\ locked' = [p \in Players |-> IF p \in Seats(t) THEN locked[p] - t.stake ELSE locked[p]]
    /\ avail' = [avail EXCEPT ![w] = @ + Payout(t)]
    /\ revenue' = revenue + Commission(t)
-----------------------------------------------------------------------------
LedgerInit ==
    /\ terms = [m \in Matches |-> NoTerms]
    /\ avail = Funds
    /\ locked = [p \in Players |-> 0]
    /\ revenue = 0

LedgerTypeOK ==
    /\ terms \in [Matches -> Terms \cup {NoTerms}]
    /\ avail \in [Players -> Int]
    /\ locked \in [Players -> Int]
    /\ revenue \in Int

(* What a player has, spendable and locked. *)
Worth == [p \in Players |-> avail[p] + locked[p]]

(* No step of a match creates or destroys money: what the players and the   *)
(* platform have is what the players had at the start.                      *)
MoneyIsConserved == revenue + SumFunction(Worth) = SumFunction(Funds)
=============================================================================

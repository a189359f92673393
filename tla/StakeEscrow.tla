---------------------------- MODULE StakeEscrow ----------------------------
(***************************************************************************)
(* What Draught Bet promises about the stakes of a match, with none of the *)
(* machinery that keeps the promise: no statuses, leases, processes or     *)
(* Redis.  Two players put the same stake in escrow, and the escrow of a   *)
(* match is closed once, either by paying the pot minus the house's cut to *)
(* one of the two, or by giving both stakes back.                          *)
(*                                                                         *)
(* MatchLifecycle is shown to implement this module.                       *)
(***************************************************************************)
EXTENDS StakeLedger

VARIABLE escrow     \* "none", "held" or "closed", for each match

evars == <<escrow, terms, avail, locked, revenue>>
-----------------------------------------------------------------------------
Holds(m, p) == escrow[m] = "held" /\ p \in Seats(terms[m])

EscrowInit ==
    /\ escrow = [m \in Matches |-> "none"]
    /\ LedgerInit

(* Two different players, neither in escrow, who can both afford the stake. *)
Open(m, t) ==
    /\ escrow[m] = "none"
    /\ t.light # t.dark
    /\ \A p \in Seats(t) : avail[p] >= t.stake /\ \A n \in Matches : ~Holds(n, p)
    /\ escrow' = [escrow EXCEPT ![m] = "held"]
    /\ terms' = [terms EXCEPT ![m] = t]
    /\ LockStakes(t)

CloseByPayout(m, w) ==
    /\ escrow[m] = "held"
    /\ w \in Seats(terms[m])
    /\ escrow' = [escrow EXCEPT ![m] = "closed"]
    /\ PayWinner(terms[m], w)
    /\ UNCHANGED terms

CloseByReturn(m) ==
    /\ escrow[m] = "held"
    /\ escrow' = [escrow EXCEPT ![m] = "closed"]
    /\ ReturnStakes(terms[m])
    /\ UNCHANGED terms

EscrowNext ==
    \E m \in Matches :
        \/ \E t \in Terms : Open(m, t)
        \/ \E w \in Players : CloseByPayout(m, w)
        \/ CloseByReturn(m)

EscrowSpec == EscrowInit /\ [][EscrowNext]_evars
-----------------------------------------------------------------------------
EscrowTypeOK ==
    /\ escrow \in [Matches -> {"none", "held", "closed"}]
    /\ LedgerTypeOK
    /\ revenue \in Nat /\ \A p \in Players : avail[p] >= 0 /\ locked[p] >= 0

(* A match whose escrow was opened has two different seats and real terms. *)
OpenedHaveTerms ==
    \A m \in Matches :
        escrow[m] # "none" => terms[m] \in Terms /\ terms[m].light # terms[m].dark

(* One game at a time: no player has stakes in two matches. *)
OneEscrowPerPlayer ==
    \A m, n \in Matches, p \in Players : Holds(m, p) /\ Holds(n, p) => m = n

(* What is locked for a player is the stake of the match that player is    *)
(* in, and nothing when the player is in none.                             *)
LockedIsHeld ==
    \A p \in Players :
        /\ \A m \in Matches : Holds(m, p) => locked[p] = terms[m].stake
        /\ (\A m \in Matches : ~Holds(m, p)) => locked[p] = 0

EscrowInv ==
    /\ EscrowTypeOK
    /\ OpenedHaveTerms
    /\ OneEscrowPerPlayer
    /\ LockedIsHeld
=============================================================================

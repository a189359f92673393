------------------------- MODULE WithdrawalPromise -------------------------
(***************************************************************************)
(* What Draught Bet can promise about the money of a withdrawal, whoever   *)
(* asks for what and however often: the amount is set aside once, out of   *)
(* money the player has, and then leaves the platform at most once and     *)
(* comes back at most once, and not both unless the withdrawal has gone    *)
(* astray, from which nothing recovers it.                                 *)
(*                                                                         *)
(* Withdrawal is shown to implement this module, for any number of         *)
(* operators and whatever answers of the payment provider are lost.        *)
(***************************************************************************)
EXTENDS WithdrawalMoney

VARIABLES
    done,       \* of each withdrawal, what has been booked: "complete", "release"
    astray      \* withdrawals that may be paid and given back

pvars == <<done, astray, request, spendable, pending, paidOut>>
-----------------------------------------------------------------------------
PromiseInit ==
    /\ done = [w \in Withdrawals |-> {}]
    /\ astray = {}
    /\ MoneyInit

SetAside(w, r) ==
    /\ request[w] = NoRequest
    /\ spendable[r.owner] >= r.amount
    /\ request' = [request EXCEPT ![w] = r]
    /\ Reserve(r)
    /\ UNCHANGED done

(* Once, and instead of the other one unless the withdrawal is astray.      *)
MayBook(w, what) == what \notin done[w] /\ (done[w] = {} \/ w \in astray')

Pay(w) ==
    /\ request[w] # NoRequest /\ MayBook(w, "complete")
    /\ done' = [done EXCEPT ![w] = @ \cup {"complete"}]
    /\ Complete(request[w])
    /\ UNCHANGED request

GiveBack(w) ==
    /\ request[w] # NoRequest /\ MayBook(w, "release")
    /\ done' = [done EXCEPT ![w] = @ \cup {"release"}]
    /\ Refund(request[w])
    /\ UNCHANGED request

PromiseNext ==
    /\ astray \subseteq astray' /\ astray' \subseteq Withdrawals
    /\ \/ \E w \in Withdrawals :
             \/ \E r \in Requests : SetAside(w, r)
             \/ Pay(w)
             \/ GiveBack(w)
       \/ UNCHANGED <<done, request, spendable, pending, paidOut>>

PromiseSpec == PromiseInit /\ [][PromiseNext]_pvars
=============================================================================

---------------------------- MODULE MCWithdrawal ----------------------------
(* Withdrawal for TLC: everybody starts with ten.  Operators race over a    *)
(* single withdrawal; once there are more, only one of them acts.           *)
EXTENDS Withdrawal

CONSTANT FirstOperator

TenEach == [u \in Users |-> 10]

RacesAreOverOneWithdrawal ==
    \/ \A a \in Operators \ {FirstOperator} : operator[a] = Idle
    \/ Cardinality({w \in Withdrawals : status[w] # "NONE"}) <= 1

MCNext == (Begin /\ RacesAreOverOneWithdrawal') \/ GoOn

MCSpec == Init /\ [][MCNext]_vars /\ Fairness
=============================================================================

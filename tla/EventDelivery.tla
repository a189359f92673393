---------------------------- MODULE EventDelivery ----------------------------
(***************************************************************************)
(* What the outbox promises the transactions that write to it: an event    *)
(* that was committed is owed to its user until it has been delivered, or  *)
(* until it has been tried often enough to be parked for an operator. It   *)
(* may be delivered more than once, and by a straggler even after it was   *)
(* parked; it is never dropped, and what became of it is final.            *)
(***************************************************************************)
CONSTANT Events

VARIABLES
    owed,           \* committed and not yet settled
    delivered,      \* delivered at least once
    parked          \* given up, for an operator to see

dvars == <<owed, delivered, parked>>

DInit == owed = {} /\ delivered = {} /\ parked = {}

Commit(e) ==
    /\ e \notin owed \cup delivered \cup parked
    /\ owed' = owed \cup {e} /\ UNCHANGED <<delivered, parked>>

Deliver(e) ==
    /\ e \in owed \cup delivered \cup parked
    /\ delivered' = delivered \cup {e} /\ UNCHANGED <<owed, parked>>

Close(e) ==
    /\ e \in owed \cap delivered
    /\ owed' = owed \ {e} /\ UNCHANGED <<delivered, parked>>

Park(e) ==
    /\ e \in owed
    /\ owed' = owed \ {e} /\ parked' = parked \cup {e} /\ UNCHANGED delivered

DNext == \E e \in Events : Commit(e) \/ Deliver(e) \/ Close(e) \/ Park(e)
DSpec == DInit /\ [][DNext]_dvars
=============================================================================

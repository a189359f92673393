--------------------------- MODULE MCGameSession ---------------------------
(* Instances of GameSession for TLC. *)
EXTENDS GameSession, TLC

CONSTANTS r1, r2, c1, i1

MCRequests == {r1, r2}

(* Dark's client gives its move an id; Light's is an old one, which does not. *)
MCSubmissions ==
    {[by |-> Dark, play |-> "quiet", id |-> i1]} \cup [by : {Light}, play : Plays, id : {Legacy}]

MCTurnOf == [i \in Ids |-> 2]

Symmetry == Permutations(MCRequests)

(* Bounds: one settlement at a time, and after a fault one request. *)
MCBounds ==
    /\ Cardinality(calls) <= 1
    /\ faults > 0 => Cardinality({r \in Requests : request[r] # Idle}) <= 1

(* Bound: once the match is settled, a submission arrives when no other one *)
(* is being handled.                                                        *)
MCLateMovesComeAlone ==
    verdict.settled =>
        \A r \in Requests :
            request[r] = Idle /\ request'[r] # Idle => \A q \in Requests : request[q] = Idle
=============================================================================

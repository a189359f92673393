-------------------------- MODULE MCMatchLifecycle --------------------------
(* MatchLifecycle for TLC: a few players, matches and workers.              *)
EXTENDS MatchLifecycle, TLC

TenEach == [p \in Players |-> 10]

Symmetry == Permutations(Matches) \cup Permutations(Players) \cup Permutations(Workers)

(* Bound: one settlement call in progress per match.                        *)
OneCallEach == \A c, d \in calls : c.match = d.match => c = d
=============================================================================

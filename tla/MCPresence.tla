----------------------------- MODULE MCPresence -----------------------------
(* A match between a, who has two tabs open, and b, who has one; two sweeps *)
(* at a time.                                                               *)
EXTENDS Presence, TLC
CONSTANTS a, b, a1, a2, b1, w1, w2
MCOwner == (a1 :> a) @@ (a2 :> a) @@ (b1 :> b)
TabsAndSweeps == Permutations({a1, a2}) \cup Permutations({w1, w2})

(* No absence decides a match that is over: from there on only the sweeps   *)
(* in progress and the clean-up are followed.                               *)
MCOverIsOver ==
    match = "live" \/ (pointer /\ ~pointer')
                   \/ \E w \in Sweeps : SweepLooks(w) \/ SweepJudges(w) \/ SweepSettles(w)

(* What is interleaved at a time: three handlers, or a sweep and two, or    *)
(* the boot recovery and one of these; or two sweeps, and nothing else.     *)
MCFewAtWork ==
    LET handlers == Cardinality({s \in Sockets : closing'[s] # "none"})
                    + Cardinality({s \in Sockets : joining'[s] # "none"})
        sweeps == Cardinality({w \in Sweeps : sweep'[w] # Idle})
        recovery == IF recovering' \/ booting' # {} THEN 2 ELSE 0
    IN  IF sweeps = 2 THEN handlers + recovery = 0 ELSE handlers + sweeps + recovery <= 3
=============================================================================

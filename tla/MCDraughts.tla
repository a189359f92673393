----------------------------- MODULE MCDraughts -----------------------------
(* Draughts for TLC on a 6 x 6 board: every placing of one white piece in    *)
(* the middle of the board against three black men, one move deep; every      *)
(* placing of one against one, three deep; two kings, five deep, where games  *)
(* end in draws; and the opening.                                            *)
EXTENDS Draughts

Placed(white, at, blacks, black, plies) ==
    [plies |-> plies,
     board |-> [sq \in Squares |-> IF sq = at THEN white ELSE IF sq \in blacks THEN black ELSE Empty],
     turn |-> "WHITE"]

Sensible(white, at, blacks) ==
    /\ at \notin blacks /\ (white = "w" => Row(at) # 0)
    /\ \A sq \in blacks : Row(sq) # Size - 1

Against(blacks, squares, plies) ==
    {Placed(e[1], e[2], blacks, "b", plies) :
        e \in {e \in {"w", "W"} \X squares : Sensible(e[1], e[2], blacks)}}

Endgames(squares, n, plies) == UNION {Against(blacks, squares, plies) : blacks \in kSubset(n, Squares)}
KingEndings == {Placed("W", 1, {sq}, "B", 5) : sq \in {3, 9}}
Middle == {sq \in Squares : Row(sq) \in {2, 3}}

Studies == {[board |-> InitialBoard, turn |-> "WHITE", plies |-> 2]} \cup KingEndings
             \cup Endgames(Squares, 1, 3) \cup Endgames(Middle, 3, 1)

(* One white piece against four black men off the edges, where captures go    *)
(* round and meet again.                                                     *)
Inner == {sq \in Squares : Row(sq) \in 1 .. Size - 2 /\ Col(sq) \in 1 .. Size - 2}
Rounds == UNION {Against(blacks, Squares, 1) : blacks \in kSubset(4, Inner)}
=============================================================================

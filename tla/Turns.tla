-------------------------------- MODULE Turns --------------------------------
(***************************************************************************)
(* The two sides of a match, whose turn it is, and how a move can end the  *)
(* game.                                                                   *)
(***************************************************************************)
EXTENDS Integers, Sequences

CONSTANTS
    Light, Dark,    \* the two players of a match
    Nobody,         \* the winner of a draw, and of a game that goes on
    Plays,          \* the moves a position offers (from, to and captures)
    WinningPlays,   \* those that leave the opponent without pieces or moves
    DrawingPlays    \* those after which checkGameEnd declares a draw

ASSUME SidesAssumption == Light # Dark /\ Nobody \notin {Light, Dark}
ASSUME PlaysAssumption ==
    /\ WinningPlays \subseteq Plays
    /\ DrawingPlays \subseteq Plays
    /\ WinningPlays \cap DrawingPlays = {}

-----------------------------------------------------------------------------
Players == {Light, Dark}
Opponent(p) == IF p = Light THEN Dark ELSE Light

(* White, the light side, moves first and the turns alternate. *)
ToMove(n) == IF n % 2 = 0 THEN Light ELSE Dark

Ending == WinningPlays \cup DrawingPlays

(* What checkGameEnd says after player p made the play x. *)
WinnerAfter(p, x) == IF x \in WinningPlays THEN p ELSE Nobody

NoVerdict == [settled |-> FALSE, winner |-> Nobody, reason |-> "none"]
Verdicts == [settled : BOOLEAN, winner : Players \cup {Nobody},
             reason : {"none", "board", "resign", "timeout"}]
=============================================================================

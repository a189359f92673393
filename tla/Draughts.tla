------------------------------ MODULE Draughts ------------------------------
(***************************************************************************)
(* A game of draughts as the server plays it: computeNextState              *)
(* (sockets/gameManager.js) on the live projection, and replayDurableMoves   *)
(* (sockets/gameRecovery.js), which must arrive at the same game from the    *)
(* log of moves.                                                             *)
(***************************************************************************)
EXTENDS Engine, TLC

CONSTANTS Positions,         \* positions to start from; plies bounds the game
          KingMoveLimit,     \* 50 plies in the code
          RepetitionLimit    \* 3

Colours == {"WHITE", "BLACK"}

(* A man that reaches its crown row is a king at once.                       *)
IsBoard(board) ==
    /\ board \in [Squares -> {Empty} \cup Men \cup Kings]
    /\ \A sq \in Squares : /\ board[sq] = "w" => Row(sq) # Crown("WHITE")
                           /\ board[sq] = "b" => Row(sq) # Crown("BLACK")

ASSUME GameAssumption ==
    /\ KingMoveLimit \in Nat \ {0}
    /\ \A p \in Positions : IsBoard(p.board) /\ p.turn \in Colours

VARIABLES game,              \* the projection: board, turn, counters, end
          start,             \* the position the game is looked at from
          log                \* MatchMove rows: from, to and path

gameVars == <<game, start, log>>

At(board, turn) ==
    [board |-> board, turn |-> turn, quiet |-> 0, seen |-> [p \in {<<board, turn>>} |-> 1],
     ended |-> FALSE, winner |-> "NONE"]

Seen(seen, p) == IF p \in DOMAIN seen THEN [seen EXCEPT ![p] = @ + 1] ELSE seen @@ (p :> 1)

(* A position that came up too often, or too many quiet moves of kings.      *)
Drawn(seen, quiet) ==
    \/ \E p \in DOMAIN seen : seen[p] >= RepetitionLimit
    \/ quiet >= KingMoveLimit

(* mutant: the side that has just moved is asked for a move.                 *)
EndForTheMover(board, turn, seen, quiet) ==
    IF Drawn(seen, quiet) THEN [ended |-> TRUE, winner |-> "NONE"]
    ELSE IF LegalMoves(board, Other(turn)) = <<>> THEN [ended |-> TRUE, winner |-> Other(turn)]
    ELSE [ended |-> FALSE, winner |-> "NONE"]

(* checkGameEnd: draws first, then a side that cannot move has lost.         *)
End(board, turn, seen, quiet) ==
    IF Drawn(seen, quiet)
    THEN [ended |-> TRUE, winner |-> "NONE"]
    ELSE IF LegalMoves(board, turn) = <<>> THEN [ended |-> TRUE, winner |-> Other(turn)]
    ELSE [ended |-> FALSE, winner |-> "NONE"]

Quiet(g, m) == IF g.board[m.from] \in Kings /\ m.captured = <<>> THEN g.quiet + 1 ELSE 0
QuietKings(g, m) == IF g.board[m.from] \in Kings THEN g.quiet + 1 ELSE 0   \* mutant

After(g, m, quiet) ==
    LET board == ApplyMove(g.board, m)
        seen == Seen(g.seen, <<board, Other(g.turn)>>)
        end == End(board, Other(g.turn), seen, quiet)
    IN  [board |-> board, turn |-> Other(g.turn), quiet |-> quiet, seen |-> seen,
         ended |-> end.ended, winner |-> end.winner]

(* legal.find: the first move that fits, if there is one.                    *)
FirstFit(legal, Fits(_)) == {legal[i] : i \in {SelectInSeq(legal, Fits)} \ {0}}

(* A move is looked up by its ends, and an intended path must be its path.   *)
Fitting(g, from, to) == FirstFit(LegalMoves(g.board, g.turn), LAMBDA m : m.from = from /\ m.to = to)

Submit(from, to, path) ==
    \E move \in Fitting(game, from, to) :
        /\ ~game.ended /\ Len(log) < start.plies
        /\ path \in {<<>>, move.path}
        /\ game' = After(game, move, Quiet(game, move))
        /\ log' = Append(log, [from |-> from, to |-> to, path |-> move.path])
        /\ UNCHANGED start

(* replayDurableMoves has its own copy of all this: it turns the board,      *)
(* counts positions and quiet king moves, and asks for the end, by itself.   *)
ReplayQuiet(g, m) == IF g.board[m.from] \in Kings /\ m.captured = <<>> THEN g.quiet + 1 ELSE 0
ReplaySeen(seen, p) == IF p \in DOMAIN seen THEN [seen EXCEPT ![p] = @ + 1] ELSE seen @@ (p :> 1)

Replayed(g, m) ==
    LET board == ApplyMove(g.board, m)
        turn == Other(g.turn)
        seen == ReplaySeen(g.seen, <<board, turn>>)
        end == End(board, turn, seen, ReplayQuiet(g, m))
    IN  [board |-> board, turn |-> turn, quiet |-> ReplayQuiet(g, m), seen |-> seen,
         ended |-> end.ended, winner |-> end.winner]

ReplayMove(g, row) ==
    {Replayed(g, m) :
        m \in FirstFit(LegalMoves(g.board, g.turn),
                       LAMBDA l : l.from = row.from /\ l.to = row.to /\ l.path = row.path)}

(* The game it arrives at; none when a row does not replay, and it throws.   *)
Replay ==
    LET after[n \in 0 .. Len(log)] ==
            IF n = 0 THEN {At(start.board, start.turn)}
            ELSE UNION {ReplayMove(g, log[n]) : g \in after[n - 1]}
    IN  after[Len(log)]

GameInit ==
    /\ start \in Positions
    /\ game = At(start.board, start.turn) /\ log = <<>>

GameNext ==
    \E m \in ToSet(LegalMoves(game.board, game.turn)) :
        \E path \in {<<>>, m.path} : Submit(m.from, m.to, path)

GameSpec == GameInit /\ [][GameNext]_gameVars

-----------------------------------------------------------------------------
GameTypeOK ==
    IsBoard(game.board) /\ game.turn \in Colours /\ game.quiet \in 0 .. KingMoveLimit

(* The search finds every capture that takes most and no other: capturing is *)
(* mandatory and the longest capture is forced, by an independent statement   *)
(* of the rules in which the moving piece still blocks the square it left.    *)
SearchFindsTheLongest ==
    LET best == LongestCaptures(game.board, game.turn, FALSE)
    IN  IF best = {} THEN \A m \in ToSet(LegalMoves(game.board, game.turn)) : m.captured = <<>>
        ELSE {Outcome(m) : m \in ToSet(LegalMoves(game.board, game.turn))} = best

(* Recovery never throws, and rebuilds the very game that was played, counters *)
(* and end included: the path stored with a move singles it out among the legal ones. *)
ReplayIsExact == Replay = {game}

(* The state is typed, and recovery arrives at it.                           *)
GameInv == GameTypeOK /\ ReplayIsExact

(* checkGameEnd asks the right side: nobody is declared the loser who, by    *)
(* the rules, has a move, and no game goes on, once it has begun, in which   *)
(* the side to move has none.                                               *)
LosersAreStuck ==
    /\ game.winner # "NONE" => game.winner = Other(game.turn) /\ Stuck(game.board, game.turn)
    /\ log # <<>> /\ ~game.ended => ~Stuck(game.board, game.turn)

(* A move costs the mover no piece, and takes from the other side exactly as *)
(* many as the best capture by the independent rules: none when there is     *)
(* none, and no piece twice, although a path may cross a square twice.       *)
MovesTakeTheMost ==
    [][/\ Cardinality(Pieces(game'.board, game.turn)) = Cardinality(Pieces(game.board, game.turn))
       /\ Cardinality(Pieces(game'.board, Other(game.turn))) =
            Cardinality(Pieces(game.board, Other(game.turn))) - Best(game.board, game.turn)]_gameVars

(* 01_PRODUCT_CONTEXT.md: "Maximum capture rule - must take the path          *)
(* capturing the most pieces", FMJD rules, where the moving piece has left    *)
(* its square.  False: the search leaves the piece standing there.            *)
LongestCaptureIsForced ==
    LongestCaptures(game.board, game.turn, TRUE) = LongestCaptures(game.board, game.turn, FALSE)

(* payloadGuard.js: "path is the complete landing sequence and is the          *)
(* authoritative shape for multi-capture intention".  False: of two longest    *)
(* captures with the same ends only the first the search finds is accepted.    *)
EveryCaptureCanBePlayed ==
    \A m \in ToSet(LegalMoves(game.board, game.turn)) : Fitting(game, m.from, m.to) = {m}
=============================================================================

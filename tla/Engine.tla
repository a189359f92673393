------------------------------- MODULE Engine -------------------------------
(***************************************************************************)
(* The draughts engine (modules/engine): which moves are legal in a          *)
(* position, and what a move does to it.  The code's board is 10 x 10; Size  *)
(* is a parameter so that TLC can look at many positions of a small one.     *)
(* Moves are kept in sequences, in the order the code's loops produce them,  *)
(* because the caller plays the first one that fits.                         *)
(***************************************************************************)
EXTENDS Integers, Sequences, SequencesExt, FiniteSets, FiniteSetsExt

CONSTANT Size                   \* rows and columns; 10 in the code

ASSUME EngineAssumption == Size \in {4, 6, 8, 10}

Empty == "."
Men == {"w", "b"}               \* white and black men; kings are W and B
Kings == {"W", "B"}
Colour(piece) == CASE piece \in {"w", "W"} -> "WHITE" [] piece \in {"b", "B"} -> "BLACK" [] OTHER -> "NONE"
Other(colour) == IF colour = "WHITE" THEN "BLACK" ELSE "WHITE"

(* Dark squares are numbered row by row, from the black side's back row.     *)
Width == Size \div 2
Squares == 1 .. Size * Width
Row(sq) == (sq - 1) \div Width
Col(sq) == ((sq - 1) % Width) * 2 + ((Row(sq) + 1) % 2)
OnBoard(row, col) == row \in 0 .. Size - 1 /\ col \in 0 .. Size - 1
SquareAt(row, col) == row * Width + (col \div 2) + 1

Dirs == <<[dr |-> -1, dc |-> -1], [dr |-> -1, dc |-> 1], [dr |-> 1, dc |-> -1], [dr |-> 1, dc |-> 1]>>

(* The squares one meets from sq in direction d, nearest first.              *)
Ray == [sq \in Squares |-> [d \in 1 .. 4 |->
          LET row(k) == Row(sq) + k * Dirs[d].dr
              col(k) == Col(sq) + k * Dirs[d].dc
              reach == Cardinality({k \in 1 .. Size : OnBoard(row(k), col(k))})
          IN  [k \in 1 .. reach |-> SquareAt(row(k), col(k))]]]

(* How many squares of a ray are empty before the first that is not.         *)
FreeRun(board, ray) ==
    LET blocked == {k \in DOMAIN ray : board[ray[k]] # Empty}
    IN  IF blocked = {} THEN Len(ray) ELSE Min(blocked) - 1

Crown(colour) == IF colour = "WHITE" THEN 0 ELSE Size - 1
Forward(colour) == IF colour = "WHITE" THEN {1, 2} ELSE {3, 4}

Concat(n, Part(_)) == FlattenSeq([i \in 1 .. n |-> Part(i)])

-----------------------------------------------------------------------------
(* getRegularMoves: a man one step forward, a king as far as it is free.     *)
RegularMoves(board, colour) ==
    LET along(sq, d) ==
          LET ray == Ray[sq][d]
              king == board[sq] \in Kings
              run == IF king THEN FreeRun(board, ray) ELSE Min({1, FreeRun(board, ray)})
          IN  IF king \/ d \in Forward(colour)
              THEN [k \in 1 .. run |-> [from |-> sq, to |-> ray[k], path |-> <<sq, ray[k]>>, captured |-> <<>>]]
              ELSE <<>>
        of(sq) == IF Colour(board[sq]) = colour THEN Concat(4, LAMBDA d : along(sq, d)) ELSE <<>>
    IN  Concat(Size * Width, of)

(* A piece that cannot be jumped: one's own, or one taken already.          *)
BlockedByTaken(board, colour, taken, sq) == Contains(taken, sq)      \* mutant: jumps its own
Blocked(board, colour, taken, sq) == Colour(board[sq]) = colour \/ Contains(taken, sq)

(* One jump along a ray: over the first piece if it is an enemy not taken    *)
(* yet, onto the empty squares behind it (a man: the next one only).  Taken  *)
(* pieces, and the moving piece itself, stay on the board meanwhile.         *)
HopsAlong(board, colour, king, taken, ray) ==
    LET i == FreeRun(board, ray) + 1
        behind == FreeRun(board, SubSeq(ray, i + 1, Len(ray)))
    IN  IF \/ i > Len(ray) \/ (~king /\ i > 1)
           \/ Blocked(board, colour, taken, ray[i])
        THEN <<>>
        ELSE [k \in 1 .. (IF king THEN behind ELSE Min({1, behind})) |-> [over |-> ray[i], onto |-> ray[i + k]]]

(* getCapturePathsForSquare: depth first, a path is kept when it cannot go on.*)
(* n: how many jumps there may still be.  Each takes another enemy piece, so   *)
(* there are never more than there are enemies.                              *)
Pieces(board, colour) == {sq \in Squares : Colour(board[sq]) = colour}

Walks == [path : Seq(Squares), captured : Seq(Squares)]

Hops(board, colour, king, at) ==
    Concat(4, LAMBDA d : HopsAlong(board, colour, king, at.captured, Ray[Last(at.path)][d]))

Onto(at, hop) == [path |-> Append(at.path, hop.onto), captured |-> Append(at.captured, hop.over)]

Search(board, colour, sq) ==
    LET most == Cardinality(Pieces(board, Other(colour)))
        search[n \in 0 .. most] ==
            [at \in Walks |->
                LET hops == Hops(board, colour, board[sq] \in Kings, at)
                IN  IF n > 0 /\ hops # <<>>
                    THEN Concat(Len(hops), LAMBDA h : search[n - 1][Onto(at, hops[h])])
                    ELSE IF at.captured = <<>> THEN <<>>
                    ELSE <<[from |-> sq, to |-> Last(at.path), path |-> at.path, captured |-> at.captured]>>]
    IN  search[most][[path |-> <<sq>>, captured |-> <<>>]]

(* getMaxCapturePaths: of all the captures the ones that take most.          *)
KeepAll(captures) == captures           \* mutant: any capture will do
Longest(captures) ==
    LET longest == Max({Len(captures[i].captured) : i \in DOMAIN captures})
    IN  Concat(Len(captures), LAMBDA i : IF Len(captures[i].captured) = longest THEN <<captures[i]>> ELSE <<>>)

MaxCapturePaths(board, colour) ==
    LET of(sq) == IF Colour(board[sq]) = colour THEN Search(board, colour, sq) ELSE <<>>
        captures == Concat(Size * Width, of)
    IN  IF captures = <<>> THEN <<>> ELSE Longest(captures)

LegalMoves(board, colour) ==
    LET captures == MaxCapturePaths(board, colour)
    IN  IF captures # <<>> THEN captures ELSE RegularMoves(board, colour)

-----------------------------------------------------------------------------
(* applyMove: the piece moves, the captured ones go, a man that ends on the  *)
(* crown row becomes a king.                                                 *)
Crowned(piece, sq) ==
    CASE piece = "w" /\ Row(sq) = Crown("WHITE") -> "W"
      [] piece = "b" /\ Row(sq) = Crown("BLACK") -> "B"
      [] OTHER -> piece

ApplyMove(board, move) ==
    [sq \in Squares |->
        IF sq = move.to THEN Crowned(board[move.from], sq)
        ELSE IF sq = move.from \/ Contains(move.captured, sq) THEN Empty
        ELSE board[sq]]

(* createInitialBoard: the rows on either side of the two in the middle.     *)
InitialBoard ==
    [sq \in Squares |-> IF Row(sq) < Width - 1 THEN "b" ELSE IF Row(sq) > Width THEN "w" ELSE Empty]

-----------------------------------------------------------------------------
(* The rules the engine is to enforce, stated on their own: a piece stands    *)
(* somewhere having taken a set of pieces; it may go on over an enemy it has  *)
(* not taken to a square behind it when all the other squares in between are  *)
(* empty.  lifted: the square it started from counts as empty.                *)
CanHop(board, colour, king, start, lifted, taken, ray, i, j) ==
    LET free(sq) == board[sq] = Empty \/ (lifted /\ sq = start)
    IN  /\ Colour(board[ray[i]]) = Other(colour) /\ ray[i] \notin taken
        /\ \A k \in 1 .. j : k # i => free(ray[k])
        /\ ~king => i = 1 /\ j = 2

NextHops(board, colour, start, lifted, at) ==
    LET ray(h) == Ray[at.sq][h[1]]
        hops == {h \in (1 .. 4) \X (1 .. Size) \X (1 .. Size) :
                   /\ h[2] < h[3] /\ h[3] <= Len(ray(h))
                   /\ CanHop(board, colour, board[start] \in Kings, start, lifted, at.taken, ray(h), h[2], h[3])}
    IN  {[sq |-> ray(h)[h[3]], taken |-> at.taken \cup {ray(h)[h[2]]}] : h \in hops}

(* All that can be taken in n jumps, for the last n that anything can.       *)
Furthest(board, colour, start, lifted) ==
    LET most == Cardinality(Pieces(board, Other(colour)))
        reached[n \in 0 .. most] ==
            IF n = 0 THEN {[sq |-> start, taken |-> {}]}
            ELSE UNION {NextHops(board, colour, start, lifted, at) : at \in reached[n - 1]}
    IN  reached[Max({n \in 0 .. most : reached[n] # {}})]

CaptureEnds(board, colour, lifted) ==
    UNION {{[from |-> sq, to |-> at.sq, taken |-> at.taken] : at \in Furthest(board, colour, sq, lifted)} :
           sq \in Pieces(board, colour)}

LongestCaptures(board, colour, lifted) ==
    LET ends == CaptureEnds(board, colour, lifted)
        most == Max({Cardinality(e.taken) : e \in ends} \cup {0})
    IN  {e \in ends : Cardinality(e.taken) = most /\ most > 0}

(* How many pieces the best capture of a side takes; none, if it has none.    *)
Best(board, colour) == Max({Cardinality(e.taken) : e \in CaptureEnds(board, colour, FALSE)} \cup {0})

(* The rules of a quiet move, stated on their own: a king any way as far as   *)
(* it is free, a man one square forward.                                     *)
CanStep(board, colour, sq, d, k) ==
    /\ Colour(board[sq]) = colour
    /\ \A j \in 1 .. k : board[Ray[sq][d][j]] = Empty
    /\ board[sq] \notin Kings => d \in Forward(colour) /\ k = 1

CanMoveQuietly(board, colour, sq, to) ==
    \E d \in 1 .. 4 : \E k \in 1 .. Len(Ray[sq][d]) : to = Ray[sq][d][k] /\ CanStep(board, colour, sq, d, k)

(* By the rules a side is stuck when it can neither capture nor move quietly. *)
Stuck(board, colour) ==
    /\ LongestCaptures(board, colour, FALSE) = {}
    /\ \A sq, to \in Squares : ~CanMoveQuietly(board, colour, sq, to)

Outcome(move) == [from |-> move.from, to |-> move.to, taken |-> ToSet(move.captured)]
=============================================================================

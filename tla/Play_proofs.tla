----------------------------- MODULE Play_proofs -----------------------------
(***************************************************************************)
(* Theorems about a match while it is played: about the game of draughts,    *)
(* for every position, on boards of every size the engine's numbering        *)
(* allows (the code's 10 x 10 among them), and about absence, for every      *)
(* number of sockets of the two players and every number of restarts.        *)
(***************************************************************************)
EXTENDS Presence, Draughts, SequenceTheorems, FiniteSetTheorems, WellFoundedInduction, TLAPS

(***************************************************************************)
(* The game.  First least and greatest members, and induction up to a bound   *)
(* with the hypothesis as a set: the engine's search, the rules it is to      *)
(* enforce and the replay are recursive functions on 0 .. n, and each is      *)
(* unfolded this way.                                                        *)
(***************************************************************************)
(* A nonempty set of naturals has a least member. *)
LEMMA LeastNatural ==
  ASSUME NEW B \in SUBSET Nat, B # {}
  PROVE  \E m \in B : \A k \in B : m <= k
<1>1. PICK m \in B : \A k \in B : <<k, m>> \notin OpToRel(<, Nat)
  BY NatLessThanWellFounded, WFMin
<1>2. ASSUME NEW k \in B PROVE m <= k
  <2>1. k \in Nat /\ m \in Nat
    OBVIOUS
  <2>2. ~(k < m)
    BY <1>1, <2>1 DEF OpToRel
  <2> QED BY <2>1, <2>2
<1> QED BY <1>2

LEMMA MinIs ==
  ASSUME NEW B \in SUBSET Nat, B # {}
  PROVE  Min(B) \in B /\ \A k \in B : Min(B) <= k
<1>1. PICK m \in B : \A k \in B : m <= k
  BY LeastNatural
<1> QED BY <1>1 DEF Min

LEMMA MaxIs ==
  ASSUME NEW n \in Nat, NEW B \in SUBSET (0 .. n), B # {}
  PROVE  Max(B) \in B /\ \A k \in B : Max(B) >= k
<1> DEFINE A == {n - k : k \in B}
<1>1. \A k \in B : n - k \in Nat
  OBVIOUS
<1>0. A \in SUBSET Nat /\ A # {}
  BY <1>1
<1>2. PICK m \in A : \A k \in A : m <= k
  BY <1>0, LeastNatural
<1>3. PICK b \in B : m = n - b
  OBVIOUS
<1>4. \A k \in B : b >= k
  <2> TAKE k \in B
  <2>1. n - b <= n - k
    BY <1>2, <1>3
  <2>2. b \in Int /\ k \in Int
    OBVIOUS
  <2> QED BY <2>1, <2>2
<1> QED BY <1>4 DEF Max

(* Induction up to n, for a set. *)
LEMMA Upward ==
  ASSUME NEW n \in Nat, NEW T, 0 \in T, \A k \in 0 .. n - 1 : k \in T => k + 1 \in T
  PROVE  \A k \in 0 .. n : k \in T
<1> DEFINE B == {k \in 0 .. n : k \notin T}
<1> SUFFICES ASSUME B # {} PROVE FALSE
  OBVIOUS
<1>1. B \in SUBSET Nat
  OBVIOUS
<1>2. PICK m \in B : \A k \in B : m <= k
  BY <1>1, LeastNatural
<1>3. m \in 0 .. n /\ m \notin T /\ m # 0
  OBVIOUS
<1>4. m - 1 \in 0 .. n - 1 /\ m - 1 \in 0 .. n /\ (m - 1) + 1 = m /\ ~(m <= m - 1)
  BY <1>3
<1>5. m - 1 \notin T
  BY <1>3, <1>4
<1>6. m - 1 \in B
  BY <1>4, <1>5
<1> QED BY <1>2, <1>4, <1>6
-----------------------------------------------------------------------------
(* Sequences as sets. *)
LEMMA SeqToSet ==
  ASSUME NEW S, NEW s \in Seq(S)
  PROVE  /\ \A x : x \in ToSet(s) <=> \E i \in 1 .. Len(s) : s[i] = x
         /\ \A x \in ToSet(s) : x \in S
         /\ s = <<>> <=> \A x : x \notin ToSet(s)
<1>1. DOMAIN s = 1 .. Len(s) /\ Len(s) \in Nat
  BY LenProperties
<1>2. \A x : x \in ToSet(s) <=> \E i \in 1 .. Len(s) : s[i] = x
  BY <1>1 DEF ToSet
<1>3. \A i \in 1 .. Len(s) : s[i] \in S
  BY ElementOfSeq
<1>4. s = <<>> => \A x : x \notin ToSet(s)
  BY <1>2, EmptySeq
<1>5. s # <<>> => \E x : x \in ToSet(s)
  <2>1. s # <<>> => Len(s) \in Nat \ {0}
    BY EmptySeq
  <2>2. s # <<>> => 1 \in 1 .. Len(s)
    BY <2>1
  <2> QED BY <1>2, <2>2
<1> QED BY <1>2, <1>3, <1>4, <1>5

Flattens(g, n, seqs) == g = [i \in 1 .. n |-> IF i = 1 THEN seqs[i] ELSE g[i - 1] \o seqs[i]]

LEMMA FlattenExists ==
  ASSUME NEW n \in Nat, NEW seqs
  PROVE  \E g : Flattens(g, n, seqs)
<1> DEFINE T == {k \in 0 .. n : \E g : Flattens(g, k, seqs)}
<1>1. 0 \in T
  <2> DEFINE g == [i \in 1 .. 0 |-> 0]
  <2>1. Flattens(g, 0, seqs)
    BY DEF Flattens
  <2> QED BY <2>1
<1>2. ASSUME NEW k \in 0 .. n - 1, k \in T PROVE k + 1 \in T
  <2>1. PICK g : Flattens(g, k, seqs)
    BY <1>2
  <2> DEFINE h == [i \in 1 .. k + 1 |-> IF i = 1 THEN seqs[i] ELSE g[i - 1] \o seqs[i]]
  <2>0. \A i \in 1 .. k : g[i] = IF i = 1 THEN seqs[i] ELSE g[i - 1] \o seqs[i]
    BY <2>1 DEF Flattens
  <2>2. \A i \in 1 .. k : h[i] = g[i]
    <3> TAKE i \in 1 .. k
    <3>1. i \in 1 .. k + 1
      OBVIOUS
    <3> QED BY <2>0, <3>1
  <2>3. \A i \in 1 .. k + 1 : i # 1 => i - 1 \in 1 .. k
    OBVIOUS
  <2>4. \A i \in 1 .. k + 1 : h[i] = IF i = 1 THEN seqs[i] ELSE h[i - 1] \o seqs[i]
    BY <2>2, <2>3
  <2>5. h = [i \in 1 .. k + 1 |-> h[i]]
    OBVIOUS
  <2> HIDE DEF h
  <2>6. Flattens(h, k + 1, seqs)
    BY <2>4, <2>5 DEF Flattens
  <2>7. k + 1 \in 0 .. n
    OBVIOUS
  <2> QED BY <2>6, <2>7
<1> HIDE DEF T
<1>3. n \in T
  BY <1>1, <1>2, Upward
<1> QED BY <1>3 DEF T

(* A concatenation holds what its parts hold. *)
LEMMA FlattenHolds ==
  ASSUME NEW S, NEW n \in Nat, NEW parts \in [1 .. n -> Seq(S)]
  PROVE  /\ FlattenSeq(parts) \in Seq(S)
         /\ \A x : x \in ToSet(FlattenSeq(parts)) <=> \E i \in 1 .. n : x \in ToSet(parts[i])
<1>0. parts \in Seq(Seq(S)) /\ Len(parts) = n
  OBVIOUS
<1>1. CASE n = 0
  <2>1. FlattenSeq(parts) = parts
    BY <1>0, <1>1 DEF FlattenSeq
  <2>2. parts = <<>>
    BY <1>0, <1>1
  <2>3. parts \in Seq(S)
    BY <2>2
  <2>4. \A x : x \notin ToSet(parts)
    BY <2>2, <2>3, SeqToSet
  <2>5. \A i \in 1 .. n : FALSE
    BY <1>1
  <2> QED BY <2>1, <2>3, <2>4, <2>5
<1>2. CASE n # 0
  <2> DEFINE f == CHOOSE g : Flattens(g, n, parts)
  <2>1. Flattens(f, n, parts)
    BY FlattenExists
  <2>2. FlattenSeq(parts) = f[n]
    BY <1>0, <1>2 DEF FlattenSeq, Flattens
  <2> HIDE DEF f
  <2>3. f[1] = parts[1]
    BY <1>2, <2>1 DEF Flattens
  <2>4. \A k \in 1 .. n : k # 1 => f[k] = f[k - 1] \o parts[k]
    BY <2>1 DEF Flattens
  <2> DEFINE Holds(k) == /\ f[k] \in Seq(S)
                         /\ \A x : x \in ToSet(f[k]) <=> \E i \in 1 .. k : x \in ToSet(parts[i])
             T == {k \in 0 .. n : k # 0 => Holds(k)}
  <2>5. 0 \in T
    OBVIOUS
  <2>6. ASSUME NEW k \in 0 .. n - 1, k \in T PROVE k + 1 \in T
    <3>1. k + 1 \in 0 .. n /\ k + 1 \in 1 .. n /\ parts[k + 1] \in Seq(S)
      OBVIOUS
    <3>2. CASE k = 0
      <4>1. f[k + 1] = parts[k + 1] /\ k + 1 = 1
        BY <2>3, <3>2
      <4>2. Holds(k + 1)
        BY <3>1, <4>1
      <4> QED BY <3>1, <4>2
    <3>3. CASE k # 0
      <4>1. f[k] \in Seq(S) /\ \A x : x \in ToSet(f[k]) <=> \E i \in 1 .. k : x \in ToSet(parts[i])
        BY <2>6, <3>3
      <4>2. k + 1 # 1 /\ (k + 1) - 1 = k
        BY <3>3
      <4>3. f[k + 1] = f[k] \o parts[k + 1]
        BY <2>4, <3>1, <4>2
      <4> DEFINE a == f[k]
                 b == parts[k + 1]
      <4>4. a \in Seq(S) /\ b \in Seq(S)
        BY <3>1, <4>1
      <4> HIDE DEF a, b
      <4>5. a \o b \in Seq(S) /\ \A x : x \in ToSet(a \o b) <=> x \in ToSet(a) \/ x \in ToSet(b)
        <5>1. /\ a \o b \in Seq(S)
              /\ Len(a \o b) = Len(a) + Len(b)
              /\ \A i \in 1 .. Len(a) + Len(b) : (a \o b)[i] = IF i <= Len(a) THEN a[i] ELSE b[i - Len(a)]
          BY <4>4, ConcatProperties
        <5>2. Len(a) \in Nat /\ Len(b) \in Nat
          BY <4>4
        <5>3. \A x : x \in ToSet(a) <=> \E i \in 1 .. Len(a) : a[i] = x
          BY <4>4, SeqToSet
        <5>4. \A x : x \in ToSet(b) <=> \E i \in 1 .. Len(b) : b[i] = x
          BY <4>4, SeqToSet
        <5>5. \A x : x \in ToSet(a \o b) <=> \E i \in 1 .. Len(a) + Len(b) : (a \o b)[i] = x
          BY <5>1, SeqToSet
        <5>6. ASSUME NEW x, x \in ToSet(a \o b) PROVE x \in ToSet(a) \/ x \in ToSet(b)
          <6>1. PICK i \in 1 .. Len(a) + Len(b) : (a \o b)[i] = x
            BY <5>5, <5>6
          <6>2. CASE i <= Len(a)
            <7>1. i \in 1 .. Len(a) /\ a[i] = x
              BY <5>1, <5>2, <6>1, <6>2
            <7> QED BY <5>3, <7>1
          <6>3. CASE ~(i <= Len(a))
            <7>1. i - Len(a) \in 1 .. Len(b)
              BY <5>2, <6>3
            <7>2. b[i - Len(a)] = x
              BY <5>1, <6>1, <6>3
            <7> QED BY <5>4, <7>1, <7>2
          <6> QED BY <6>2, <6>3
        <5>7. ASSUME NEW x, x \in ToSet(a) PROVE x \in ToSet(a \o b)
          <6>1. PICK i \in 1 .. Len(a) : a[i] = x
            BY <5>3, <5>7
          <6>2. i \in 1 .. Len(a) + Len(b) /\ i <= Len(a)
            BY <5>2
          <6>3. (a \o b)[i] = x
            BY <5>1, <6>1, <6>2
          <6> QED BY <5>5, <6>2, <6>3
        <5>8. ASSUME NEW x, x \in ToSet(b) PROVE x \in ToSet(a \o b)
          <6>1. PICK i \in 1 .. Len(b) : b[i] = x
            BY <5>4, <5>8
          <6>2. i + Len(a) \in 1 .. Len(a) + Len(b) /\ ~(i + Len(a) <= Len(a)) /\ (i + Len(a)) - Len(a) = i
            BY <5>2
          <6>3. (a \o b)[i + Len(a)] = x
            BY <5>1, <6>1, <6>2
          <6> QED BY <5>5, <6>2, <6>3
        <5> QED BY <5>1, <5>6, <5>7, <5>8
      <4>6. \A i : i \in 1 .. k + 1 <=> i \in 1 .. k \/ i = k + 1
        BY <3>3
      <4>7. \A x : x \in ToSet(a) <=> \E i \in 1 .. k : x \in ToSet(parts[i])
        BY <4>1 DEF a
      <4>8. f[k + 1] = a \o b
        BY <4>3 DEF a, b
      <4>9. f[k + 1] \in Seq(S)
        BY <4>5, <4>8
      <4>10. \A x : x \in ToSet(f[k + 1]) <=> \E i \in 1 .. k + 1 : x \in ToSet(parts[i])
        BY <4>5, <4>6, <4>7, <4>8, Zenon DEF b
      <4> QED BY <3>1, <4>9, <4>10
    <3> QED BY <3>2, <3>3
  <2> HIDE DEF T
  <2>7. \A k \in 0 .. n : k \in T
    BY <2>5, <2>6, Upward
  <2>8. n \in T
    BY <2>7
  <2>9. Holds(n)
    BY <1>2, <2>8 DEF T
  <2> QED BY <2>2, <2>9
<1> QED BY <1>1, <1>2
-----------------------------------------------------------------------------
(* The board: squares, and the rays between them. *)
LEMMA Prefix ==
  ASSUME NEW n \in Nat, NEW T \in SUBSET (1 .. n), \A k \in T : \A j \in 1 .. k : j \in T
  PROVE  Cardinality(T) \in 0 .. n /\ T = 1 .. Cardinality(T)
<1>1. CASE T = {}
  BY <1>1, FS_EmptySet
<1>2. CASE T # {}
  <2>1. T \in SUBSET (0 .. n)
    OBVIOUS
  <2> DEFINE m == Max(T)
  <2>2. m \in T /\ \A k \in T : m >= k
    BY <1>2, <2>1, MaxIs
  <2> HIDE DEF m
  <2>3. m \in 1 .. n
    BY <2>2
  <2>4. T = 1 .. m
    <3>1. \A k \in T : k \in 1 .. m
      BY <2>2, <2>3
    <3> QED BY <2>2, <3>1
  <2>5. Cardinality(1 .. m) = m
    BY <2>3, FS_Interval
  <2> QED BY <2>3, <2>4, <2>5
<1> QED BY <1>1, <1>2

(* The numbering stays on the board, whatever its size. *)
LEMMA SquareAtIs ==
  ASSUME NEW row \in 0 .. Size - 1, NEW col \in 0 .. Size - 1
  PROVE  SquareAt(row, col) \in Squares
<1>1. CASE Size = 4 BY <1>1 DEF SquareAt, Squares, Width
<1>2. CASE Size = 6 BY <1>2 DEF SquareAt, Squares, Width
<1>3. CASE Size = 8 BY <1>3 DEF SquareAt, Squares, Width
<1>4. CASE Size = 10 BY <1>4 DEF SquareAt, Squares, Width
<1> QED BY <1>1, <1>2, <1>3, <1>4, EngineAssumption

LEMMA RowCol ==
  ASSUME NEW sq \in Squares
  PROVE  Row(sq) \in 0 .. Size - 1 /\ Col(sq) \in 0 .. Size - 1
<1>1. CASE Size = 4 BY <1>1 DEF Row, Col, Squares, Width
<1>2. CASE Size = 6 BY <1>2 DEF Row, Col, Squares, Width
<1>3. CASE Size = 8 BY <1>3 DEF Row, Col, Squares, Width
<1>4. CASE Size = 10 BY <1>4 DEF Row, Col, Squares, Width
<1> QED BY <1>1, <1>2, <1>3, <1>4, EngineAssumption

(* A ray is a sequence of squares, no longer than the board. *)
LEMMA RayIs ==
  ASSUME NEW sq \in Squares, NEW d \in 1 .. 4
  PROVE  Ray[sq][d] \in Seq(Squares) /\ Len(Ray[sq][d]) <= Size
<1> DEFINE row(k) == Row(sq) + k * Dirs[d].dr
           col(k) == Col(sq) + k * Dirs[d].dc
           T == {k \in 1 .. Size : OnBoard(row(k), col(k))}
           reach == Cardinality(T)
<1>1. Ray[sq][d] = [k \in 1 .. reach |-> SquareAt(row(k), col(k))]
  BY DEF Ray
<1>2. Row(sq) \in 0 .. Size - 1 /\ Col(sq) \in 0 .. Size - 1 /\ Size \in Nat
  BY RowCol, EngineAssumption
<1>3. Dirs[d].dr \in {-1, 1} /\ Dirs[d].dc \in {-1, 1}
  BY DEF Dirs
<1>4. \A k \in T : \A j \in 1 .. k : j \in T
  <2> SUFFICES ASSUME NEW k \in T, NEW j \in 1 .. k PROVE OnBoard(row(j), col(j))
    BY <1>2
  <2>1. k \in 1 .. Size /\ row(k) \in 0 .. Size - 1 /\ col(k) \in 0 .. Size - 1
    BY DEF OnBoard
  <2>2. row(j) \in 0 .. Size - 1
    <3>1. CASE Dirs[d].dr = 1 BY <1>2, <2>1, <3>1
    <3>2. CASE Dirs[d].dr = -1 BY <1>2, <2>1, <3>2
    <3> QED BY <1>3, <3>1, <3>2
  <2>3. col(j) \in 0 .. Size - 1
    <3>1. CASE Dirs[d].dc = 1 BY <1>2, <2>1, <3>1
    <3>2. CASE Dirs[d].dc = -1 BY <1>2, <2>1, <3>2
    <3> QED BY <1>3, <3>1, <3>2
  <2> QED BY <2>2, <2>3 DEF OnBoard
<1>5. \A k \in T : SquareAt(row(k), col(k)) \in Squares
  BY SquareAtIs DEF OnBoard
<1>6. T \in SUBSET (1 .. Size)
  OBVIOUS
<1> HIDE DEF T
<1>7. reach \in 0 .. Size /\ T = 1 .. reach
  BY <1>2, <1>4, <1>6, Prefix
<1> HIDE DEF reach, row, col
<1> DEFINE S == Squares
<1>8. Ray[sq][d] \in [1 .. reach -> S]
  BY <1>1, <1>5, <1>7
<1> HIDE DEF S
<1>9. Ray[sq][d] \in Seq(S) /\ Len(Ray[sq][d]) = reach
  BY <1>7, <1>8
<1> QED BY <1>7, <1>9 DEF S

(* What FreeRun counts. *)
LEMMA FreeRunIs ==
  ASSUME NEW board, NEW S, NEW ray \in Seq(S)
  PROVE  /\ FreeRun(board, ray) \in 0 .. Len(ray)
         /\ \A k \in 1 .. FreeRun(board, ray) : board[ray[k]] = Empty
         /\ FreeRun(board, ray) < Len(ray) => board[ray[FreeRun(board, ray) + 1]] # Empty
<1> DEFINE blocked == {k \in DOMAIN ray : board[ray[k]] # Empty}
<1>1. DOMAIN ray = 1 .. Len(ray) /\ Len(ray) \in Nat
  OBVIOUS
<1>2. FreeRun(board, ray) = IF blocked = {} THEN Len(ray) ELSE Min(blocked) - 1
  BY DEF FreeRun
<1>3. \A k \in 1 .. Len(ray) : k \in blocked <=> board[ray[k]] # Empty
  BY <1>1
<1>4. blocked \in SUBSET (1 .. Len(ray)) /\ blocked \in SUBSET Nat
  BY <1>1
<1> HIDE DEF blocked
<1>5. CASE blocked = {}
  BY <1>1, <1>2, <1>3, <1>5
<1>6. CASE blocked # {}
  <2> DEFINE m == Min(blocked)
  <2>1. m \in blocked /\ \A k \in blocked : m <= k
    BY <1>4, <1>6, MinIs
  <2>2. FreeRun(board, ray) = m - 1
    BY <1>2, <1>6
  <2> HIDE DEF m
  <2>3. m \in 1 .. Len(ray)
    BY <1>4, <2>1
  <2>4. \A k \in 1 .. m - 1 : k \in 1 .. Len(ray) /\ k \notin blocked
    BY <1>1, <2>1, <2>3
  <2>5. (m - 1) + 1 = m
    BY <2>3
  <2> QED BY <1>1, <1>3, <2>1, <2>2, <2>3, <2>4, <2>5
<1> QED BY <1>5, <1>6
-----------------------------------------------------------------------------
(* One jump: what the loop finds along a ray, and what the rules allow. *)
PieceSet == {Empty} \cup Men \cup Kings
Boards == [Squares -> PieceSet]
HopSet == [over : Squares, onto : Squares]
Moves == [from : Squares, to : Squares, path : Seq(Squares), captured : Seq(Squares)]

(* Every piece has a colour, and there are two. *)
LEMMA ColourIs ==
  /\ \A p \in PieceSet : Colour(p) \in Colours \/ (Colour(p) = "NONE" /\ p = Empty)
  /\ Colour(Empty) = "NONE" /\ "NONE" \notin Colours
  /\ \A c \in Colours : Other(c) \in Colours /\ Other(c) # c /\ \A e \in Colours : e = c \/ e = Other(c)
  BY DEF PieceSet, Empty, Men, Kings, Colour, Colours, Other

(* A man goes one square if he can, and no more. *)
LEMMA MinOfOne ==
  ASSUME NEW n \in Nat
  PROVE  Min({1, n}) \in {0, 1} /\ (Min({1, n}) = 1 <=> n >= 1) /\ Min({1, n}) <= n
<1>1. {1, n} \in SUBSET Nat /\ {1, n} # {}
  OBVIOUS
<1> DEFINE m == Min({1, n})
<1>2. m \in {1, n} /\ m <= 1 /\ m <= n
  BY <1>1, MinIs
<1> HIDE DEF m
<1>3. m \in {0, 1} /\ (m = 1 <=> n >= 1)
  BY <1>2
<1> QED BY <1>2, <1>3 DEF m

(* The loop of the search finds the hops the rules allow along a ray, the    *)
(* moving piece staying where it started.                                    *)
LEMMA HopsAlongAre ==
  ASSUME NEW board \in Boards, NEW colour \in Colours, NEW king \in BOOLEAN, NEW begin,
         NEW taken \in Seq(Squares), NEW ray \in Seq(Squares)
  PROVE  /\ HopsAlong(board, colour, king, taken, ray) \in Seq(HopSet)
         /\ \A h : h \in ToSet(HopsAlong(board, colour, king, taken, ray)) <=>
              \E i, j \in 1 .. Len(ray) :
                 /\ i < j /\ h = [over |-> ray[i], onto |-> ray[j]]
                 /\ CanHop(board, colour, king, begin, FALSE, ToSet(taken), ray, i, j)
<1> DEFINE L == Len(ray)
           i0 == FreeRun(board, ray) + 1
           rest == SubSeq(ray, i0 + 1, L)
           behind == FreeRun(board, rest)
           run == IF king THEN behind ELSE Min({1, behind})
           hops == [k \in 1 .. run |-> [over |-> ray[i0], onto |-> ray[i0 + k]]]
           stuck == i0 > L \/ (~king /\ i0 > 1) \/ Blocked(board, colour, taken, ray[i0])
           Can(i, j) == CanHop(board, colour, king, begin, FALSE, ToSet(taken), ray, i, j)
<1>1. HopsAlong(board, colour, king, taken, ray) = IF stuck THEN <<>> ELSE hops
  BY DEF HopsAlong
<1>2. /\ L \in Nat /\ \A k \in 1 .. L : ray[k] \in Squares /\ board[ray[k]] \in PieceSet
  BY DEF Boards
<1>3. /\ i0 \in 1 .. L + 1
      /\ \A k \in 1 .. i0 - 1 : board[ray[k]] = Empty
      /\ i0 <= L => board[ray[i0]] # Empty
  BY <1>2, FreeRunIs
<1> HIDE DEF i0
<1>4. /\ rest \in Seq(Squares)
      /\ i0 <= L => Len(rest) = L - i0
      /\ \A k \in 1 .. L - i0 : rest[k] = ray[i0 + k]
  <2>1. \A k \in i0 + 1 .. L : ray[k] \in Squares
    BY <1>2, <1>3
  <2>2. i0 + 1 \in Int /\ L \in Int
    BY <1>2, <1>3
  <2>3. /\ rest \in Seq(Squares)
        /\ Len(rest) = IF i0 + 1 <= L THEN L - (i0 + 1) + 1 ELSE 0
        /\ \A k \in 1 .. L - (i0 + 1) + 1 : rest[k] = ray[(i0 + 1) + k - 1]
    BY <2>1, <2>2, SubSeqProperties
  <2>4. L - (i0 + 1) + 1 = L - i0 /\ \A k \in 1 .. L - i0 : (i0 + 1) + k - 1 = i0 + k
    BY <1>2, <1>3
  <2> HIDE DEF rest
  <2>5. i0 <= L => (i0 + 1 <= L \/ L - i0 = 0)
    BY <1>2, <1>3
  <2>6. i0 <= L => Len(rest) = L - i0
    BY <2>3, <2>4, <2>5
  <2>7. \A k \in 1 .. L - i0 : rest[k] = ray[i0 + k]
    <3> TAKE k \in 1 .. L - i0
    <3>1. rest[k] = ray[(i0 + 1) + k - 1]
      BY <2>3, <2>4
    <3> QED BY <2>4, <3>1
  <2> QED BY <2>3, <2>6, <2>7
<1> HIDE DEF rest
<1>5. /\ behind \in 0 .. Len(rest)
      /\ \A k \in 1 .. behind : board[rest[k]] = Empty
      /\ behind < Len(rest) => board[rest[behind + 1]] # Empty
  BY <1>4, FreeRunIs
<1> HIDE DEF behind
<1>6. behind \in Nat /\ Len(rest) \in Nat
  BY <1>5, <1>4
<1>7. /\ run \in 0 .. behind
      /\ king => run = behind
      /\ ~king => run \in {0, 1} /\ (run = 1 <=> behind >= 1)
  BY <1>6, MinOfOne
<1> HIDE DEF run
<1>8. \A i, j \in 1 .. L : i < j /\ Can(i, j) =>
         /\ i = i0 /\ ~stuck /\ j - i0 \in 1 .. run
  <2> SUFFICES ASSUME NEW i \in 1 .. L, NEW j \in 1 .. L, i < j, Can(i, j)
               PROVE  i = i0 /\ ~stuck /\ j - i0 \in 1 .. run
    OBVIOUS
  <2>1. /\ Colour(board[ray[i]]) = Other(colour) /\ ray[i] \notin ToSet(taken)
        /\ \A k \in 1 .. j : k # i => board[ray[k]] = Empty
        /\ ~king => i = 1 /\ j = 2
    BY DEF CanHop
  <2>2. board[ray[i]] # Empty /\ Colour(board[ray[i]]) # colour
    BY <2>1, ColourIs
  <2>3. ~(i \in 1 .. i0 - 1)
    BY <1>3, <2>2
  <2>4. i0 <= i /\ i0 \in 1 .. j /\ i0 <= L
    BY <1>2, <1>3, <2>3
  <2>5. i = i0
    BY <1>3, <2>1, <2>4
  <2>6. ~Blocked(board, colour, taken, ray[i0])
    <3>1. ~Contains(taken, ray[i])
      BY <2>1, SeqToSet DEF Contains
    <3> QED BY <2>2, <2>5, <3>1 DEF Blocked
  <2>7. ~stuck
    BY <1>3, <2>1, <2>4, <2>5, <2>6
  <2>8. Len(rest) = L - i0 /\ j - i0 \in 1 .. L - i0
    BY <1>2, <1>4, <2>4, <2>5
  <2>9. j - i0 <= behind
    <3> SUFFICES ASSUME ~(j - i0 <= behind) PROVE FALSE
      OBVIOUS
    <3>1. behind + 1 \in 1 .. L - i0 /\ behind < Len(rest) /\ i0 + (behind + 1) \in 1 .. j /\ i0 + (behind + 1) # i
      BY <1>2, <1>3, <1>6, <2>4, <2>5, <2>8
    <3>2. rest[behind + 1] = ray[i0 + (behind + 1)]
      BY <1>4, <3>1
    <3> QED BY <1>5, <2>1, <3>1, <3>2
  <2>10. CASE king
    BY <1>2, <1>3, <1>6, <1>7, <2>5, <2>7, <2>8, <2>9, <2>10
  <2>11. CASE ~king
    <3>1. j - i0 = 1 /\ behind >= 1
      BY <2>1, <2>5, <2>9, <2>11, <1>6
    <3>2. run = 1
      BY <1>7, <2>11, <3>1
    <3> QED BY <2>5, <2>7, <3>1, <3>2
  <2> QED BY <2>10, <2>11
<1>9. ASSUME ~stuck, NEW k \in 1 .. run
      PROVE  /\ i0 \in 1 .. L /\ i0 + k \in 1 .. L /\ i0 < i0 + k /\ Can(i0, i0 + k)
  <2>1. i0 \in 1 .. L /\ (~king => i0 = 1) /\ ~Blocked(board, colour, taken, ray[i0])
    BY <1>2, <1>3, <1>9
  <2>2. k \in 1 .. behind /\ Len(rest) = L - i0 /\ k <= L - i0
    BY <1>2, <1>4, <1>5, <1>6, <1>7, <2>1
  <2>3. i0 + k \in 1 .. L /\ i0 < i0 + k
    BY <1>2, <2>1, <2>2
  <2>4. board[ray[i0]] # Empty /\ Colour(board[ray[i0]]) # colour /\ ~Contains(taken, ray[i0])
    BY <1>3, <2>1 DEF Blocked
  <2>5. Colour(board[ray[i0]]) = Other(colour)
    BY <1>2, <2>1, <2>4, ColourIs
  <2>6. ray[i0] \notin ToSet(taken)
    BY <2>4, SeqToSet DEF Contains
  <2>7. ASSUME NEW m \in 1 .. i0 + k, m # i0 PROVE board[ray[m]] = Empty
    <3>1. CASE m < i0
      <4>1. m \in 1 .. i0 - 1
        BY <2>1, <3>1
      <4> QED BY <1>3, <4>1
    <3>2. CASE ~(m < i0)
      <4>1. m - i0 \in 1 .. behind /\ m - i0 \in 1 .. L - i0 /\ i0 + (m - i0) = m
        BY <1>2, <1>6, <2>1, <2>2, <2>7, <3>2
      <4>2. rest[m - i0] = ray[m]
        BY <1>4, <4>1
      <4> QED BY <1>5, <4>1, <4>2
    <3> QED BY <3>1, <3>2
  <2>8. ~king => i0 = 1 /\ i0 + k = 2
    BY <1>7, <2>1
  <2>9. Can(i0, i0 + k)
    BY <2>5, <2>6, <2>7, <2>8 DEF CanHop
  <2> QED BY <2>1, <2>3, <2>9
<1>10. CASE stuck
  <2>1. HopsAlong(board, colour, king, taken, ray) = <<>>
    BY <1>1, <1>10
  <2>2. <<>> \in Seq(HopSet) /\ \A h : h \notin ToSet(<<>>)
    BY SeqToSet, EmptySeq
  <2> QED BY <1>8, <1>10, <2>1, <2>2
<1>11. CASE ~stuck
  <2>1. HopsAlong(board, colour, king, taken, ray) = hops
    BY <1>1, <1>11
  <2>2. run \in Nat
    BY <1>6, <1>7
  <2>3. \A k \in 1 .. run : [over |-> ray[i0], onto |-> ray[i0 + k]] \in HopSet
    BY <1>2, <1>9, <1>11 DEF HopSet
  <2>4. hops \in Seq(HopSet) /\ Len(hops) = run
    BY <2>2, <2>3
  <2>5. \A h : h \in ToSet(hops) <=> \E k \in 1 .. run : h = [over |-> ray[i0], onto |-> ray[i0 + k]]
    <3>1. \A h : h \in ToSet(hops) <=> \E k \in 1 .. run : hops[k] = h
      BY <2>4, SeqToSet
    <3> QED BY <3>1
  <2>6. ASSUME NEW k \in 1 .. run
        PROVE  \E i, j \in 1 .. L : /\ i < j /\ [over |-> ray[i0], onto |-> ray[i0 + k]] = [over |-> ray[i], onto |-> ray[j]]
                                    /\ Can(i, j)
    BY <1>9, <1>11
  <2>7. ASSUME NEW i \in 1 .. L, NEW j \in 1 .. L, i < j, Can(i, j)
        PROVE  \E k \in 1 .. run : [over |-> ray[i], onto |-> ray[j]] = [over |-> ray[i0], onto |-> ray[i0 + k]]
    <3>1. i = i0 /\ j - i0 \in 1 .. run
      BY <1>8, <2>7
    <3>2. i0 + (j - i0) = j
      BY <1>3, <1>2
    <3> QED BY <3>1, <3>2
  <2> HIDE DEF Can, hops
  <2>8. ASSUME NEW h, h \in ToSet(hops)
        PROVE  \E i, j \in 1 .. L : i < j /\ h = [over |-> ray[i], onto |-> ray[j]] /\ Can(i, j)
    BY <2>5, <2>6, <2>8
  <2>9. ASSUME NEW h, \E i, j \in 1 .. L : i < j /\ h = [over |-> ray[i], onto |-> ray[j]] /\ Can(i, j)
        PROVE  h \in ToSet(hops)
    BY <2>5, <2>7, <2>9
  <2>10. \A h : h \in ToSet(hops) <=>
            \E i, j \in 1 .. L : i < j /\ h = [over |-> ray[i], onto |-> ray[j]] /\ Can(i, j)
    BY <2>8, <2>9
  <2>11. hops \in Seq(HopSet)
    BY <2>4
  <2> QED BY <2>1, <2>10, <2>11 DEF Can
<1> QED BY <1>10, <1>11
-----------------------------------------------------------------------------
(* Quiet moves, and where a capturing walk stands. *)
LEMMA SizeIs == Size \in Nat /\ Width \in Nat /\ Size * Width \in Nat /\ Squares = 1 .. Size * Width
<1>1. CASE Size = 4 BY <1>1 DEF Squares, Width
<1>2. CASE Size = 6 BY <1>2 DEF Squares, Width
<1>3. CASE Size = 8 BY <1>3 DEF Squares, Width
<1>4. CASE Size = 10 BY <1>4 DEF Squares, Width
<1> QED BY <1>1, <1>2, <1>3, <1>4, EngineAssumption

(* A side has finitely many pieces. *)
LEMMA PiecesFinite ==
  ASSUME NEW board, NEW colour
  PROVE  /\ IsFiniteSet(Pieces(board, colour)) /\ Cardinality(Pieces(board, colour)) \in Nat
         /\ Pieces(board, colour) \subseteq Squares
<1>1. IsFiniteSet(Squares)
  BY SizeIs, FS_Interval
<1>2. Pieces(board, colour) \in SUBSET Squares
  BY DEF Pieces
<1> QED BY <1>1, <1>2, FS_Subset, FS_CardinalityType

QuietMoves(board, colour) ==
    {m \in Moves : /\ Colour(board[m.from]) = colour /\ board[m.to] = Empty /\ m.captured = <<>>
                   /\ CanMoveQuietly(board, colour, m.from, m.to)}

(* The steps of one piece in one direction, as the loop lists them. *)
Steps(board, colour, sq, d) ==
    LET ray == Ray[sq][d]
        king == board[sq] \in Kings
        run == IF king THEN FreeRun(board, ray) ELSE Min({1, FreeRun(board, ray)})
    IN  IF king \/ d \in Forward(colour)
        THEN [k \in 1 .. run |-> [from |-> sq, to |-> ray[k], path |-> <<sq, ray[k]>>, captured |-> <<>>]]
        ELSE <<>>

(* The loop lists just the steps the rules allow in a direction. *)
LEMMA StepsAre ==
  ASSUME NEW board \in Boards, NEW colour \in Colours, NEW sq \in Squares, Colour(board[sq]) = colour, NEW d \in 1 .. 4
  PROVE  /\ Steps(board, colour, sq, d) \in Seq(QuietMoves(board, colour))
         /\ \A k \in 1 .. Len(Ray[sq][d]) : CanStep(board, colour, sq, d, k) =>
               \E m \in ToSet(Steps(board, colour, sq, d)) : m.from = sq /\ m.to = Ray[sq][d][k]
<1> DEFINE S == QuietMoves(board, colour)
           ray == Ray[sq][d]
           king == board[sq] \in Kings
           free == FreeRun(board, ray)
           run == IF king THEN free ELSE Min({1, free})
           move(k) == [from |-> sq, to |-> ray[k], path |-> <<sq, ray[k]>>, captured |-> <<>>]
           goes == king \/ d \in Forward(colour)
           steps == [k \in 1 .. run |-> move(k)]
<1>1. Steps(board, colour, sq, d) = IF goes THEN steps ELSE <<>>
  BY DEF Steps
<1>2. ray \in Seq(Squares) /\ Len(ray) \in Nat /\ \A k \in 1 .. Len(ray) : ray[k] \in Squares
  BY RayIs, LenProperties, ElementOfSeq
<1>20. \A k : CanStep(board, colour, sq, d, k) <=>
         (\A j \in 1 .. k : board[ray[j]] = Empty) /\ (~king => d \in Forward(colour) /\ k = 1)
  BY DEF CanStep
<1>21. \A k \in 1 .. Len(ray) : CanStep(board, colour, sq, d, k) => CanMoveQuietly(board, colour, sq, ray[k])
  BY DEF CanMoveQuietly
<1> HIDE DEF ray, king
<1>3. /\ free \in 0 .. Len(ray)
      /\ \A k \in 1 .. free : board[ray[k]] = Empty
      /\ free < Len(ray) => board[ray[free + 1]] # Empty
  BY <1>2, FreeRunIs
<1> HIDE DEF free
<1>4. free \in Nat /\ run \in 0 .. free /\ (king => run = free) /\ (~king => run \in {0, 1} /\ (run = 1 <=> free >= 1))
  BY <1>2, <1>3, MinOfOne
<1> HIDE DEF run
<1>5. ASSUME goes, NEW k \in 1 .. run PROVE move(k) \in S
  <2>1. k \in 1 .. free /\ k \in 1 .. Len(ray)
    BY <1>2, <1>3, <1>4
  <2>2. ray[k] \in Squares /\ board[ray[k]] = Empty
    BY <1>2, <1>3, <2>1
  <2>3. \A j \in 1 .. k : board[ray[j]] = Empty
    BY <1>3, <1>4, <2>1
  <2>4. ~king => d \in Forward(colour) /\ k = 1
    BY <1>4, <1>5
  <2>5. CanMoveQuietly(board, colour, sq, ray[k])
    BY <1>20, <1>21, <2>1, <2>3, <2>4
  <2> DEFINE to == ray[k]
  <2>6. to \in Squares /\ board[to] = Empty /\ CanMoveQuietly(board, colour, sq, to)
    BY <2>2, <2>5
  <2> HIDE DEF to
  <2>7. [from |-> sq, to |-> to, path |-> <<sq, to>>, captured |-> <<>>] \in S
    BY <2>6 DEF QuietMoves, Moves
  <2> QED BY <2>7 DEF to
<1>6. \A k : move(k).from = sq /\ move(k).to = ray[k]
  OBVIOUS
<1> HIDE DEF S, move, goes
<1>7. run \in Nat
  BY <1>4
<1>8. goes => steps \in Seq(S) /\ Len(steps) = run
  BY <1>5, <1>7
<1>9. Steps(board, colour, sq, d) \in Seq(S)
  BY <1>1, <1>8
<1>10. ASSUME NEW k \in 1 .. Len(ray), CanStep(board, colour, sq, d, k)
       PROVE  \E m \in ToSet(Steps(board, colour, sq, d)) : m.from = sq /\ m.to = ray[k]
  <2>1. (\A j \in 1 .. k : board[ray[j]] = Empty) /\ (~king => d \in Forward(colour) /\ k = 1)
    BY <1>10, <1>20
  <2>2. goes
    BY <2>1 DEF goes
  <2>3. k <= free
    <3> SUFFICES ASSUME ~(k <= free) PROVE FALSE
      OBVIOUS
    <3>1. free + 1 \in 1 .. k /\ free < Len(ray)
      BY <1>2, <1>4
    <3> QED BY <1>3, <2>1, <3>1
  <2>4. k \in 1 .. run
    BY <1>2, <1>4, <2>1, <2>3
  <2>5. steps \in Seq(S) /\ Len(steps) = run /\ steps[k] = move(k)
    BY <1>8, <2>2, <2>4
  <2> HIDE DEF steps
  <2>6. move(k) \in ToSet(steps)
    BY <2>4, <2>5, SeqToSet
  <2> QED BY <1>1, <1>6, <2>2, <2>6
<1> QED BY <1>9, <1>10 DEF S, ray

(* The quiet moves are those the rules allow: all of them, and no other. *)
LEMMA RegularAre ==
  ASSUME NEW board \in Boards, NEW colour \in Colours
  PROVE  /\ RegularMoves(board, colour) \in Seq(QuietMoves(board, colour))
         /\ \A sq \in Squares : \A to : CanMoveQuietly(board, colour, sq, to) =>
               \E m \in ToSet(RegularMoves(board, colour)) : m.from = sq /\ m.to = to
<1> DEFINE S == QuietMoves(board, colour)
           dirs(sq) == [d \in 1 .. 4 |-> Steps(board, colour, sq, d)]
           of(sq) == IF Colour(board[sq]) = colour THEN FlattenSeq(dirs(sq)) ELSE <<>>
           all == [sq \in 1 .. Size * Width |-> of(sq)]
<1>1. RegularMoves(board, colour) = FlattenSeq(all)
  BY DEF RegularMoves, Concat, Steps
<1> HIDE DEF S
<1>2. ASSUME NEW sq \in Squares, Colour(board[sq]) = colour
      PROVE  dirs(sq) \in [1 .. 4 -> Seq(S)] /\ \A d \in 1 .. 4 : dirs(sq)[d] = Steps(board, colour, sq, d)
  BY <1>2, StepsAre DEF S
<1> HIDE DEF dirs
<1>3. ASSUME NEW sq \in Squares, Colour(board[sq]) = colour
      PROVE  /\ FlattenSeq(dirs(sq)) \in Seq(S)
             /\ \A x : x \in ToSet(FlattenSeq(dirs(sq))) <=> \E d \in 1 .. 4 : x \in ToSet(Steps(board, colour, sq, d))
  <2>1. /\ FlattenSeq(dirs(sq)) \in Seq(S)
        /\ \A x : x \in ToSet(FlattenSeq(dirs(sq))) <=> \E d \in 1 .. 4 : x \in ToSet(dirs(sq)[d])
    BY <1>2, <1>3, FlattenHolds
  <2> QED BY <1>2, <1>3, <2>1
<1>4. ASSUME NEW sq \in Squares PROVE of(sq) \in Seq(S)
  BY <1>3
<1>5. \A sq : Colour(board[sq]) = colour => of(sq) = FlattenSeq(dirs(sq))
  OBVIOUS
<1> HIDE DEF of
<1>6. all \in [1 .. Size * Width -> Seq(S)] /\ \A sq \in Squares : all[sq] = of(sq)
  BY <1>4, SizeIs
<1> HIDE DEF all
<1>7. /\ FlattenSeq(all) \in Seq(S)
      /\ \A x : x \in ToSet(FlattenSeq(all)) <=> \E sq \in 1 .. Size * Width : x \in ToSet(all[sq])
  BY <1>6, SizeIs, FlattenHolds
<1>8. ASSUME NEW sq \in Squares, NEW to, CanMoveQuietly(board, colour, sq, to)
      PROVE  \E m \in ToSet(RegularMoves(board, colour)) : m.from = sq /\ m.to = to
  <2>1. PICK d \in 1 .. 4 : \E k \in 1 .. Len(Ray[sq][d]) : to = Ray[sq][d][k] /\ CanStep(board, colour, sq, d, k)
    BY <1>8 DEF CanMoveQuietly
  <2>2. PICK k \in 1 .. Len(Ray[sq][d]) : to = Ray[sq][d][k] /\ CanStep(board, colour, sq, d, k)
    BY <2>1
  <2>3. Colour(board[sq]) = colour
    BY <2>2 DEF CanStep
  <2>4. PICK m \in ToSet(Steps(board, colour, sq, d)) : m.from = sq /\ m.to = to
    BY <2>2, <2>3, StepsAre
  <2>5. m \in ToSet(all[sq])
    BY <1>3, <1>5, <1>6, <2>3, <2>4
  <2>6. m \in ToSet(RegularMoves(board, colour))
    BY <1>1, <1>7, <2>5, SizeIs
  <2> QED BY <2>4, <2>6
<1> QED BY <1>1, <1>7, <1>8 DEF S
-----------------------------------------------------------------------------
(* Where a walk stands, as the rules see it. *)
State(at) == [sq |-> Last(at.path), taken |-> ToSet(at.captured)]

(* NextHops without its set of triples. *)
LEMMA NextHopsAre ==
  ASSUME NEW board, NEW colour, NEW begin, NEW sq \in Squares, NEW taken
  PROVE  \A a : a \in NextHops(board, colour, begin, FALSE, [sq |-> sq, taken |-> taken]) <=>
           \E d \in 1 .. 4 : \E i, j \in 1 .. Len(Ray[sq][d]) :
              /\ i < j /\ a = [sq |-> Ray[sq][d][j], taken |-> taken \cup {Ray[sq][d][i]}]
              /\ CanHop(board, colour, board[begin] \in Kings, begin, FALSE, taken, Ray[sq][d], i, j)
<1> DEFINE ray(d) == Ray[sq][d]
           Can(d, i, j) == CanHop(board, colour, board[begin] \in Kings, begin, FALSE, taken, ray(d), i, j)
           H == {h \in (1 .. 4) \X (1 .. Size) \X (1 .. Size) :
                   h[2] < h[3] /\ h[3] <= Len(ray(h[1])) /\ Can(h[1], h[2], h[3])}
           to(d, i, j) == [sq |-> ray(d)[j], taken |-> taken \cup {ray(d)[i]}]
<1>1. NextHops(board, colour, begin, FALSE, [sq |-> sq, taken |-> taken]) = {to(h[1], h[2], h[3]) : h \in H}
  BY DEF NextHops
<1>2. \A d \in 1 .. 4 : Len(ray(d)) \in Nat /\ Len(ray(d)) <= Size /\ Size \in Nat
  <2> TAKE d \in 1 .. 4
  <2>1. ray(d) \in Seq(Squares) /\ Len(ray(d)) <= Size
    BY RayIs
  <2> HIDE DEF ray
  <2>2. Len(ray(d)) \in Nat
    BY <2>1, LenProperties
  <2> QED BY <2>1, <2>2, SizeIs
<1> HIDE DEF Can, to, ray
<1>3. ASSUME NEW a, NEW h \in H, a = to(h[1], h[2], h[3])
      PROVE  \E d \in 1 .. 4 : \E i, j \in 1 .. Len(ray(d)) : i < j /\ a = to(d, i, j) /\ Can(d, i, j)
  <2>1. h[1] \in 1 .. 4 /\ h[2] \in 1 .. Size /\ h[3] \in 1 .. Size
    OBVIOUS
  <2>2. h[2] < h[3] /\ h[3] <= Len(ray(h[1])) /\ Can(h[1], h[2], h[3])
    OBVIOUS
  <2> DEFINE d == h[1]
             i == h[2]
             j == h[3]
  <2>3. d \in 1 .. 4 /\ i \in 1 .. Size /\ j \in 1 .. Size /\ i < j /\ j <= Len(ray(d)) /\ Can(d, i, j) /\ a = to(d, i, j)
    BY <1>3, <2>1, <2>2
  <2> HIDE DEF d, i, j
  <2>4. i \in 1 .. Len(ray(d)) /\ j \in 1 .. Len(ray(d))
    BY <1>2, <2>3
  <2> QED BY <2>3, <2>4
<1>4. ASSUME NEW a, NEW d \in 1 .. 4, NEW i \in 1 .. Len(ray(d)), NEW j \in 1 .. Len(ray(d)),
             i < j, a = to(d, i, j), Can(d, i, j)
      PROVE  a \in {to(h[1], h[2], h[3]) : h \in H}
  <2>1. i \in 1 .. Size /\ j \in 1 .. Size /\ j <= Len(ray(d))
    BY <1>2
  <2>2. <<d, i, j>> \in H
    BY <1>4, <2>1
  <2> QED BY <1>4, <2>2
<1> HIDE DEF H
<1>5. \A a : a \in {to(h[1], h[2], h[3]) : h \in H} <=> \E h \in H : a = to(h[1], h[2], h[3])
  OBVIOUS
<1>6. \A a : a \in {to(h[1], h[2], h[3]) : h \in H} <=>
         \E d \in 1 .. 4 : \E i, j \in 1 .. Len(ray(d)) : i < j /\ a = to(d, i, j) /\ Can(d, i, j)
  BY <1>3, <1>4, <1>5
<1> QED BY <1>1, <1>6 DEF Can, to, ray

(* The hops of all four directions. *)
LEMMA HopsAre ==
  ASSUME NEW board \in Boards, NEW colour \in Colours, NEW begin, NEW at \in Walks, Last(at.path) \in Squares
  PROVE  LET hops == Hops(board, colour, board[begin] \in Kings, at)
         IN  /\ hops \in Seq(HopSet)
             /\ \A h : h \in ToSet(hops) <=>
                  \E d \in 1 .. 4 : \E i, j \in 1 .. Len(Ray[Last(at.path)][d]) :
                     /\ i < j /\ h = [over |-> Ray[Last(at.path)][d][i], onto |-> Ray[Last(at.path)][d][j]]
                     /\ CanHop(board, colour, board[begin] \in Kings, begin, FALSE, ToSet(at.captured),
                               Ray[Last(at.path)][d], i, j)
<1> DEFINE king == board[begin] \in Kings
           ray(d) == Ray[Last(at.path)][d]
           part(d) == HopsAlong(board, colour, king, at.captured, ray(d))
           parts == [d \in 1 .. 4 |-> part(d)]
           Can(d, i, j) == CanHop(board, colour, king, begin, FALSE, ToSet(at.captured), ray(d), i, j)
           Found(h, d) == \E i, j \in 1 .. Len(ray(d)) :
                             i < j /\ h = [over |-> ray(d)[i], onto |-> ray(d)[j]] /\ Can(d, i, j)
<1>1. Hops(board, colour, king, at) = FlattenSeq(parts)
  BY DEF Hops, Concat
<1>2. at.captured \in Seq(Squares) /\ king \in BOOLEAN
  BY DEF Walks
<1>3. \A d \in 1 .. 4 : ray(d) \in Seq(Squares)
  BY RayIs
<1> HIDE DEF ray, king
<1>4. \A d \in 1 .. 4 : part(d) \in Seq(HopSet) /\ \A h : h \in ToSet(part(d)) <=> Found(h, d)
  BY <1>2, <1>3, HopsAlongAre
<1> HIDE DEF part, Found
<1>5. parts \in [1 .. 4 -> Seq(HopSet)] /\ \A d \in 1 .. 4 : parts[d] = part(d)
  BY <1>4
<1> HIDE DEF parts
<1>6. FlattenSeq(parts) \in Seq(HopSet)
  BY <1>5, FlattenHolds
<1>7. \A h : h \in ToSet(FlattenSeq(parts)) <=> \E d \in 1 .. 4 : h \in ToSet(parts[d])
  BY <1>5, FlattenHolds
<1>8. \A h : h \in ToSet(FlattenSeq(parts)) <=> \E d \in 1 .. 4 : Found(h, d)
  BY <1>4, <1>5, <1>7
<1> QED BY <1>1, <1>6, <1>8 DEF Found, ray, king

Enemies(board, colour) == Pieces(board, Other(colour))
Going(at) == at \in Walks /\ at.path # <<>>

(* A hop lengthens the walk by a square and by a captured piece. *)
LEMMA OntoIs ==
  ASSUME NEW at, Going(at), NEW hop \in HopSet
  PROVE  /\ Going(Onto(at, hop))
         /\ State(Onto(at, hop)) = [sq |-> hop.onto, taken |-> ToSet(at.captured) \cup {hop.over}]
         /\ Onto(at, hop).captured \in Seq(Squares)
         /\ Len(Onto(at, hop).captured) = Len(at.captured) + 1
<1> DEFINE p == at.path
           c == at.captured
           on == hop.onto
           ov == hop.over
<1>1. p \in Seq(Squares) /\ c \in Seq(Squares) /\ on \in Squares /\ ov \in Squares
  BY DEF Going, Walks, HopSet
<1>2. Onto(at, hop) = [path |-> Append(p, on), captured |-> Append(c, ov)]
  BY DEF Onto
<1>3. Onto(at, hop).path = Append(p, on) /\ Onto(at, hop).captured = Append(c, ov)
  BY <1>2
<1> HIDE DEF p, c, on, ov
<1>4. Append(p, on) \in Seq(Squares) /\ Append(p, on) # <<>> /\ Last(Append(p, on)) = on
  BY <1>1 DEF Last
<1>5. Append(c, ov) \in Seq(Squares) /\ Len(Append(c, ov)) = Len(c) + 1
  BY <1>1
<1>6. ToSet(Append(c, ov)) = ToSet(c) \cup {ov}
  <2>1. Len(c) \in Nat
    BY <1>1
  <2>2. \A i \in 1 .. Len(c) + 1 : Append(c, ov)[i] = IF i <= Len(c) THEN c[i] ELSE ov
    BY <1>1
  <2>3. \A x : x \in ToSet(Append(c, ov)) <=> \E i \in 1 .. Len(c) + 1 : Append(c, ov)[i] = x
    BY <1>5, SeqToSet
  <2>4. \A x : x \in ToSet(c) <=> \E i \in 1 .. Len(c) : c[i] = x
    BY <1>1, SeqToSet
  <2>5. ASSUME NEW x, x \in ToSet(Append(c, ov)) PROVE x \in ToSet(c) \cup {ov}
    <3>1. PICK i \in 1 .. Len(c) + 1 : Append(c, ov)[i] = x
      BY <2>3, <2>5
    <3>2. CASE i <= Len(c)
      <4>1. i \in 1 .. Len(c) /\ c[i] = x
        BY <2>1, <2>2, <3>1, <3>2
      <4> QED BY <2>4, <4>1
    <3>3. CASE ~(i <= Len(c))
      BY <2>2, <3>1, <3>3
    <3> QED BY <3>2, <3>3
  <2>6. ASSUME NEW x \in ToSet(c) PROVE x \in ToSet(Append(c, ov))
    <3>1. PICK i \in 1 .. Len(c) : c[i] = x
      BY <2>4, <2>6
    <3>2. i \in 1 .. Len(c) + 1 /\ i <= Len(c)
      BY <2>1
    <3>3. Append(c, ov)[i] = x
      BY <2>2, <3>1, <3>2
    <3> QED BY <2>3, <3>2, <3>3
  <2>7. ov \in ToSet(Append(c, ov))
    <3>1. Len(c) + 1 \in 1 .. Len(c) + 1 /\ ~(Len(c) + 1 <= Len(c))
      BY <2>1
    <3>2. Append(c, ov)[Len(c) + 1] = ov
      BY <2>2, <3>1
    <3> QED BY <2>3, <3>1, <3>2
  <2> QED BY <2>5, <2>6, <2>7
<1>7. Going(Onto(at, hop))
  BY <1>2, <1>4, <1>5 DEF Going, Walks
<1>8. State(Onto(at, hop)) = [sq |-> on, taken |-> ToSet(c) \cup {ov}]
  BY <1>3, <1>4, <1>6 DEF State
<1>9. Onto(at, hop).captured \in Seq(Squares) /\ Len(Onto(at, hop).captured) = Len(c) + 1
  BY <1>3, <1>5
<1> QED BY <1>7, <1>8, <1>9 DEF c, ov, on

(* A hop takes one enemy more and ends on an empty square. *)
OneFurther(board, colour, at, a) ==
    /\ a.sq \in Squares /\ board[a.sq] = Empty /\ a = [sq |-> a.sq, taken |-> a.taken]
    /\ \E x \in Enemies(board, colour) \ at.taken : a.taken = at.taken \cup {x}

LEMMA NextHopsHold ==
  ASSUME NEW board, NEW colour, NEW begin, NEW at, at.sq \in Squares, at = [sq |-> at.sq, taken |-> at.taken],
         NEW a \in NextHops(board, colour, begin, FALSE, at)
  PROVE  OneFurther(board, colour, at, a)
<1> DEFINE sq == at.sq
           taken == at.taken
<1>0. sq \in Squares /\ a \in NextHops(board, colour, begin, FALSE, [sq |-> sq, taken |-> taken])
  OBVIOUS
<1> HIDE DEF sq, taken
<1> DEFINE ray(d) == Ray[sq][d]
           Can(d, i, j) == CanHop(board, colour, board[begin] \in Kings, begin, FALSE, taken, ray(d), i, j)
<1>1. PICK d \in 1 .. 4 : \E i, j \in 1 .. Len(ray(d)) :
         i < j /\ a = [sq |-> ray(d)[j], taken |-> taken \cup {ray(d)[i]}] /\ Can(d, i, j)
  BY <1>0, NextHopsAre
<1>2. PICK i \in 1 .. Len(ray(d)), j \in 1 .. Len(ray(d)) :
         i < j /\ a = [sq |-> ray(d)[j], taken |-> taken \cup {ray(d)[i]}] /\ Can(d, i, j)
  BY <1>1
<1>3. Colour(board[ray(d)[i]]) = Other(colour) /\ ray(d)[i] \notin taken
  BY <1>2 DEF CanHop
<1>4. Len(ray(d)) \in Nat
  BY <1>0, RayIs
<1>5. j \in 1 .. j /\ j # i
  BY <1>2, <1>4
<1>6. board[ray(d)[j]] = Empty
  BY <1>2, <1>5 DEF CanHop
<1>7. ray(d)[i] \in Squares /\ ray(d)[j] \in Squares
  BY <1>0, RayIs, ElementOfSeq
<1> HIDE DEF ray, Can
<1>8. ray(d)[i] \in Enemies(board, colour) \ taken
  BY <1>3, <1>7 DEF Enemies, Pieces
<1>9. a.sq = ray(d)[j] /\ a.taken = taken \cup {ray(d)[i]} /\ a = [sq |-> a.sq, taken |-> a.taken]
  BY <1>2
<1> QED BY <1>6, <1>7, <1>8, <1>9 DEF taken, OneFurther

(* From where a walk stands the loop goes on to just where the rules allow. *)
HopsOf(board, colour, begin, at) == Hops(board, colour, board[begin] \in Kings, at)
HopsLead(board, colour, begin, at, hops) ==
    /\ hops \in Seq(HopSet)
    /\ \A h \in 1 .. Len(hops) : /\ Going(Onto(at, hops[h]))
                                 /\ Len(Onto(at, hops[h]).captured) = Len(at.captured) + 1
                                 /\ State(Onto(at, hops[h])) \in NextHops(board, colour, begin, FALSE, State(at))
    /\ \A a \in NextHops(board, colour, begin, FALSE, State(at)) :
          \E h \in 1 .. Len(hops) : a = State(Onto(at, hops[h]))

LEMMA HopStep ==
  ASSUME NEW board \in Boards, NEW colour \in Colours, NEW begin, NEW at, Going(at)
  PROVE  HopsLead(board, colour, begin, at, HopsOf(board, colour, begin, at))
<1> DEFINE hops == Hops(board, colour, board[begin] \in Kings, at)
           sq == Last(at.path)
           taken == ToSet(at.captured)
           ray(d) == Ray[sq][d]
           Can(d, i, j) == CanHop(board, colour, board[begin] \in Kings, begin, FALSE, taken, ray(d), i, j)
           next == NextHops(board, colour, begin, FALSE, State(at))
<1>1. sq \in Squares /\ at \in Walks
  BY DEF Going, Walks, Last
<1>2. /\ hops \in Seq(HopSet)
      /\ \A h : h \in ToSet(hops) <=>
            \E d \in 1 .. 4 : \E i, j \in 1 .. Len(ray(d)) :
               i < j /\ h = [over |-> ray(d)[i], onto |-> ray(d)[j]] /\ Can(d, i, j)
  BY <1>1, HopsAre
<1> HIDE DEF hops
<1>3. \A a : a \in next <=>
         \E d \in 1 .. 4 : \E i, j \in 1 .. Len(ray(d)) :
            i < j /\ a = [sq |-> ray(d)[j], taken |-> taken \cup {ray(d)[i]}] /\ Can(d, i, j)
  BY <1>1, NextHopsAre DEF State
<1>5. \A h : h \in ToSet(hops) <=> \E k \in 1 .. Len(hops) : hops[k] = h
  BY <1>2, SeqToSet
<1>6. \A h \in 1 .. Len(hops) : hops[h] \in HopSet
  BY <1>2, ElementOfSeq
<1> HIDE DEF sq, taken, ray, Can, next
<1>8. ASSUME NEW a \in next
      PROVE  \E h \in 1 .. Len(hops) : a = State(Onto(at, hops[h]))
  <2>10. PICK d \in 1 .. 4 : \E i, j \in 1 .. Len(ray(d)) : i < j /\ a = [sq |-> ray(d)[j], taken |-> taken \cup {ray(d)[i]}] /\ Can(d, i, j)
    BY <1>3, <1>8
  <2>1. PICK i \in 1 .. Len(ray(d)), j \in 1 .. Len(ray(d)) : i < j /\ a = [sq |-> ray(d)[j], taken |-> taken \cup {ray(d)[i]}] /\ Can(d, i, j)
    BY <2>10
  <2> DEFINE h == [over |-> ray(d)[i], onto |-> ray(d)[j]]
  <2>2. h \in ToSet(hops)
    BY <1>2, <2>1
  <2>3. PICK k \in 1 .. Len(hops) : hops[k] = h
    BY <1>5, <2>2
  <2>4. State(Onto(at, hops[k])) = [sq |-> h.onto, taken |-> taken \cup {h.over}]
    BY <1>6, <2>3, OntoIs DEF taken
  <2>5. a = State(Onto(at, hops[k]))
    BY <2>1, <2>4
  <2> QED BY <2>5
<1>9. ASSUME NEW k \in 1 .. Len(hops)
      PROVE  /\ Going(Onto(at, hops[k])) /\ Len(Onto(at, hops[k]).captured) = Len(at.captured) + 1
             /\ State(Onto(at, hops[k])) \in next
  <2>1. hops[k] \in ToSet(hops)
    BY <1>5
  <2>20. PICK d \in 1 .. 4 : \E i, j \in 1 .. Len(ray(d)) : i < j /\ hops[k] = [over |-> ray(d)[i], onto |-> ray(d)[j]] /\ Can(d, i, j)
    BY <1>2, <2>1
  <2>2. PICK i \in 1 .. Len(ray(d)), j \in 1 .. Len(ray(d)) : i < j /\ hops[k] = [over |-> ray(d)[i], onto |-> ray(d)[j]] /\ Can(d, i, j)
    BY <2>20
  <2>3. State(Onto(at, hops[k])) = [sq |-> ray(d)[j], taken |-> taken \cup {ray(d)[i]}]
    <3>1. State(Onto(at, hops[k])) = [sq |-> hops[k].onto, taken |-> taken \cup {hops[k].over}]
      BY <1>6, OntoIs DEF taken
    <3>2. hops[k].onto = ray(d)[j] /\ hops[k].over = ray(d)[i]
      BY <2>2
    <3> QED BY <3>1, <3>2
  <2>4. State(Onto(at, hops[k])) \in next
    BY <1>3, <2>2, <2>3
  <2> QED BY <1>6, <2>4, OntoIs
<1>10. HopsLead(board, colour, begin, at, hops)
  BY <1>2, <1>8, <1>9 DEF next, HopsLead
<1> QED BY <1>10 DEF HopsOf, hops
-----------------------------------------------------------------------------
(* What the rules reach in n jumps. *)
Most(board, colour) == Cardinality(Enemies(board, colour))
NextLevel(board, colour, begin, ats) == UNION {NextHops(board, colour, begin, FALSE, at) : at \in ats}
Reaches(r, n, board, colour, begin) ==
    r = [k \in 0 .. n |-> IF k = 0 THEN {[sq |-> begin, taken |-> {}]}
                          ELSE NextLevel(board, colour, begin, r[k - 1])]
Level(board, colour, begin) == CHOOSE r : Reaches(r, Most(board, colour), board, colour, begin)
Depth(board, colour, begin) == Max({n \in 0 .. Most(board, colour) : Level(board, colour, begin)[n] # {}})

(* The reference definition, level by level. *)
LEMMA FurthestIs ==
  ASSUME NEW board, NEW colour, NEW begin
  PROVE  Furthest(board, colour, begin, FALSE) = Level(board, colour, begin)[Depth(board, colour, begin)]
  BY DEF Furthest, Level, Depth, Most, Enemies, Reaches, NextLevel

(* There is such a function, so CHOOSE finds it. *)
LEMMA ReachesExists ==
  ASSUME NEW n \in Nat, NEW board, NEW colour, NEW begin
  PROVE  \E r : Reaches(r, n, board, colour, begin)
<1> DEFINE first == {[sq |-> begin, taken |-> {}]}
           Onward(ats) == NextLevel(board, colour, begin, ats)
           T == {k \in 0 .. n : \E r : Reaches(r, k, board, colour, begin)}
<1>1. 0 \in T
  <2> DEFINE r == [k \in 0 .. 0 |-> first]
  <2>1. Reaches(r, 0, board, colour, begin)
    BY DEF Reaches
  <2> QED BY <2>1
<1>2. ASSUME NEW k \in 0 .. n - 1, k \in T PROVE k + 1 \in T
  <2>1. PICK r : Reaches(r, k, board, colour, begin)
    BY <1>2
  <2> HIDE DEF first
  <2> DEFINE h == [i \in 0 .. k + 1 |-> IF i = 0 THEN first ELSE Onward(r[i - 1])]
  <2>2. \A i \in 0 .. k : r[i] = IF i = 0 THEN first ELSE Onward(r[i - 1])
    BY <2>1 DEF Reaches, first
  <2>3. \A i \in 0 .. k : h[i] = r[i]
    <3> TAKE i \in 0 .. k
    <3>1. i \in 0 .. k + 1
      OBVIOUS
    <3> QED BY <2>2, <3>1
  <2>4. \A i \in 0 .. k + 1 : i # 0 => i - 1 \in 0 .. k
    OBVIOUS
  <2>5. \A i \in 0 .. k + 1 : h[i] = IF i = 0 THEN first ELSE Onward(h[i - 1])
    BY <2>3, <2>4
  <2>6. h = [i \in 0 .. k + 1 |-> h[i]]
    OBVIOUS
  <2> HIDE DEF h
  <2>7. Reaches(h, k + 1, board, colour, begin)
    BY <2>5, <2>6 DEF Reaches, first
  <2>8. k + 1 \in 0 .. n
    OBVIOUS
  <2> QED BY <2>7, <2>8
<1> HIDE DEF T
<1>3. \A k \in 0 .. n : k \in T
  BY <1>1, <1>2, Upward
<1>4. n \in T
  BY <1>3
<1> QED BY <1>4 DEF T

(* The first level is where the piece stands, the next all that is a jump on. *)
LEMMA LevelUnfolds ==
  ASSUME NEW board, NEW colour, NEW begin
  PROVE  /\ Most(board, colour) \in Nat
         /\ Level(board, colour, begin)[0] = {[sq |-> begin, taken |-> {}]}
         /\ \A k \in 1 .. Most(board, colour) :
               Level(board, colour, begin)[k] = NextLevel(board, colour, begin, Level(board, colour, begin)[k - 1])
<1> DEFINE n == Most(board, colour)
           r == Level(board, colour, begin)
<1>1. n \in Nat
  BY PiecesFinite DEF Most, Enemies
<1> HIDE DEF n
<1>2. Reaches(r, n, board, colour, begin)
  BY <1>1, ReachesExists DEF Level, n
<1> HIDE DEF r
<1>3. \A k \in 0 .. n : r[k] = IF k = 0 THEN {[sq |-> begin, taken |-> {}]} ELSE NextLevel(board, colour, begin, r[k - 1])
  BY <1>2 DEF Reaches
<1>4. 0 \in 0 .. n /\ \A k \in 1 .. n : k \in 0 .. n /\ k # 0
  BY <1>1
<1>5. r[0] = {[sq |-> begin, taken |-> {}]} /\ \A k \in 1 .. n : r[k] = NextLevel(board, colour, begin, r[k - 1])
  BY <1>3, <1>4
<1> QED BY <1>1, <1>5 DEF n, r

(* After n jumps n enemies are taken and the piece stands on an empty square. *)
LevelPlace(board, colour, begin, n, a) ==
    /\ a.sq \in Squares /\ a = [sq |-> a.sq, taken |-> a.taken]
    /\ a.taken \in SUBSET Enemies(board, colour)
    /\ IsFiniteSet(a.taken) /\ Cardinality(a.taken) = n
    /\ n = 0 \/ board[a.sq] = Empty

LEMMA NextPlace ==
  ASSUME NEW board, NEW colour, NEW begin, NEW k \in Nat, NEW at, LevelPlace(board, colour, begin, k, at),
         NEW a \in NextHops(board, colour, begin, FALSE, at)
  PROVE  LevelPlace(board, colour, begin, k + 1, a)
<1> DEFINE sq == at.sq
           taken == at.taken
<1>1. /\ sq \in Squares /\ at = [sq |-> sq, taken |-> taken] /\ taken \in SUBSET Enemies(board, colour)
      /\ IsFiniteSet(taken) /\ Cardinality(taken) = k
  BY DEF LevelPlace
<1>2. at.sq \in Squares /\ at = [sq |-> at.sq, taken |-> at.taken]
  BY DEF LevelPlace
<1>20. OneFurther(board, colour, at, a)
  BY <1>2, NextHopsHold
<1>3. a.sq \in Squares /\ board[a.sq] = Empty /\ a = [sq |-> a.sq, taken |-> a.taken]
  BY <1>20 DEF OneFurther
<1>4. PICK x \in Enemies(board, colour) \ taken : a.taken = taken \cup {x}
  BY <1>20 DEF OneFurther, taken
<1> HIDE DEF sq, taken
<1>5. IsFiniteSet(a.taken) /\ Cardinality(a.taken) = k + 1
  BY <1>1, <1>4, FS_AddElement
<1>6. a.taken \in SUBSET Enemies(board, colour)
  BY <1>1, <1>4
<1> QED BY <1>3, <1>5, <1>6 DEF LevelPlace

(* After k jumps k enemies are taken. *)
LEMMA LevelHolds ==
  ASSUME NEW board, NEW colour, NEW begin \in Squares
  PROVE  \A k \in 0 .. Most(board, colour) : \A a \in Level(board, colour, begin)[k] :
            LevelPlace(board, colour, begin, k, a)
<1> DEFINE n == Most(board, colour)
           lv == Level(board, colour, begin)
           T == {k \in 0 .. n : \A a \in lv[k] : LevelPlace(board, colour, begin, k, a)}
<1>1. n \in Nat /\ lv[0] = {[sq |-> begin, taken |-> {}]}
  BY LevelUnfolds
<1>2. \A k \in 1 .. n : lv[k] = NextLevel(board, colour, begin, lv[k - 1])
  BY LevelUnfolds
<1> HIDE DEF n, lv
<1>3. 0 \in T
  <2>1. LevelPlace(board, colour, begin, 0, [sq |-> begin, taken |-> {}])
    BY FS_EmptySet DEF LevelPlace
  <2> DEFINE a == [sq |-> begin, taken |-> {}]
  <2>2. lv[0] = {a} /\ LevelPlace(board, colour, begin, 0, a)
    BY <1>1, <2>1
  <2> HIDE DEF a
  <2>3. \A b \in lv[0] : LevelPlace(board, colour, begin, 0, b)
    BY <2>2
  <2>4. 0 \in 0 .. n
    BY <1>1
  <2> QED BY <2>3, <2>4
<1>4. ASSUME NEW k \in 0 .. n - 1, k \in T PROVE k + 1 \in T
  <2>1. k + 1 \in 1 .. n /\ (k + 1) - 1 = k /\ k \in Nat /\ k + 1 \in 0 .. n /\ k + 1 # 0
    BY <1>1
  <2>2. lv[k + 1] = NextLevel(board, colour, begin, lv[k])
    BY <1>2, <2>1
  <2>3. ASSUME NEW a \in lv[k + 1] PROVE LevelPlace(board, colour, begin, k + 1, a)
    <3>1. PICK at \in lv[k] : a \in NextHops(board, colour, begin, FALSE, at)
      BY <2>2 DEF NextLevel
    <3>2. LevelPlace(board, colour, begin, k, at)
      BY <1>4
    <3> QED BY <2>1, <3>1, <3>2, NextPlace
  <2> QED BY <2>1, <2>3
<1> HIDE DEF T
<1>5. \A k \in 0 .. n : k \in T
  BY <1>1, <1>3, <1>4, Upward
<1>6. \A k \in 0 .. n : \A a \in lv[k] : LevelPlace(board, colour, begin, k, a)
  BY <1>5 DEF T
<1> QED BY <1>6 DEF n, lv

(* With all the enemies taken there is nothing left to jump. *)
LEMMA LevelEnds ==
  ASSUME NEW board, NEW colour, NEW begin \in Squares
  PROVE  NextLevel(board, colour, begin, Level(board, colour, begin)[Most(board, colour)]) = {}
<1> DEFINE n == Most(board, colour)
           lv == Level(board, colour, begin)
<1>1. n \in Nat
  BY LevelUnfolds
<1>2. n \in 0 .. n
  BY <1>1
<1> SUFFICES ASSUME NEW at \in lv[n], NEW a \in NextHops(board, colour, begin, FALSE, at) PROVE FALSE
  BY DEF NextLevel
<1>3. LevelPlace(board, colour, begin, n, at)
  BY <1>2, LevelHolds
<1>4. at.sq \in Squares /\ at = [sq |-> at.sq, taken |-> at.taken]
  BY <1>3 DEF LevelPlace
<1>5. \E x : x \in Enemies(board, colour) \ at.taken
  BY <1>4, NextHopsHold DEF OneFurther
<1>6. at.taken \in SUBSET Enemies(board, colour) /\ Cardinality(at.taken) = n
  BY <1>3 DEF LevelPlace
<1>7. at.taken = Enemies(board, colour)
  BY <1>6, PiecesFinite, FS_Subset DEF Most, Enemies
<1> QED BY <1>5, <1>7

(* The depth is the last level that is not empty: nothing goes on from it. *)
LEMMA DepthIs ==
  ASSUME NEW board, NEW colour, NEW begin \in Squares
  PROVE  /\ Depth(board, colour, begin) \in 0 .. Most(board, colour)
         /\ Level(board, colour, begin)[Depth(board, colour, begin)] # {}
         /\ \A k \in 0 .. Most(board, colour) :
               Level(board, colour, begin)[k] # {} => k <= Depth(board, colour, begin)
         /\ NextLevel(board, colour, begin, Level(board, colour, begin)[Depth(board, colour, begin)]) = {}
<1> DEFINE n == Most(board, colour)
           lv == Level(board, colour, begin)
           B == {k \in 0 .. n : lv[k] # {}}
           m == Max(B)
<1>1. n \in Nat /\ lv[0] # {}
  BY LevelUnfolds
<1>2. \A k \in 1 .. n : lv[k] = NextLevel(board, colour, begin, lv[k - 1])
  BY LevelUnfolds
<1>3. NextLevel(board, colour, begin, lv[n]) = {}
  BY LevelEnds
<1>4. Depth(board, colour, begin) = m
  BY DEF Depth
<1> HIDE DEF n, lv
<1>5. B \in SUBSET (0 .. n) /\ B # {}
  <2>1. 0 \in B
    BY <1>1
  <2> QED BY <2>1
<1>6. m \in B /\ \A k \in B : m >= k
  BY <1>1, <1>5, MaxIs
<1> HIDE DEF m
<1>7. m \in 0 .. n /\ lv[m] # {} /\ \A k \in 0 .. n : lv[k] # {} => k <= m
  BY <1>6
<1>8. NextLevel(board, colour, begin, lv[m]) = {}
  <2>1. CASE m = n
    BY <1>3, <2>1
  <2>2. CASE m # n
    <3>1. m + 1 \in 1 .. n /\ m + 1 \in 0 .. n /\ (m + 1) - 1 = m /\ ~(m + 1 <= m)
      BY <1>1, <1>7, <2>2
    <3>2. lv[m + 1] = {}
      BY <1>7, <3>1
    <3> QED BY <1>2, <3>1, <3>2
  <2> QED BY <2>1, <2>2
<1> QED BY <1>4, <1>7, <1>8 DEF n, lv
-----------------------------------------------------------------------------
(* What the search finds, depth first. *)
(* What the search returns for a walk, given what it returns one jump on. *)
Ending(sq, at) ==
    IF at.captured = <<>> THEN <<>>
    ELSE <<[from |-> sq, to |-> Last(at.path), path |-> at.path, captured |-> at.captured]>>
Explored(board, colour, sq, further, n, at) ==
    LET hops == HopsOf(board, colour, sq, at)
    IN  IF n > 0 /\ hops # <<>> THEN Concat(Len(hops), LAMBDA h : further[Onto(at, hops[h])])
        ELSE Ending(sq, at)
Searches(s, n, board, colour, sq) ==
    s = [k \in 0 .. n |-> [at \in Walks |-> Explored(board, colour, sq, s[k - 1], k, at)]]
Explorer(board, colour, sq) == CHOOSE s : Searches(s, Most(board, colour), board, colour, sq)

(* The search, as the function its recursion defines. *)
LEMMA SearchIs ==
  ASSUME NEW board, NEW colour, NEW sq
  PROVE  Search(board, colour, sq) =
           Explorer(board, colour, sq)[Most(board, colour)][[path |-> <<sq>>, captured |-> <<>>]]
  BY DEF Search, Explorer, Searches, Explored, HopsOf, Ending, Most, Enemies

(* With no jumps left the rest of the recursion does not matter. *)
LEMMA ExploredAtNought ==
  ASSUME NEW board, NEW colour, NEW sq, NEW further, NEW other, NEW at
  PROVE  Explored(board, colour, sq, further, 0, at) = Explored(board, colour, sq, other, 0, at)
<1>1. \A f : Explored(board, colour, sq, f, 0, at) = Ending(sq, at)
  BY DEF Explored
<1> QED BY <1>1

(* There is such a function too. *)
LEMMA SearchesExists ==
  ASSUME NEW n \in Nat, NEW board, NEW colour, NEW sq
  PROVE  \E s : Searches(s, n, board, colour, sq)
<1> DEFINE E(f, k) == [at \in Walks |-> Explored(board, colour, sq, f, k, at)]
           T == {k \in 0 .. n : \E s : Searches(s, k, board, colour, sq)}
<1>0. \A f, g : E(f, 0) = E(g, 0)
  BY ExploredAtNought
<1>1. \A s, k : Searches(s, k, board, colour, sq) <=> s = [i \in 0 .. k |-> E(s[i - 1], i)]
  BY DEF Searches
<1> HIDE DEF E
<1>2. 0 \in T
  <2> DEFINE s == [i \in 0 .. 0 |-> E(0, 0)]
  <2>1. \A i \in 0 .. 0 : s[i] = E(s[i - 1], i)
    BY <1>0
  <2>2. s = [i \in 0 .. 0 |-> s[i]]
    OBVIOUS
  <2> HIDE DEF s
  <2>3. s = [i \in 0 .. 0 |-> E(s[i - 1], i)]
    BY <2>1, <2>2
  <2>4. Searches(s, 0, board, colour, sq)
    BY <1>1, <2>3
  <2> QED BY <2>4
<1>3. ASSUME NEW k \in 0 .. n - 1, k \in T PROVE k + 1 \in T
  <2>1. PICK s : Searches(s, k, board, colour, sq)
    BY <1>3
  <2>2. \A i \in 0 .. k : s[i] = E(s[i - 1], i)
    <3>1. s = [i \in 0 .. k |-> E(s[i - 1], i)]
      BY <1>1, <2>1
    <3> DEFINE P(i) == E(s[i - 1], i)
    <3>2. s = [i \in 0 .. k |-> P(i)]
      BY <3>1
    <3> HIDE DEF P
    <3>3. \A i \in 0 .. k : s[i] = P(i)
      BY <3>2
    <3> QED BY <3>3 DEF P
  <2> DEFINE P(i) == E(s[i - 1], i)
             h == [i \in 0 .. k + 1 |-> P(i)]
  <2>3. \A i \in 0 .. k : s[i] = P(i)
    BY <2>2
  <2>30. \A i : P(i) = E(s[i - 1], i)
    OBVIOUS
  <2> HIDE DEF P
  <2>4. \A i \in 0 .. k + 1 : h[i] = P(i)
    OBVIOUS
  <2>5. h = [i \in 0 .. k + 1 |-> h[i]]
    OBVIOUS
  <2> HIDE DEF h
  <2>6. \A i \in 0 .. k : h[i] = s[i]
    <3> TAKE i \in 0 .. k
    <3>1. i \in 0 .. k + 1
      OBVIOUS
    <3> QED BY <2>3, <2>4, <3>1
  <2>7. \A i \in 0 .. k + 1 : h[i] = E(h[i - 1], i)
    <3> TAKE i \in 0 .. k + 1
    <3>1. CASE i = 0
      BY <1>0, <2>30, <2>4, <3>1
    <3>2. CASE i # 0
      <4>1. i - 1 \in 0 .. k
        BY <3>2
      <4>2. h[i - 1] = s[i - 1]
        BY <2>6, <4>1
      <4> QED BY <2>30, <2>4, <4>2
    <3> QED BY <3>1, <3>2
  <2>8. h = [i \in 0 .. k + 1 |-> E(h[i - 1], i)]
    <3> DEFINE Q(i) == E(h[i - 1], i)
    <3>1. \A i \in 0 .. k + 1 : h[i] = Q(i)
      BY <2>7
    <3> HIDE DEF Q
    <3>2. h = [i \in 0 .. k + 1 |-> Q(i)]
      BY <2>5, <3>1
    <3> QED BY <3>2 DEF Q
  <2>9. Searches(h, k + 1, board, colour, sq)
    BY <1>1, <2>8
  <2>10. k + 1 \in 0 .. n
    OBVIOUS
  <2> QED BY <2>9, <2>10
<1> HIDE DEF T
<1>4. \A k \in 0 .. n : k \in T
  BY <1>2, <1>3, Upward
<1>5. n \in T
  BY <1>4
<1> QED BY <1>5 DEF T

(* What the search returns for a walk, unfolded once. *)
LEMMA ExplorerUnfolds ==
  ASSUME NEW board, NEW colour, NEW sq, NEW n \in 0 .. Most(board, colour), NEW at \in Walks
  PROVE  Explorer(board, colour, sq)[n][at] =
           Explored(board, colour, sq, Explorer(board, colour, sq)[n - 1], n, at)
<1> DEFINE m == Most(board, colour)
           s == Explorer(board, colour, sq)
           E(f, k) == [w \in Walks |-> Explored(board, colour, sq, f, k, w)]
           P(k) == E(s[k - 1], k)
<1>1. m \in Nat
  BY LevelUnfolds
<1>2. Searches(s, m, board, colour, sq)
  BY <1>1, SearchesExists DEF Explorer
<1> HIDE DEF s, m
<1>3. s = [k \in 0 .. m |-> P(k)]
  BY <1>2 DEF Searches
<1>4. n \in 0 .. m
  BY DEF m
<1> HIDE DEF P
<1>5. s[n] = P(n)
  BY <1>3, <1>4
<1>6. P(n)[at] = Explored(board, colour, sq, s[n - 1], n, at)
  BY DEF P
<1> QED BY <1>5, <1>6 DEF s

(* A walk that the search may be on with n jumps still to be made. *)
OnWalk(board, colour, sq, n, at) ==
    /\ Going(at) /\ Len(at.captured) + n = Most(board, colour)
    /\ State(at) \in Level(board, colour, sq)[Len(at.captured)]

(* A capture of k pieces that the rules reach in k jumps. *)
CapturesFrom(board, colour, sq) ==
    {m \in Moves : /\ m.from = sq /\ Len(m.captured) \in 1 .. Most(board, colour)
                   /\ [sq |-> m.to, taken |-> ToSet(m.captured)] \in Level(board, colour, sq)[Len(m.captured)]}

LEMMA OnWalkIs ==
  ASSUME NEW board, NEW colour, NEW sq, NEW n \in 0 .. Most(board, colour), NEW at, OnWalk(board, colour, sq, n, at)
  PROVE  /\ at \in Walks /\ at.path \in Seq(Squares) /\ at.captured \in Seq(Squares)
         /\ Last(at.path) \in Squares /\ Len(at.captured) = Most(board, colour) - n
         /\ Len(at.captured) \in 0 .. Most(board, colour)
<1>1. Most(board, colour) \in Nat
  BY LevelUnfolds
<1>2. at \in Walks /\ at.path # <<>> /\ Len(at.captured) + n = Most(board, colour)
  BY DEF OnWalk, Going
<1>3. at.path \in Seq(Squares) /\ at.captured \in Seq(Squares)
  BY <1>2 DEF Walks
<1>4. Len(at.path) \in Nat \ {0} /\ Len(at.captured) \in Nat
  BY <1>2, <1>3, EmptySeq, LenProperties
<1>5. Last(at.path) \in Squares
  BY <1>3, <1>4 DEF Last
<1>6. Len(at.captured) = Most(board, colour) - n /\ Len(at.captured) \in 0 .. Most(board, colour)
  BY <1>1, <1>2, <1>4
<1> QED BY <1>2, <1>3, <1>5, <1>6

(* A walk that ends is returned as the capture it made. *)
LEMMA EndingIs ==
  ASSUME NEW board, NEW colour, NEW sq \in Squares, NEW n \in 0 .. Most(board, colour), NEW at,
         OnWalk(board, colour, sq, n, at)
  PROVE  /\ Ending(sq, at) \in Seq(CapturesFrom(board, colour, sq))
         /\ at.captured # <<>> =>
              \E m \in ToSet(Ending(sq, at)) :
                 m.to = Last(at.path) /\ m.captured = at.captured
<1>1. CASE at.captured = <<>>
  <2>1. Ending(sq, at) = <<>>
    BY <1>1 DEF Ending
  <2> QED BY <1>1, <2>1, EmptySeq
<1>2. CASE at.captured # <<>>
  <2> DEFINE m == [from |-> sq, to |-> Last(at.path), path |-> at.path, captured |-> at.captured]
  <2>1. Ending(sq, at) = <<m>>
    BY <1>2 DEF Ending
  <2>2. m \in Moves
    BY OnWalkIs DEF Moves
  <2>3. Len(at.captured) \in 1 .. Most(board, colour)
    <3>1. Len(at.captured) # 0
      BY <1>2, OnWalkIs, EmptySeq
    <3>2. Len(at.captured) \in 0 .. Most(board, colour) /\ Most(board, colour) \in Nat
      BY OnWalkIs, LevelUnfolds
    <3> QED BY <3>1, <3>2
  <2>4. [sq |-> Last(at.path), taken |-> ToSet(at.captured)] \in Level(board, colour, sq)[Len(at.captured)]
    BY DEF OnWalk, State
  <2>5. m.from = sq /\ m.to = Last(at.path) /\ m.captured = at.captured
    OBVIOUS
  <2> HIDE DEF m
  <2>6. m \in CapturesFrom(board, colour, sq)
    BY <2>2, <2>3, <2>4, <2>5 DEF CapturesFrom
  <2>7. <<m>> \in Seq(CapturesFrom(board, colour, sq)) /\ m \in ToSet(<<m>>)
    <3>1. <<m>> \in Seq(CapturesFrom(board, colour, sq)) /\ Len(<<m>>) = 1 /\ <<m>>[1] = m
      BY <2>6
    <3>2. 1 \in 1 .. 1
      OBVIOUS
    <3> QED BY <3>1, <3>2, SeqToSet
  <2> QED BY <2>1, <2>5, <2>7
<1> QED BY <1>1, <1>2

(* One jump on, the walk is still one the rules allow. *)
LEMMA StepOn ==
  ASSUME NEW board \in Boards, NEW colour \in Colours, NEW sq \in Squares, NEW n \in 0 .. Most(board, colour), n > 0,
         NEW at, OnWalk(board, colour, sq, n, at)
  PROVE  /\ HopsOf(board, colour, sq, at) \in Seq(HopSet)
         /\ n - 1 \in 0 .. Most(board, colour)
         /\ \A h \in 1 .. Len(HopsOf(board, colour, sq, at)) :
               OnWalk(board, colour, sq, n - 1, Onto(at, HopsOf(board, colour, sq, at)[h]))
<1> DEFINE k == Len(at.captured)
           lv == Level(board, colour, sq)
           most == Most(board, colour)
           hops == HopsOf(board, colour, sq, at)
<1>1. most \in Nat /\ k \in 0 .. most /\ k = most - n /\ Going(at) /\ State(at) \in lv[k]
  BY OnWalkIs, LevelUnfolds DEF OnWalk
<1>2. k + 1 \in 1 .. most /\ (k + 1) - 1 = k /\ n - 1 \in 0 .. most /\ (k + 1) + (n - 1) = most
  BY <1>1
<1>3. lv[k + 1] = NextLevel(board, colour, sq, lv[k])
  BY <1>2, LevelUnfolds
<1>0. HopsLead(board, colour, sq, at, hops)
  BY <1>1, HopStep
<1> HIDE DEF hops
<1>4. ASSUME NEW h \in 1 .. Len(hops) PROVE OnWalk(board, colour, sq, n - 1, Onto(at, hops[h]))
  <2> DEFINE to == Onto(at, hops[h])
  <2>1. /\ Going(to) /\ Len(to.captured) = Len(at.captured) + 1
        /\ State(to) \in NextHops(board, colour, sq, FALSE, State(at))
    BY <1>0 DEF HopsLead
  <2> HIDE DEF to
  <2>2. State(to) \in lv[k + 1]
    BY <1>1, <1>3, <2>1 DEF NextLevel
  <2>3. Len(to.captured) = k + 1
    BY <2>1
  <2> HIDE DEF k, lv, most
  <2>4. OnWalk(board, colour, sq, n - 1, to)
    BY <1>2, <2>1, <2>2, <2>3 DEF OnWalk, lv, most
  <2> QED BY <2>4 DEF to
<1>5. hops \in Seq(HopSet)
  BY <1>0 DEF HopsLead
<1> QED BY <1>2, <1>4, <1>5 DEF hops

(* Whatever the search returns, the rules allow. *)
LEMMA SearchSound ==
  ASSUME NEW board \in Boards, NEW colour \in Colours, NEW sq \in Squares
  PROVE  \A n \in 0 .. Most(board, colour) : \A at :
            OnWalk(board, colour, sq, n, at) =>
              Explorer(board, colour, sq)[n][at] \in Seq(CapturesFrom(board, colour, sq))
<1> DEFINE most == Most(board, colour)
           s == Explorer(board, colour, sq)
           C == CapturesFrom(board, colour, sq)
           T == {n \in 0 .. most : \A at : OnWalk(board, colour, sq, n, at) => s[n][at] \in Seq(C)}
<1>1. most \in Nat
  BY LevelUnfolds
<1>2. ASSUME NEW n \in 0 .. most, NEW at, OnWalk(board, colour, sq, n, at)
      PROVE  s[n][at] = Explored(board, colour, sq, s[n - 1], n, at) /\ Ending(sq, at) \in Seq(C)
  BY <1>2, ExplorerUnfolds, OnWalkIs, EndingIs
<1> HIDE DEF s, C
<1>3. 0 \in T
  <2> SUFFICES ASSUME NEW at, OnWalk(board, colour, sq, 0, at) PROVE s[0][at] \in Seq(C)
    BY <1>1
  <2>1. 0 \in 0 .. most
    BY <1>1
  <2>2. s[0][at] = Explored(board, colour, sq, s[0 - 1], 0, at) /\ Ending(sq, at) \in Seq(C)
    BY <1>2, <2>1
  <2>3. \A f : Explored(board, colour, sq, f, 0, at) = Ending(sq, at)
    BY DEF Explored
  <2> QED BY <2>2, <2>3
<1>4. ASSUME NEW n \in 0 .. most - 1, n \in T PROVE n + 1 \in T
  <2>1. n + 1 \in 0 .. most /\ n + 1 > 0 /\ (n + 1) - 1 = n
    BY <1>1
  <2> SUFFICES ASSUME NEW at, OnWalk(board, colour, sq, n + 1, at) PROVE s[n + 1][at] \in Seq(C)
    BY <2>1
  <2> DEFINE hops == HopsOf(board, colour, sq, at)
             N == Len(hops)
             parts == [h \in 1 .. N |-> s[n][Onto(at, hops[h])]]
  <2>2. s[n + 1][at] = Explored(board, colour, sq, s[n], n + 1, at) /\ Ending(sq, at) \in Seq(C)
    BY <1>2, <2>1
  <2>3. s[n + 1][at] = IF hops # <<>> THEN FlattenSeq(parts) ELSE Ending(sq, at)
    BY <2>1, <2>2 DEF Explored, Concat
  <2>4. hops \in Seq(HopSet) /\ \A h \in 1 .. Len(hops) : OnWalk(board, colour, sq, n, Onto(at, hops[h]))
    BY <2>1, StepOn
  <2> HIDE DEF hops
  <2>5. N \in Nat /\ parts \in [1 .. N -> Seq(C)]
    BY <1>4, <2>4
  <2> HIDE DEF N, parts
  <2>6. FlattenSeq(parts) \in Seq(C)
    BY <2>5, FlattenHolds
  <2> QED BY <2>2, <2>3, <2>6
<1> HIDE DEF T
<1>5. \A n \in 0 .. most : n \in T
  BY <1>1, <1>3, <1>4, Upward
<1>6. \A n \in 0 .. most : \A at : OnWalk(board, colour, sq, n, at) => s[n][at] \in Seq(C)
  BY <1>5 DEF T
<1> QED BY <1>6 DEF most, s, C

Begin(sq) == [path |-> <<sq>>, captured |-> <<>>]
Found(board, colour, sq) == Explorer(board, colour, sq)[Most(board, colour)][Begin(sq)]

(* The search begins on such a walk. *)
LEMMA BeginIs ==
  ASSUME NEW board, NEW colour, NEW sq \in Squares
  PROVE  OnWalk(board, colour, sq, Most(board, colour), Begin(sq)) /\ State(Begin(sq)) = [sq |-> sq, taken |-> {}]
<1> DEFINE p == <<sq>>
           c == <<>>
<1>1. p \in Seq(Squares) /\ p # <<>> /\ Last(p) = sq
  BY DEF Last
<1>2. c \in Seq(Squares) /\ Len(c) = 0
  OBVIOUS
<1>3. ToSet(c) = {}
  BY <1>2, SeqToSet
<1>4. Begin(sq).path = p /\ Begin(sq).captured = c /\ Begin(sq) = [path |-> p, captured |-> c]
  BY DEF Begin
<1> HIDE DEF p, c
<1>5. Going(Begin(sq))
  BY <1>1, <1>2, <1>4 DEF Going, Walks
<1>6. State(Begin(sq)) = [sq |-> sq, taken |-> {}]
  BY <1>1, <1>3, <1>4 DEF State
<1>7. Len(Begin(sq).captured) = 0
  BY <1>2, <1>4
<1>8. Most(board, colour) \in Nat /\ Level(board, colour, sq)[0] = {[sq |-> sq, taken |-> {}]}
  BY LevelUnfolds
<1>9. State(Begin(sq)) \in Level(board, colour, sq)[Len(Begin(sq).captured)]
  BY <1>6, <1>7, <1>8
<1>10. Len(Begin(sq).captured) + Most(board, colour) = Most(board, colour)
  BY <1>7, <1>8
<1> QED BY <1>5, <1>6, <1>9, <1>10 DEF OnWalk

(* The search passes where the rules pass, and returns what it finds there. *)
Covers(board, colour, sq, k, a) ==
    \E at : /\ OnWalk(board, colour, sq, Most(board, colour) - k, at) /\ State(at) = a
            /\ \A m \in ToSet(Explorer(board, colour, sq)[Most(board, colour) - k][at]) :
                  m \in ToSet(Found(board, colour, sq))

LEMMA SearchPasses ==
  ASSUME NEW board \in Boards, NEW colour \in Colours, NEW sq \in Squares
  PROVE  \A k \in 0 .. Most(board, colour) : \A a \in Level(board, colour, sq)[k] : Covers(board, colour, sq, k, a)
<1> DEFINE most == Most(board, colour)
           lv == Level(board, colour, sq)
           s == Explorer(board, colour, sq)
           C == CapturesFrom(board, colour, sq)
           T == {k \in 0 .. most : \A a \in lv[k] : Covers(board, colour, sq, k, a)}
<1>1. most \in Nat /\ lv[0] = {[sq |-> sq, taken |-> {}]}
  BY LevelUnfolds
<1>2. \A k \in 1 .. most : lv[k] = NextLevel(board, colour, sq, lv[k - 1])
  BY LevelUnfolds
<1>3. \A k, a : Covers(board, colour, sq, k, a) <=>
         \E at : /\ OnWalk(board, colour, sq, most - k, at) /\ State(at) = a
                 /\ \A m \in ToSet(s[most - k][at]) : m \in ToSet(Found(board, colour, sq))
  BY DEF Covers
<1>4. \A n \in 0 .. most : \A at : OnWalk(board, colour, sq, n, at) => s[n][at] \in Seq(C)
  BY SearchSound
<1>5. \A n \in 0 .. most : \A at : OnWalk(board, colour, sq, n, at) =>
         s[n][at] = Explored(board, colour, sq, s[n - 1], n, at)
  BY ExplorerUnfolds, OnWalkIs
<1>6. s[most][Begin(sq)] = Found(board, colour, sq)
  BY DEF Found
<1> HIDE DEF s, C, lv, most
<1>7. 0 \in T
  <2>1. OnWalk(board, colour, sq, most - 0, Begin(sq)) /\ State(Begin(sq)) = [sq |-> sq, taken |-> {}] /\ most - 0 = most
    BY <1>1, BeginIs DEF most
  <2>2. Covers(board, colour, sq, 0, [sq |-> sq, taken |-> {}])
    BY <1>3, <1>6, <2>1
  <2> QED BY <1>1, <2>2
<1>8. ASSUME NEW k \in 0 .. most - 1, k \in T PROVE k + 1 \in T
  <2> DEFINE n == most - k
  <2>1. /\ k + 1 \in 1 .. most /\ k + 1 \in 0 .. most /\ (k + 1) - 1 = k
        /\ n \in 0 .. most /\ n > 0 /\ n - 1 \in 0 .. most /\ most - (k + 1) = n - 1
    BY <1>1
  <2>10. n = most - k
    OBVIOUS
  <2> HIDE DEF n
  <2>2. ASSUME NEW a \in lv[k + 1] PROVE Covers(board, colour, sq, k + 1, a)
    <3>0. lv[k + 1] = NextLevel(board, colour, sq, lv[k])
      BY <1>2, <2>1
    <3>1. PICK b \in lv[k] : a \in NextHops(board, colour, sq, FALSE, b)
      BY <2>2, <3>0 DEF NextLevel
    <3>2. Covers(board, colour, sq, k, b)
      BY <1>8
    <3>3. PICK at : /\ OnWalk(board, colour, sq, n, at) /\ State(at) = b
                    /\ \A m \in ToSet(s[n][at]) : m \in ToSet(Found(board, colour, sq))
      BY <1>3, <2>10, <3>2
    <3> DEFINE hops == HopsOf(board, colour, sq, at)
               N == Len(hops)
               parts == [h \in 1 .. N |-> s[n - 1][Onto(at, hops[h])]]
    <3>4. Going(at)
      BY <3>3 DEF OnWalk
    <3>5. HopsLead(board, colour, sq, at, hops)
      BY <3>4, HopStep
    <3>6. hops \in Seq(HopSet) /\ \A h \in 1 .. N : OnWalk(board, colour, sq, n - 1, Onto(at, hops[h]))
      BY <2>1, <3>3, StepOn DEF most
    <3>70. s[n][at] = Explored(board, colour, sq, s[n - 1], n, at)
      BY <1>5, <2>1, <3>3
    <3>7. s[n][at] = IF hops # <<>> THEN FlattenSeq(parts) ELSE Ending(sq, at)
      BY <2>1, <3>70 DEF Explored, Concat
    <3> HIDE DEF hops
    <3>8. PICK h \in 1 .. N : a = State(Onto(at, hops[h]))
      BY <3>1, <3>3, <3>5 DEF HopsLead
    <3>9. hops # <<>>
      BY <3>6, <3>8
    <3>10. N \in Nat /\ parts \in [1 .. N -> Seq(C)] /\ parts[h] = s[n - 1][Onto(at, hops[h])]
      BY <1>4, <2>1, <3>6
    <3> HIDE DEF N, parts
    <3>11. \A m \in ToSet(parts[h]) : m \in ToSet(FlattenSeq(parts))
      BY <3>10, FlattenHolds
    <3>12. \A m \in ToSet(s[n - 1][Onto(at, hops[h])]) : m \in ToSet(Found(board, colour, sq))
      BY <3>3, <3>7, <3>9, <3>10, <3>11
    <3> DEFINE to == Onto(at, hops[h])
    <3>13. OnWalk(board, colour, sq, n - 1, to)
      BY <3>6 DEF N
    <3>14. State(to) = a /\ \A m \in ToSet(s[n - 1][to]) : m \in ToSet(Found(board, colour, sq))
      BY <3>8, <3>12
    <3> HIDE DEF to
    <3> QED BY <1>3, <2>1, <3>13, <3>14
  <2> QED BY <2>1, <2>2
<1> HIDE DEF T
<1>9. \A k \in 0 .. most : k \in T
  BY <1>1, <1>7, <1>8, Upward
<1>10. \A k \in 0 .. most : \A a \in lv[k] : Covers(board, colour, sq, k, a)
  BY <1>9 DEF T
<1> QED BY <1>10 DEF most, lv

(* The model gives the search no more jumps than there are enemies, where the  *)
(* code's getCapturePathsForSquare has no bound: it never stops short for it. *)
THEOREM SearchEndsByItself ==
  ASSUME NEW board \in Boards, NEW colour \in Colours, NEW sq \in Squares, NEW at, OnWalk(board, colour, sq, 0, at)
  PROVE  HopsOf(board, colour, sq, at) = <<>>
<1> DEFINE n == Most(board, colour)
           hops == HopsOf(board, colour, sq, at)
<1>1. n \in Nat /\ Going(at) /\ Len(at.captured) + 0 = n
  BY LevelUnfolds DEF OnWalk
<1>2. Len(at.captured) \in Nat
  BY <1>1 DEF Going, Walks
<1>3. State(at) \in Level(board, colour, sq)[n]
  <2>1. Len(at.captured) = n
    BY <1>1, <1>2
  <2> QED BY <2>1 DEF OnWalk
<1>4. NextHops(board, colour, sq, FALSE, State(at)) = {}
  <2> DEFINE ats == Level(board, colour, sq)[n]
             a == State(at)
  <2>1. NextLevel(board, colour, sq, ats) = {} /\ a \in ats
    BY <1>3, LevelEnds
  <2> HIDE DEF ats, a
  <2>2. NextHops(board, colour, sq, FALSE, a) = {}
    BY <2>1 DEF NextLevel
  <2> QED BY <2>2 DEF a
<1>5. HopsLead(board, colour, sq, at, hops)
  BY <1>1, HopStep
<1> HIDE DEF hops
<1>6. hops \in Seq(HopSet) /\ \A h \in 1 .. Len(hops) : FALSE
  BY <1>4, <1>5 DEF HopsLead
<1>7. Len(hops) \in Nat
  BY <1>6
<1>8. Len(hops) = 0
  BY <1>6, <1>7
<1> QED BY <1>6, <1>8, EmptySeq DEF hops

(* From a square the search returns captures the rules allow, and all that   *)
(* take as many pieces as any that begins there.                             *)
LEMMA FoundIs ==
  ASSUME NEW board \in Boards, NEW colour \in Colours, NEW sq \in Squares
  PROVE  /\ Search(board, colour, sq) \in Seq(CapturesFrom(board, colour, sq))
         /\ Depth(board, colour, sq) > 0 =>
              \A a \in Level(board, colour, sq)[Depth(board, colour, sq)] :
                 \E m \in ToSet(Search(board, colour, sq)) :
                    [sq |-> m.to, taken |-> ToSet(m.captured)] = a /\ Len(m.captured) = Depth(board, colour, sq)
<1> DEFINE most == Most(board, colour)
           lv == Level(board, colour, sq)
           K == Depth(board, colour, sq)
           n == most - K
           s == Explorer(board, colour, sq)
<1>1. Search(board, colour, sq) = Found(board, colour, sq)
  BY SearchIs DEF Found, Begin
<1>2. most \in Nat /\ K \in 0 .. most /\ NextLevel(board, colour, sq, lv[K]) = {}
  BY LevelUnfolds, DepthIs
<1>3. Found(board, colour, sq) \in Seq(CapturesFrom(board, colour, sq))
  <2>1. most \in 0 .. most
    BY <1>2
  <2> QED BY <2>1, BeginIs, SearchSound DEF Found
<1>4. ASSUME K > 0, NEW a \in lv[K]
      PROVE  \E m \in ToSet(Found(board, colour, sq)) :
                [sq |-> m.to, taken |-> ToSet(m.captured)] = a /\ Len(m.captured) = K
  <2>1. Covers(board, colour, sq, K, a)
    BY <1>2, SearchPasses
  <2>2. PICK at : /\ OnWalk(board, colour, sq, n, at) /\ State(at) = a
                  /\ \A m \in ToSet(s[n][at]) : m \in ToSet(Found(board, colour, sq))
    BY <2>1 DEF Covers
  <2>3. n \in 0 .. most /\ most - n = K
    BY <1>2
  <2>4. Len(at.captured) = K /\ at \in Walks /\ at.captured \in Seq(Squares)
    BY <2>2, <2>3, OnWalkIs
  <2> DEFINE hops == HopsOf(board, colour, sq, at)
  <2>5. HopsLead(board, colour, sq, at, hops)
    BY <2>2, HopStep DEF OnWalk
  <2>6. NextHops(board, colour, sq, FALSE, State(at)) = {}
    BY <1>2, <1>4, <2>2 DEF NextLevel
  <2>70. s[n][at] = Explored(board, colour, sq, s[n - 1], n, at)
    BY <2>3, <2>4, ExplorerUnfolds
  <2> HIDE DEF hops
  <2>7. hops = <<>>
    <3>1. hops \in Seq(HopSet) /\ \A h \in 1 .. Len(hops) : FALSE
      BY <2>5, <2>6 DEF HopsLead
    <3>2. Len(hops) \in Nat
      BY <3>1
    <3>3. Len(hops) = 0
      BY <3>1, <3>2
    <3> QED BY <3>1, <3>3, EmptySeq
  <2>72. Explored(board, colour, sq, s[n - 1], n, at) = Ending(sq, at)
    <3> HIDE DEF n
    <3> QED BY <2>7 DEF Explored, hops
  <2>8. s[n][at] = Ending(sq, at)
    BY <2>70, <2>72
  <2>9. at.captured # <<>>
    BY <1>4, <2>4
  <2>10. PICK m \in ToSet(Ending(sq, at)) : m.to = Last(at.path) /\ m.captured = at.captured
    BY <2>2, <2>3, <2>9, EndingIs
  <2>11. [sq |-> m.to, taken |-> ToSet(m.captured)] = State(at)
    BY <2>10 DEF State
  <2>12. m \in ToSet(Found(board, colour, sq))
    BY <2>2, <2>8, <2>10
  <2> QED BY <2>2, <2>4, <2>10, <2>11, <2>12
<1> QED BY <1>1, <1>3, <1>4
-----------------------------------------------------------------------------
(* The captures of a side, the longest of them, and its legal moves. *)
(* The captures of the side to move, with all their pieces. *)
CaptureMoves(board, colour) == {m \in Moves : Colour(board[m.from]) = colour /\ m \in CapturesFrom(board, colour, m.from)}
CapturesAt(board, colour, sq) == IF Colour(board[sq]) = colour THEN Search(board, colour, sq) ELSE <<>>
Captures(board, colour) == FlattenSeq([sq \in 1 .. Size * Width |-> CapturesAt(board, colour, sq)])

(* What a capture of the search is to the rules. *)
RuleCapture(board, colour, m) ==
    /\ m.from \in Pieces(board, colour) /\ m.to \in Squares /\ board[m.to] = Empty
    /\ ToSet(m.captured) \in SUBSET Enemies(board, colour)
    /\ Len(m.captured) \in 1 .. Depth(board, colour, m.from)
    /\ Cardinality(ToSet(m.captured)) = Len(m.captured)
    /\ [sq |-> m.to, taken |-> ToSet(m.captured)] \in Level(board, colour, m.from)[Len(m.captured)]

(* Its pieces are enemies, each taken once, and it ends on an empty square. *)
LEMMA CaptureMovesAre ==
  ASSUME NEW board \in Boards, NEW colour \in Colours, NEW m \in CaptureMoves(board, colour)
  PROVE  RuleCapture(board, colour, m)
<1> DEFINE sq == m.from
           k == Len(m.captured)
           a == [sq |-> m.to, taken |-> ToSet(m.captured)]
<1>1. m \in Moves /\ sq \in Squares /\ Colour(board[sq]) = colour /\ m \in CapturesFrom(board, colour, sq)
  BY DEF CaptureMoves, Moves
<1>2. k \in 1 .. Most(board, colour) /\ a \in Level(board, colour, sq)[k]
  BY <1>1 DEF CapturesFrom
<1>3. Most(board, colour) \in Nat
  BY LevelUnfolds
<1>4. k \in 0 .. Most(board, colour) /\ k # 0
  BY <1>2, <1>3
<1>5. LevelPlace(board, colour, sq, k, a)
  BY <1>1, <1>2, <1>4, LevelHolds
<1>6. k <= Depth(board, colour, sq) /\ Depth(board, colour, sq) \in 0 .. Most(board, colour)
  BY <1>1, <1>2, <1>4, DepthIs
<1>7. a.sq = m.to /\ a.taken = ToSet(m.captured)
  OBVIOUS
<1>8. sq \in Pieces(board, colour)
  BY <1>1 DEF Pieces
<1> HIDE DEF a, k
<1>9. k \in 1 .. Depth(board, colour, sq)
  BY <1>2, <1>3, <1>6
<1>10. m.to \in Squares /\ board[m.to] = Empty /\ ToSet(m.captured) \in SUBSET Enemies(board, colour)
       /\ Cardinality(ToSet(m.captured)) = k
  BY <1>4, <1>5, <1>7 DEF LevelPlace
<1> QED BY <1>2, <1>8, <1>9, <1>10 DEF RuleCapture, a, k

(* All the captures of a side are captures by the rules, the deepest of each piece among them. *)
LEMMA CapturesAre ==
  ASSUME NEW board \in Boards, NEW colour \in Colours
  PROVE  /\ Captures(board, colour) \in Seq(CaptureMoves(board, colour))
         /\ \A sq \in Pieces(board, colour) : Depth(board, colour, sq) > 0 =>
              \A a \in Level(board, colour, sq)[Depth(board, colour, sq)] :
                 \E m \in ToSet(Captures(board, colour)) :
                    m.from = sq /\ [sq |-> m.to, taken |-> ToSet(m.captured)] = a
                                /\ Len(m.captured) = Depth(board, colour, sq)
<1> DEFINE S == CaptureMoves(board, colour)
           parts == [sq \in 1 .. Size * Width |-> CapturesAt(board, colour, sq)]
<1>1. ASSUME NEW sq \in Squares PROVE CapturesAt(board, colour, sq) \in Seq(S)
  <2>1. CASE Colour(board[sq]) = colour
    <3>1. Search(board, colour, sq) \in Seq(CapturesFrom(board, colour, sq))
      BY FoundIs
    <3>2. \A m \in CapturesFrom(board, colour, sq) : m \in S
      BY <2>1 DEF CaptureMoves, CapturesFrom
    <3>3. Search(board, colour, sq) \in Seq(S)
      BY <3>1, <3>2
    <3> QED BY <2>1, <3>3 DEF CapturesAt
  <2>2. CASE Colour(board[sq]) # colour
    BY <2>2 DEF CapturesAt
  <2> QED BY <2>1, <2>2
<1> HIDE DEF S
<1>2. parts \in [1 .. Size * Width -> Seq(S)] /\ \A sq \in Squares : parts[sq] = CapturesAt(board, colour, sq)
  BY <1>1, SizeIs
<1>3. Captures(board, colour) = FlattenSeq(parts)
  BY DEF Captures
<1> HIDE DEF parts
<1>4. /\ FlattenSeq(parts) \in Seq(S)
      /\ \A x : x \in ToSet(FlattenSeq(parts)) <=> \E i \in 1 .. Size * Width : x \in ToSet(parts[i])
  BY <1>2, SizeIs, FlattenHolds
<1>5. ASSUME NEW sq \in Pieces(board, colour), Depth(board, colour, sq) > 0,
             NEW a \in Level(board, colour, sq)[Depth(board, colour, sq)]
      PROVE  \E m \in ToSet(Captures(board, colour)) :
                m.from = sq /\ [sq |-> m.to, taken |-> ToSet(m.captured)] = a
                            /\ Len(m.captured) = Depth(board, colour, sq)
  <2>1. sq \in Squares /\ Colour(board[sq]) = colour
    BY DEF Pieces
  <2>2. PICK m \in ToSet(Search(board, colour, sq)) :
          [sq |-> m.to, taken |-> ToSet(m.captured)] = a /\ Len(m.captured) = Depth(board, colour, sq)
    BY <1>5, <2>1, FoundIs
  <2>3. m \in CapturesFrom(board, colour, sq)
    BY <2>1, FoundIs, SeqToSet
  <2>4. m.from = sq
    BY <2>3 DEF CapturesFrom
  <2>5. parts[sq] = Search(board, colour, sq)
    BY <1>2, <2>1 DEF CapturesAt
  <2>6. m \in ToSet(Captures(board, colour))
    BY <1>3, <1>4, <2>1, <2>2, <2>5, SizeIs
  <2> QED BY <2>2, <2>4, <2>6
<1> QED BY <1>3, <1>4, <1>5 DEF S

EndOf(sq, at) == [from |-> sq, to |-> at.sq, taken |-> at.taken]

(* The best capture is the deepest level any piece reaches. *)
LEMMA BestIs ==
  ASSUME NEW board \in Boards, NEW colour \in Colours
  PROVE  /\ Best(board, colour) \in 0 .. Most(board, colour)
         /\ \A sq \in Pieces(board, colour) : Depth(board, colour, sq) <= Best(board, colour)
         /\ Best(board, colour) > 0 => \E sq \in Pieces(board, colour) : Depth(board, colour, sq) = Best(board, colour)
         /\ \A e : e \in LongestCaptures(board, colour, FALSE) <=>
              /\ Best(board, colour) > 0
              /\ \E sq \in Pieces(board, colour) :
                    /\ Depth(board, colour, sq) = Best(board, colour)
                    /\ \E a \in Level(board, colour, sq)[Best(board, colour)] : e = EndOf(sq, a)
<1> DEFINE n == Most(board, colour)
           P == Pieces(board, colour)
           depth(sq) == Depth(board, colour, sq)
           far(sq) == Furthest(board, colour, sq, FALSE)
           ends == UNION {{EndOf(sq, at) : at \in far(sq)} : sq \in P}
           B == {Cardinality(e.taken) : e \in ends} \cup {0}
           most == Max(B)
<1>1. n \in Nat /\ P \subseteq Squares
  BY LevelUnfolds, PiecesFinite
<1>2. Best(board, colour) = most
  BY DEF Best, CaptureEnds, EndOf
<1>3. LongestCaptures(board, colour, FALSE) = {e \in ends : Cardinality(e.taken) = most /\ most > 0}
  BY DEF LongestCaptures, CaptureEnds, EndOf, Best
<1>30. \A sq : far(sq) = Level(board, colour, sq)[depth(sq)]
  BY FurthestIs
<1> HIDE DEF far
<1>4. \A sq \in P : depth(sq) \in 0 .. n /\ far(sq) # {}
  BY <1>1, <1>30, DepthIs
<1>5. \A sq \in P : \A a \in far(sq) : Cardinality(a.taken) = depth(sq)
  BY <1>1, <1>30, <1>4, LevelHolds DEF LevelPlace
<1>50. \A sq, a : EndOf(sq, a).taken = a.taken
  BY DEF EndOf
<1>6. \A e : e \in ends <=> \E sq \in P : \E a \in far(sq) : e = EndOf(sq, a)
  OBVIOUS
<1> HIDE DEF ends, P
<1>60. \A sq \in P : \A a \in far(sq) : Cardinality(EndOf(sq, a).taken) = depth(sq)
  BY <1>5, <1>50
<1> HIDE DEF depth, n
<1>7. \A x : x \in B <=> x = 0 \/ \E sq \in P : x = depth(sq)
  <2>1. \A x : x \in B <=> x = 0 \/ \E e \in ends : x = Cardinality(e.taken)
    OBVIOUS
  <2>2. ASSUME NEW e \in ends PROVE \E sq \in P : Cardinality(e.taken) = depth(sq)
    <3>1. PICK sq \in P : \E a \in far(sq) : e = EndOf(sq, a)
      BY <1>6
    <3> QED BY <1>60, <3>1
  <2>3. ASSUME NEW sq \in P PROVE \E e \in ends : depth(sq) = Cardinality(e.taken)
    <3>1. PICK a \in far(sq) : TRUE
      BY <1>4
    <3>2. EndOf(sq, a) \in ends
      BY <1>6
    <3> QED BY <1>60, <3>2
  <2> QED BY <2>1, <2>2, <2>3
<1> HIDE DEF B
<1>8. B \in SUBSET (0 .. n) /\ B # {}
  BY <1>1, <1>4, <1>7
<1>9. most \in B /\ \A x \in B : most >= x
  BY <1>1, <1>8, MaxIs
<1> HIDE DEF most
<1>10. most \in 0 .. n /\ \A sq \in P : depth(sq) <= most
  <2>1. \A sq \in P : depth(sq) \in B
    BY <1>7
  <2> QED BY <1>1, <1>4, <1>8, <1>9, <2>1
<1>11. most > 0 => \E sq \in P : depth(sq) = most
  BY <1>7, <1>9
<1>12. ASSUME NEW e, e \in ends, Cardinality(e.taken) = most
       PROVE  \E sq \in P : depth(sq) = most /\ \E a \in far(sq) : e = EndOf(sq, a)
  <2>1. PICK sq \in P : \E a \in far(sq) : e = EndOf(sq, a)
    BY <1>6, <1>12
  <2>2. depth(sq) = most
    BY <1>12, <1>60, <2>1
  <2> QED BY <2>1, <2>2
<1>13. ASSUME NEW e, NEW sq \in P, depth(sq) = most, NEW a \in far(sq), e = EndOf(sq, a)
       PROVE  e \in ends /\ Cardinality(e.taken) = most
  BY <1>6, <1>13, <1>60
<1>14. \A e : e \in LongestCaptures(board, colour, FALSE) <=>
          most > 0 /\ \E sq \in P : depth(sq) = most /\ \E a \in far(sq) : e = EndOf(sq, a)
  BY <1>3, <1>12, <1>13
<1>15. \A sq : depth(sq) = most => far(sq) = Level(board, colour, sq)[most]
  BY <1>30
<1>16. \A e : e \in LongestCaptures(board, colour, FALSE) <=>
          most > 0 /\ \E sq \in P : depth(sq) = most /\ \E a \in Level(board, colour, sq)[most] : e = EndOf(sq, a)
  BY <1>14, <1>15
<1> QED BY <1>2, <1>10, <1>11, <1>16 DEF depth, n, P

(* Of the captures, those that take most are kept. *)
LEMMA LongestIs ==
  ASSUME NEW S, NEW captures \in Seq(S), captures # <<>>, NEW most \in Nat, NEW M \in 0 .. most,
         \A m \in ToSet(captures) : Len(m.captured) \in 0 .. M,
         \E m \in ToSet(captures) : Len(m.captured) = M
  PROVE  /\ Longest(captures) \in Seq(S)
         /\ \A m : m \in ToSet(Longest(captures)) <=> m \in ToSet(captures) /\ Len(m.captured) = M
<1> DEFINE n == Len(captures)
           size(m) == Len(m.captured)
           B == {Len(captures[i].captured) : i \in DOMAIN captures}
           part(i) == IF size(captures[i]) = Max(B) THEN <<captures[i]>> ELSE <<>>
           parts == [i \in 1 .. n |-> part(i)]
<1>1. n \in Nat /\ DOMAIN captures = 1 .. n /\ \A i \in 1 .. n : captures[i] \in S
  BY LenProperties, ElementOfSeq
<1>2. \A m : m \in ToSet(captures) <=> \E i \in 1 .. n : captures[i] = m
  BY SeqToSet
<1>3. Longest(captures) = FlattenSeq(parts)
  BY DEF Longest, Concat
<1>4. B = {size(captures[i]) : i \in 1 .. n}
  BY <1>1
<1> HIDE DEF B
<1>5. \A i \in 1 .. n : size(captures[i]) \in 0 .. M
  BY <1>2
<1>6. \E i \in 1 .. n : size(captures[i]) = M
  BY <1>2
<1> HIDE DEF size, n
<1>7. B \in SUBSET (0 .. M) /\ M \in B
  BY <1>4, <1>5, <1>6
<1>70. M \in Nat /\ B # {}
  BY <1>7
<1>8. Max(B) \in B /\ \A k \in B : Max(B) >= k
  BY <1>70, <1>7, MaxIs
<1>9. Max(B) = M
  <2> DEFINE x == Max(B)
  <2>1. x \in 0 .. M /\ x >= M
    BY <1>7, <1>8
  <2> HIDE DEF x
  <2>2. x = M
    BY <1>70, <2>1
  <2> QED BY <2>2 DEF x
<1>10. \A i \in 1 .. n : part(i) = IF size(captures[i]) = M THEN <<captures[i]>> ELSE <<>>
  BY <1>9
<1> HIDE DEF part
<1>11. ASSUME NEW i \in 1 .. n
       PROVE  part(i) \in Seq(S) /\ \A x : x \in ToSet(part(i)) <=> x = captures[i] /\ size(captures[i]) = M
  <2> DEFINE c == captures[i]
  <2>1. c \in S
    BY <1>1
  <2>2. part(i) = IF size(c) = M THEN <<c>> ELSE <<>>
    BY <1>10
  <2> HIDE DEF c
  <2>3. <<c>> \in Seq(S) /\ \A x : x \in ToSet(<<c>>) <=> x = c
    <3>1. <<c>> \in Seq(S) /\ Len(<<c>>) = 1 /\ <<c>>[1] = c
      BY <2>1
    <3>2. \A x : x \in ToSet(<<c>>) <=> \E j \in 1 .. Len(<<c>>) : <<c>>[j] = x
      BY <3>1, SeqToSet
    <3> QED BY <3>1, <3>2
  <2>4. <<>> \in Seq(S) /\ \A x : x \notin ToSet(<<>>)
    <3>1. <<>> \in Seq(S)
      OBVIOUS
    <3> QED BY <3>1, SeqToSet
  <2>5. part(i) \in Seq(S) /\ \A x : x \in ToSet(part(i)) <=> x = c /\ size(c) = M
    BY <2>2, <2>3, <2>4
  <2> QED BY <2>5 DEF c
<1>12. parts \in [1 .. n -> Seq(S)] /\ \A i \in 1 .. n : parts[i] = part(i)
  BY <1>11
<1> HIDE DEF parts
<1>13. /\ FlattenSeq(parts) \in Seq(S)
       /\ \A x : x \in ToSet(FlattenSeq(parts)) <=> \E i \in 1 .. n : x \in ToSet(parts[i])
  BY <1>1, <1>12, FlattenHolds
<1>14. \A x : x \in ToSet(FlattenSeq(parts)) <=> \E i \in 1 .. n : x = captures[i] /\ size(captures[i]) = M
  BY <1>11, <1>12, <1>13
<1>15. \A x : x \in ToSet(FlattenSeq(parts)) <=> x \in ToSet(captures) /\ size(x) = M
  BY <1>2, <1>14
<1> QED BY <1>3, <1>13, <1>15 DEF size

(* What the search keeps is what the rules force. *)
LEMMA MaxCapturesAre ==
  ASSUME NEW board \in Boards, NEW colour \in Colours
  PROVE  /\ MaxCapturePaths(board, colour) \in Seq(CaptureMoves(board, colour))
         /\ MaxCapturePaths(board, colour) = <<>> <=> Best(board, colour) = 0
         /\ \A m \in ToSet(MaxCapturePaths(board, colour)) : Len(m.captured) = Best(board, colour)
         /\ \A sq \in Pieces(board, colour) :
              Best(board, colour) > 0 /\ Depth(board, colour, sq) = Best(board, colour) =>
                \A a \in Level(board, colour, sq)[Best(board, colour)] :
                   \E m \in ToSet(MaxCapturePaths(board, colour)) :
                      m.from = sq /\ [sq |-> m.to, taken |-> ToSet(m.captured)] = a
<1> DEFINE c == Captures(board, colour)
           S == CaptureMoves(board, colour)
           M == Best(board, colour)
           paths == MaxCapturePaths(board, colour)
           Ends(sq, m) == [sq |-> m.to, taken |-> ToSet(m.captured)]
<1>1. paths = IF c = <<>> THEN <<>> ELSE Longest(c)
  BY DEF MaxCapturePaths, Captures, CapturesAt, Concat
<1>2. c \in Seq(S)
  BY CapturesAre
<1>3. M \in 0 .. Most(board, colour) /\ Most(board, colour) \in Nat
  BY BestIs, LevelUnfolds
<1>4. ASSUME NEW m \in ToSet(c) PROVE Len(m.captured) \in 1 .. M
  <2>1. m \in S
    BY <1>2, SeqToSet
  <2>2. m.from \in Pieces(board, colour) /\ Len(m.captured) \in 1 .. Depth(board, colour, m.from)
    BY <2>1, CaptureMovesAre DEF RuleCapture
  <2>3. Depth(board, colour, m.from) <= M
    BY <2>2, BestIs
  <2>4. Depth(board, colour, m.from) \in 0 .. Most(board, colour)
    BY <2>2, PiecesFinite, DepthIs
  <2> QED BY <1>3, <2>2, <2>3, <2>4
<1>5. ASSUME M > 0, NEW sq \in Pieces(board, colour), Depth(board, colour, sq) = M, NEW a \in Level(board, colour, sq)[M]
      PROVE  \E m \in ToSet(c) : m.from = sq /\ Ends(sq, m) = a /\ Len(m.captured) = M
  BY <1>5, CapturesAre
<1>6. M > 0 => \E m \in ToSet(c) : Len(m.captured) = M
  <2> SUFFICES ASSUME M > 0 PROVE \E m \in ToSet(c) : Len(m.captured) = M
    OBVIOUS
  <2>1. PICK sq \in Pieces(board, colour) : Depth(board, colour, sq) = M
    BY BestIs
  <2>2. Level(board, colour, sq)[M] # {}
    BY <2>1, PiecesFinite, DepthIs
  <2>3. PICK a \in Level(board, colour, sq)[M] : TRUE
    BY <2>2
  <2> QED BY <1>5, <2>1, <2>3
<1> HIDE DEF c, S, M, paths, Ends
<1>7. CASE c = <<>>
  <2>1. \A x : x \notin ToSet(c)
    BY <1>2, <1>7, SeqToSet
  <2>2. M = 0
    BY <1>3, <1>6, <2>1
  <2>3. paths = <<>> /\ \A x : x \notin ToSet(paths)
    BY <1>1, <1>7, <2>1
  <2>4. paths \in Seq(S) /\ (paths = <<>> <=> M = 0) /\ ~(M > 0)
    BY <2>2, <2>3
  <2> QED BY <2>3, <2>4 DEF S, M, paths
<1>8. CASE c # <<>>
  <2>1. PICK x : x \in ToSet(c)
    BY <1>2, <1>8, SeqToSet
  <2>2. M > 0
    BY <1>3, <1>4, <2>1
  <2>3. \A m \in ToSet(c) : Len(m.captured) \in 0 .. M
    BY <1>3, <1>4
  <2>4. paths = Longest(c)
    BY <1>1, <1>8
  <2>5. \E m \in ToSet(c) : Len(m.captured) = M
    BY <1>6, <2>2
  <2>6. paths \in Seq(S) /\ \A m : m \in ToSet(paths) <=> m \in ToSet(c) /\ Len(m.captured) = M
    BY <1>2, <1>3, <1>8, <2>3, <2>4, <2>5, LongestIs
  <2>7. paths # <<>>
    BY <2>5, <2>6, SeqToSet
  <2>8. ASSUME NEW sq \in Pieces(board, colour), Depth(board, colour, sq) = M, NEW a \in Level(board, colour, sq)[M]
        PROVE  \E m \in ToSet(paths) : m.from = sq /\ Ends(sq, m) = a
    BY <1>5, <2>2, <2>6, <2>8
  <2>9. paths = <<>> <=> M = 0
    BY <2>2, <2>7, <1>3
  <2> QED BY <2>6, <2>8, <2>9 DEF S, M, paths, Ends
<1> QED BY <1>7, <1>8

(* The engine finds every capture the rules force, and no other. *)
SearchIsExact(board, colour) ==
    LET best == LongestCaptures(board, colour, FALSE)
    IN  IF best = {} THEN \A m \in ToSet(LegalMoves(board, colour)) : m.captured = <<>>
        ELSE {Outcome(m) : m \in ToSet(LegalMoves(board, colour))} = best

(* For every board and either colour: getMaxCapturePaths forces the captures  *)
(* that take most by the rules, all of them and no other, and where nothing   *)
(* can be taken getLegalMoves offers quiet moves only.                       *)
THEOREM EngineForcesTheLongest ==
  ASSUME NEW board \in Boards, NEW colour \in Colours
  PROVE  SearchIsExact(board, colour)
<1> DEFINE best == LongestCaptures(board, colour, FALSE)
           legal == LegalMoves(board, colour)
           paths == MaxCapturePaths(board, colour)
           M == Best(board, colour)
<1>1. legal = IF paths # <<>> THEN paths ELSE RegularMoves(board, colour)
  BY DEF LegalMoves
<1>2. M \in 0 .. Most(board, colour) /\ Most(board, colour) \in Nat
  BY BestIs, LevelUnfolds
<1>3. /\ paths \in Seq(CaptureMoves(board, colour)) /\ (paths = <<>> <=> M = 0)
      /\ \A m \in ToSet(paths) : Len(m.captured) = M
  BY MaxCapturesAre
<1>4. \A e : e \in best <=>
         M > 0 /\ \E sq \in Pieces(board, colour) : Depth(board, colour, sq) = M
                    /\ \E a \in Level(board, colour, sq)[M] : e = EndOf(sq, a)
  BY BestIs
<1>5. CASE M = 0
  <2>1. best = {}
    <3> HIDE DEF best, M
    <3>1. ~(M > 0)
      BY <1>5
    <3> QED BY <1>4, <3>1
  <2>2. legal = RegularMoves(board, colour)
    BY <1>1, <1>3, <1>5
  <2>3. legal \in Seq(QuietMoves(board, colour))
    BY <2>2, RegularAre
  <2>4. \A m \in ToSet(legal) : m \in QuietMoves(board, colour)
    BY <2>3, SeqToSet
  <2>5. \A m \in ToSet(legal) : m.captured = <<>>
    BY <2>4 DEF QuietMoves
  <2> QED BY <2>1, <2>5 DEF SearchIsExact
<1>6. CASE M # 0
  <2>1. M > 0 /\ legal = paths
    BY <1>1, <1>2, <1>3, <1>6
  <2>2. ASSUME NEW m \in ToSet(paths) PROVE Outcome(m) \in best
    <3>1. m \in CaptureMoves(board, colour)
      BY <1>3, SeqToSet
    <3>2. RuleCapture(board, colour, m)
      BY <3>1, CaptureMovesAre
    <3> DEFINE sq == m.from
               a == [sq |-> m.to, taken |-> ToSet(m.captured)]
    <3>3. sq \in Pieces(board, colour) /\ Len(m.captured) = M /\ M <= Depth(board, colour, sq) /\ a \in Level(board, colour, sq)[M]
      BY <1>3, <3>2 DEF RuleCapture
    <3>4. Depth(board, colour, sq) <= M
      BY <3>3, BestIs
    <3>5. Depth(board, colour, sq) \in 0 .. Most(board, colour)
      BY <3>3, PiecesFinite, DepthIs
    <3>6. Depth(board, colour, sq) = M
      BY <1>2, <3>3, <3>4, <3>5
    <3>7. Outcome(m) = EndOf(sq, a)
      BY DEF Outcome, EndOf
    <3> HIDE DEF best, M, sq, a
    <3> QED BY <1>4, <2>1, <3>3, <3>6, <3>7
  <2>3. ASSUME NEW e \in best PROVE \E m \in ToSet(paths) : e = Outcome(m)
    <3>1. PICK sq \in Pieces(board, colour) : Depth(board, colour, sq) = M
                    /\ \E a \in Level(board, colour, sq)[M] : e = EndOf(sq, a)
      BY <1>4
    <3>2. PICK a \in Level(board, colour, sq)[M] : e = EndOf(sq, a)
      BY <3>1
    <3>3. PICK m \in ToSet(paths) : m.from = sq /\ [sq |-> m.to, taken |-> ToSet(m.captured)] = a
      BY <2>1, <3>1, MaxCapturesAre
    <3>4. a.sq = m.to /\ a.taken = ToSet(m.captured)
      BY <3>3
    <3>5. e = Outcome(m)
      BY <3>2, <3>3, <3>4 DEF EndOf, Outcome
    <3> QED BY <3>3, <3>5
  <2>4. best # {}
    <3>1. PICK m : m \in ToSet(paths)
      BY <1>3, <1>6, SeqToSet
    <3> QED BY <2>2, <3>1
  <2> HIDE DEF best, paths, legal
  <2>5. {Outcome(m) : m \in ToSet(legal)} = best
    BY <2>1, <2>2, <2>3
  <2> QED BY <2>4, <2>5 DEF SearchIsExact, best, legal
<1> QED BY <1>5, <1>6

(* getLegalMoves is empty exactly when the rules allow the side nothing, so    *)
(* checkGameEnd never takes a side with a move for one that is stuck.        *)
THEOREM NoMoveMeansStuck ==
  ASSUME NEW board \in Boards, NEW colour \in Colours
  PROVE  LegalMoves(board, colour) = <<>> <=> Stuck(board, colour)
<1> DEFINE best == LongestCaptures(board, colour, FALSE)
           paths == MaxCapturePaths(board, colour)
           quiet == RegularMoves(board, colour)
           M == Best(board, colour)
<1>1. LegalMoves(board, colour) = IF paths # <<>> THEN paths ELSE quiet
  BY DEF LegalMoves
<1>2. M \in 0 .. Most(board, colour) /\ Most(board, colour) \in Nat /\ (paths = <<>> <=> M = 0)
  BY BestIs, LevelUnfolds, MaxCapturesAre
<1>3. best = {} <=> M = 0
  <2>1. \A e : e \in best <=>
           M > 0 /\ \E sq \in Pieces(board, colour) : Depth(board, colour, sq) = M
                      /\ \E a \in Level(board, colour, sq)[M] : e = EndOf(sq, a)
    BY BestIs
  <2>2. M > 0 => \E sq \in Pieces(board, colour) : Depth(board, colour, sq) = M
    BY BestIs
  <2>3. \A sq \in Pieces(board, colour) : Level(board, colour, sq)[Depth(board, colour, sq)] # {}
    BY PiecesFinite, DepthIs
  <2> HIDE DEF best, M
  <2>4. M = 0 => best = {}
    <3>1. M = 0 => ~(M > 0)
      OBVIOUS
    <3> QED BY <2>1, <3>1
  <2>5. M # 0 => best # {}
    <3> SUFFICES ASSUME M # 0 PROVE best # {}
      OBVIOUS
    <3>1. M > 0
      BY <1>2
    <3>2. PICK sq \in Pieces(board, colour) : Depth(board, colour, sq) = M
      BY <2>2, <3>1
    <3>3. PICK a \in Level(board, colour, sq)[M] : TRUE
      BY <2>3, <3>2
    <3>4. EndOf(sq, a) \in best
      BY <2>1, <3>1, <3>2, <3>3
    <3> QED BY <3>4
  <2> QED BY <2>4, <2>5
<1>4. quiet = <<>> <=> \A sq, to \in Squares : ~CanMoveQuietly(board, colour, sq, to)
  <2>1. quiet \in Seq(QuietMoves(board, colour))
    BY RegularAre
  <2>2. ASSUME NEW sq \in Squares, NEW to \in Squares, CanMoveQuietly(board, colour, sq, to) PROVE quiet # <<>>
    <3>1. \E m : m \in ToSet(quiet)
      BY <2>2, RegularAre
    <3> QED BY <2>1, <3>1, SeqToSet
  <2>3. ASSUME quiet # <<>> PROVE \E sq, to \in Squares : CanMoveQuietly(board, colour, sq, to)
    <3>1. PICK m : m \in ToSet(quiet)
      BY <2>1, <2>3, SeqToSet
    <3>2. m \in QuietMoves(board, colour)
      BY <2>1, <3>1, SeqToSet
    <3>3. m \in Moves /\ CanMoveQuietly(board, colour, m.from, m.to)
      BY <3>2 DEF QuietMoves
    <3> QED BY <3>3 DEF Moves
  <2> QED BY <2>2, <2>3
<1> HIDE DEF best, paths, quiet, M
<1> QED BY <1>1, <1>2, <1>3, <1>4 DEF Stuck, best

(* A legal move takes a piece of the mover's to an empty square, and takes   *)
(* of the other side's just as many as the best capture does.                *)
LegalSet(board, colour) ==
    {m \in Moves : /\ m.from \in Pieces(board, colour) /\ board[m.to] = Empty
                   /\ ToSet(m.captured) \in SUBSET Enemies(board, colour)
                   /\ Cardinality(ToSet(m.captured)) = Best(board, colour)}

LEMMA LegalAre ==
  ASSUME NEW board \in Boards, NEW colour \in Colours
  PROVE  LegalMoves(board, colour) \in Seq(LegalSet(board, colour))
<1> DEFINE S == LegalSet(board, colour)
           M == Best(board, colour)
           paths == MaxCapturePaths(board, colour)
           quiet == RegularMoves(board, colour)
<1>1. /\ paths \in Seq(CaptureMoves(board, colour)) /\ (paths = <<>> <=> M = 0)
      /\ \A m \in ToSet(paths) : Len(m.captured) = M
  BY MaxCapturesAre
<1>2. LegalMoves(board, colour) = IF paths # <<>> THEN paths ELSE quiet
  BY DEF LegalMoves
<1>3. CASE paths # <<>>
  <2>1. ASSUME NEW m \in ToSet(paths) PROVE m \in S
    <3>1. m \in CaptureMoves(board, colour)
      BY <1>1, SeqToSet
    <3>2. m \in Moves
      BY <3>1 DEF CaptureMoves
    <3> QED BY <1>1, <3>1, <3>2, CaptureMovesAre DEF RuleCapture, LegalSet
  <2> HIDE DEF S, paths
  <2>2. \A i \in 1 .. Len(paths) : paths[i] \in S
    BY <1>1, <2>1, SeqToSet
  <2>3. paths \in Seq(S)
    <3>1. Len(paths) \in Nat /\ paths = [i \in 1 .. Len(paths) |-> paths[i]]
      BY <1>1
    <3> QED BY <2>2, <3>1
  <2> QED BY <1>2, <1>3, <2>3 DEF S
<1>4. CASE paths = <<>>
  <2>1. ASSUME NEW m \in QuietMoves(board, colour) PROVE m \in S
    <3>1. m \in Moves /\ Colour(board[m.from]) = colour /\ board[m.to] = Empty /\ m.captured = <<>>
      BY DEF QuietMoves
    <3>2. m.from \in Pieces(board, colour)
      BY <3>1 DEF Moves, Pieces
    <3>3. ToSet(m.captured) = {} /\ Cardinality({}) = 0
      <4>1. <<>> \in Seq(Squares)
        OBVIOUS
      <4>2. \A x : x \notin ToSet(<<>>)
        BY <4>1, SeqToSet
      <4> QED BY <3>1, <4>2, FS_EmptySet
    <3>4. M = 0
      BY <1>1, <1>4
    <3> QED BY <3>1, <3>2, <3>3, <3>4 DEF LegalSet
  <2>2. quiet \in Seq(QuietMoves(board, colour))
    BY RegularAre
  <2> HIDE DEF S, quiet, paths
  <2>3. quiet \in Seq(S)
    BY <2>1, <2>2
  <2> QED BY <1>2, <1>4, <2>3 DEF S
<1> QED BY <1>3, <1>4
-----------------------------------------------------------------------------
(* A move made. *)
LEMMA BoardIs ==
  ASSUME NEW board, IsBoard(board)
  PROVE  board \in Boards
  BY DEF IsBoard, Boards, PieceSet

(* A piece keeps its colour, and no man stays on his crown row. *)
LEMMA CrownedIs ==
  ASSUME NEW piece \in PieceSet, NEW sq
  PROVE  /\ Crowned(piece, sq) \in PieceSet /\ Colour(Crowned(piece, sq)) = Colour(piece)
         /\ Crowned(piece, sq) = "w" => Row(sq) # Crown("WHITE")
         /\ Crowned(piece, sq) = "b" => Row(sq) # Crown("BLACK")
  BY DEF PieceSet, Empty, Men, Kings, Crowned, Colour

(* The mover's piece has moved, the taken ones are gone, and nothing else.  *)
LEMMA ApplyIs ==
  ASSUME NEW board, IsBoard(board), NEW colour \in Colours, NEW m \in LegalSet(board, colour)
  PROVE  /\ IsBoard(ApplyMove(board, m))
         /\ m.to \notin Pieces(board, colour)
         /\ Pieces(ApplyMove(board, m), colour) = (Pieces(board, colour) \ {m.from}) \cup {m.to}
         /\ Pieces(ApplyMove(board, m), Other(colour)) = Pieces(board, Other(colour)) \ ToSet(m.captured)
<1> DEFINE f == m.from
           t == m.to
           gone == ToSet(m.captured)
           after == ApplyMove(board, m)
<1>1. /\ m \in Moves /\ f \in Pieces(board, colour) /\ board[t] = Empty
      /\ gone \in SUBSET Enemies(board, colour)
  BY DEF LegalSet
<1>2. f \in Squares /\ t \in Squares /\ m.captured \in Seq(Squares) /\ board \in Boards
  BY <1>1, BoardIs DEF Moves
<1>3. \A sq : Contains(m.captured, sq) <=> sq \in gone
  BY <1>2, SeqToSet DEF Contains
<1>4. after = [sq \in Squares |-> IF sq = t THEN Crowned(board[f], sq)
                                  ELSE IF sq = f \/ sq \in gone THEN Empty ELSE board[sq]]
  BY <1>3 DEF ApplyMove
<1>5. \A sq \in Squares : board[sq] \in PieceSet
  BY <1>2 DEF Boards
<1> HIDE DEF f, t, gone, after
<1>6. \A sq \in Squares : after[sq] = IF sq = t THEN Crowned(board[f], sq)
                                      ELSE IF sq = f \/ sq \in gone THEN Empty ELSE board[sq]
  BY <1>4
<1>7. Colour(board[f]) = colour /\ \A sq \in gone : sq \in Squares /\ Colour(board[sq]) = Other(colour)
  BY <1>1 DEF Pieces, Enemies
<1>8. colour # Other(colour) /\ colour # "NONE" /\ Other(colour) # "NONE" /\ Colour(Empty) = "NONE" /\ Empty \in PieceSet
  BY ColourIs DEF PieceSet
<1>9. board[f] \in PieceSet
  BY <1>2, <1>5
<1>10. \A sq \in Squares : Colour(after[sq]) = IF sq = t THEN colour
                                               ELSE IF sq = f \/ sq \in gone THEN "NONE" ELSE Colour(board[sq])
  <2> TAKE sq \in Squares
  <2>1. CASE sq = t
    BY <1>6, <1>7, <1>9, <2>1, CrownedIs
  <2>2. CASE sq # t
    BY <1>6, <1>8, <2>2
  <2> QED BY <2>1, <2>2
<1>11. t \notin Pieces(board, colour) /\ Colour(board[t]) = "NONE"
  BY <1>1, <1>8 DEF Pieces
<1>12. IsBoard(after)
  <2>1. \A sq \in Squares : after[sq] \in PieceSet
    <3> TAKE sq \in Squares
    <3>1. CASE sq = t
      BY <1>6, <1>9, <3>1, CrownedIs
    <3>2. CASE sq # t
      BY <1>5, <1>6, <1>8, <3>2
    <3> QED BY <3>1, <3>2
  <2>2. \A sq \in Squares : /\ after[sq] = "w" => Row(sq) # Crown("WHITE")
                            /\ after[sq] = "b" => Row(sq) # Crown("BLACK")
    <3> TAKE sq \in Squares
    <3>1. CASE sq = t
      BY <1>6, <1>9, <3>1, CrownedIs
    <3>2. CASE sq # t
      <4>1. after[sq] = Empty \/ after[sq] = board[sq]
        BY <1>6, <3>2
      <4> QED BY <4>1 DEF IsBoard, Empty
    <3> QED BY <3>1, <3>2
  <2>3. after = [sq \in Squares |-> after[sq]]
    BY <1>4
  <2>4. after \in [Squares -> PieceSet]
    BY <2>1, <2>3
  <2> QED BY <2>2, <2>4 DEF IsBoard, PieceSet
<1>13. Pieces(after, colour) = (Pieces(board, colour) \ {f}) \cup {t}
  <2>1. ASSUME NEW sq \in Squares
        PROVE  Colour(after[sq]) = colour <=> (Colour(board[sq]) = colour /\ sq # f) \/ sq = t
    BY <1>7, <1>8, <1>10
  <2> QED BY <1>2, <2>1 DEF Pieces
<1>14. Pieces(after, Other(colour)) = Pieces(board, Other(colour)) \ gone
  <2>1. ASSUME NEW sq \in Squares
        PROVE  Colour(after[sq]) = Other(colour) <=> Colour(board[sq]) = Other(colour) /\ sq \notin gone
    BY <1>7, <1>8, <1>10, <1>11
  <2> QED BY <2>1 DEF Pieces
<1> QED BY <1>11, <1>12, <1>13, <1>14 DEF f, t, gone, after

(* A move leaves the mover as many pieces, and the other side fewer by those  *)
(* the best capture takes.                                                   *)
LEMMA MaterialIs ==
  ASSUME NEW board, IsBoard(board), NEW colour \in Colours, NEW m \in LegalSet(board, colour)
  PROVE  /\ Cardinality(Pieces(ApplyMove(board, m), colour)) = Cardinality(Pieces(board, colour))
         /\ Cardinality(Pieces(ApplyMove(board, m), Other(colour))) =
              Cardinality(Pieces(board, Other(colour))) - Best(board, colour)
<1> DEFINE own == Pieces(board, colour)
           foe == Pieces(board, Other(colour))
           f == m.from
           t == m.to
           gone == ToSet(m.captured)
<1>1. IsFiniteSet(own) /\ Cardinality(own) \in Nat /\ IsFiniteSet(foe) /\ Cardinality(foe) \in Nat
  BY PiecesFinite
<1>2. f \in own /\ t \notin own /\ gone \in SUBSET foe /\ Cardinality(gone) = Best(board, colour)
  BY ApplyIs DEF LegalSet, Enemies
<1>3. /\ Pieces(ApplyMove(board, m), colour) = (own \ {f}) \cup {t}
      /\ Pieces(ApplyMove(board, m), Other(colour)) = foe \ gone
  BY ApplyIs
<1> HIDE DEF own, foe, f, t, gone
<1>4. IsFiniteSet(own \ {f}) /\ Cardinality(own \ {f}) = Cardinality(own) - 1 /\ t \notin own \ {f}
  BY <1>1, <1>2, FS_RemoveElement
<1>5. Cardinality((own \ {f}) \cup {t}) = Cardinality(own) - 1 + 1
  BY <1>4, FS_AddElement
<1>6. Cardinality((own \ {f}) \cup {t}) = Cardinality(own)
  BY <1>1, <1>5
<1>7. foe \cap gone = gone
  BY <1>2
<1>8. Cardinality(foe \ gone) = Cardinality(foe) - Cardinality(gone)
  BY <1>1, <1>7, FS_Difference
<1> QED BY <1>2, <1>3, <1>6, <1>8 DEF own, foe
-----------------------------------------------------------------------------
(* Recovery, one row at a time. *)
Onward(games, row) == UNION {ReplayMove(g, row) : g \in games}

Reruns(f, k, rows, st) ==
    f = [n \in 0 .. k |-> IF n = 0 THEN {At(st.board, st.turn)} ELSE Onward(f[n - 1], rows[n])]
Rerun(rows, st) == (CHOOSE f : Reruns(f, Len(rows), rows, st))[Len(rows)]

LEMMA ReplayIs == Replay = Rerun(log, start)
  BY DEF Replay, Rerun, Reruns, Onward

(* The replay of any log is defined. *)
LEMMA RerunsExists ==
  ASSUME NEW k \in Nat, NEW rows, NEW st
  PROVE  \E f : Reruns(f, k, rows, st)
<1> DEFINE first == {At(st.board, st.turn)}
           T == {i \in 0 .. k : \E f : Reruns(f, i, rows, st)}
<1>1. 0 \in T
  <2> DEFINE f == [n \in 0 .. 0 |-> first]
  <2>1. Reruns(f, 0, rows, st)
    BY DEF Reruns
  <2> QED BY <2>1
<1>2. ASSUME NEW i \in 0 .. k - 1, i \in T PROVE i + 1 \in T
  <2>1. PICK f : Reruns(f, i, rows, st)
    BY <1>2
  <2> HIDE DEF first
  <2> DEFINE h == [n \in 0 .. i + 1 |-> IF n = 0 THEN first ELSE Onward(f[n - 1], rows[n])]
  <2>2. \A n \in 0 .. i : f[n] = IF n = 0 THEN first ELSE Onward(f[n - 1], rows[n])
    BY <2>1 DEF Reruns, first
  <2>3. \A n \in 0 .. i : h[n] = f[n]
    <3> TAKE n \in 0 .. i
    <3>1. n \in 0 .. i + 1
      OBVIOUS
    <3> QED BY <2>2, <3>1
  <2>4. \A n \in 0 .. i + 1 : n # 0 => n - 1 \in 0 .. i
    OBVIOUS
  <2>5. \A n \in 0 .. i + 1 : h[n] = IF n = 0 THEN first ELSE Onward(h[n - 1], rows[n])
    BY <2>3, <2>4
  <2>6. h = [n \in 0 .. i + 1 |-> h[n]]
    OBVIOUS
  <2> HIDE DEF h
  <2>7. Reruns(h, i + 1, rows, st)
    BY <2>5, <2>6 DEF Reruns, first
  <2>8. i + 1 \in 0 .. k
    OBVIOUS
  <2> QED BY <2>7, <2>8
<1> HIDE DEF T
<1>3. \A i \in 0 .. k : i \in T
  BY <1>1, <1>2, Upward
<1>4. k \in T
  BY <1>3
<1> QED BY <1>4 DEF T

(* A row more in the log is a move more in the game recovery rebuilds. *)
LEMMA RerunFrom ==
  ASSUME NEW R, NEW rows \in Seq(R), NEW st
  PROVE  /\ rows = <<>> => Rerun(rows, st) = {At(st.board, st.turn)}
         /\ \A row \in R : Rerun(Append(rows, row), st) = Onward(Rerun(rows, st), row)
<1> DEFINE k == Len(rows)
           f == CHOOSE f : Reruns(f, k, rows, st)
           first == {At(st.board, st.turn)}
<1>1. k \in Nat
  BY LenProperties
<1>2. Reruns(f, k, rows, st)
  BY <1>1, RerunsExists
<1>3. Rerun(rows, st) = f[k]
  BY DEF Rerun
<1> HIDE DEF f, first
<1>4. \A n \in 0 .. k : f[n] = IF n = 0 THEN first ELSE Onward(f[n - 1], rows[n])
  BY <1>2 DEF Reruns, first
<1>5. rows = <<>> => Rerun(rows, st) = first
  BY <1>1, <1>3, <1>4
<1>6. ASSUME NEW row \in R PROVE Rerun(Append(rows, row), st) = Onward(Rerun(rows, st), row)
  <2> DEFINE more == Append(rows, row)
             g == CHOOSE g : Reruns(g, Len(more), more, st)
  <2>1. Len(more) = k + 1 /\ more[k + 1] = row /\ \A n \in 1 .. k : more[n] = rows[n]
    BY <1>1
  <2>2. Reruns(g, Len(more), more, st)
    BY <1>1, <2>1, RerunsExists
  <2>3. Rerun(more, st) = g[k + 1]
    BY <2>1 DEF Rerun
  <2> HIDE DEF more, g
  <2>4. \A n \in 0 .. k + 1 : g[n] = IF n = 0 THEN first ELSE Onward(g[n - 1], more[n])
    BY <2>1, <2>2 DEF Reruns, first
  <2> DEFINE T == {n \in 0 .. k : g[n] = f[n]}
  <2>5. 0 \in T
    BY <1>1, <1>4, <2>4
  <2>6. ASSUME NEW n \in 0 .. k - 1, n \in T PROVE n + 1 \in T
    <3>1. n + 1 \in 0 .. k /\ n + 1 \in 0 .. k + 1 /\ n + 1 # 0 /\ (n + 1) - 1 = n /\ n + 1 \in 1 .. k
      BY <1>1
    <3>2. g[n + 1] = Onward(g[n], more[n + 1]) /\ f[n + 1] = Onward(f[n], rows[n + 1])
      BY <1>4, <2>4, <3>1
    <3>3. g[n + 1] = f[n + 1]
      BY <2>1, <2>6, <3>1, <3>2
    <3> QED BY <3>1, <3>3
  <2> HIDE DEF T
  <2>7. \A n \in 0 .. k : n \in T
    BY <1>1, <2>5, <2>6, Upward
  <2>8. g[k] = f[k]
    BY <1>1, <2>7 DEF T
  <2>9. g[k + 1] = Onward(g[k], more[k + 1])
    <3>1. k + 1 \in 0 .. k + 1 /\ k + 1 # 0 /\ (k + 1) - 1 = k
      BY <1>1
    <3> QED BY <2>4, <3>1
  <2>10. Rerun(more, st) = Onward(Rerun(rows, st), row)
    BY <1>3, <2>1, <2>3, <2>8, <2>9
  <2> QED BY <2>10 DEF more
<1> QED BY <1>5, <1>6 DEF first
-----------------------------------------------------------------------------
(* The game played. *)
Rows == [from : Squares, to : Squares, path : Seq(Squares)]
EndsFit(legal, from, to) == SelectInSeq(legal, LAMBDA l : l.from = from /\ l.to = to)
RowFits(legal, row) == SelectInSeq(legal, LAMBDA l : l.from = row.from /\ l.to = row.to /\ l.path = row.path)

(* The path stored with a move singles out, on replay, the move that was made. *)
LEMMA StoredPathFits ==
  ASSUME NEW from, NEW to, NEW legal, Len(legal) \in Nat,
         NEW i, i = EndsFit(legal, from, to), i # 0,
         NEW row, row.from = from, row.to = to, row.path = legal[i].path
  PROVE  /\ i \in 1 .. Len(legal) /\ legal[i].from = from /\ legal[i].to = to
         /\ RowFits(legal, row) = i
<1> DEFINE n == Len(legal)
           A == {k \in 1 .. n : legal[k].from = from /\ legal[k].to = to}
           B == {k \in 1 .. n : legal[k].from = row.from /\ legal[k].to = row.to /\ legal[k].path = row.path}
<1>1. i = IF A # {} THEN Min(A) ELSE 0
  BY DEF EndsFit, SelectInSeq
<1>2. RowFits(legal, row) = IF B # {} THEN Min(B) ELSE 0
  BY DEF RowFits, SelectInSeq
<1>3. A \in SUBSET Nat /\ A # {} /\ i = Min(A)
  <2>1. \A k \in A : k \in Nat
    OBVIOUS
  <2> HIDE DEF A
  <2> QED BY <1>1, <2>1
<1>4. i \in A /\ \A k \in A : i <= k
  BY <1>3, MinIs
<1>5. i \in B /\ B \in SUBSET A
  BY <1>4
<1>6. Min(B) \in B /\ \A k \in B : Min(B) <= k
  BY <1>3, <1>5, MinIs
<1>7. Min(B) \in Nat /\ i \in Nat /\ Min(B) <= i /\ i <= Min(B)
  BY <1>3, <1>4, <1>5, <1>6
<1>8. Min(B) = i
  BY <1>7
<1> QED BY <1>2, <1>4, <1>5, <1>8

(* The game as the invariant needs it: who may still move has room to.       *)
PlayInv ==
    /\ GameTypeOK /\ LosersAreStuck
    /\ start \in Positions /\ log \in Seq(Rows)
    /\ ~game.ended => game.quiet < KingMoveLimit
    /\ ReplayIsExact

(* A step, seen from the game before it. *)
Played(m) ==
    /\ m \in LegalSet(game.board, game.turn)
    /\ game' = After(game, m, Quiet(game, m)) /\ ~game.ended
    /\ ReplayMove(game, [from |-> m.from, to |-> m.to, path |-> m.path]) = {game'}
    /\ log' = Append(log, [from |-> m.from, to |-> m.to, path |-> m.path]) /\ start' = start

(* Every step of the game is a legal move, and replaying its row makes it again. *)
LEMMA NextPlays ==
  ASSUME IsBoard(game.board), game.turn \in Colours, GameNext
  PROVE  \E m \in ToSet(LegalMoves(game.board, game.turn)) : Played(m)
<1> DEFINE legal == LegalMoves(game.board, game.turn)
           S == LegalSet(game.board, game.turn)
<1>1. legal \in Seq(S)
  BY BoardIs, LegalAre
<1>2. PICK from, to, path : Submit(from, to, path)
  BY DEF GameNext
<1>2a. PICK m \in Fitting(game, from, to) :
         /\ ~game.ended /\ game' = After(game, m, Quiet(game, m))
         /\ log' = Append(log, [from |-> from, to |-> to, path |-> m.path]) /\ start' = start
  BY <1>2 DEF Submit
<1> DEFINE i == EndsFit(legal, from, to)
           row == [from |-> from, to |-> to, path |-> m.path]
<1>3. i # 0 /\ m = legal[i]
  BY <1>2a DEF Fitting, FirstFit, EndsFit
<1>4. Len(legal) \in Nat
  BY <1>1
<1>5. row.from = from /\ row.to = to /\ row.path = legal[i].path
  BY <1>3
<1>6. i \in 1 .. Len(legal) /\ m.from = from /\ m.to = to /\ RowFits(legal, row) = i
  <2>1. i = EndsFit(legal, from, to)
    OBVIOUS
  <2> HIDE DEF row, i, legal
  <2> QED BY <1>3, <1>4, <1>5, <2>1, StoredPathFits
<1>7. ReplayMove(game, row) = {After(game, m, Quiet(game, m))}
  <2>1. ReplayMove(game, row) = {Replayed(game, l) : l \in {legal[k] : k \in {RowFits(legal, row)} \ {0}}}
    BY DEF ReplayMove, RowFits, FirstFit
  <2>2. \A l : Replayed(game, l) = After(game, l, Quiet(game, l))
    <3>1. \A l : ReplayQuiet(game, l) = Quiet(game, l)
      BY DEF ReplayQuiet, Quiet
    <3>2. \A seen, q : ReplaySeen(seen, q) = Seen(seen, q)
      BY DEF ReplaySeen, Seen
    <3> QED BY <3>1, <3>2 DEF Replayed, After
  <2>3. {RowFits(legal, row)} \ {0} = {i}
    BY <1>3, <1>6
  <2>4. {legal[k] : k \in {RowFits(legal, row)} \ {0}} = {m}
    BY <1>3, <2>3
  <2> HIDE DEF legal, row
  <2> QED BY <2>1, <2>2, <2>4
<1>8. m \in S /\ m \in ToSet(legal)
  BY <1>1, <1>3, <1>6, SeqToSet
<1>9. row = [from |-> m.from, to |-> m.to, path |-> m.path]
  BY <1>6
<1> HIDE DEF row, i, legal, S
<1>10. log' = Append(log, row)
  BY <1>2a DEF row
<1> QED BY <1>2a, <1>7, <1>8, <1>9, <1>10 DEF Played, legal, S

(* What a move leaves. *)
LEMMA AfterIs ==
  ASSUME NEW g, IsBoard(g.board), g.turn \in Colours, g.quiet \in 0 .. KingMoveLimit, g.quiet < KingMoveLimit,
         NEW m \in LegalSet(g.board, g.turn), NEW h, h = After(g, m, Quiet(g, m))
  PROVE  /\ IsBoard(h.board) /\ h.turn \in Colours /\ h.quiet \in 0 .. KingMoveLimit
         /\ ~h.ended => h.quiet < KingMoveLimit
         /\ h.board = ApplyMove(g.board, m) /\ h.turn = Other(g.turn) /\ h.winner # h.turn
         /\ h.winner # "NONE" => h.winner = Other(h.turn) /\ Stuck(h.board, h.turn)
         /\ ~h.ended => ~Stuck(h.board, h.turn)
<1> DEFINE board == ApplyMove(g.board, m)
           seen == Seen(g.seen, <<board, Other(g.turn)>>)
           quiet == Quiet(g, m)
           end == End(board, Other(g.turn), seen, quiet)
<1>1. /\ h.board = board /\ h.turn = Other(g.turn) /\ h.quiet = quiet
      /\ h.ended = end.ended /\ h.winner = end.winner
  BY DEF After
<1>2. IsBoard(board)
  BY ApplyIs
<1>3. Other(g.turn) \in Colours /\ Other(Other(g.turn)) # Other(g.turn) /\ "NONE" # Other(g.turn)
  BY ColourIs
<1>4. KingMoveLimit \in Nat
  BY GameAssumption
<1>5. quiet \in 0 .. KingMoveLimit
  BY <1>4 DEF Quiet
<1>6. /\ end.winner \in {"NONE", Other(Other(g.turn))} /\ (~end.ended => ~(quiet >= KingMoveLimit))
      /\ end.winner # "NONE" => end.winner = Other(Other(g.turn)) /\ LegalMoves(board, Other(g.turn)) = <<>>
      /\ ~end.ended => LegalMoves(board, Other(g.turn)) # <<>>
  BY DEF End, Drawn
<1>60. LegalMoves(board, Other(g.turn)) = <<>> <=> Stuck(board, Other(g.turn))
  BY <1>2, <1>3, BoardIs, NoMoveMeansStuck
<1> HIDE DEF board, quiet, end
<1>7. end.winner # Other(g.turn)
  BY <1>3, <1>6
<1>8. ~end.ended => quiet < KingMoveLimit
  BY <1>4, <1>5, <1>6
<1> QED BY <1>1, <1>2, <1>3, <1>5, <1>6, <1>60, <1>7, <1>8 DEF board

(* It holds of every position a game is looked at from. *)
LEMMA PlayInit == GameInit => PlayInv
<1> SUFFICES ASSUME GameInit PROVE PlayInv
  OBVIOUS
<1>1. start \in Positions /\ game = At(start.board, start.turn) /\ log = <<>>
  BY DEF GameInit
<1>2. KingMoveLimit \in Nat \ {0} /\ IsBoard(start.board) /\ start.turn \in Colours
  BY <1>1, GameAssumption
<1>3. game.board = start.board /\ game.turn = start.turn /\ game.quiet = 0 /\ game.winner = "NONE"
  BY <1>1 DEF At
<1>4. log \in Seq(Rows)
  BY <1>1
<1>5. ReplayIsExact
  BY <1>1, <1>4, ReplayIs, RerunFrom DEF ReplayIsExact
<1>6. GameTypeOK
  BY <1>2, <1>3 DEF GameTypeOK
<1> QED BY <1>1, <1>2, <1>3, <1>4, <1>5, <1>6 DEF PlayInv, LosersAreStuck

(* And every move keeps it. *)
LEMMA PlayStep == PlayInv /\ [GameNext]_gameVars => PlayInv'
<1> SUFFICES ASSUME PlayInv, [GameNext]_gameVars PROVE PlayInv'
  OBVIOUS
<1>1. CASE GameNext
  <2>1. /\ IsBoard(game.board) /\ game.turn \in Colours /\ game.quiet \in 0 .. KingMoveLimit
        /\ start \in Positions /\ log \in Seq(Rows) /\ Replay = {game}
        /\ ~game.ended => game.quiet < KingMoveLimit
    BY DEF PlayInv, GameTypeOK, ReplayIsExact
  <2>2. PICK m : Played(m)
    BY <1>1, <2>1, NextPlays
  <2> DEFINE row == [from |-> m.from, to |-> m.to, path |-> m.path]
  <2>3. row \in Rows
    BY <2>2 DEF Played, LegalSet, Moves, Rows
  <2>4. log' = Append(log, row) /\ ReplayMove(game, row) = {game'} /\ start' = start
    BY <2>2 DEF Played
  <2> HIDE DEF row
  <2>5. log' \in Seq(Rows) /\ start' \in Positions
    BY <2>1, <2>3, <2>4
  <2>6. Replay' = Rerun(log', start')
    BY DEF Replay, Rerun, Reruns, Onward
  <2>7. Rerun(log', start') = Onward(Rerun(log, start), row)
    BY <2>1, <2>3, <2>4, RerunFrom
  <2>8. ReplayIsExact'
    <3>1. Onward({game}, row) = ReplayMove(game, row)
      BY DEF Onward
    <3> QED BY <2>1, <2>4, <2>6, <2>7, <3>1, ReplayIs DEF ReplayIsExact
  <2>9. m \in LegalSet(game.board, game.turn) /\ game' = After(game, m, Quiet(game, m)) /\ ~game.ended
    BY <2>2 DEF Played
  <2> DEFINE h == After(game, m, Quiet(game, m))
  <2>10. /\ IsBoard(h.board) /\ h.turn \in Colours /\ h.quiet \in 0 .. KingMoveLimit
         /\ ~h.ended => h.quiet < KingMoveLimit
         /\ h.winner # "NONE" => h.winner = Other(h.turn) /\ Stuck(h.board, h.turn)
         /\ ~h.ended => ~Stuck(h.board, h.turn)
    BY <2>1, <2>9, AfterIs
  <2> HIDE DEF h
  <2>11. /\ IsBoard(game'.board) /\ game'.turn \in Colours /\ game'.quiet \in 0 .. KingMoveLimit
         /\ ~game'.ended => game'.quiet < KingMoveLimit
         /\ game'.winner # "NONE" => game'.winner = Other(game'.turn) /\ Stuck(game'.board, game'.turn)
         /\ ~game'.ended => ~Stuck(game'.board, game'.turn)
    BY <2>9, <2>10 DEF h
  <2>12. LosersAreStuck'
    BY <2>11 DEF LosersAreStuck
  <2>13. GameTypeOK'
    BY <2>11 DEF GameTypeOK
  <2> QED BY <2>5, <2>8, <2>11, <2>12, <2>13 DEF PlayInv
<1>2. CASE UNCHANGED gameVars
  <2>1. Replay' = Replay
    BY <1>2 DEF gameVars, Replay
  <2> QED BY <1>2, <2>1 DEF gameVars, PlayInv, LosersAreStuck, GameTypeOK, ReplayIsExact
<1> QED BY <1>1, <1>2

(* The projection is typed, and replayDurableMoves rebuilds it from the log:   *)
(* board, turn, counters and end.                                            *)
THEOREM ReplayRebuildsTheGame == GameSpec => []GameInv
<1>1. PlayInv => GameInv
  BY DEF PlayInv, GameInv
<1> QED BY <1>1, PlayInit, PlayStep, PTL DEF GameSpec

(* In every position of every game the legal moves are the longest captures.  *)
THEOREM LongestCapturesAreFound == GameSpec => []SearchFindsTheLongest
<1>1. PlayInv => SearchFindsTheLongest
  <2> SUFFICES ASSUME PlayInv PROVE SearchFindsTheLongest
    OBVIOUS
  <2>1. game.board \in Boards /\ game.turn \in Colours
    BY BoardIs DEF PlayInv, GameTypeOK
  <2>2. SearchIsExact(game.board, game.turn)
    BY <2>1, EngineForcesTheLongest
  <2> QED BY <2>2 DEF SearchIsExact, SearchFindsTheLongest
<1> QED BY <1>1, PlayInit, PlayStep, PTL DEF GameSpec

(* checkGameEnd declares a loser only when the side to move is stuck, and lets  *)
(* no game go on in which it is.                                             *)
THEOREM OnlyTheStuckLose == GameSpec => []LosersAreStuck
<1>1. PlayInv => LosersAreStuck
  BY DEF PlayInv
<1> QED BY <1>1, PlayInit, PlayStep, PTL DEF GameSpec

(* What a move does to the pieces of both sides, and to the result. *)
LEMMA MaterialStep ==
  ASSUME PlayInv, GameNext
  PROVE  /\ Cardinality(Pieces(game'.board, game.turn)) = Cardinality(Pieces(game.board, game.turn))
         /\ Cardinality(Pieces(game'.board, Other(game.turn))) =
              Cardinality(Pieces(game.board, Other(game.turn))) - Best(game.board, game.turn)
<1>1. /\ IsBoard(game.board) /\ game.turn \in Colours /\ game.quiet \in 0 .. KingMoveLimit
      /\ ~game.ended => game.quiet < KingMoveLimit
  BY DEF PlayInv, GameTypeOK
<1>2. PICK m : Played(m)
  BY <1>1, NextPlays
<1>3. m \in LegalSet(game.board, game.turn) /\ game' = After(game, m, Quiet(game, m)) /\ ~game.ended
  BY <1>2 DEF Played
<1> DEFINE h == After(game, m, Quiet(game, m))
<1>4. h.board = ApplyMove(game.board, m) /\ h.winner # h.turn
  BY <1>1, <1>3, AfterIs
<1> HIDE DEF h
<1>5. game'.board = ApplyMove(game.board, m) /\ game'.winner # game'.turn
  BY <1>3, <1>4 DEF h
<1> QED BY <1>1, <1>3, <1>5, MaterialIs

(* Each move costs the mover nothing and takes just as many of the other     *)
(* side's pieces as the best capture there is: none when there is none.      *)
THEOREM MovesTakeTheMostThereIs == GameSpec => MovesTakeTheMost
<1>1. PlayInv /\ [GameNext]_gameVars =>
        [/\ Cardinality(Pieces(game'.board, game.turn)) = Cardinality(Pieces(game.board, game.turn))
         /\ Cardinality(Pieces(game'.board, Other(game.turn))) =
              Cardinality(Pieces(game.board, Other(game.turn))) - Best(game.board, game.turn)]_gameVars
  BY MaterialStep
<1> QED BY <1>1, PlayInit, PlayStep, PTL DEF GameSpec, MovesTakeTheMost
-----------------------------------------------------------------------------
(***************************************************************************)
(* Absence.                                                                  *)
(***************************************************************************)
(* The handler of a lost connection can only be running for a player who    *)
(* has another one, or who has been without.                                *)
ClosersLeft ==
    \A s \in Sockets :
        /\ closing[s] # "none" => Owner[s] \in left \/ Connected(Owner[s])
        /\ closing[s] = "arming" => Owner[s] \in left

(* Whoever a sweep and the boot have in hand has been away, and whoever a   *)
(* sweep is about to forfeit was out of the room when it looked.            *)
SweepsHoldTheAbsent ==
    /\ booting \subseteq left
    /\ \A w \in Sweeps :
          /\ sweep[w].list \subseteq left
          /\ sweep[w].entry # Nobody => sweep[w].entry \in left
          /\ sweep[w].at \in {"both", "draw"} => left = Players
          /\ \A p \in stayed[w] : InRoom(p)
          /\ sweep[w].at \in {"absent", "both", "draw", "forfeit"} => sweep[w].entry \notin stayed[w]

PInv ==
    /\ TypeOK
    /\ OnlyForThoseWhoLeft
    /\ ClosersLeft
    /\ SweepsHoldTheAbsent

(* What every step of the program keeps to. *)
StepIsFair ==
    \A w \in Sweeps :
        match = "live" /\ match' = "forfeit" /\ sweep[w].at = "forfeit" /\ sweep'[w].at = "idle"
        => loser' \notin stayed[w]

SweepRecord ==
    [list : SUBSET Players, entry : Players \cup {Nobody},
     at : {"idle", "taken", "absent", "both", "draw", "forfeit"}]
-----------------------------------------------------------------------------
LEMMA InitiallyPInv == Init => PInv
<1> SUFFICES ASSUME Init PROVE PInv
  OBVIOUS
<1>1. TypeOK
  <2>1. restarts \in 0 .. MaxRestarts
    <3>1. restarts = 0
      BY DEF Init
    <3>2. MaxRestarts \in Nat
      BY PresenceAssumption
    <3>3. QED
      BY <3>1, <3>2
  <2>2. Idle \in SweepRecord
    BY DEF Idle, SweepRecord
  <2>3. sweep \in [Sweeps -> SweepRecord]
    BY <2>2 DEF Init
  <2>4. QED
    BY <2>1, <2>3 DEF Init, TypeOK, Idle, SweepRecord
<1>2. OnlyForThoseWhoLeft /\ ClosersLeft
  BY DEF Init, OnlyForThoseWhoLeft, ClosersLeft
<1>3. SweepsHoldTheAbsent
  BY DEF Init, SweepsHoldTheAbsent, Idle
<1>4. QED
  BY <1>1, <1>2, <1>3 DEF PInv

(* With two players, the other one is there and everybody is one of them.   *)
LEMMA TwoPlayers ==
    ASSUME NEW p \in Players
    PROVE  Opponent(p) \in Players /\ Opponent(p) # p /\ Players = {p, Opponent(p)}
<1>1. IsFiniteSet(Players \ {p}) /\ Cardinality(Players \ {p}) = 1
  BY PresenceAssumption, FS_RemoveElement
<1>2. PICK q : Players \ {p} = {q}
  BY <1>1, FS_Singleton
<1>3. q \in Players /\ q # p /\ \A r \in Players : r # p => r = q
  BY <1>2
<1>4. Opponent(p) = q
  BY <1>3 DEF Opponent
<1>5. QED
  BY <1>3, <1>4

USE PresenceAssumption

LEMMA ConnectionsKeepPInv ==
    ASSUME PInv, NEW s \in Sockets,
           Connect(s) \/ Attach(s) \/ JoinAsks(s) \/ JoinClears(s) \/ JoinEnters(s)
    PROVE  PInv'
<1>1. \A t \in Sockets : socket[t] # "off" => socket'[t] # "off"
  BY DEF Connect, Attach, JoinAsks, JoinClears, JoinEnters, PInv, TypeOK
<1>2. \A t \in Sockets : socket[t] = "joined" => socket'[t] = "joined"
  BY DEF Connect, Attach, JoinAsks, JoinClears, JoinEnters, PInv, TypeOK
<1>3. /\ UNCHANGED <<closing, sweep, recovering, booting, left, stayed, match, loser, pointer, suspended, restarts>>
      /\ \A p \in Players : grace'[p] # "none" => grace[p] # "none"
  BY DEF Connect, Attach, JoinAsks, JoinClears, JoinEnters, SocketFrame, PInv, TypeOK
<1>4. TypeOK'
  <2>1. socket' \in [Sockets -> {"off", "new", "on", "joined"}]
    BY DEF Connect, Attach, JoinAsks, JoinClears, JoinEnters, PInv, TypeOK
  <2>2. joining' \in [Sockets -> {"none", "asked", "cleared"}]
    BY DEF Connect, Attach, JoinAsks, JoinClears, JoinEnters, PInv, TypeOK
  <2>3. grace' \in [Players -> {"none", "running", "due"}]
    BY DEF Connect, Attach, JoinAsks, JoinClears, JoinEnters, PInv, TypeOK
  <2>4. QED
    BY <1>3, <2>1, <2>2, <2>3 DEF PInv, TypeOK
<1>5. OnlyForThoseWhoLeft'
  BY <1>3 DEF PInv, OnlyForThoseWhoLeft
<1>6. ClosersLeft'
  BY <1>1, <1>3 DEF PInv, ClosersLeft, Connected, SocketsOf
<1>7. SweepsHoldTheAbsent'
  BY <1>2, <1>3 DEF PInv, SweepsHoldTheAbsent, InRoom, SocketsOf
<1>8. QED
  BY <1>4, <1>5, <1>6, <1>7 DEF PInv

LEMMA DisconnectKeepsPInv ==
    ASSUME PInv, NEW s \in Sockets, Disconnect(s)
    PROVE  PInv'
<1>1. /\ UNCHANGED <<grace, joining, match, loser, pointer, sweep, suspended, recovering, booting, restarts>>
      /\ left \subseteq left' /\ left' \subseteq Players
  BY DEF Disconnect, SocketFrame, PInv, TypeOK
<1>2. /\ stayed' \in [Sweeps -> SUBSET Players]
      /\ \A w \in Sweeps : stayed'[w] \subseteq stayed[w] /\ \A p \in stayed'[w] : InRoom(p)'
  BY DEF Disconnect, PInv, TypeOK
<1>3. TypeOK'
  <2>1. socket' \in [Sockets -> {"off", "new", "on", "joined"}]
    BY DEF Disconnect, PInv, TypeOK
  <2>2. closing' \in [Sockets -> {"none", "started", "arming"}]
    BY DEF Disconnect, PInv, TypeOK
  <2>3. QED
    BY <1>1, <1>2, <2>1, <2>2 DEF PInv, TypeOK
<1>4. OnlyForThoseWhoLeft'
  BY <1>1 DEF PInv, TypeOK, OnlyForThoseWhoLeft
<1>5. ClosersLeft'
  <2>1. SUFFICES ASSUME NEW t \in Sockets
                 PROVE  /\ closing'[t] # "none" => Owner[t] \in left' \/ Connected(Owner[t])'
                        /\ closing'[t] = "arming" => Owner[t] \in left'
    BY DEF ClosersLeft
  <2>2. CASE Owner[t] = Owner[s]
    BY <1>1, <2>2 DEF Disconnect, PInv, TypeOK, ClosersLeft
  <2>3. CASE Owner[t] # Owner[s]
    <3>1. closing'[t] = closing[t]
      BY <2>3 DEF Disconnect, PInv, TypeOK
    <3>2. Connected(Owner[t]) => Connected(Owner[t])'
      BY <2>3 DEF Disconnect, PInv, TypeOK, Connected, SocketsOf
    <3>3. QED
      BY <1>1, <3>1, <3>2 DEF PInv, ClosersLeft
  <2>4. QED
    BY <2>2, <2>3
<1>6. SweepsHoldTheAbsent'
  <2>1. booting' \subseteq left'
    BY <1>1 DEF PInv, SweepsHoldTheAbsent
  <2>2. ASSUME NEW w \in Sweeps
        PROVE  /\ sweep'[w].list \subseteq left'
               /\ sweep'[w].entry # Nobody => sweep'[w].entry \in left'
               /\ sweep'[w].at \in {"both", "draw"} => left' = Players
               /\ sweep'[w].at \in {"absent", "both", "draw", "forfeit"} => sweep'[w].entry \notin stayed'[w]
    BY <1>1, <1>2 DEF PInv, SweepsHoldTheAbsent
  <2>3. QED
    BY <1>2, <2>1, <2>2 DEF SweepsHoldTheAbsent
<1>7. QED
  BY <1>3, <1>4, <1>5, <1>6 DEF PInv

(* Steps of handlers that leave every socket where it is.                   *)
LEMMA HandlersKeepPInv ==
    ASSUME PInv, NEW s \in Sockets, (\E counted \in BOOLEAN : DisconnectLooks(s, counted)) \/ DisconnectArms(s)
    PROVE  PInv'
<1>1. /\ UNCHANGED <<socket, joining, stayed, match, loser, pointer, sweep, suspended, recovering, booting, restarts>>
      /\ left \subseteq left' /\ left' \subseteq Players
  BY DEF DisconnectLooks, DisconnectArms, SocketFrame, PInv, TypeOK
<1>2. TypeOK'
  <2>1. closing' \in [Sockets -> {"none", "started", "arming"}]
    BY DEF DisconnectLooks, DisconnectArms, PInv, TypeOK
  <2>2. grace' \in [Players -> {"none", "running", "due"}]
    BY DEF DisconnectLooks, DisconnectArms, PInv, TypeOK
  <2>3. QED
    BY <1>1, <2>1, <2>2 DEF PInv, TypeOK
<1>3. OnlyForThoseWhoLeft'
  <2>1. (match = "forfeit" => loser \in left') /\ (match = "draw" => left' = Players)
    BY <1>1 DEF PInv, OnlyForThoseWhoLeft
  <2>2. \A p \in Players : grace'[p] # "none" => grace[p] # "none" \/ p \in left
    BY DEF DisconnectLooks, DisconnectArms, PInv, TypeOK, ClosersLeft
  <2>3. QED
    BY <1>1, <2>1, <2>2 DEF PInv, OnlyForThoseWhoLeft
<1>4. ClosersLeft'
  BY <1>1 DEF DisconnectLooks, DisconnectArms, MustArm, PInv, TypeOK, ClosersLeft, Connected, SocketsOf
<1>5. SweepsHoldTheAbsent'
  <2>1. \A p \in Players : InRoom(p) <=> InRoom(p)'
    BY <1>1 DEF InRoom, SocketsOf
  <2>2. booting' \subseteq left'
    BY <1>1 DEF PInv, SweepsHoldTheAbsent
  <2>3. ASSUME NEW w \in Sweeps
        PROVE  /\ sweep'[w].list \subseteq left'
               /\ sweep'[w].entry # Nobody => sweep'[w].entry \in left'
               /\ sweep'[w].at \in {"both", "draw"} => left' = Players
               /\ sweep'[w].at \in {"absent", "both", "draw", "forfeit"} => sweep'[w].entry \notin stayed'[w]
    BY <1>1 DEF PInv, SweepsHoldTheAbsent
  <2>4. \A w \in Sweeps : \A p \in stayed'[w] : InRoom(p)'
    BY <1>1, <2>1 DEF PInv, TypeOK, SweepsHoldTheAbsent
  <2>5. QED
    BY <2>2, <2>3, <2>4 DEF SweepsHoldTheAbsent
<1>6. QED
  BY <1>2, <1>3, <1>4, <1>5 DEF PInv

LEMMA SocketsAsTheyAre ==
    ASSUME ClosersLeft, UNCHANGED <<socket, closing, left>>
    PROVE  ClosersLeft'
  BY DEF ClosersLeft, Connected, SocketsOf

LEMMA TimeAndBootKeepPInv ==
    ASSUME PInv, (\E p \in Players : GracePasses(p) \/ Rearm(p)) \/ BootReads
    PROVE  PInv'
<1>1. UNCHANGED <<socket, closing, joining, stayed, left, match, loser, pointer, sweep, suspended, restarts>>
  BY DEF GracePasses, Rearm, BootReads, SocketFrame
<1>2. TypeOK'
  BY <1>1 DEF GracePasses, Rearm, BootReads, SocketFrame, PInv, TypeOK
<1>3. OnlyForThoseWhoLeft'
  BY <1>1 DEF GracePasses, Rearm, BootReads, PInv, TypeOK, OnlyForThoseWhoLeft, SweepsHoldTheAbsent
<1>4. ClosersLeft'
  BY <1>1, SocketsAsTheyAre DEF PInv
<1>5. SweepsHoldTheAbsent'
  <2>1. booting' \subseteq left
    BY DEF GracePasses, Rearm, BootReads, SocketFrame, PInv, TypeOK, OnlyForThoseWhoLeft, SweepsHoldTheAbsent
  <2>2. QED
    BY <1>1, <2>1 DEF PInv, SweepsHoldTheAbsent, InRoom, SocketsOf
<1>6. QED
  BY <1>2, <1>3, <1>4, <1>5 DEF PInv

LEMMA RestartKeepsPInv ==
    ASSUME PInv, NEW suspend \in BOOLEAN, Restart(suspend)
    PROVE  PInv'
<1>1. sweep' = [w \in Sweeps |-> Idle] /\ Idle \in SweepRecord
  BY DEF Restart, Idle, SweepRecord
<1>2. sweep' \in [Sweeps -> SweepRecord] /\ \A w \in Sweeps : sweep'[w].at = "idle" /\ sweep'[w].entry = Nobody
  BY <1>1 DEF Idle
<1>3. TypeOK'
  BY <1>2 DEF Restart, SweepRecord, PInv, TypeOK
<1>4. QED
  BY <1>1, <1>3 DEF Restart, Idle, PInv, TypeOK, OnlyForThoseWhoLeft, ClosersLeft, SweepsHoldTheAbsent
-----------------------------------------------------------------------------
(* A step of one sweep: what the others hold is as it was, so only its own  *)
(* part of the invariant is left to look at.                                *)
LEMMA OneSweepMoves ==
    ASSUME PInv, NEW w \in Sweeps, NEW r \in SweepRecord,
           sweep' = [sweep EXCEPT ![w] = r], SweepFrame,
           \A v \in Sweeps : v # w => stayed'[v] = stayed[v],
           r.list \subseteq left, r.entry # Nobody => r.entry \in left,
           r.at \in {"both", "draw"} => left = Players,
           \A p \in stayed'[w] : InRoom(p),
           r.at \in {"absent", "both", "draw", "forfeit"} => r.entry \notin stayed'[w]
    PROVE  SweepsHoldTheAbsent' /\ ClosersLeft'
<1>1. ClosersLeft'
  BY SocketsAsTheyAre DEF PInv, SweepFrame
<1>2. sweep'[w] = r /\ \A v \in Sweeps : v # w => sweep'[v] = sweep[v]
  BY DEF PInv, TypeOK
<1>3. UNCHANGED <<left, booting>> /\ \A p \in Players : InRoom(p) <=> InRoom(p)'
  BY DEF SweepFrame, InRoom, SocketsOf
<1>4. ASSUME NEW v \in Sweeps
      PROVE  /\ sweep'[v].list \subseteq left'
             /\ sweep'[v].entry # Nobody => sweep'[v].entry \in left'
             /\ sweep'[v].at \in {"both", "draw"} => left' = Players
             /\ \A p \in stayed'[v] : InRoom(p)'
             /\ sweep'[v].at \in {"absent", "both", "draw", "forfeit"} => sweep'[v].entry \notin stayed'[v]
  <2>1. CASE v = w
    BY <1>2, <1>3, <2>1 DEF InRoom, SocketsOf, SweepFrame
  <2>2. CASE v # w
    BY <1>2, <1>3, <2>2 DEF PInv, SweepsHoldTheAbsent, InRoom, SocketsOf, SweepFrame
  <2>3. QED
    BY <2>1, <2>2
<1>5. QED
  BY <1>1, <1>3, <1>4 DEF PInv, SweepsHoldTheAbsent

(* Its typing, likewise.                                                    *)
LEMMA OneSweepIsTyped ==
    ASSUME PInv, NEW w \in Sweeps, NEW r \in SweepRecord,
           sweep' = [sweep EXCEPT ![w] = r], SweepFrame, r.at = "idle" <=> r.entry = Nobody,
           pointer' = pointer, grace' \in [Players -> {"none", "running", "due"}],
           stayed' \in [Sweeps -> SUBSET Players],
           match' \in {"live", "forfeit", "draw", "elsewhere"},
           loser' \in Players \cup {Nobody}, match' = "forfeit" <=> loser' # Nobody
    PROVE  TypeOK'
<1>1. sweep' \in [Sweeps -> SweepRecord]
  BY DEF PInv, TypeOK, SweepRecord
<1>2. \A v \in Sweeps : sweep'[v].at = "idle" <=> sweep'[v].entry = Nobody
  BY DEF PInv, TypeOK
<1>3. QED
  BY <1>1, <1>2 DEF PInv, TypeOK, SweepFrame, SweepRecord

LEMMA SweepKeepsPInv ==
    ASSUME PInv, NEW w \in Sweeps,
           SweepReads(w) \/ (\E p \in Players : SweepTakes(w, p)) \/ SweepLooks(w)
    PROVE  PInv'
<1>1. SweepFrame /\ UNCHANGED <<match, loser, pointer>>
  BY DEF SweepReads, SweepTakes, SweepLooks
<1>2. sweep[w] \in SweepRecord /\ (sweep[w].at = "idle" <=> sweep[w].entry = Nobody)
  BY DEF PInv, TypeOK, SweepRecord
<1>3. CASE SweepReads(w)
  <2> DEFINE r == [list |-> {p \in Players : grace[p] = "due"}, entry |-> Nobody, at |-> "idle"]
  <2>1. r \in SweepRecord /\ sweep' = [sweep EXCEPT ![w] = r]
    <3>1. sweep[w] = [list |-> {}, entry |-> Nobody, at |-> "idle"]
      BY <1>3 DEF SweepReads, Idle
    <3>2. sweep' = [sweep EXCEPT ![w] = [sweep[w] EXCEPT !.list = {p \in Players : grace[p] = "due"}]]
      BY <1>3 DEF SweepReads, PInv, TypeOK
    <3>3. [sweep[w] EXCEPT !.list = {p \in Players : grace[p] = "due"}] = r
      BY <3>1
    <3>4. r \in SweepRecord
      BY DEF SweepRecord
    <3>5. QED
      BY <3>2, <3>3, <3>4
  <2>2. r.list \subseteq left
    BY DEF PInv, OnlyForThoseWhoLeft
  <2>3. /\ stayed' \in [Sweeps -> SUBSET Players] /\ stayed'[w] = {p \in Players : InRoom(p)}
        /\ \A v \in Sweeps : v # w => stayed'[v] = stayed[v]
    BY <1>3 DEF SweepReads, PInv, TypeOK
  <2>4. SweepsHoldTheAbsent' /\ ClosersLeft'
    BY <1>1, <2>1, <2>2, <2>3, OneSweepMoves
  <2>5. TypeOK'
    <3>1. /\ grace' \in [Players -> {"none", "running", "due"}] /\ match' \in {"live", "forfeit", "draw", "elsewhere"}
          /\ loser' \in Players \cup {Nobody} /\ (match' = "forfeit" <=> loser' # Nobody)
      BY <1>1, <1>3 DEF SweepReads, PInv, TypeOK
    <3>2. QED
      BY <1>1, <2>1, <2>3, <3>1, OneSweepIsTyped
  <2>6. OnlyForThoseWhoLeft'
    BY <1>1, <1>3 DEF SweepReads, SweepFrame, PInv, OnlyForThoseWhoLeft
  <2>7. QED
    BY <2>4, <2>5, <2>6 DEF PInv
<1>4. ASSUME NEW p \in Players, SweepTakes(w, p) PROVE PInv'
  <2> DEFINE r == [list |-> sweep[w].list \ {p},
                   entry |-> IF grace[p] = "none" THEN Nobody ELSE p,
                   at |-> IF grace[p] = "none" THEN "idle" ELSE "taken"]
  <2>1. r \in SweepRecord /\ (r.at = "idle" <=> r.entry = Nobody)
    BY <1>2, PresenceAssumption DEF SweepRecord
  <2>2. sweep' = [sweep EXCEPT ![w] = r]
    BY <1>4 DEF SweepTakes, PInv, TypeOK
  <2>3. r.list \subseteq left /\ (r.entry # Nobody => r.entry \in left) /\ r.at \in {"idle", "taken"}
    BY DEF PInv, OnlyForThoseWhoLeft, SweepsHoldTheAbsent
  <2>4. stayed' = stayed /\ \A q \in stayed[w] : InRoom(q)
    BY <1>4 DEF SweepTakes, PInv, SweepsHoldTheAbsent
  <2>5. SweepsHoldTheAbsent' /\ ClosersLeft'
    BY <1>1, <2>1, <2>2, <2>3, <2>4, OneSweepMoves
  <2>6. TypeOK'
    <3>1. /\ grace' \in [Players -> {"none", "running", "due"}] /\ match' \in {"live", "forfeit", "draw", "elsewhere"}
          /\ loser' \in Players \cup {Nobody} /\ (match' = "forfeit" <=> loser' # Nobody)
          /\ stayed' \in [Sweeps -> SUBSET Players]
      BY <1>1, <1>4 DEF SweepTakes, PInv, TypeOK
    <3>2. QED
      BY <1>1, <2>1, <2>2, <3>1, OneSweepIsTyped
  <2>7. OnlyForThoseWhoLeft'
    BY <1>1, <1>4 DEF SweepTakes, SweepFrame, PInv, TypeOK, OnlyForThoseWhoLeft
  <2>8. QED
    BY <2>5, <2>6, <2>7 DEF PInv
<1>5. CASE SweepLooks(w)
  <2>1. PICK r \in SweepRecord :
          /\ sweep' = [sweep EXCEPT ![w] = r] /\ r.list = sweep[w].list
          /\ \/ r.entry = Nobody /\ r.at = "idle"
             \/ r.entry = sweep[w].entry /\ r.at = "absent" /\ ~InRoom(r.entry)
    <3>1. CASE InRoom(sweep[w].entry)
      <4> DEFINE r == [sweep[w] EXCEPT !.entry = Nobody, !.at = "idle"]
      <4>1. sweep' = [sweep EXCEPT ![w] = r]
        BY <1>5, <3>1 DEF SweepLooks, Drops, BackInTime, PInv, TypeOK
      <4>2. r \in SweepRecord /\ r.list = sweep[w].list /\ r.entry = Nobody /\ r.at = "idle"
        BY <1>2 DEF SweepRecord
      <4>3. QED
        BY <4>1, <4>2
    <3>2. CASE ~InRoom(sweep[w].entry)
      <4> DEFINE r == [sweep[w] EXCEPT !.at = "absent"]
      <4>1. sweep' = [sweep EXCEPT ![w] = r]
        BY <1>5, <3>2 DEF SweepLooks, Drops, BackInTime, PInv, TypeOK
      <4>2. r \in SweepRecord /\ r.list = sweep[w].list /\ r.entry = sweep[w].entry /\ r.at = "absent"
        BY <1>2 DEF SweepRecord
      <4>3. QED
        BY <3>2, <4>1, <4>2
    <3>3. QED
      BY <3>1, <3>2
  <2>2. sweep[w].entry # Nobody
    BY <1>2, <1>5 DEF SweepLooks
  <2>3. stayed' = stayed /\ \A q \in stayed[w] : InRoom(q)
    BY <1>5 DEF SweepLooks, PInv, SweepsHoldTheAbsent
  <2>4. r.list \subseteq left /\ (r.entry # Nobody => r.entry \in left)
    BY <2>1 DEF PInv, SweepsHoldTheAbsent
  <2>5. SweepsHoldTheAbsent' /\ ClosersLeft'
    BY <1>1, <2>1, <2>3, <2>4, OneSweepMoves
  <2>6. TypeOK'
    BY <1>1, <1>5, <2>1, <2>2, <2>3, OneSweepIsTyped DEF SweepLooks, PInv, TypeOK
  <2>7. OnlyForThoseWhoLeft'
    BY <1>1, <1>5 DEF SweepLooks, SweepFrame, PInv, OnlyForThoseWhoLeft
  <2>8. QED
    BY <2>5, <2>6, <2>7 DEF PInv
<1>6. QED
  BY <1>3, <1>4, <1>5

(* The sweep decides: it lets the entry go, or goes on to a draw or to a    *)
(* forfeit, for which it has the entry it looked for.                       *)
LEMMA JudgeKeepsPInv ==
    ASSUME PInv, NEW w \in Sweeps, SweepJudges(w) \/ SweepTakesBoth(w)
    PROVE  PInv'
<1> DEFINE p == sweep[w].entry
<1>1. SweepFrame /\ UNCHANGED <<match, loser, pointer, stayed>>
  BY DEF SweepJudges, SweepTakesBoth
<1>2. sweep[w] \in SweepRecord /\ sweep[w].at \in {"absent", "both"} /\ p \in Players
  BY DEF SweepJudges, SweepTakesBoth, PInv, TypeOK, SweepRecord
<1>3. Opponent(p) \in Players /\ Players = {p, Opponent(p)}
  BY <1>2, TwoPlayers
<1>4. /\ p \in left /\ p \notin stayed[w] /\ sweep[w].list \subseteq left
      /\ sweep[w].at = "both" => left = Players
      /\ \A q \in stayed[w] : InRoom(q)
  BY <1>2, PresenceAssumption DEF PInv, SweepsHoldTheAbsent
<1>5. grace[Opponent(p)] # "none" => left = Players
  BY <1>3, <1>4 DEF PInv, TypeOK, OnlyForThoseWhoLeft
<1>6. PICK at \in {"idle", "both", "draw", "forfeit"} :
        /\ sweep' = [sweep EXCEPT ![w] = [list |-> sweep[w].list, at |-> at,
                                         entry |-> IF at = "idle" THEN Nobody ELSE p]]
        /\ at \in {"both", "draw"} => left = Players
  <2>1. sweep[w] = [list |-> sweep[w].list, entry |-> p, at |-> sweep[w].at]
    BY <1>2 DEF SweepRecord
  <2>2. CASE SweepTakesBoth(w)
    <3> DEFINE t == [sweep[w] EXCEPT !.at = "draw"]
    <3>1. sweep' = [sweep EXCEPT ![w] = t]
      BY <2>2 DEF SweepTakesBoth, PInv, TypeOK
    <3>2. t = [list |-> sweep[w].list, at |-> "draw", entry |-> p]
      BY <1>2 DEF SweepRecord
    <3>3. QED
      BY <1>4, <2>2, <3>1, <3>2 DEF SweepTakesBoth
  <2>3. CASE SweepJudges(w) /\ match # "live"
    <3>1. sweep' = [sweep EXCEPT ![w] = [list |-> sweep[w].list, at |-> "idle", entry |-> Nobody]]
      BY <2>1, <2>3 DEF SweepJudges, Drops, PInv, TypeOK
    <3>2. QED
      BY <3>1
  <2>4. CASE SweepJudges(w) /\ match = "live" /\ OpponentGone(p)
    <3>1. sweep' = [sweep EXCEPT ![w] = [list |-> sweep[w].list, at |-> "both", entry |-> p]]
      BY <2>1, <2>4 DEF SweepJudges, PInv, TypeOK
    <3>2. QED
      BY <1>5, <2>4, <3>1 DEF OpponentGone
  <2>5. CASE SweepJudges(w) /\ match = "live" /\ ~OpponentGone(p)
    <3>1. sweep' = [sweep EXCEPT ![w] = [list |-> sweep[w].list, at |-> "forfeit", entry |-> p]]
      BY <2>1, <2>5 DEF SweepJudges, PInv, TypeOK
    <3>2. QED
      BY <3>1
  <2>6. QED
    BY <2>2, <2>3, <2>4, <2>5
<1> DEFINE r == [list |-> sweep[w].list, at |-> at, entry |-> IF at = "idle" THEN Nobody ELSE p]
<1>7. r \in SweepRecord /\ (r.at = "idle" <=> r.entry = Nobody)
  BY <1>2, <1>6, PresenceAssumption DEF SweepRecord
<1>8. SweepsHoldTheAbsent' /\ ClosersLeft'
  BY <1>1, <1>4, <1>6, <1>7, OneSweepMoves
<1>9. /\ grace' \in [Players -> {"none", "running", "due"}]
      /\ \A q \in Players : grace'[q] # "none" => grace[q] # "none"
  BY <1>3 DEF SweepJudges, SweepTakesBoth, PInv, TypeOK
<1>10. TypeOK'
  BY <1>1, <1>6, <1>7, <1>9, OneSweepIsTyped DEF PInv, TypeOK
<1>11. OnlyForThoseWhoLeft'
  BY <1>1, <1>9 DEF SweepFrame, PInv, OnlyForThoseWhoLeft
<1>12. QED
  BY <1>8, <1>10, <1>11 DEF PInv

LEMMA EntriesAreDone ==
    ASSUME PInv, NEW w \in Sweeps, SweepSettles(w) \/ EntryFails(w)
    PROVE  PInv' /\ StepIsFair
<1>1. SweepFrame /\ UNCHANGED <<grace, pointer, stayed>>
  BY DEF SweepSettles, EntryFails
<1>2. sweep[w] \in SweepRecord
  BY DEF PInv, TypeOK, SweepRecord
<1> DEFINE r == [list |-> sweep[w].list, entry |-> Nobody, at |-> "idle"]
<1>3. r \in SweepRecord /\ sweep' = [sweep EXCEPT ![w] = r]
  BY <1>2 DEF SweepSettles, EntryFails, Drops, PInv, TypeOK, SweepRecord
<1>4. r.list \subseteq left /\ \A q \in stayed[w] : InRoom(q)
  BY DEF PInv, SweepsHoldTheAbsent
<1>5. SweepsHoldTheAbsent' /\ ClosersLeft'
  BY <1>1, <1>3, <1>4, OneSweepMoves
<1>6. /\ match' \in {"live", "forfeit", "draw", "elsewhere"} /\ loser' \in Players \cup {Nobody}
      /\ match' = "forfeit" <=> loser' # Nobody
      /\ match' = "forfeit" => loser' \in left
      /\ match' = "draw" => left = Players
  BY PresenceAssumption DEF SweepSettles, EntryFails, Loses, PInv, TypeOK, OnlyForThoseWhoLeft, SweepsHoldTheAbsent
<1>7. TypeOK'
  BY <1>1, <1>3, <1>6, OneSweepIsTyped DEF PInv, TypeOK
<1>8. OnlyForThoseWhoLeft'
  BY <1>1, <1>6 DEF SweepFrame, PInv, OnlyForThoseWhoLeft
<1>9. StepIsFair
  <2>1. SUFFICES ASSUME NEW v \in Sweeps, match = "live", match' = "forfeit",
                        sweep[v].at = "forfeit", sweep'[v].at = "idle"
                 PROVE  loser' \notin stayed[v]
    BY DEF StepIsFair
  <2>2. v = w
    BY <1>3, <2>1 DEF PInv, TypeOK
  <2>3. loser' = sweep[w].entry
    BY <2>1, <2>2 DEF SweepSettles, EntryFails, Loses
  <2>4. QED
    BY <2>1, <2>2, <2>3 DEF PInv, SweepsHoldTheAbsent
<1>10. QED
  BY <1>5, <1>7, <1>8, <1>9 DEF PInv

LEMMA EndsKeepPInv ==
    ASSUME PInv, EndsElsewhere \/ CleanUp
    PROVE  PInv' /\ StepIsFair
<1>1. /\ UNCHANGED <<socket, closing, joining, grace, suspended, recovering, booting, restarts, left, stayed, sweep, loser>>
      /\ match' \in {match, "elsewhere"} /\ pointer' \in BOOLEAN /\ (match' # match => match = "live")
  BY DEF EndsElsewhere, CleanUp, SweepFrame, PInv, TypeOK
<1>2. TypeOK' /\ OnlyForThoseWhoLeft'
  BY <1>1 DEF PInv, TypeOK, OnlyForThoseWhoLeft
<1>3. ClosersLeft' /\ SweepsHoldTheAbsent'
  BY <1>1, SocketsAsTheyAre DEF PInv, SweepsHoldTheAbsent, InRoom, SocketsOf
<1>4. StepIsFair
  BY <1>1 DEF StepIsFair
<1>5. QED
  BY <1>2, <1>3, <1>4 DEF PInv

LEMMA PInvIsInductive ==
    ASSUME PInv, [Next]_vars
    PROVE  PInv' /\ StepIsFair
<1>1. match' = match => StepIsFair
  BY DEF StepIsFair
<1>2. ASSUME NEW s \in Sockets,
             \/ Connect(s) \/ Attach(s) \/ Disconnect(s)
             \/ (\E counted \in BOOLEAN : DisconnectLooks(s, counted))
             \/ DisconnectArms(s)
             \/ JoinAsks(s) \/ JoinClears(s) \/ JoinEnters(s)
      PROVE  PInv' /\ StepIsFair
  <2>1. match' = match
    BY <1>2 DEF Connect, Attach, Disconnect, DisconnectLooks, DisconnectArms, JoinAsks, JoinClears, JoinEnters,
                SocketFrame
  <2>2. QED
    BY <1>1, <1>2, <2>1, ConnectionsKeepPInv, DisconnectKeepsPInv, HandlersKeepPInv
<1>3. CASE (\E p \in Players : GracePasses(p) \/ Rearm(p)) \/ BootReads
  <2>1. match' = match
    BY <1>3 DEF GracePasses, Rearm, BootReads, SocketFrame
  <2>2. QED
    BY <1>1, <1>3, <2>1, TimeAndBootKeepPInv
<1>4. ASSUME NEW w \in Sweeps,
             \/ SweepReads(w) \/ (\E p \in Players : SweepTakes(w, p))
             \/ SweepLooks(w) \/ SweepJudges(w) \/ SweepTakesBoth(w)
      PROVE  PInv' /\ StepIsFair
  <2>1. match' = match
    BY <1>4 DEF SweepReads, SweepTakes, SweepLooks, SweepJudges, SweepTakesBoth
  <2>2. QED
    BY <1>1, <1>4, <2>1, SweepKeepsPInv, JudgeKeepsPInv
<1>5. ASSUME NEW w \in Sweeps, SweepSettles(w) \/ EntryFails(w)
      PROVE  PInv' /\ StepIsFair
  BY <1>5, EntriesAreDone
<1>6. CASE EndsElsewhere \/ CleanUp
  BY <1>6, EndsKeepPInv
<1>7. ASSUME NEW suspend \in BOOLEAN, Restart(suspend)
      PROVE  PInv' /\ StepIsFair
  BY <1>1, <1>7, RestartKeepsPInv DEF Restart
<1>8. CASE UNCHANGED vars
  <2>1. TypeOK' /\ OnlyForThoseWhoLeft'
    BY <1>8 DEF vars, PInv, TypeOK, OnlyForThoseWhoLeft
  <2>2. ClosersLeft' /\ SweepsHoldTheAbsent'
    BY <1>8, SocketsAsTheyAre DEF vars, PInv, SweepsHoldTheAbsent, InRoom, SocketsOf
  <2>3. QED
    BY <1>1, <1>8, <2>1, <2>2 DEF vars, PInv
<1>9. QED
  BY <1>2, <1>3, <1>4, <1>5, <1>6, <1>7, <1>8 DEF Next
-----------------------------------------------------------------------------
(* A draw or a forfeit is only ever held against players who were without   *)
(* a connection, or lost one when the others could not be counted           *)
(* (disconnectSweep.js, disconnectHandler.js:28), and the state is typed.   *)
THEOREM OnlyTheAbsentLose == Spec => []PresenceInv
<1>1. PInv /\ [Next]_vars => PInv'
  BY PInvIsInductive
<1>2. PInv => PresenceInv
  BY DEF PInv, PresenceInv
<1>3. QED
  BY <1>1, <1>2, InitiallyPInv, PTL DEF Spec

(* Who has been in the room since a sweep read its list is not forfeited by *)
(* it, whatever entry was armed too late and however many sweeps overlap    *)
(* (disconnectSweep.js:40).                                                 *)
THEOREM StayersKeepTheirMatch == Spec => StayersAreNotForfeited
<1>1. PInv /\ [Next]_vars
      => PInv' /\ [\A w \in Sweeps :
                     match = "live" /\ match' = "forfeit" /\ sweep[w].at = "forfeit" /\ sweep'[w].at = "idle"
                     => loser' \notin stayed[w]]_vars
  BY PInvIsInductive DEF StepIsFair
<1>2. QED
  BY <1>1, InitiallyPInv, PTL DEF Spec, StayersAreNotForfeited
=============================================================================

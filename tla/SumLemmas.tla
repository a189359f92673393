------------------------------ MODULE SumLemmas ------------------------------
(***************************************************************************)
(* Sums over finite sets, as the proofs about money need them.             *)
(*                                                                         *)
(* SumFunctionOnSet(f, S) unfolds to a function defined by recursion on    *)
(* the subsets of S.  That this function exists, and that the order in     *)
(* which it takes the elements does not matter, is shown by looking at a   *)
(* smallest set for which it would be otherwise (WFMin): induction over    *)
(* finite sets without a theorem that has an operator for its parameter.   *)
(***************************************************************************)
EXTENDS Integers, Functions, FiniteSetTheorems, WellFoundedInduction, TLAPS

Some(s) == CHOOSE x \in s : TRUE
SumBody(f, g, s) == IF s = {} THEN 0 ELSE f[Some(s)] + g[s \ {Some(s)}]
Unfolds(f, g, S) == g = [s \in SUBSET S |-> SumBody(f, g, s)]
Iter(f, S) == CHOOSE g : Unfolds(f, g, S)
-----------------------------------------------------------------------------
(* A nonempty set of subsets of a finite set has a smallest member. *)
LEMMA SmallestMember ==
  ASSUME NEW S, IsFiniteSet(S), NEW B \in SUBSET SUBSET S, B # {}
  PROVE  \E s \in B : /\ IsFiniteSet(s)
                      /\ \A t \in B : ~(t \subseteq s /\ t # s)
<1>1. IsWellFoundedOn(StrictSubsetOrdering(S), FiniteSubsetsOf(S))
  BY FS_StrictSubsetOrderingWellFounded
<1>2. \A s \in SUBSET S : IsFiniteSet(s)
  BY FS_Subset
<1>3. B \subseteq FiniteSubsetsOf(S)
  BY <1>2 DEF FiniteSubsetsOf
<1>4. PICK s \in B : \A t \in B : <<t, s>> \notin StrictSubsetOrdering(S)
  BY <1>1, <1>3, WFMin
<1>5. \A t \in B : ~(t \subseteq s /\ t # s)
  BY <1>4 DEF StrictSubsetOrdering
<1> QED
  BY <1>2, <1>4, <1>5

LEMMA SomeIsIn == ASSUME NEW s, s # {} PROVE Some(s) \in s
  BY DEF Some

(* Two recursions over functions that agree on a set agree on its sum. *)
LEMMA IterAgree ==
  ASSUME NEW S, IsFiniteSet(S), NEW T, NEW U, S \subseteq T, S \subseteq U,
         NEW f, NEW k, \A x \in S : f[x] = k[x],
         NEW g, NEW h, Unfolds(f, g, T), Unfolds(k, h, U)
  PROVE  g[S] = h[S]
<1> DEFINE B == {s \in SUBSET S : g[s] # h[s]}
<1> SUFFICES ASSUME g[S] # h[S] PROVE FALSE
  OBVIOUS
<1>1. B \in SUBSET SUBSET S /\ B # {}
  OBVIOUS
<1> HIDE DEF B
<1>2. PICK s \in B : \A t \in B : ~(t \subseteq s /\ t # s)
  BY <1>1, SmallestMember
<1>3. s \subseteq S /\ g[s] # h[s]
  BY DEF B
<1>4. g[s] = SumBody(f, g, s) /\ h[s] = SumBody(k, h, s)
  BY <1>3 DEF Unfolds
<1>5. s # {}
  BY <1>3, <1>4 DEF SumBody
<1>6. Some(s) \in s
  BY <1>5, SomeIsIn
<1>7. g[s \ {Some(s)}] = h[s \ {Some(s)}]
  BY <1>2, <1>3, <1>6 DEF B
<1>8. f[Some(s)] = k[Some(s)]
  BY <1>3, <1>6
<1> QED
  BY <1>3, <1>4, <1>5, <1>7, <1>8 DEF SumBody

(* The recursion defines a function. *)
LEMMA IterExists ==
  ASSUME NEW S, IsFiniteSet(S), NEW f
  PROVE  Unfolds(f, Iter(f, S), S)
<1> DEFINE B == {s \in SUBSET S : ~\E g : Unfolds(f, g, s)}
<1> SUFFICES ASSUME ~\E g : Unfolds(f, g, S) PROVE FALSE
  BY DEF Iter
<1>1. B \in SUBSET SUBSET S /\ B # {}
  OBVIOUS
<1>2. \A s \in SUBSET S : s \notin B => Unfolds(f, Iter(f, s), s)
  BY DEF Iter
<1>3. \A s \in B : s \subseteq S /\ ~\E g : Unfolds(f, g, s)
  OBVIOUS
<1> HIDE DEF B
<1>4. PICK s \in B : /\ IsFiniteSet(s)
                     /\ \A t \in B : ~(t \subseteq s /\ t # s)
  BY <1>1, SmallestMember
<1>5. \A t \in SUBSET s : IsFiniteSet(t)
  BY <1>4, FS_Subset
<1>6. \A t \in SUBSET s : t # s => Unfolds(f, Iter(f, t), t)
  BY <1>2, <1>3, <1>4
<1> DEFINE V(t) == Iter(f, t)[t]
           last == IF s = {} THEN 0 ELSE f[Some(s)] + V(s \ {Some(s)})
           h == [t \in SUBSET s |-> IF t = s THEN last ELSE V(t)]
<1>7. \A t \in SUBSET s : t # s => V(t) = IF t = {} THEN 0 ELSE f[Some(t)] + V(t \ {Some(t)})
  <2> SUFFICES ASSUME NEW t \in SUBSET s, t # s
               PROVE  V(t) = IF t = {} THEN 0 ELSE f[Some(t)] + V(t \ {Some(t)})
    OBVIOUS
  <2>1. V(t) = SumBody(f, Iter(f, t), t)
    BY <1>6 DEF Unfolds
  <2>2. CASE t = {}
    BY <2>1, <2>2 DEF SumBody
  <2>3. CASE t # {}
    <3>1. Some(t) \in t
      BY <2>3, SomeIsIn
    <3> DEFINE r == t \ {Some(t)}
    <3>2. r \in SUBSET s /\ r # s /\ r \subseteq t /\ IsFiniteSet(r)
      BY <3>1, <1>5
    <3>3. Unfolds(f, Iter(f, r), r) /\ Unfolds(f, Iter(f, t), t)
      BY <1>6, <3>2
    <3>4. Iter(f, t)[r] = V(r)
      BY <3>2, <3>3, IterAgree
    <3> QED
      BY <2>1, <2>3, <3>4 DEF SumBody
  <2> QED BY <2>2, <2>3
<1>8. \A t \in SUBSET s : h[t] = SumBody(f, h, t)
  <2> SUFFICES ASSUME NEW t \in SUBSET s PROVE h[t] = SumBody(f, h, t)
    OBVIOUS
  <2>1. CASE t = {}
    BY <2>1, <1>7 DEF SumBody
  <2>2. CASE t # {}
    <3>1. Some(t) \in t
      BY <2>2, SomeIsIn
    <3> DEFINE r == t \ {Some(t)}
    <3>2. r \in SUBSET s /\ r # s
      BY <3>1
    <3>3. h[r] = V(r)
      BY <3>2
    <3>4. h[t] = f[Some(t)] + V(r)
      BY <2>2, <1>7
    <3> QED
      BY <2>2, <3>3, <3>4 DEF SumBody
  <2> QED BY <2>1, <2>2
<1>9. Unfolds(f, h, s)
  <2>1. h = [t \in SUBSET s |-> h[t]]
    OBVIOUS
  <2> HIDE DEF h
  <2> QED BY <2>1, <1>8 DEF Unfolds
<1> QED
  BY <1>3, <1>9
-----------------------------------------------------------------------------
LEMMA SumIsIter ==
  ASSUME NEW f, NEW S
  PROVE  SumFunctionOnSet(f, S) = Iter(f, S)[S]
  BY DEF SumFunctionOnSet, FoldFunctionOnSet, MapThenFoldSet, Iter, Unfolds, SumBody, Some

(* The sum over nothing. *)
LEMMA SumOfNothing ==
  ASSUME NEW f
  PROVE  SumFunctionOnSet(f, {}) = 0
<1>1. Unfolds(f, Iter(f, {}), {})
  BY IterExists, FS_EmptySet
<1> QED
  BY <1>1, SumIsIter DEF Unfolds, SumBody

(* The sum depends on the values over the set only. *)
LEMMA SumAgrees ==
  ASSUME NEW S, IsFiniteSet(S), NEW f, NEW k, \A x \in S : f[x] = k[x]
  PROVE  SumFunctionOnSet(f, S) = SumFunctionOnSet(k, S)
<1>1. Unfolds(f, Iter(f, S), S) /\ Unfolds(k, Iter(k, S), S)
  BY IterExists
<1>2. Iter(f, S)[S] = Iter(k, S)[S]
  BY <1>1, IterAgree
<1> QED
  BY <1>2, SumIsIter

LEMMA SumStep ==
  ASSUME NEW S, IsFiniteSet(S), S # {}, NEW f
  PROVE  SumFunctionOnSet(f, S) = f[Some(S)] + SumFunctionOnSet(f, S \ {Some(S)})
<1> DEFINE R == S \ {Some(S)}
<1>1. IsFiniteSet(R)
  BY FS_Subset
<1>2. Unfolds(f, Iter(f, S), S) /\ Unfolds(f, Iter(f, R), R)
  BY <1>1, IterExists
<1>3. Iter(f, S)[R] = Iter(f, R)[R]
  BY <1>1, <1>2, IterAgree
<1>4. Iter(f, S)[S] = f[Some(S)] + Iter(f, S)[R]
  BY <1>2 DEF Unfolds, SumBody
<1> QED
  BY <1>3, <1>4, SumIsIter

LEMMA SumIsInt ==
  ASSUME NEW S, IsFiniteSet(S), NEW f, \A x \in S : f[x] \in Int
  PROVE  SumFunctionOnSet(f, S) \in Int
<1> DEFINE B == {s \in SUBSET S : SumFunctionOnSet(f, s) \notin Int}
<1> SUFFICES ASSUME B # {} PROVE FALSE
  OBVIOUS
<1>1. B \in SUBSET SUBSET S
  OBVIOUS
<1> HIDE DEF B
<1>2. PICK s \in B : IsFiniteSet(s) /\ \A t \in B : ~(t \subseteq s /\ t # s)
  BY <1>1, SmallestMember
<1>3. s \subseteq S /\ SumFunctionOnSet(f, s) \notin Int
  BY DEF B
<1>4. s # {}
  BY <1>3, SumOfNothing
<1>5. Some(s) \in s
  BY <1>4, SomeIsIn
<1>6. SumFunctionOnSet(f, s \ {Some(s)}) \in Int
  BY <1>2, <1>3, <1>5 DEF B
<1>7. SumFunctionOnSet(f, s) = f[Some(s)] + SumFunctionOnSet(f, s \ {Some(s)})
  BY <1>2, <1>4, SumStep
<1>8. f[Some(s)] \in Int
  BY <1>3, <1>5
<1> QED
  BY <1>3, <1>6, <1>7, <1>8

(* Any element may be taken first. *)
LEMMA SumTakes ==
  ASSUME NEW S, IsFiniteSet(S), NEW f, \A x \in S : f[x] \in Int, NEW x \in S
  PROVE  SumFunctionOnSet(f, S) = f[x] + SumFunctionOnSet(f, S \ {x})
<1> DEFINE B == {s \in SUBSET S : \E y \in s :
                    SumFunctionOnSet(f, s) # f[y] + SumFunctionOnSet(f, s \ {y})}
<1> SUFFICES ASSUME B # {} PROVE FALSE
  OBVIOUS
<1>1. B \in SUBSET SUBSET S
  OBVIOUS
<1> HIDE DEF B
<1>2. PICK s \in B : IsFiniteSet(s) /\ \A t \in B : ~(t \subseteq s /\ t # s)
  BY <1>1, SmallestMember
<1>3. s \subseteq S
  BY DEF B
<1>4. PICK y \in s : SumFunctionOnSet(f, s) # f[y] + SumFunctionOnSet(f, s \ {y})
  BY DEF B
<1> DEFINE z == Some(s)
<1>5. z \in s
  BY <1>4, SomeIsIn
<1>6. SumFunctionOnSet(f, s) = f[z] + SumFunctionOnSet(f, s \ {z})
  BY <1>2, <1>4, SumStep
<1> HIDE DEF z
<1>7. y # z
  BY <1>4, <1>6
<1>8. s \ {z} \notin B /\ s \ {y} \notin B
  BY <1>2, <1>4, <1>5
<1>9. SumFunctionOnSet(f, s \ {z}) = f[y] + SumFunctionOnSet(f, (s \ {z}) \ {y})
  BY <1>3, <1>4, <1>7, <1>8 DEF B
<1>10. SumFunctionOnSet(f, s \ {y}) = f[z] + SumFunctionOnSet(f, (s \ {y}) \ {z})
  BY <1>3, <1>5, <1>7, <1>8 DEF B
<1>11. (s \ {z}) \ {y} = (s \ {y}) \ {z}
  OBVIOUS
<1>12. f[y] \in Int /\ f[z] \in Int
  BY <1>3, <1>4, <1>5
<1> DEFINE rest == (s \ {y}) \ {z}
<1>13. IsFiniteSet(rest) /\ \A w \in rest : f[w] \in Int
  BY <1>2, <1>3, FS_Subset
<1>14. SumFunctionOnSet(f, rest) \in Int
  BY <1>13, SumIsInt
<1>15. SumFunctionOnSet(f, s \ {z}) = f[y] + SumFunctionOnSet(f, rest)
  BY <1>9, <1>11
<1> HIDE DEF rest
<1>16. SumFunctionOnSet(f, s) = f[z] + (f[y] + SumFunctionOnSet(f, rest))
  BY <1>6, <1>15
<1>17. SumFunctionOnSet(f, s \ {y}) = f[z] + SumFunctionOnSet(f, rest)
  BY <1>10 DEF rest
<1> QED
  BY <1>4, <1>12, <1>14, <1>16, <1>17

(* What a change of one value does to the sum. *)
LEMMA SumMoves ==
  ASSUME NEW S, IsFiniteSet(S), NEW f, NEW k, NEW x \in S,
         \A y \in S : f[y] \in Int, k[x] \in Int, \A y \in S \ {x} : k[y] = f[y]
  PROVE  SumFunctionOnSet(k, S) = SumFunctionOnSet(f, S) + k[x] - f[x]
<1>1. SumFunctionOnSet(f, S) = f[x] + SumFunctionOnSet(f, S \ {x})
  BY SumTakes
<1>2. \A y \in S : k[y] \in Int
  OBVIOUS
<1>3. SumFunctionOnSet(k, S) = k[x] + SumFunctionOnSet(k, S \ {x})
  BY <1>2, SumTakes
<1>4. IsFiniteSet(S \ {x})
  BY FS_Subset
<1>5. SumFunctionOnSet(k, S \ {x}) = SumFunctionOnSet(f, S \ {x})
  BY <1>4, SumAgrees
<1>6. SumFunctionOnSet(f, S \ {x}) \in Int
  BY <1>4, SumIsInt
<1>7. f[x] \in Int
  OBVIOUS
<1> QED
  BY <1>1, <1>3, <1>5, <1>6, <1>7

(* A sum of naturals is a natural, and 0 when all of them are. *)
LEMMA SumIsNat ==
  ASSUME NEW S, IsFiniteSet(S), NEW f, \A x \in S : f[x] \in Nat
  PROVE  /\ SumFunctionOnSet(f, S) \in Nat
         /\ (\A x \in S : f[x] = 0) => SumFunctionOnSet(f, S) = 0
<1> DEFINE Good(s) == /\ SumFunctionOnSet(f, s) \in Nat
                      /\ (\A x \in S : f[x] = 0) => SumFunctionOnSet(f, s) = 0
           B == {s \in SUBSET S : ~Good(s)}
<1> SUFFICES ASSUME B # {} PROVE FALSE
  OBVIOUS
<1>1. B \in SUBSET SUBSET S
  OBVIOUS
<1>2. \A s \in SUBSET S : s \in B <=> ~Good(s)
  OBVIOUS
<1> HIDE DEF B
<1>3. PICK s \in B : IsFiniteSet(s) /\ \A t \in B : ~(t \subseteq s /\ t # s)
  BY <1>1, SmallestMember
<1>4. s \subseteq S /\ ~Good(s)
  BY <1>1, <1>2
<1>5. s # {}
  BY <1>4, SumOfNothing
<1>6. Some(s) \in s
  BY <1>5, SomeIsIn
<1>7. Good(s \ {Some(s)})
  BY <1>2, <1>3, <1>4, <1>6
<1>8. SumFunctionOnSet(f, s) = f[Some(s)] + SumFunctionOnSet(f, s \ {Some(s)})
  BY <1>3, <1>5, SumStep
<1>9. f[Some(s)] \in Nat
  BY <1>4, <1>6
<1>10. (\A x \in S : f[x] = 0) => f[Some(s)] = 0
  BY <1>4, <1>6
<1> QED
  BY <1>4, <1>7, <1>8, <1>9, <1>10
=============================================================================

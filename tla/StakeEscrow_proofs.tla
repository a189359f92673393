------------------------- MODULE StakeEscrow_proofs -------------------------
(* The invariants of the abstract escrow, for every choice of its constants. *)
EXTENDS StakeEscrow, SumLemmas

(* The cut of the house is never negative and never more than the pot, for  *)
(* every stake and percentage computeSettlement accepts.                    *)
LEMMA CommissionBounded ==
    ASSUME NEW t \in Terms
    PROVE  /\ t.stake \in Nat /\ t.stake > 0
           /\ Commission(t) \in Nat
           /\ Payout(t) \in Nat
           /\ Payout(t) + Commission(t) = 2 * t.stake
<1> DEFINE s == t.stake
           p == t.pct
           x == (2 * s) * p
<1>1. s \in Nat /\ s > 0 /\ p \in 0..100
  <2>1. t.stake \in Stakes /\ t.pct \in Percents
    BY DEF Terms
  <2>2. t.stake \in Nat \ {0} /\ t.pct \in 0..100
    BY <2>1, StakesAssumption, PercentsAssumption
  <2>3. QED
    BY <2>2
<1>2. x \in Nat /\ x <= 100 * (2 * s)
  <2> HIDE DEF s, p
  <2>1. \A k \in Nat : \A i \in 0..100 : k * i \in Nat /\ k * i <= 100 * k
    OBVIOUS
  <2>2. 2 * s \in Nat
    BY <1>1
  <2>3. QED
    BY <2>1, <2>2, <1>1
<1>3. x \div 100 \in Nat /\ x \div 100 <= 2 * s
  <2> HIDE DEF x, s
  <2>1. \A k \in Nat, n \in Nat : k <= 100 * n => k \div 100 \in Nat /\ k \div 100 <= n
    OBVIOUS
  <2>2. QED
    BY <2>1, <1>1, <1>2
<1>4. Commission(t) = x \div 100 /\ Payout(t) = 2 * s - (x \div 100)
  BY DEF Commission, Payout, Pot
<1>5. QED
  <2> HIDE DEF x
  <2>1. QED BY <1>1, <1>3, <1>4

LEMMA EscrowInitially == EscrowInit => EscrowInv
  BY FundsAssumption
  DEF EscrowInit, EscrowInv, EscrowTypeOK, LedgerInit, LedgerTypeOK, OpenedHaveTerms,
      OneEscrowPerPlayer, LockedIsHeld, Holds

(* Opening an escrow: neither player was in one, so both had nothing locked. *)
LEMMA OpenKeepsInv ==
    ASSUME EscrowInv, NEW m \in Matches, NEW t \in Terms, Open(m, t)
    PROVE  EscrowInv'
<1> USE DEF EscrowInv
<1>1. t.stake \in Nat /\ t.stake > 0 /\ t.light \in Players /\ t.dark \in Players
  BY CommissionBounded DEF Terms
<1>2. \A n \in Matches, p \in Players :
         Holds(n, p)' <=> (n # m /\ Holds(n, p)) \/ (n = m /\ p \in Seats(t))
  BY DEF Open, Holds, EscrowTypeOK, LedgerTypeOK
<1>3. \A p \in Seats(t), n \in Matches : ~Holds(n, p)
  BY DEF Open
<1>4. EscrowTypeOK'
  BY <1>1, <1>3 DEF EscrowTypeOK, LedgerTypeOK, Open, LockStakes, Seats, LockedIsHeld
<1>5. OpenedHaveTerms'
  BY DEF Open, OpenedHaveTerms, EscrowTypeOK, LedgerTypeOK
<1>6. OneEscrowPerPlayer'
  BY <1>2, <1>3 DEF OneEscrowPerPlayer
<1>7. LockedIsHeld'
  <2> SUFFICES ASSUME NEW p \in Players
               PROVE  /\ \A n \in Matches : Holds(n, p)' => locked'[p] = terms'[n].stake
                      /\ (\A n \in Matches : ~Holds(n, p)') => locked'[p] = 0
    BY DEF LockedIsHeld
  <2>1. CASE p \in Seats(t)
    <3>1. locked[p] = 0
      BY <1>3, <2>1 DEF LockedIsHeld
    <3>2. locked'[p] = t.stake
      BY <3>1, <2>1, <1>1 DEF Open, LockStakes
    <3>3. terms'[m] = t /\ \A n \in Matches : Holds(n, p)' <=> n = m
      BY <1>2, <1>3, <2>1 DEF Open, EscrowTypeOK, LedgerTypeOK
    <3>4. QED
      BY <3>2, <3>3
  <2>2. CASE p \notin Seats(t)
    <3>1. locked'[p] = locked[p]
      BY <2>2 DEF Open, LockStakes
    <3>2. \A n \in Matches : /\ Holds(n, p)' <=> Holds(n, p)
                             /\ Holds(n, p) => terms'[n] = terms[n]
      BY <1>2, <2>2 DEF Open, EscrowTypeOK, LedgerTypeOK, Holds
    <3>3. QED
      BY <3>1, <3>2 DEF LockedIsHeld
  <2>3. QED
    BY <2>1, <2>2
<1>8. QED
  BY <1>4, <1>5, <1>6, <1>7

(* Closing an escrow, whichever way the money goes: both stakes leave the   *)
(* lock, nobody loses spendable money, and the house does not pay.          *)
LEMMA CloseKeepsInv ==
    ASSUME EscrowInv, NEW m \in Matches, escrow[m] = "held",
           escrow' = [escrow EXCEPT ![m] = "closed"],
           terms' = terms,
           locked' = [p \in Players |-> IF p \in Seats(terms[m])
                                        THEN locked[p] - terms[m].stake ELSE locked[p]],
           avail' \in [Players -> Int],
           \A p \in Players : avail'[p] >= avail[p],
           revenue' \in Nat
    PROVE  EscrowInv'
<1> USE DEF EscrowInv
<1>1. terms[m] \in Terms /\ terms[m].stake \in Nat
  BY CommissionBounded DEF OpenedHaveTerms
<1>2. \A n \in Matches, p \in Players : Holds(n, p)' <=> n # m /\ Holds(n, p)
  BY DEF Holds, EscrowTypeOK
<1>3. \A p \in Players : p \in Seats(terms[m]) <=> Holds(m, p)
  BY DEF Holds
<1>4. \A p \in Players : Holds(m, p) => locked'[p] = 0
  BY <1>1, <1>3 DEF LockedIsHeld, EscrowTypeOK, LedgerTypeOK
<1>5. \A p \in Players : ~Holds(m, p) => locked'[p] = locked[p]
  BY <1>3
<1>6. EscrowTypeOK'
  BY <1>1, <1>4, <1>5 DEF EscrowTypeOK, LedgerTypeOK
<1>7. OpenedHaveTerms'
  BY DEF OpenedHaveTerms, EscrowTypeOK
<1>8. OneEscrowPerPlayer'
  BY <1>2 DEF OneEscrowPerPlayer
<1>9. LockedIsHeld'
  <2> SUFFICES ASSUME NEW p \in Players
               PROVE  /\ \A n \in Matches : Holds(n, p)' => locked'[p] = terms[n].stake
                      /\ (\A n \in Matches : ~Holds(n, p)') => locked'[p] = 0
    BY DEF LockedIsHeld
  <2>1. CASE Holds(m, p)
    BY <2>1, <1>2, <1>4 DEF OneEscrowPerPlayer
  <2>2. CASE ~Holds(m, p)
    BY <2>2, <1>2, <1>5 DEF LockedIsHeld
  <2>3. QED
    BY <2>1, <2>2
<1>10. QED
  BY <1>6, <1>7, <1>8, <1>9

LEMMA PayoutKeepsInv ==
    ASSUME EscrowInv, NEW m \in Matches, NEW w \in Players, CloseByPayout(m, w)
    PROVE  EscrowInv'
<1>1. terms[m] \in Terms
  BY DEF EscrowInv, OpenedHaveTerms, CloseByPayout
<1>2. Payout(terms[m]) \in Nat /\ Commission(terms[m]) \in Nat
  BY <1>1, CommissionBounded
<1>3. /\ avail' \in [Players -> Int]
      /\ \A p \in Players : avail'[p] >= avail[p]
      /\ revenue' \in Nat
  BY <1>2 DEF CloseByPayout, PayWinner, EscrowInv, EscrowTypeOK, LedgerTypeOK
<1>4. QED
  BY <1>3, CloseKeepsInv DEF CloseByPayout, PayWinner

LEMMA ReturnKeepsInv ==
    ASSUME EscrowInv, NEW m \in Matches, CloseByReturn(m)
    PROVE  EscrowInv'
<1>1. terms[m] \in Terms /\ terms[m].stake \in Nat
  BY CommissionBounded DEF EscrowInv, OpenedHaveTerms, CloseByReturn
<1>2. /\ avail' \in [Players -> Int]
      /\ \A p \in Players : avail'[p] >= avail[p]
      /\ revenue' \in Nat
  BY <1>1 DEF CloseByReturn, ReturnStakes, EscrowInv, EscrowTypeOK, LedgerTypeOK
<1>3. QED
  BY <1>2, CloseKeepsInv DEF CloseByReturn, ReturnStakes

(* The escrow never holds two stakes of one player, what is locked for a    *)
(* player is what the escrow holds, and no balance is ever negative.        *)
THEOREM EscrowIsSafe == EscrowSpec => []EscrowInv
<1>1. EscrowInv /\ [EscrowNext]_evars => EscrowInv'
  <2> SUFFICES ASSUME EscrowInv, [EscrowNext]_evars
               PROVE  EscrowInv'
    OBVIOUS
  <2>1. CASE UNCHANGED evars
    BY <2>1 DEF evars, EscrowInv, EscrowTypeOK, LedgerTypeOK, OpenedHaveTerms,
                OneEscrowPerPlayer, LockedIsHeld, Holds
  <2>2. ASSUME NEW m \in Matches, NEW t \in Terms, Open(m, t) PROVE EscrowInv'
    BY <2>2, OpenKeepsInv
  <2>3. ASSUME NEW m \in Matches, NEW w \in Players, CloseByPayout(m, w) PROVE EscrowInv'
    BY <2>3, PayoutKeepsInv
  <2>4. ASSUME NEW m \in Matches, CloseByReturn(m) PROVE EscrowInv'
    BY <2>4, ReturnKeepsInv
  <2>5. QED
    BY <2>1, <2>2, <2>3, <2>4 DEF EscrowNext
<1>2. QED
  BY EscrowInitially, <1>1, PTL DEF EscrowSpec
-----------------------------------------------------------------------------
LEMMA WorthIsInt ==
    ASSUME LedgerTypeOK
    PROVE  \A p \in Players : Worth[p] = avail[p] + locked[p] /\ Worth[p] \in Int
  BY DEF Worth, LedgerTypeOK

(* Stakes that move between the two balances of their owner, into escrow or *)
(* back, leave everybody's worth alone.                                     *)
LEMMA StakesConserve ==
    ASSUME LedgerTypeOK, MoneyIsConserved, NEW t \in Terms, LockStakes(t) \/ ReturnStakes(t)
    PROVE  MoneyIsConserved'
<1>1. t.stake \in Int
  BY CommissionBounded
<1>2. /\ revenue' = revenue
      /\ \A p \in Players : avail'[p] + locked'[p] = avail[p] + locked[p]
  BY <1>1 DEF LockStakes, ReturnStakes, LedgerTypeOK
<1>3. Worth' = Worth
  BY <1>2 DEF Worth
<1> QED
  BY <1>2, <1>3 DEF MoneyIsConserved

LEMMA StartConserves == LedgerInit => MoneyIsConserved
<1> SUFFICES ASSUME LedgerInit PROVE MoneyIsConserved
  OBVIOUS
<1>1. Funds \in [Players -> Int]
  BY FundsAssumption
<1>2. \A p \in Players : avail[p] + locked[p] = Funds[p]
  BY <1>1 DEF LedgerInit
<1>3. Worth = Funds
  BY <1>1, <1>2 DEF Worth
<1>4. SumFunctionOnSet(Funds, Players) \in Int
  BY <1>1, SumIsInt, PlayersAssumption
<1>5. DOMAIN Funds = Players
  BY <1>1
<1> QED
  BY <1>3, <1>4, <1>5 DEF MoneyIsConserved, SumFunction, LedgerInit

(* A payout takes a stake from either seat and shares the pot between the   *)
(* winner and the house.                                                    *)
LEMMA PayoutConserves ==
    ASSUME LedgerTypeOK, MoneyIsConserved, NEW t \in Terms, t.light # t.dark,
           NEW w \in Seats(t), PayWinner(t, w)
    PROVE  MoneyIsConserved'
<1> DEFINE s == t.stake
           f == Worth
           g == [f EXCEPT ![t.light] = @ - s]
           h == [g EXCEPT ![t.dark] = @ - s]
           k == [h EXCEPT ![w] = @ + Payout(t)]
           Sum(e) == SumFunctionOnSet(e, Players)
<1>1. t.light \in Players /\ t.dark \in Players /\ w \in Players
  BY DEF Terms, Seats
<1>2. s \in Nat /\ Payout(t) \in Nat /\ Commission(t) \in Nat /\ Payout(t) + Commission(t) = 2 * s
  BY <1>1, CommissionBounded
<1>3. f \in [Players -> Int] /\ DOMAIN f = Players
  BY WorthIsInt DEF Worth
<1>4. w \in {t.light, t.dark}
  BY DEF Seats
<1>5. Worth' = k
  <2>1. \A p \in Players :
           /\ locked'[p] = IF p \in {t.light, t.dark} THEN locked[p] - s ELSE locked[p]
           /\ avail'[p] = IF p = w THEN avail[p] + Payout(t) ELSE avail[p]
           /\ avail[p] \in Int /\ locked[p] \in Int
    BY <1>1 DEF PayWinner, Seats, LedgerTypeOK
  <2>2. \A p \in Players : f[p] = avail[p] + locked[p]
    BY DEF Worth
  <2>3. \A p \in Players : avail'[p] + locked'[p] = k[p]
    <3> HIDE DEF f, s
    <3> QED BY <1>1, <1>2, <1>3, <1>4, <2>1, <2>2
  <2>4. Worth' = [p \in Players |-> avail'[p] + locked'[p]]
    BY DEF Worth
  <2>5. k = [p \in Players |-> k[p]]
    BY <1>3
  <2> HIDE DEF k
  <2> QED BY <2>3, <2>4, <2>5
<1>6. revenue' = revenue + Commission(t) /\ revenue \in Int
  BY DEF PayWinner, LedgerTypeOK
<1> HIDE DEF f, s
<1>7. /\ g \in [Players -> Int] /\ g[t.light] = f[t.light] - s
      /\ \A p \in Players \ {t.light} : g[p] = f[p]
  BY <1>1, <1>2, <1>3
<1> HIDE DEF g
<1>8. /\ h \in [Players -> Int] /\ h[t.dark] = g[t.dark] - s
      /\ \A p \in Players \ {t.dark} : h[p] = g[p]
  BY <1>1, <1>2, <1>7
<1> HIDE DEF h
<1>9. /\ k \in [Players -> Int] /\ k[w] = h[w] + Payout(t)
      /\ \A p \in Players \ {w} : k[p] = h[p]
  BY <1>1, <1>2, <1>8
<1> HIDE DEF k
<1>10. Sum(g) = Sum(f) + g[t.light] - f[t.light]
  BY <1>1, <1>3, <1>7, SumMoves, PlayersAssumption
<1>11. Sum(h) = Sum(g) + h[t.dark] - g[t.dark]
  BY <1>1, <1>7, <1>8, SumMoves, PlayersAssumption
<1>12. Sum(k) = Sum(h) + k[w] - h[w]
  BY <1>1, <1>8, <1>9, SumMoves, PlayersAssumption
<1>13. Sum(f) \in Int /\ Sum(g) \in Int /\ Sum(h) \in Int
  BY <1>3, <1>7, <1>8, SumIsInt, PlayersAssumption
<1>14. /\ f[t.light] \in Int /\ g[t.dark] \in Int /\ h[w] \in Int
  BY <1>1, <1>3, <1>7, <1>8
<1> HIDE DEF Sum
<1>15. Sum(k) = Sum(f) + Payout(t) - 2 * s
  BY <1>2, <1>7, <1>8, <1>9, <1>10, <1>11, <1>12, <1>13, <1>14
<1>16. SumFunction(Worth) = Sum(f) /\ SumFunction(Worth)' = Sum(k)
  BY <1>3, <1>5, <1>9 DEF SumFunction, Sum, f
<1> QED
  BY <1>2, <1>6, <1>13, <1>15, <1>16 DEF MoneyIsConserved

(* Whatever matches are opened, paid and returned, in whatever order, the   *)
(* players and the platform together have what the players had at first.    *)
THEOREM EscrowConservesMoney == EscrowSpec => []MoneyIsConserved
<1>1. EscrowInit => MoneyIsConserved
  BY StartConserves DEF EscrowInit
<1>2. EscrowInv /\ MoneyIsConserved /\ [EscrowNext]_evars => MoneyIsConserved'
  <2> SUFFICES ASSUME EscrowInv, MoneyIsConserved, [EscrowNext]_evars PROVE MoneyIsConserved'
    OBVIOUS
  <2>1. LedgerTypeOK
    BY DEF EscrowInv, EscrowTypeOK
  <2>2. CASE UNCHANGED evars
    BY <2>2 DEF evars, MoneyIsConserved, Worth
  <2>3. ASSUME NEW m \in Matches, NEW t \in Terms, Open(m, t) PROVE MoneyIsConserved'
    BY <2>1, <2>3, StakesConserve DEF Open
  <2>4. ASSUME NEW m \in Matches, escrow[m] = "held"
        PROVE  terms[m] \in Terms /\ terms[m].light # terms[m].dark
    BY <2>4 DEF EscrowInv, OpenedHaveTerms
  <2>5. ASSUME NEW m \in Matches, NEW w \in Players, CloseByPayout(m, w) PROVE MoneyIsConserved'
    BY <2>1, <2>4, <2>5, PayoutConserves DEF CloseByPayout
  <2>6. ASSUME NEW m \in Matches, CloseByReturn(m) PROVE MoneyIsConserved'
    BY <2>1, <2>4, <2>6, StakesConserve DEF CloseByReturn
  <2> QED
    BY <2>2, <2>3, <2>5, <2>6 DEF EscrowNext
<1> QED
  BY <1>1, <1>2, EscrowIsSafe, PTL DEF EscrowSpec
=============================================================================

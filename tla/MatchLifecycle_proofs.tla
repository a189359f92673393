------------------------ MODULE MatchLifecycle_proofs ------------------------
(* Theorems about the life of a match, for every number of players, matches *)
(* and workers, every stake and every commission.                           *)
EXTENDS MatchLifecycle, TLAPS

(* The escrow the lifecycle implements, with what is proved about it. *)
Promise == INSTANCE StakeEscrow_proofs WITH escrow <- [m \in Matches |-> EscrowOf(status[m])]
-----------------------------------------------------------------------------
(* The terms of a match and the postings *)

(* The instance has its own copy of the operators on sets and functions.    *)
LEMMA PlayersAreFinite == NoPlayer \notin Players /\ Promise!IsFiniteSet(Players)
  BY PlayersAssumption DEF Promise!IsFiniteSet, IsFiniteSet

LEMMA SameSum == ASSUME NEW f PROVE Promise!SumFunction(f) = SumFunction(f)
  BY DEF Promise!SumFunction, Promise!SumFunctionOnSet, Promise!FoldFunctionOnSet,
         Promise!MapThenFoldSet, SumFunction, SumFunctionOnSet, FoldFunctionOnSet, MapThenFoldSet

(* The seats of a match are players and its stake is an amount. *)
LEMMA TermsAreTyped ==
    ASSUME NEW t \in Terms
    PROVE  t.stake \in Nat /\ t.light \in Players /\ t.dark \in Players
<1>1. t.stake \in Stakes /\ t.light \in Players /\ t.dark \in Players
  BY DEF Terms
<1>2. QED
  BY <1>1, StakesAssumption

(* The cut of the house is never negative and never more than the pot: the  *)
(* escrow's arithmetic is the lifecycle's.                                  *)
LEMMA CommissionBounded ==
    ASSUME NEW t \in Terms
    PROVE  /\ t.stake \in Nat /\ t.stake > 0
           /\ Commission(t) \in Nat
           /\ Payout(t) \in Nat
           /\ Payout(t) + Commission(t) = 2 * t.stake
<1>1. t \in Promise!Terms
  BY DEF Terms, Promise!Terms
<1>2. /\ t.stake \in Nat /\ t.stake > 0
      /\ Promise!Commission(t) \in Nat
      /\ Promise!Payout(t) \in Nat
      /\ Promise!Payout(t) + Promise!Commission(t) = 2 * t.stake
  BY <1>1, Promise!CommissionBounded, PlayersAreFinite, StakesAssumption, PercentsAssumption,
     FundsAssumption
<1>3. Promise!Commission(t) = Commission(t) /\ Promise!Payout(t) = Payout(t)
  BY DEF Commission, Payout, Pot, Promise!Commission, Promise!Payout, Promise!Pot
<1> QED
  BY <1>2, <1>3

(* So every amount a posting moves is a number. *)
LEMMA MoneyIsTyped ==
    ASSUME NEW t \in Terms
    PROVE  t.stake \in Int /\ Pot(t) \in Int /\ Commission(t) \in Int /\ Payout(t) \in Int
  BY CommissionBounded DEF Pot

(* The two postings that end a match keep the accounts well formed. *)
LEMMA PostingsAreTyped ==
    ASSUME LedgerTypeOK, UNCHANGED terms, NEW t \in Terms, NEW w,
           ReturnStakes(t) \/ (w \in Players /\ PayWinner(t, w))
    PROVE  LedgerTypeOK'
<1>1. t.stake \in Int /\ Commission(t) \in Int /\ Payout(t) \in Int
  BY MoneyIsTyped
<1>2. CASE ReturnStakes(t)
  BY <1>1, <1>2 DEF ReturnStakes, LedgerTypeOK
<1>3. CASE w \in Players /\ PayWinner(t, w)
  <2>1. locked' \in [Players -> Int] /\ revenue' \in Int
    BY <1>1, <1>3 DEF PayWinner, LedgerTypeOK
  <2>2. avail' \in [Players -> Int]
    BY <1>1, <1>3 DEF PayWinner, LedgerTypeOK
  <2>3. QED
    BY <2>1, <2>2 DEF LedgerTypeOK
<1>4. QED
  BY <1>2, <1>3
-----------------------------------------------------------------------------
(* What does not depend on leases: rows are well formed and exist together, *)
(* calls name players, and whoever is past takeOutboxClaim has a match.     *)
WorkerStates == [pc : Claimed \cup {"wantActivate", "wantRelease"}, match : Matches] \cup {Idle}
Projections == [phase : {"absent", "live", "over"}, winner : Winners]
Statuses == {"NONE", "FUNDED", "READY", "IN_PLAY", "SETTLED", "RELEASED"}

WorkersHaveMatches == \A a \in Workers : worker[a].pc \in Claimed => status[worker[a].match] # "NONE"

RowsInv == TypeOK /\ RowsExist /\ CallsNamePlayers /\ WorkersHaveMatches

LEMMA InitiallyRows == Init => RowsInv
  BY FundsAssumption, FaultsAssumption, AttemptsAssumption
  DEF OutboxRows, Init, LedgerInit, LedgerTypeOK, TypeOK, RowsInv, RowsExist, CallsNamePlayers,
      WorkersHaveMatches, NoGame, Idle, Winners, NoSettlement, Claimed, NoTerms, Seats

(* A worker that is not idle works for a match. *)
LEMMA BusyWorker ==
    ASSUME TypeOK, NEW a \in Workers, worker[a].pc # "idle"
    PROVE  /\ worker[a].match \in Matches
           /\ worker[a].pc \in Claimed \cup {"wantActivate", "wantRelease"}
           /\ worker[a] = [pc |-> worker[a].pc, match |-> worker[a].match]
  BY DEF TypeOK, Idle

(* A claim's row can be freed and given a new status. *)
LEMMA FreedRow ==
    ASSUME NEW row \in OutboxRows,
           NEW s \in {"NONE", "PENDING", "ACTIVATING", "ACTIVATED", "RELEASED"}
    PROVE  /\ [row EXCEPT !.holder = NoWorker, !.lease = "free"] \in OutboxRows
           /\ [row EXCEPT !.status = s, !.holder = NoWorker, !.lease = "free"] \in OutboxRows
           /\ [row EXCEPT !.lease = "expired"] \in OutboxRows
           /\ [row EXCEPT !.status = s] \in OutboxRows
  BY DEF OutboxRows

LEMMA FundKeepsRows ==
    ASSUME RowsInv, NEW m \in Matches, NEW t \in Terms, Fund(m, t)
    PROVE  RowsInv'
<1> USE DEF RowsInv
<1>1. t.stake \in Int /\ t.light \in Players /\ t.dark \in Players
  BY TermsAreTyped
<1>2. TypeOK'
  <2>1. LedgerTypeOK'
    BY <1>1 DEF Fund, TypeOK, LedgerTypeOK, LockStakes
  <2>2. [outbox[m] EXCEPT !.status = "PENDING"] \in OutboxRows
    BY FreedRow DEF TypeOK
  <2>3. outbox' \in [Matches -> OutboxRows]
    BY <2>2 DEF Fund, TypeOK
  <2>4. QED
    BY <2>1, <2>3 DEF Fund, TypeOK
<1>3. RowsExist'
  <2>1. outbox[m] \in OutboxRows
    BY DEF TypeOK
  <2>2. outbox'[m].status = "PENDING" /\ \A n \in Matches : n # m => outbox'[n] = outbox[n]
    BY <2>1 DEF Fund, TypeOK, OutboxRows
  <2>3. QED
    BY <2>2 DEF Fund, RowsExist, TypeOK, LedgerTypeOK, NoGame
<1>4. CallsNamePlayers'
  BY DEF Fund, CallsNamePlayers, TypeOK, LedgerTypeOK
<1>5. WorkersHaveMatches'
  BY DEF Fund, WorkersHaveMatches, TypeOK
<1>6. QED
  BY <1>2, <1>3, <1>4, <1>5

(* Steps of the workers and of time: they move claims, and at most start a  *)
(* match that is there.                                                     *)
LEMMA ClaimsKeepRows ==
    ASSUME RowsInv, worker' \in [Workers -> WorkerStates],
           \A a \in Workers : worker'[a].pc \in Claimed
               => worker'[a] = worker[a] \/ status[worker'[a].match] # "NONE",
           outbox' \in [Matches -> OutboxRows],
           \A m \in Matches : outbox'[m].status = "NONE" <=> outbox[m].status = "NONE",
           status' \in [Matches -> Statuses],
           \A m \in Matches : status'[m] = "NONE" <=> status[m] = "NONE",
           faults' \in 0..MaxFaults,
           UNCHANGED <<terms, played, balances, resv, settled, posted, game, calls>>
    PROVE  RowsInv'
<1> USE DEF RowsInv, balances
<1>1. TypeOK'
  BY DEF TypeOK, LedgerTypeOK, WorkerStates, Statuses
<1>2. RowsExist'
  BY DEF RowsExist
<1>3. CallsNamePlayers'
  BY DEF CallsNamePlayers, TypeOK
<1>4. WorkersHaveMatches'
  <2> SUFFICES ASSUME NEW a \in Workers, worker'[a].pc \in Claimed
               PROVE  status'[worker'[a].match] # "NONE"
    BY DEF WorkersHaveMatches
  <2>1. status[worker'[a].match] # "NONE"
    BY DEF WorkersHaveMatches
  <2>2. worker'[a].match \in Matches
    BY DEF WorkerStates, Idle, Claimed
  <2>3. QED
    BY <2>1, <2>2
<1>5. QED
  BY <1>1, <1>2, <1>3, <1>4

(* The same for one worker and the row of its match. *)
LEMMA WorkerKeepsRows ==
    ASSUME RowsInv, NEW a \in Workers, NEW w \in WorkerStates, worker' = [worker EXCEPT ![a] = w],
           w.pc \in Claimed => status[w.match] # "NONE",
           NEW m \in Matches, NEW row \in OutboxRows, outbox' = [outbox EXCEPT ![m] = row],
           row.status = "NONE" <=> outbox[m].status = "NONE",
           status' \in [Matches -> Statuses],
           \A n \in Matches : status'[n] = "NONE" <=> status[n] = "NONE",
           faults' \in 0..MaxFaults,
           UNCHANGED <<terms, played, balances, resv, settled, posted, game, calls>>
    PROVE  RowsInv'
<1>1. worker' \in [Workers -> WorkerStates]
      /\ \A b \in Workers : worker'[b] = worker[b] \/ worker'[b] = w
  BY DEF RowsInv, TypeOK, WorkerStates
<1>2. outbox' \in [Matches -> OutboxRows]
      /\ \A n \in Matches : outbox'[n].status = "NONE" <=> outbox[n].status = "NONE"
  BY DEF RowsInv, TypeOK
<1>3. QED
  BY <1>1, <1>2, ClaimsKeepRows

LEMMA WorkersMayBe ==
    ASSUME NEW m \in Matches, NEW pc \in Claimed \cup {"wantActivate", "wantRelease"}
    PROVE  At(pc, m) \in WorkerStates /\ At(pc, m).pc = pc /\ At(pc, m).match = m
  BY DEF WorkerStates, At

LEMMA IdleMayBe == Idle \in WorkerStates /\ Idle.pc \notin Claimed
  BY DEF WorkerStates, Idle, Claimed

(* Going home, whatever becomes of the claim. *)
LEMMA LeavingKeepsRows ==
    ASSUME RowsInv, NEW a \in Workers, worker' = [worker EXCEPT ![a] = Idle],
           NEW m \in Matches, status[m] # "NONE",
           \/ outbox' = outbox
           \/ RecordFailure(m)
           \/ outbox' = [outbox EXCEPT ![m].status = "ACTIVATED", ![m].holder = NoWorker,
                                       ![m].lease = "free"],
           faults' \in 0..MaxFaults,
           UNCHANGED <<terms, played, balances, status, resv, settled, posted, game, calls>>
    PROVE  RowsInv'
<1> DEFINE free == [outbox[m] EXCEPT !.holder = NoWorker, !.lease = "free"]
           done == [outbox[m] EXCEPT !.status = "ACTIVATED", !.holder = NoWorker, !.lease = "free"]
<1>1. /\ outbox \in [Matches -> OutboxRows] /\ status \in [Matches -> Statuses]
      /\ outbox[m].status # "NONE"
  BY DEF RowsInv, TypeOK, RowsExist, Statuses
<1>2. /\ free \in OutboxRows /\ free.status = outbox[m].status
      /\ done \in OutboxRows /\ done.status = "ACTIVATED"
  <2>1. outbox[m] \in OutboxRows
    BY <1>1
  <2>2. free \in OutboxRows /\ done \in OutboxRows
    BY <2>1, FreedRow
  <2>3. QED
    BY <2>1, <2>2 DEF OutboxRows
<1>3. PICK row \in {outbox[m], free, done} : outbox' = [outbox EXCEPT ![m] = row]
  BY <1>1 DEF RecordFailure
<1> HIDE DEF free, done
<1>4. row \in OutboxRows /\ (row.status = "NONE" <=> outbox[m].status = "NONE")
  BY <1>1, <1>2, <1>3
<1>5. QED
  BY <1>1, <1>3, <1>4, IdleMayBe, WorkerKeepsRows

LEMMA WorkersKeepRows ==
    ASSUME RowsInv, NEW a \in Workers,
           \/ \E m \in Matches : Scan(a, m)
           \/ TakeClaim(a) \/ StartMatch(a) \/ MarkActivated(a) \/ ActivationFails(a)
           \/ ReleaseRead(a) \/ ReleaseFails(a) \/ WorkerCrashes(a)
    PROVE  RowsInv'
<1> DEFINE m == worker[a].match
<1>1. /\ outbox \in [Matches -> OutboxRows] /\ status \in [Matches -> Statuses]
      /\ faults \in 0..MaxFaults
  BY DEF RowsInv, TypeOK, Statuses
<1>2. ASSUME worker[a].pc # "idle" PROVE m \in Matches
  BY <1>2, BusyWorker DEF RowsInv
<1>3. ASSUME worker[a].pc \in Claimed PROVE m \in Matches /\ status[m] # "NONE"
  BY <1>2, <1>3 DEF RowsInv, WorkersHaveMatches, Claimed
<1>4. ASSUME NEW n \in Matches, Scan(a, n) PROVE RowsInv'
  <2>1. PICK pc \in {"wantActivate", "wantRelease"} : worker' = [worker EXCEPT ![a] = At(pc, n)]
    BY <1>4 DEF Scan
  <2>2. outbox' = [outbox EXCEPT ![n] = outbox[n]] /\ outbox[n] \in OutboxRows
    BY <1>1, <1>4 DEF Scan, lifecycleVars
  <2>3. At(pc, n) \in WorkerStates /\ At(pc, n).pc \notin Claimed
    BY <2>1, WorkersMayBe DEF Claimed
  <2>4. status' = status /\ faults' = faults
        /\ UNCHANGED <<terms, played, balances, resv, settled, posted, game, calls>>
    BY <1>4 DEF Scan, lifecycleVars, balances
  <2>5. QED
    BY <1>1, <2>1, <2>2, <2>3, <2>4, WorkerKeepsRows
<1>5. CASE TakeClaim(a)
  <2>1. /\ m \in Matches /\ faults' = faults
        /\ UNCHANGED <<terms, played, balances, status, resv, settled, posted, game, calls>>
    BY <1>2, <1>5 DEF TakeClaim, balances
  <2>2. CASE ClaimFree(m)
    <3> DEFINE row == [status |-> "ACTIVATING",
                       attempts |-> IF outbox[m].attempts < MaxAttempts THEN outbox[m].attempts + 1
                                                                        ELSE MaxAttempts,
                       holder |-> a, lease |-> "running"]
    <3>1. outbox' = [outbox EXCEPT ![m] = row]
      BY <1>1, <1>5, <2>1, <2>2 DEF TakeClaim
    <3>2. row \in OutboxRows /\ row.status = "ACTIVATING"
      BY <1>1, <2>1, AttemptsAssumption DEF OutboxRows
    <3>3. outbox[m].status # "NONE" /\ status[m] # "NONE"
      BY <2>1, <2>2 DEF ClaimFree, RowsInv, RowsExist
    <3>4. PICK pc \in {"releaseRead", "start"} : worker' = [worker EXCEPT ![a] = At(pc, m)]
      BY <1>5, <2>2, BusyWorker DEF TakeClaim, RowsInv
    <3>5. At(pc, m) \in WorkerStates /\ At(pc, m).match = m
      BY <2>1, WorkersMayBe DEF Claimed
    <3> HIDE DEF row, m
    <3>6. QED
      BY <1>1, <2>1, <3>1, <3>2, <3>3, <3>4, <3>5, WorkerKeepsRows
  <2>3. CASE ~ClaimFree(m)
    <3>1. worker' = [worker EXCEPT ![a] = Idle] /\ outbox' = [outbox EXCEPT ![m] = outbox[m]]
          /\ outbox[m] \in OutboxRows
      BY <1>1, <1>5, <2>1, <2>3 DEF TakeClaim
    <3>2. QED
      BY <1>1, <2>1, <3>1, IdleMayBe, WorkerKeepsRows
  <2>4. QED
    BY <2>2, <2>3
<1>6. CASE StartMatch(a)
  <2>1. /\ m \in Matches /\ status[m] # "NONE" /\ faults' = faults
        /\ UNCHANGED <<terms, played, balances, resv, settled, posted, game, calls>>
    BY <1>3, <1>6 DEF StartMatch, Claimed, balances
  <2>2. outbox' = [outbox EXCEPT ![m] = outbox[m]] /\ outbox[m] \in OutboxRows
    BY <1>1, <1>6, <2>1 DEF StartMatch
  <2>3. /\ status' \in [Matches -> Statuses]
        /\ \A n \in Matches : status'[n] = "NONE" <=> status[n] = "NONE"
    <3>1. CASE status' = status
      BY <1>1, <3>1
    <3>2. CASE status' = [status EXCEPT ![m] = "IN_PLAY"]
      BY <1>1, <2>1, <3>2 DEF Statuses
    <3>3. status' = status \/ status' = [status EXCEPT ![m] = "IN_PLAY"]
      BY <1>1, <1>6, <2>1 DEF StartMatch
    <3>4. QED
      BY <3>1, <3>2, <3>3
  <2>4. worker' = [worker EXCEPT ![a] = At("init", m)] /\ At("init", m) \in WorkerStates
        /\ At("init", m).match = m
    BY <1>6, <2>1, WorkersMayBe DEF StartMatch, Claimed
  <2>5. QED
    BY <1>1, <2>1, <2>2, <2>3, <2>4, WorkerKeepsRows
<1>7. CASE MarkActivated(a) \/ ActivationFails(a) \/ ReleaseFails(a)
           \/ (ReleaseRead(a) /\ "RELEASED" \notin Allowed[status[m]])
  <2>1. m \in Matches /\ status[m] # "NONE"
    BY <1>3, <1>7 DEF MarkActivated, ActivationFails, ReleaseFails, ReleaseRead, Claimed
  <2>2. faults' \in 0..MaxFaults
    BY <1>1, <1>7, FaultsAssumption
    DEF MarkActivated, ActivationFails, ReleaseFails, ReleaseRead, Fault
  <2>3. /\ worker' = [worker EXCEPT ![a] = Idle]
        /\ UNCHANGED <<terms, played, balances, status, resv, settled, posted, game, calls>>
    BY <1>7 DEF MarkActivated, ActivationFails, ReleaseFails, ReleaseRead
  <2>4. \/ outbox' = outbox
        \/ RecordFailure(m)
        \/ outbox' = [outbox EXCEPT ![m].status = "ACTIVATED", ![m].holder = NoWorker,
                                    ![m].lease = "free"]
    BY <1>7 DEF MarkActivated, ActivationFails, ReleaseFails, ReleaseRead
  <2> HIDE DEF m
  <2>5. QED
    BY <2>1, <2>2, <2>3, <2>4, LeavingKeepsRows
<1>8. CASE ReleaseRead(a) /\ "RELEASED" \in Allowed[status[m]]
  <2>1. /\ m \in Matches /\ status[m] # "NONE" /\ faults' = faults /\ status' = status
        /\ UNCHANGED <<terms, played, balances, resv, settled, posted, game, calls>>
    BY <1>3, <1>8 DEF ReleaseRead, Claimed, balances
  <2>2. outbox' = [outbox EXCEPT ![m] = outbox[m]] /\ outbox[m] \in OutboxRows
    BY <1>1, <1>8, <2>1 DEF ReleaseRead
  <2>3. worker' = [worker EXCEPT ![a] = At("releaseWrite", m)]
        /\ At("releaseWrite", m) \in WorkerStates /\ At("releaseWrite", m).match = m
    BY <1>8, <2>1, WorkersMayBe DEF ReleaseRead, Claimed
  <2>4. QED
    BY <1>1, <2>1, <2>2, <2>3, WorkerKeepsRows
<1>9. CASE WorkerCrashes(a)
  <2>1. /\ m \in Matches /\ status' = status
        /\ UNCHANGED <<terms, played, balances, resv, settled, posted, game, calls>>
    BY <1>2, <1>9 DEF WorkerCrashes, lifecycleVars, balances
  <2>2. outbox' = [outbox EXCEPT ![m] = outbox[m]] /\ outbox[m] \in OutboxRows
    BY <1>1, <1>9, <2>1 DEF WorkerCrashes, lifecycleVars
  <2>3. worker' = [worker EXCEPT ![a] = Idle] /\ faults' \in 0..MaxFaults
    BY <1>1, <1>9, FaultsAssumption DEF WorkerCrashes, Fault
  <2>4. QED
    BY <1>1, <2>1, <2>2, <2>3, IdleMayBe, WorkerKeepsRows
<1>10. QED
  BY <1>4, <1>5, <1>6, <1>7, <1>8, <1>9

LEMMA LeaseExpiresKeepsRows ==
    ASSUME RowsInv, NEW m \in Matches, LeaseExpires(m)
    PROVE  RowsInv'
<1> DEFINE row == [outbox[m] EXCEPT !.lease = "expired"]
<1>1. /\ outbox \in [Matches -> OutboxRows] /\ status \in [Matches -> Statuses]
      /\ worker \in [Workers -> WorkerStates] /\ faults \in 0..MaxFaults
  BY DEF RowsInv, TypeOK, Statuses, WorkerStates
<1>2. row \in OutboxRows /\ row.status = outbox[m].status
  <2>1. outbox[m] \in OutboxRows
    BY <1>1
  <2>2. row \in OutboxRows
    BY <2>1, FreedRow
  <2>3. QED
    BY <2>1, <2>2 DEF OutboxRows
<1>3. outbox' = [outbox EXCEPT ![m] = row]
  BY DEF LeaseExpires
<1>4. outbox' \in [Matches -> OutboxRows]
      /\ \A n \in Matches : outbox'[n].status = "NONE" <=> outbox[n].status = "NONE"
  BY <1>1, <1>2, <1>3
<1>5. status' = status /\ worker' = worker /\ faults' = faults
      /\ UNCHANGED <<terms, played, balances, resv, settled, posted, game, calls>>
  BY DEF LeaseExpires, balances
<1>6. QED
  BY <1>1, <1>4, <1>5, ClaimsKeepRows

LEMMA InitGameKeepsRows ==
    ASSUME RowsInv, NEW a \in Workers, InitGame(a)
    PROVE  RowsInv'
<1> USE DEF RowsInv, balances, lifecycleVars
<1> DEFINE m == worker[a].match
<1>1. m \in Matches /\ status[m] # "NONE"
  BY BusyWorker DEF InitGame, WorkersHaveMatches, Claimed
<1>2. worker' = [worker EXCEPT ![a] = [pc |-> "mark", match |-> m]]
  BY DEF InitGame, At
<1>3. TypeOK'
  BY <1>1, <1>2 DEF InitGame, TypeOK, LedgerTypeOK, Claimed, LiveGame, Winners
<1>4. RowsExist'
  BY <1>1 DEF InitGame, RowsExist, TypeOK, LiveGame
<1>5. CallsNamePlayers'
  BY DEF InitGame, CallsNamePlayers
<1>6. WorkersHaveMatches'
  BY <1>1, <1>2 DEF InitGame, WorkersHaveMatches, TypeOK
<1>7. QED
  BY <1>3, <1>4, <1>5, <1>6

(* The unconditional update of releaseMatch, whatever status it overwrites. *)
LEMMA ReleaseWriteKeepsRows ==
    ASSUME RowsInv, NEW a \in Workers, ReleaseWrite(a)
    PROVE  RowsInv'
<1> USE DEF RowsInv, balances
<1> DEFINE m == worker[a].match
           row == [outbox[m] EXCEPT !.status = "RELEASED", !.holder = NoWorker, !.lease = "free"]
<1>1. m \in Matches /\ status[m] # "NONE"
  BY BusyWorker DEF ReleaseWrite, WorkersHaveMatches, Claimed
<1>2. terms[m] \in Terms /\ outbox[m] \in OutboxRows /\ resv[m] # "NONE"
  BY <1>1 DEF RowsExist, TypeOK
<1>3. row \in OutboxRows /\ row.status = "RELEASED"
  <2>1. row \in OutboxRows
    BY <1>2, FreedRow
  <2>2. QED
    BY <1>2, <2>1 DEF OutboxRows
<1>4. LedgerTypeOK'
  <2>1. CASE ReturnStakes(terms[m])
    BY <1>2, <2>1, PostingsAreTyped DEF ReleaseWrite, TypeOK
  <2>2. CASE UNCHANGED balances
    BY <2>2 DEF ReleaseWrite, TypeOK, LedgerTypeOK
  <2>3. QED
    BY <2>1, <2>2 DEF ReleaseWrite
<1>5. /\ status' = [status EXCEPT ![m] = "RELEASED"]
      /\ outbox' = [outbox EXCEPT ![m] = row]
      /\ worker' = [worker EXCEPT ![a] = Idle]
      /\ UNCHANGED <<terms, played, settled, game, calls, faults>>
  BY DEF ReleaseWrite
<1>6. /\ resv' \in [Matches -> {"NONE", "RESERVED", "SETTLED", "RELEASED"}]
      /\ resv'[m] # "NONE" /\ \A n \in Matches : n # m => resv'[n] = resv[n]
  <2>1. \/ resv' = resv
        \/ resv' = [resv EXCEPT ![m] = "RELEASED"]
    BY <1>1 DEF ReleaseWrite, TypeOK
  <2>2. QED
    BY <1>1, <1>2, <2>1 DEF TypeOK
<1>7. posted' \in [Matches -> SUBSET {"stake-lock", "stake-release", "MATCH_SETTLEMENT"}]
  <2>1. \/ posted' = posted
        \/ posted' = [posted EXCEPT ![m] = posted[m] \cup {"stake-release"}]
    BY DEF ReleaseWrite
  <2>2. posted \in [Matches -> SUBSET {"stake-lock", "stake-release", "MATCH_SETTLEMENT"}]
    BY DEF TypeOK
  <2> HIDE DEF m
  <2>3. QED
    BY <1>1, <2>1, <2>2
<1> HIDE DEF row, m
<1>8. TypeOK'
  BY <1>1, <1>3, <1>4, <1>5, <1>6, <1>7 DEF TypeOK
<1>9. RowsExist' /\ CallsNamePlayers'
  BY <1>1, <1>2, <1>3, <1>5, <1>6 DEF RowsExist, CallsNamePlayers, TypeOK
<1>10. WorkersHaveMatches'
  BY <1>1, <1>5 DEF WorkersHaveMatches, TypeOK, Idle, Claimed
<1>11. QED
  BY <1>8, <1>9, <1>10

-----------------------------------------------------------------------------
(* Steps of the game and of the sweeps: they start and end settlement calls *)
(* and move the projection, never the rows of the match.                    *)
GoodGame(m, g) ==
    /\ g \in Projections
    /\ g # NoGame => status[m] # "NONE"
    /\ g.winner \in Seats(terms[m]) \cup {NoPlayer}

GoodCall(c) ==
    /\ c \in [match : Matches, winner : Winners]
    /\ status[c.match] # "NONE"
    /\ c.winner \in Seats(terms[c.match]) \cup {NoPlayer}

PlayStep ==
    /\ game' \in [Matches -> Projections]
    /\ \A n \in Matches : game'[n] = game[n] \/ GoodGame(n, game'[n])
    /\ \A c \in calls' : c \in calls \/ GoodCall(c)
    /\ played' \in [Matches -> BOOLEAN]
    /\ \A n \in Matches : played'[n] => played[n] \/ status[n] # "NONE"
    /\ faults' \in 0..MaxFaults
    /\ UNCHANGED <<terms, balances, lifecycleVars, worker>>

LEMMA PlayKeepsRows == RowsInv /\ PlayStep => RowsInv'
<1> SUFFICES ASSUME RowsInv, PlayStep PROVE RowsInv'
  OBVIOUS
<1> USE DEF RowsInv, PlayStep, balances, lifecycleVars
<1>1. TypeOK'
  <2>1. calls' \subseteq [match : Matches, winner : Winners]
    BY DEF GoodCall, TypeOK
  <2>2. QED
    BY <2>1 DEF TypeOK, LedgerTypeOK, Projections
<1>2. RowsExist'
  BY DEF RowsExist, GoodGame
<1>3. CallsNamePlayers'
  BY DEF CallsNamePlayers, GoodCall
<1>4. WorkersHaveMatches'
  BY DEF WorkersHaveMatches
<1>5. QED
  BY <1>1, <1>2, <1>3, <1>4

(* Every projection the program writes or already has is a good one. *)
LEMMA GamesAreGood ==
    ASSUME RowsInv, NEW m \in Matches
    PROVE  /\ game \in [Matches -> Projections]
           /\ GoodGame(m, NoGame)
           /\ status[m] # "NONE" => GoodGame(m, LiveGame)
           /\ GoodGame(m, game[m])
           /\ played \in [Matches -> BOOLEAN]
           /\ faults \in 0..MaxFaults
<1> USE DEF RowsInv, TypeOK, RowsExist, GoodGame, Projections, NoGame, LiveGame, Winners
<1>1. game \in [Matches -> Projections] /\ faults \in 0..MaxFaults /\ played \in [Matches -> BOOLEAN]
  OBVIOUS
<1>2. GoodGame(m, NoGame) /\ (status[m] # "NONE" => GoodGame(m, LiveGame))
  OBVIOUS
<1>3. GoodGame(m, game[m])
  OBVIOUS
<1>4. QED
  BY <1>1, <1>2, <1>3

LEMMA GamesArePlayed ==
    ASSUME RowsInv, NEW m \in Matches, NEW w \in Winners,
           \/ GameEnds(m, w) \/ TurnForfeit(m, w) \/ DisconnectForfeit(m, w)
           \/ FirstMove(m) \/ Rejoin(m) \/ Reconcile(m)
    PROVE  PlayStep
<1>1. status[m] # "NONE"
  BY DEF GameEnds, TurnForfeit, DisconnectForfeit, FirstMove, Rejoin, Reconcile, Live, RowsInv, RowsExist, NoGame, LiveGame
<1>2. GoodGame(m, LiveGame) /\ GoodGame(m, game[m]) /\ game \in [Matches -> Projections]
      /\ played \in [Matches -> BOOLEAN] /\ faults \in 0..MaxFaults
  BY <1>1, GamesAreGood
<1>3. CASE GameEnds(m, w)
  <2>1. GoodGame(m, OverGame(w)) /\ GoodCall([match |-> m, winner |-> w])
    BY <1>1, <1>3 DEF GameEnds, GoodGame, GoodCall, Projections, OverGame
  <2>2. game' = [game EXCEPT ![m] = OverGame(w)] /\ calls' = calls \cup {[match |-> m, winner |-> w]}
    BY <1>3 DEF GameEnds, CallSettle
  <2>3. /\ game' \in [Matches -> Projections]
        /\ \A n \in Matches : game'[n] = game[n] \/ GoodGame(n, game'[n])
    BY <1>2, <2>1, <2>2 DEF GoodGame
  <2>4. QED
    BY <1>2, <1>3, <2>1, <2>2, <2>3 DEF GameEnds, PlayStep
<1>4. CASE TurnForfeit(m, w) \/ DisconnectForfeit(m, w)
  <2>1. GoodCall([match |-> m, winner |-> w])
    BY <1>1, <1>4 DEF TurnForfeit, DisconnectForfeit, GoodCall
  <2>2. QED
    BY <1>2, <1>4, <2>1 DEF TurnForfeit, DisconnectForfeit, CallSettle, PlayStep
<1>5. CASE FirstMove(m)
  BY <1>1, <1>2, <1>5 DEF FirstMove, PlayStep
<1>6. CASE Rejoin(m) \/ Reconcile(m)
  <2>1. GoodCall([match |-> m, winner |-> game[m].winner])
    BY <1>1, <1>2 DEF GoodCall, GoodGame, Projections
  <2>2. \A c \in calls' : c \in calls \/ GoodCall(c)
    BY <1>6, <2>1 DEF Rejoin, Reconcile, Rebuild, CallSettle
  <2>3. game' = game \/ game' = [game EXCEPT ![m] = LiveGame]
    BY <1>6 DEF Rejoin, Reconcile, Rebuild
  <2>4. /\ game' \in [Matches -> Projections]
        /\ \A n \in Matches : game'[n] = game[n] \/ GoodGame(n, game'[n])
    BY <1>2, <2>3 DEF GoodGame
  <2>5. QED
    BY <1>2, <1>6, <2>2, <2>4 DEF Rejoin, Reconcile, PlayStep
<1>7. QED
  BY <1>3, <1>4, <1>5, <1>6

(* The last steps of a settlement call, and faults outside the workers. *)
LEMMA PlayEnds ==
    ASSUME RowsInv, NEW m \in Matches,
           \/ GameIsLost(m)
           \/ \E c \in calls : c.match = m /\ (CleanUp(c) \/ GiveUp(c) \/ CallIsLost(c))
    PROVE  PlayStep
<1>1. /\ GoodGame(m, NoGame) /\ game \in [Matches -> Projections]
      /\ played \in [Matches -> BOOLEAN] /\ faults \in 0..MaxFaults
  BY GamesAreGood
<1>2. calls' \subseteq calls /\ played' = played
      /\ UNCHANGED <<terms, balances, lifecycleVars, worker>>
  BY DEF CleanUp, GiveUp, CallIsLost, GameIsLost
<1>3. faults' \in 0..MaxFaults
  BY <1>1, FaultsAssumption DEF CleanUp, GiveUp, CallIsLost, GameIsLost, Fault
<1>4. game' = game \/ game' = [game EXCEPT ![m] = NoGame]
  BY DEF CleanUp, GiveUp, CallIsLost, GameIsLost
<1>5. /\ game' \in [Matches -> Projections]
      /\ \A n \in Matches : game'[n] = game[n] \/ GoodGame(n, game'[n])
  BY <1>1, <1>4 DEF GoodGame
<1>6. QED
  BY <1>1, <1>2, <1>3, <1>5 DEF PlayStep

(* Settlement pays a seat of a live match, or returns the stakes. *)
LEMMA SettlementIsTyped ==
    ASSUME RowsInv, NEW c \in calls, SettleMatch(c)
    PROVE  LET m == c.match
               t == terms[m]
           IN  /\ m \in Matches /\ t \in Terms /\ status[m] = "IN_PLAY"
               /\ t.light # t.dark
               /\ c.winner \in Winners
               /\ c.winner \in Seats(t) \cup {NoPlayer}
               /\ \/ UNCHANGED balances
                  \/ c.winner = NoPlayer /\ ReturnStakes(t)
                  \/ c.winner # NoPlayer /\ c.winner \in Players /\ PayWinner(t, c.winner)
<1>1. c.match \in Matches /\ status[c.match] = "IN_PLAY" /\ c.winner \in Winners
  BY DEF SettleMatch, Settleable, Live, RowsInv, TypeOK
<1>2. terms[c.match] \in Terms /\ terms[c.match].light # terms[c.match].dark
  BY <1>1 DEF RowsInv, RowsExist
<1>3. c.winner \in Seats(terms[c.match]) \cup {NoPlayer}
  BY DEF RowsInv, CallsNamePlayers
<1>4. c.winner # NoPlayer => c.winner \in Players
  BY <1>1 DEF Winners
<1>5. QED
  BY <1>1, <1>2, <1>3, <1>4 DEF SettleMatch

LEMMA SettleMatchKeepsRows ==
    ASSUME RowsInv, NEW c \in calls, SettleMatch(c)
    PROVE  RowsInv'
<1> DEFINE m == c.match
           t == terms[m]
           paid == settled'[m]
<1>1. m \in Matches /\ t \in Terms /\ status[m] = "IN_PLAY" /\ c.winner \in Winners
  BY SettlementIsTyped
<1> USE DEF RowsInv, balances
<1>2. LedgerTypeOK'
  <2>1. CASE UNCHANGED balances
    BY <2>1 DEF SettleMatch, TypeOK, LedgerTypeOK
  <2>2. CASE ReturnStakes(t) \/ (c.winner \in Players /\ PayWinner(t, c.winner))
    BY <1>1, <2>2, PostingsAreTyped DEF SettleMatch, TypeOK
  <2>3. QED
    BY <2>1, <2>2, SettlementIsTyped
<1>3. /\ settled' = [settled EXCEPT ![m] = paid]
      /\ paid \in [status : {"NONE", "SETTLED"}, winner : Winners, payout : Int, fee : Int]
  <2>1. Payout(t) \in Int /\ Commission(t) \in Int /\ Pot(t) \in Int
    BY <1>1, MoneyIsTyped
  <2> DEFINE x == IF c.winner = NoPlayer THEN Pot(t) ELSE Payout(t)
             y == IF c.winner = NoPlayer THEN 0 ELSE Commission(t)
  <2>2. settled' = [settled EXCEPT ![m] = [status |-> "SETTLED", winner |-> c.winner,
                                           payout |-> x, fee |-> y]]
    BY DEF SettleMatch
  <2>3. x \in Int /\ y \in Int
    BY <2>1
  <2> HIDE DEF x, y
  <2>4. paid = [status |-> "SETTLED", winner |-> c.winner, payout |-> x, fee |-> y]
    BY <1>1, <2>2 DEF TypeOK
  <2>5. settled' = [settled EXCEPT ![m] = paid]
    BY <2>2, <2>4
  <2> HIDE DEF paid
  <2>6. QED
    BY <1>1, <2>3, <2>4, <2>5
<1>4. posted' \in [Matches -> SUBSET {"stake-lock", "stake-release", "MATCH_SETTLEMENT"}]
  BY <1>1 DEF SettleMatch, TypeOK
<1>5. /\ status' = [status EXCEPT ![m] = "SETTLED"]
      /\ resv' = [resv EXCEPT ![m] = "SETTLED"]
      /\ UNCHANGED <<terms, played, outbox, worker, game, calls, faults>>
  BY DEF SettleMatch
<1> HIDE DEF paid, m, t
<1>6. TypeOK'
  BY <1>1, <1>2, <1>3, <1>4, <1>5 DEF TypeOK
<1>7. RowsExist' /\ CallsNamePlayers'
  BY <1>1, <1>5 DEF RowsExist, CallsNamePlayers, TypeOK
<1>8. WorkersHaveMatches'
  BY <1>1, <1>5 DEF WorkersHaveMatches, TypeOK
<1>9. QED
  BY <1>6, <1>7, <1>8

-----------------------------------------------------------------------------
(* The steps of the game, of the sweeps and of the calls that settle.        *)
LEMMA NextIsPlay ==
    ASSUME RowsInv,
           \/ \E m \in Matches, w \in Winners : GameEnds(m, w) \/ TurnForfeit(m, w) \/ DisconnectForfeit(m, w)
           \/ \E m \in Matches : FirstMove(m) \/ Rejoin(m) \/ Reconcile(m) \/ GameIsLost(m)
           \/ \E c \in calls : CleanUp(c) \/ GiveUp(c) \/ CallIsLost(c)
    PROVE  PlayStep
<1>1. NoPlayer \in Winners /\ \A c \in calls : c.match \in Matches
  BY DEF RowsInv, TypeOK, Winners
<1>2. CASE \E m \in Matches, w \in Winners : GameEnds(m, w) \/ TurnForfeit(m, w) \/ DisconnectForfeit(m, w)
  BY <1>2, GamesArePlayed
<1>3. CASE \E m \in Matches : FirstMove(m) \/ Rejoin(m) \/ Reconcile(m)
  BY <1>1, <1>3, GamesArePlayed
<1>4. CASE \E m \in Matches : GameIsLost(m)
  BY <1>4, PlayEnds
<1>5. CASE \E c \in calls : CleanUp(c) \/ GiveUp(c) \/ CallIsLost(c)
  BY <1>1, <1>5, PlayEnds
<1>6. QED
  BY <1>2, <1>3, <1>4, <1>5

LEMMA NextKeepsRows == RowsInv /\ [Next]_vars => RowsInv'
<1> SUFFICES ASSUME RowsInv, [Next]_vars PROVE RowsInv'
  OBVIOUS
<1>1. CASE \E m \in Matches, t \in Terms : Fund(m, t)
  BY <1>1, FundKeepsRows
<1>2. CASE \E a \in Workers, m \in Matches : Scan(a, m)
  BY <1>2, WorkersKeepRows
<1>3. CASE \E a \in Workers : WorkerStep(a)
  BY <1>3, WorkersKeepRows, InitGameKeepsRows, ReleaseWriteKeepsRows DEF WorkerStep
<1>4. CASE \E m \in Matches : LeaseExpires(m)
  BY <1>4, LeaseExpiresKeepsRows
<1>5. CASE \/ \E m \in Matches, w \in Winners : GameEnds(m, w) \/ TurnForfeit(m, w) \/ DisconnectForfeit(m, w)
           \/ \E m \in Matches : FirstMove(m) \/ Rejoin(m) \/ Reconcile(m) \/ GameIsLost(m)
           \/ \E c \in calls : CleanUp(c) \/ GiveUp(c) \/ CallIsLost(c)
  BY <1>5, NextIsPlay, PlayKeepsRows
<1>6. CASE \E c \in calls : SettleMatch(c)
  BY <1>6, SettleMatchKeepsRows
<1>7. CASE \E a \in Workers : WorkerCrashes(a) \/ ReleaseFails(a)
  BY <1>7, WorkersKeepRows
<1>8. CASE UNCHANGED vars
  BY <1>8 DEF vars, RowsInv, TypeOK, LedgerTypeOK, RowsExist, CallsNamePlayers, WorkersHaveMatches
<1>9. QED
  BY <1>1, <1>2, <1>3, <1>4, <1>5, <1>6, <1>7, <1>8 DEF Next, CallStep

LEMMA RowsAreSound == Spec => []RowsInv
  BY InitiallyRows, NextKeepsRows, PTL DEF Spec

(* Every variable keeps its type, whether or not an owner outlives its      *)
(* lease: the statuses written are the modelled ones, the outbox rows are   *)
(* well formed, the attempts stay within bounds, and whoever is to be paid  *)
(* is a player.                                                             *)
THEOREM LifecycleIsTyped == Spec => []TypeOK
<1>1. RowsInv => TypeOK
  BY DEF RowsInv
<1>2. QED
  BY <1>1, RowsAreSound, PTL

(* The postings are the escrow's, so each leaves the sum of all money alone. *)
LEMMA PostingsConserve ==
    ASSUME LedgerTypeOK, MoneyIsConserved, NEW t \in Terms, t.light # t.dark,
           \/ UNCHANGED balances
           \/ LockStakes(t) \/ ReturnStakes(t)
           \/ \E w \in Seats(t) : PayWinner(t, w)
    PROVE  MoneyIsConserved'
<1>1. Promise!LedgerTypeOK /\ t \in Promise!Terms
  BY DEF LedgerTypeOK, Promise!LedgerTypeOK, Terms, Promise!Terms, NoTerms, Promise!NoTerms
<1>2. Promise!MoneyIsConserved
  BY SameSum DEF Promise!MoneyIsConserved, MoneyIsConserved, Promise!Worth, Worth
<1>3. ASSUME Promise!MoneyIsConserved' PROVE MoneyIsConserved'
  BY <1>3, SameSum DEF Promise!MoneyIsConserved, MoneyIsConserved, Promise!Worth, Worth
<1>4. CASE UNCHANGED balances
  BY <1>4 DEF balances, MoneyIsConserved, Worth
<1>5. CASE LockStakes(t) \/ ReturnStakes(t)
  <2>1. Promise!LockStakes(t) \/ Promise!ReturnStakes(t)
    BY <1>5 DEF LockStakes, ReturnStakes, Promise!LockStakes, Promise!ReturnStakes, Seats, Promise!Seats
  <2>2. Promise!MoneyIsConserved'
    BY <1>1, <1>2, <2>1, Promise!StakesConserve, PlayersAreFinite, StakesAssumption,
       PercentsAssumption, FundsAssumption
  <2>3. QED
    BY <1>3, <2>2
<1>6. ASSUME NEW w \in Seats(t), PayWinner(t, w) PROVE MoneyIsConserved'
  <2>1. w \in Promise!Seats(t) /\ Promise!PayWinner(t, w)
    BY <1>6 DEF PayWinner, Promise!PayWinner, Seats, Promise!Seats, Payout, Promise!Payout,
       Commission, Promise!Commission, Pot, Promise!Pot
  <2>2. Promise!MoneyIsConserved'
    BY <1>1, <1>2, <2>1, Promise!PayoutConserves, PlayersAreFinite, StakesAssumption,
       PercentsAssumption, FundsAssumption
  <2>3. QED
    BY <1>3, <2>2
<1>7. QED
  BY <1>4, <1>5, <1>6

(* Every other step leaves the money alone, and starts a game at most.      *)
LEMMA OtherSteps ==
    ASSUME [Next]_vars,
           \A m \in Matches, t \in Terms : ~Fund(m, t),
           \A a \in Workers : ~ReleaseWrite(a),
           \A c \in calls : ~SettleMatch(c)
    PROVE  /\ UNCHANGED <<terms, balances>>
           /\ status' = status \/ \E a \in Workers : StartMatch(a)
<1> USE DEF lifecycleVars
<1>1. CASE \E a \in Workers : WorkerStep(a)
  BY <1>1 DEF WorkerStep, TakeClaim, StartMatch, InitGame, MarkActivated, ActivationFails,
     ReleaseRead
<1>2. CASE \E c \in calls : CallStep(c)
  BY <1>2 DEF CallStep, CleanUp, GiveUp
<1>3. CASE UNCHANGED vars
  BY <1>3 DEF vars, balances
<1>4. QED
  BY <1>1, <1>2, <1>3
  DEF Next, Scan, LeaseExpires, GameEnds, TurnForfeit, DisconnectForfeit, FirstMove, Rejoin, Reconcile, WorkerCrashes,
      ReleaseFails, CallIsLost, GameIsLost

(* No money is made or lost, not even when two owners work on one match:    *)
(* whatever of a release or a settlement is repeated, posts or does not     *)
(* post, what the players and the platform have together is what the        *)
(* players had at first.                                                    *)
THEOREM MatchesConserveMoney == Spec => []MoneyIsConserved
<1>1. Init => MoneyIsConserved
  <2> SUFFICES ASSUME Init PROVE MoneyIsConserved
    OBVIOUS
  <2>1. Promise!LedgerInit
    BY DEF Init, LedgerInit, Promise!LedgerInit, NoTerms, Promise!NoTerms
  <2>2. Promise!MoneyIsConserved
    BY <2>1, Promise!StartConserves, PlayersAreFinite, StakesAssumption, PercentsAssumption,
       FundsAssumption
  <2>3. QED
    BY <2>2, SameSum DEF Promise!MoneyIsConserved, MoneyIsConserved, Promise!Worth, Worth
<1>2. RowsInv /\ MoneyIsConserved /\ [Next]_vars => MoneyIsConserved'
  <2> SUFFICES ASSUME RowsInv, MoneyIsConserved, [Next]_vars PROVE MoneyIsConserved'
    OBVIOUS
  <2>1. LedgerTypeOK
    BY DEF RowsInv, TypeOK
  <2>2. ASSUME NEW m \in Matches, NEW t \in Terms, Fund(m, t) PROVE MoneyIsConserved'
    BY <2>1, <2>2, PostingsConserve DEF Fund
  <2>3. ASSUME NEW a \in Workers, ReleaseWrite(a) PROVE MoneyIsConserved'
    <3> DEFINE t == terms[worker[a].match]
    <3>1. worker[a].match \in Matches /\ status[worker[a].match] # "NONE"
      BY <2>3, BusyWorker DEF ReleaseWrite, RowsInv, WorkersHaveMatches, Claimed
    <3>2. t \in Terms /\ t.light # t.dark
      BY <3>1 DEF RowsInv, RowsExist
    <3>3. UNCHANGED balances \/ ReturnStakes(t)
      BY <2>3 DEF ReleaseWrite
    <3> HIDE DEF t
    <3>4. QED
      BY <2>1, <3>2, <3>3, PostingsConserve
  <2>4. ASSUME NEW c \in calls, SettleMatch(c) PROVE MoneyIsConserved'
    <3> DEFINE t == terms[c.match]
    <3>1. t \in Terms /\ t.light # t.dark
      BY <2>4, SettlementIsTyped
    <3>2. \/ UNCHANGED balances \/ ReturnStakes(t)
          \/ c.winner \in Seats(t) /\ PayWinner(t, c.winner)
      BY <2>4, SettlementIsTyped
    <3> HIDE DEF t
    <3>3. QED
      BY <2>1, <3>1, <3>2, PostingsConserve
  <2>5. CASE /\ \A m \in Matches, t \in Terms : ~Fund(m, t)
             /\ \A a \in Workers : ~ReleaseWrite(a)
             /\ \A c \in calls : ~SettleMatch(c)
    BY <2>5, OtherSteps DEF balances, MoneyIsConserved, Worth
  <2>6. QED
    BY <2>2, <2>3, <2>4, <2>5
<1>3. QED
  BY <1>1, <1>2, RowsAreSound, PTL DEF Spec
-----------------------------------------------------------------------------
(* The rest of the invariant needs that owners do not outlive their leases. *)
LEMMA IInvHasRows == IInv => RowsInv
<1> SUFFICES ASSUME IInv PROVE RowsInv
  OBVIOUS
<1>1. TypeOK /\ RowsExist /\ CallsNamePlayers
  BY DEF IInv
<1>2. WorkersHaveMatches
  <2> SUFFICES ASSUME NEW a \in Workers, worker[a].pc \in Claimed
               PROVE  status[worker[a].match] # "NONE"
    BY DEF WorkersHaveMatches
  <2>1. worker[a].match \in Matches
    BY <1>1, BusyWorker DEF Claimed
  <2>2. QED
    BY <1>1, <2>1 DEF IInv, OwnersHoldClaims, RowsExist, Works
<1>3. QED
  BY <1>1, <1>2 DEF RowsInv

ClaimsInv == OwnersHoldClaims /\ ReleasersReadTheTruth /\ ResolvedOnce

LEMMA InitiallyInv == Init => IInv
<1>1. Init => ClaimsInv
  BY DEF Init, ClaimsInv, OwnersHoldClaims, ReleasersReadTheTruth, ResolvedOnce, Works, Claimed,
         Idle, NoSettlement
<1>2. QED
  BY <1>1, InitiallyRows DEF IInv, RowsInv, ClaimsInv

(* Two workers of the same match would hold the same claim. *)
LEMMA OneOwner ==
    ASSUME OwnersHoldClaims, NEW a \in Workers, NEW b \in Workers, NEW m \in Matches,
           Works(a, m), Works(b, m)
    PROVE  a = b
  BY DEF OwnersHoldClaims

(* Whoever is past takeOutboxClaim works on a match, and holds its claim.   *)
LEMMA Working ==
    ASSUME IInv, NEW a \in Workers, worker[a].pc \in Claimed
    PROVE  /\ worker[a].match \in Matches /\ Works(a, worker[a].match)
           /\ outbox[worker[a].match].status = "ACTIVATING"
           /\ outbox[worker[a].match].holder = a
<1>1. worker[a].match \in Matches
  BY BusyWorker DEF IInv, Claimed
<1>2. QED
  BY <1>1 DEF Works, IInv, OwnersHoldClaims

(* Another worker's match is not touched by what a worker does to its own.  *)
LEMMA OthersKeepTheTruth ==
    ASSUME IInv, NEW a \in Workers, worker[a].pc \in Claimed,
           NEW w, worker' = [worker EXCEPT ![a] = w],
           w.pc # "releaseWrite",
           \A n \in Matches : n # worker[a].match => status'[n] = status[n]
    PROVE  ReleasersReadTheTruth'
<1> SUFFICES ASSUME NEW b \in Workers, worker'[b].pc = "releaseWrite"
             PROVE  status'[worker'[b].match] \in {"FUNDED", "READY"}
  BY DEF ReleasersReadTheTruth
<1>1. b # a /\ worker'[b] = worker[b] /\ worker[b].pc \in Claimed
  BY DEF IInv, TypeOK, Claimed
<1>2. worker[b].match \in Matches /\ worker[b].match # worker[a].match
  BY <1>1, Working, OneOwner DEF IInv
<1>3. QED
  BY <1>1, <1>2 DEF IInv, ReleasersReadTheTruth

LEMMA FundKeepsClaims ==
    ASSUME IInv, NEW m \in Matches, NEW t \in Terms, Fund(m, t)
    PROVE  ClaimsInv'
<1> USE DEF IInv
<1>1. OwnersHoldClaims'
  BY DEF Fund, OwnersHoldClaims, RowsExist, Works, TypeOK
<1>2. ReleasersReadTheTruth'
  BY DEF Fund, ReleasersReadTheTruth, TypeOK
<1>3. ResolvedOnce'
  BY DEF Fund, ResolvedOnce, TypeOK
<1>4. QED
  BY <1>1, <1>2, <1>3 DEF ClaimsInv

LEMMA ScanKeepsClaims ==
    ASSUME IInv, NEW a \in Workers, NEW m \in Matches, Scan(a, m)
    PROVE  ClaimsInv'
<1> USE DEF IInv, balances, lifecycleVars
<1>1. OwnersHoldClaims'
  BY DEF Scan, OwnersHoldClaims, Works, Claimed, TypeOK, At
<1>2. ReleasersReadTheTruth'
  BY DEF Scan, ReleasersReadTheTruth, TypeOK, At
<1>3. ResolvedOnce'
  BY DEF Scan, ResolvedOnce
<1>4. QED
  BY <1>1, <1>2, <1>3 DEF ClaimsInv

LEMMA TakeClaimKeepsClaims ==
    ASSUME IInv, NEW a \in Workers, TakeClaim(a)
    PROVE  ClaimsInv'
<1> USE DEF IInv, balances
<1> DEFINE m == worker[a].match
<1>1. m \in Matches
  BY BusyWorker DEF TakeClaim
<1>2. CASE ~ClaimFree(m)
  <2>1. worker' = [worker EXCEPT ![a] = Idle] /\ outbox' = outbox
    BY <1>2 DEF TakeClaim
  <2>2. ResolvedOnce'
    BY <2>1 DEF TakeClaim, ResolvedOnce
  <2>3. OwnersHoldClaims' /\ ReleasersReadTheTruth'
    BY <2>1 DEF TakeClaim, OwnersHoldClaims, ReleasersReadTheTruth, Works, Claimed, TypeOK, Idle
  <2>4. QED
    BY <2>2, <2>3 DEF ClaimsInv
<1>3. CASE ClaimFree(m)
  <2> DEFINE row == outbox'[m]
             pc == IF worker[a].pc = "wantRelease" THEN "releaseRead" ELSE "start"
  <2>1. worker' = [worker EXCEPT ![a] = [pc |-> pc, match |-> m]]
    BY <1>1, <1>3 DEF TakeClaim, At, TypeOK
  <2>2. /\ outbox' = [outbox EXCEPT ![m] = row]
        /\ row.status = "ACTIVATING" /\ row.holder = a /\ row.lease = "running"
    BY <1>1, <1>3, AttemptsAssumption DEF TakeClaim, TypeOK, OutboxRows
  <2> HIDE DEF row
  <2>3. ResolvedOnce'
    BY <1>1, <1>3, <2>2 DEF TakeClaim, ClaimFree, ResolvedOnce, TypeOK
  <2>4. \A b \in Workers : ~Works(b, m)
    BY <1>1, <1>3 DEF ClaimFree, OwnersHoldClaims
  <2>5. OwnersHoldClaims'
    <3> SUFFICES ASSUME NEW b \in Workers, NEW n \in Matches, Works(b, n)'
                 PROVE  /\ outbox'[n].status = "ACTIVATING"
                        /\ outbox'[n].holder = b
                        /\ outbox'[n].lease = "running"
      BY DEF OwnersHoldClaims
    <3>1. CASE b = a
      BY <3>1, <1>1, <2>1, <2>2 DEF Works, TypeOK
    <3>2. CASE b # a
      <4>1. Works(b, n) /\ n # m
        BY <3>2, <2>1, <2>4 DEF Works, TypeOK
      <4>2. QED
        BY <4>1, <1>1, <2>2 DEF OwnersHoldClaims, TypeOK
    <3>3. QED
      BY <3>1, <3>2
  <2>6. ReleasersReadTheTruth'
    BY <2>1 DEF TakeClaim, ReleasersReadTheTruth, TypeOK
  <2>7. QED
    BY <2>3, <2>5, <2>6 DEF ClaimsInv
<1>4. QED
  BY <1>2, <1>3

(* The timing assumption is used here: no lease expires under its owner.    *)
LEMMA LeaseExpiresKeepsClaims ==
    ASSUME IInv, ~OwnerMayHang, NEW m \in Matches, LeaseExpires(m)
    PROVE  ClaimsInv'
  BY DEF LeaseExpires, IInv, ClaimsInv, OwnersHoldClaims, ReleasersReadTheTruth, ResolvedOnce,
         Works, TypeOK

(* A worker may do anything to the row it owns when it goes home. *)
LEMMA LeavingKeepsClaims ==
    ASSUME TypeOK, OwnersHoldClaims, NEW a \in Workers, NEW m \in Matches, Works(a, m),
           NEW row, outbox' = [outbox EXCEPT ![m] = row],
           worker' = [worker EXCEPT ![a] = Idle]
    PROVE  OwnersHoldClaims'
<1> SUFFICES ASSUME NEW b \in Workers, NEW n \in Matches, Works(b, n)'
             PROVE  /\ outbox'[n].status = "ACTIVATING"
                    /\ outbox'[n].holder = b
                    /\ outbox'[n].lease = "running"
  BY DEF OwnersHoldClaims
<1>1. b # a /\ Works(b, n)
  BY DEF Works, TypeOK, Idle, Claimed
<1>2. n # m
  BY <1>1, OneOwner
<1>3. QED
  BY <1>1, <1>2 DEF OwnersHoldClaims, TypeOK

LEMMA StartMatchKeepsClaims ==
    ASSUME IInv, NEW a \in Workers, StartMatch(a)
    PROVE  ClaimsInv'
<1> USE DEF IInv, balances
<1> DEFINE m == worker[a].match
<1>1. m \in Matches /\ Works(a, m) /\ worker[a].pc \in Claimed
  BY Working DEF StartMatch, Claimed
<1>2. worker' = [worker EXCEPT ![a] = [pc |-> "init", match |-> m]]
  BY DEF StartMatch, At
<1>3. /\ \A n \in Matches : n # m => status'[n] = status[n]
      /\ status'[m] = status[m] \/ (status[m] \in {"FUNDED", "READY"} /\ status'[m] = "IN_PLAY")
  <2>1. status \in [Matches -> Statuses]
    BY DEF TypeOK, Statuses
  <2>2. \/ status' = status
        \/ status' = [status EXCEPT ![m] = "IN_PLAY"] /\ status[m] \in {"FUNDED", "READY"}
    BY <1>1, <2>1 DEF StartMatch
  <2>3. QED
    BY <1>1, <2>1, <2>2
<1>4. ResolvedOnce'
  BY <1>1, <1>3 DEF StartMatch, ResolvedOnce
<1>5. OwnersHoldClaims'
  BY <1>1, <1>2 DEF StartMatch, OwnersHoldClaims, Works, TypeOK
<1>6. ReleasersReadTheTruth'
  <2>1. [pc |-> "init", match |-> m].pc # "releaseWrite"
    OBVIOUS
  <2>2. QED
    BY <1>1, <1>2, <1>3, <2>1, OthersKeepTheTruth
<1>7. QED
  BY <1>4, <1>5, <1>6 DEF ClaimsInv

LEMMA InitGameKeepsClaims ==
    ASSUME IInv, NEW a \in Workers, InitGame(a)
    PROVE  ClaimsInv'
<1> USE DEF IInv, balances, lifecycleVars
<1> DEFINE m == worker[a].match
<1>1. m \in Matches /\ Works(a, m)
  BY Working DEF InitGame, Claimed
<1>2. worker' = [worker EXCEPT ![a] = [pc |-> "mark", match |-> m]]
  BY DEF InitGame, At
<1>3. OwnersHoldClaims' /\ ReleasersReadTheTruth' /\ ResolvedOnce'
  BY <1>1, <1>2
  DEF InitGame, OwnersHoldClaims, ReleasersReadTheTruth, ResolvedOnce, Works, TypeOK
<1>4. QED
  BY <1>3 DEF ClaimsInv

(* The ways a worker leaves a claim without touching the match: the row it  *)
(* frees is its own.                                                        *)
LEMMA LeavingKeepsInv ==
    ASSUME IInv, NEW a \in Workers, worker[a].pc \in Claimed, worker' = [worker EXCEPT ![a] = Idle],
           \/ RecordFailure(worker[a].match)
           \/ outbox' = [outbox EXCEPT ![worker[a].match].status = "ACTIVATED",
                                       ![worker[a].match].holder = NoWorker,
                                       ![worker[a].match].lease = "free"],
           UNCHANGED <<status, resv, settled, posted>>
    PROVE  ClaimsInv'
<1> DEFINE m == worker[a].match
<1>1. m \in Matches /\ Works(a, m) /\ outbox[m].status = "ACTIVATING" /\ outbox[m] \in OutboxRows
  BY Working DEF IInv, TypeOK
<1>2. PICK row : outbox' = [outbox EXCEPT ![m] = row] /\ row.status \in {"ACTIVATING", "ACTIVATED"}
  BY <1>1 DEF RecordFailure, OutboxRows
<1> HIDE DEF m
<1>3. OwnersHoldClaims'
  BY <1>1, <1>2, LeavingKeepsClaims DEF IInv
<1>4. ReleasersReadTheTruth'
  BY DEF IInv, ReleasersReadTheTruth, TypeOK, Idle
<1>5. ResolvedOnce'
  BY <1>1, <1>2 DEF IInv, ResolvedOnce, TypeOK
<1>6. QED
  BY <1>3, <1>4, <1>5 DEF ClaimsInv

LEMMA GoingHomeKeepsClaims ==
    ASSUME IInv, NEW a \in Workers, MarkActivated(a) \/ ActivationFails(a) \/ ReleaseFails(a)
    PROVE  ClaimsInv'
<1>1. worker[a].pc \in Claimed
  BY DEF MarkActivated, ActivationFails, ReleaseFails, Claimed
<1>2. worker' = [worker EXCEPT ![a] = Idle] /\ UNCHANGED <<status, resv, settled, posted>>
  BY DEF MarkActivated, ActivationFails, ReleaseFails
<1>3. \/ RecordFailure(worker[a].match)
      \/ outbox' = [outbox EXCEPT ![worker[a].match].status = "ACTIVATED",
                                  ![worker[a].match].holder = NoWorker,
                                  ![worker[a].match].lease = "free"]
  BY <1>1, Working DEF MarkActivated, ActivationFails, ReleaseFails
<1>4. QED
  BY <1>1, <1>2, <1>3, LeavingKeepsInv

LEMMA ReleaseReadKeepsClaims ==
    ASSUME IInv, NEW a \in Workers, ReleaseRead(a)
    PROVE  ClaimsInv'
<1> DEFINE m == worker[a].match
<1>1. m \in Matches /\ Works(a, m) /\ worker[a].pc \in Claimed
  BY Working DEF ReleaseRead, Claimed
<1>2. CASE "RELEASED" \notin Allowed[status[m]]
  BY <1>1, <1>2, LeavingKeepsInv DEF ReleaseRead
<1>3. CASE "RELEASED" \in Allowed[status[m]]
  <2> USE DEF IInv, balances
  <2>1. worker' = [worker EXCEPT ![a] = [pc |-> "releaseWrite", match |-> m]] /\ outbox' = outbox
    BY <1>3 DEF ReleaseRead, At
  <2>2. status[m] \in {"FUNDED", "READY"}
    <3>1. status[m] \in {"NONE", "FUNDED", "READY", "IN_PLAY", "SETTLED", "RELEASED"}
      BY <1>1 DEF TypeOK
    <3>2. QED
      BY <3>1, <1>3 DEF Allowed
  <2>3. ResolvedOnce'
    BY <2>1 DEF ReleaseRead, ResolvedOnce
  <2>4. OwnersHoldClaims'
    BY <1>1, <2>1 DEF OwnersHoldClaims, Works, TypeOK
  <2>5. ReleasersReadTheTruth'
    BY <1>1, <2>1, <2>2 DEF ReleaseRead, ReleasersReadTheTruth, TypeOK
  <2>6. QED
    BY <2>3, <2>4, <2>5 DEF ClaimsInv
<1>4. QED
  BY <1>2, <1>3

(* The unconditional update of releaseMatch overwrites the status it read,  *)
(* so the reservations are RESERVED and nothing was posted for the end.     *)
LEMMA ReleaseWriteKeepsClaims ==
    ASSUME IInv, NEW a \in Workers, ReleaseWrite(a)
    PROVE  ClaimsInv'
<1> USE DEF IInv, balances
<1> DEFINE m == worker[a].match
           row == [outbox[m] EXCEPT !.status = "RELEASED", !.holder = NoWorker, !.lease = "free"]
<1>1. m \in Matches /\ Works(a, m) /\ worker[a].pc \in Claimed
  BY Working DEF ReleaseWrite, Claimed
<1>2. status[m] \in {"FUNDED", "READY"}
  BY DEF ReleaseWrite, ReleasersReadTheTruth
<1>3. /\ resv[m] = "RESERVED" /\ "stake-release" \notin posted[m]
      /\ "MATCH_SETTLEMENT" \notin posted[m] /\ settled[m].status # "SETTLED"
      /\ outbox[m] \in OutboxRows
  BY <1>1, <1>2 DEF ResolvedOnce, RowsExist, TypeOK
<1>4. /\ status' = [status EXCEPT ![m] = "RELEASED"]
      /\ resv' = [resv EXCEPT ![m] = "RELEASED"]
      /\ posted' = [posted EXCEPT ![m] = @ \cup {"stake-release"}]
      /\ outbox' = [outbox EXCEPT ![m] = row]
      /\ worker' = [worker EXCEPT ![a] = Idle]
      /\ settled' = settled
  BY <1>3 DEF ReleaseWrite
<1>5. row.status = "RELEASED"
  BY <1>3 DEF OutboxRows
<1> HIDE DEF row
<1>6. ResolvedOnce'
  BY <1>1, <1>2, <1>3, <1>4, <1>5 DEF ResolvedOnce, TypeOK
<1>7. OwnersHoldClaims'
  BY <1>1, <1>4, LeavingKeepsClaims
<1>8. ReleasersReadTheTruth'
  <2>1. Idle.pc # "releaseWrite" /\ \A n \in Matches : n # m => status'[n] = status[n]
    BY <1>4 DEF Idle, TypeOK
  <2>2. QED
    BY <1>1, <1>4, <2>1, OthersKeepTheTruth
<1>9. QED
  BY <1>6, <1>7, <1>8 DEF ClaimsInv

LEMMA CrashKeepsClaims ==
    ASSUME IInv, NEW a \in Workers, WorkerCrashes(a)
    PROVE  ClaimsInv'
  BY DEF WorkerCrashes, ClaimsInv, IInv, OwnersHoldClaims, ReleasersReadTheTruth, ResolvedOnce,
         Works, TypeOK, Idle, Claimed, lifecycleVars

-----------------------------------------------------------------------------
(* Settlement.  The conditional claim LIVE -> SETTLED finds a match with    *)
(* RESERVED rows and no posting for its end, so it really posts.            *)
LEMMA SettlementPosts ==
    ASSUME IInv, NEW c \in calls, SettleMatch(c)
    PROVE  LET m == c.match
               t == terms[m]
           IN  /\ m \in Matches /\ t \in Terms /\ status[m] = "IN_PLAY"
               /\ t.light # t.dark
               /\ c.winner \in Seats(t) \cup {NoPlayer}
               /\ \/ c.winner = NoPlayer /\ ReturnStakes(t)
                  \/ c.winner # NoPlayer /\ PayWinner(t, c.winner)
               /\ posted' = [posted EXCEPT ![m] = @ \cup {"MATCH_SETTLEMENT"}]
<1>1. /\ c.match \in Matches /\ terms[c.match] \in Terms /\ status[c.match] = "IN_PLAY"
      /\ terms[c.match].light # terms[c.match].dark
      /\ c.winner \in Seats(terms[c.match]) \cup {NoPlayer}
  BY SettlementIsTyped, IInvHasRows
<1>2. "MATCH_SETTLEMENT" \notin posted[c.match]
  BY <1>1 DEF IInv, ResolvedOnce
<1>3. QED
  BY <1>1, <1>2 DEF SettleMatch

LEMMA SettleMatchKeepsClaims ==
    ASSUME IInv, NEW c \in calls, SettleMatch(c)
    PROVE  ClaimsInv'
<1> DEFINE m == c.match
<1>1. /\ m \in Matches /\ status[m] = "IN_PLAY"
      /\ posted' = [posted EXCEPT ![m] = @ \cup {"MATCH_SETTLEMENT"}]
  BY SettlementPosts
<1> USE DEF IInv
<1>2. /\ status' = [status EXCEPT ![m] = "SETTLED"]
      /\ resv' = [resv EXCEPT ![m] = "SETTLED"]
      /\ settled'[m].status = "SETTLED"
      /\ \A n \in Matches : n # m => settled'[n] = settled[n]
      /\ UNCHANGED <<outbox, worker>>
  BY <1>1 DEF SettleMatch, TypeOK
<1> HIDE DEF m
<1>3. OwnersHoldClaims' /\ ReleasersReadTheTruth'
  BY <1>1, <1>2 DEF OwnersHoldClaims, ReleasersReadTheTruth, Works, TypeOK
<1>4. ResolvedOnce'
  BY <1>1, <1>2 DEF ResolvedOnce, TypeOK
<1>5. QED
  BY <1>3, <1>4 DEF ClaimsInv

-----------------------------------------------------------------------------
(* The invariant is inductive while owners do not outlive their leases.     *)
LEMMA NextKeepsClaims ==
    ASSUME IInv, ~OwnerMayHang, [Next]_vars
    PROVE  ClaimsInv'
<1>1. CASE \E m \in Matches, t \in Terms : Fund(m, t)
  BY <1>1, FundKeepsClaims
<1>2. CASE \E a \in Workers, m \in Matches : Scan(a, m)
  BY <1>2, ScanKeepsClaims
<1>3. CASE \E a \in Workers : WorkerStep(a)
  BY <1>3, TakeClaimKeepsClaims, StartMatchKeepsClaims, InitGameKeepsClaims, GoingHomeKeepsClaims,
     ReleaseReadKeepsClaims, ReleaseWriteKeepsClaims DEF WorkerStep
<1>4. CASE \E m \in Matches : LeaseExpires(m)
  BY <1>4, LeaseExpiresKeepsClaims
<1>5. CASE \/ \E m \in Matches, w \in Winners : GameEnds(m, w) \/ TurnForfeit(m, w) \/ DisconnectForfeit(m, w)
           \/ \E m \in Matches : FirstMove(m) \/ Rejoin(m) \/ Reconcile(m) \/ GameIsLost(m)
           \/ \E c \in calls : CleanUp(c) \/ GiveUp(c) \/ CallIsLost(c)
  <2>1. UNCHANGED <<lifecycleVars, worker>>
    BY <1>5, NextIsPlay, IInvHasRows DEF PlayStep
  <2>2. QED
    BY <2>1 DEF lifecycleVars, IInv, ClaimsInv, OwnersHoldClaims, ReleasersReadTheTruth,
                ResolvedOnce, Works
<1>6. CASE \E c \in calls : SettleMatch(c)
  BY <1>6, SettleMatchKeepsClaims
<1>7. CASE \E a \in Workers : WorkerCrashes(a) \/ ReleaseFails(a)
  BY <1>7, CrashKeepsClaims, GoingHomeKeepsClaims
<1>8. CASE UNCHANGED vars
  BY <1>8 DEF vars, IInv, ClaimsInv, OwnersHoldClaims, ReleasersReadTheTruth, ResolvedOnce, Works
<1>9. QED
  BY <1>1, <1>2, <1>3, <1>4, <1>5, <1>6, <1>7, <1>8 DEF Next, CallStep

LEMMA NextKeepsInv ==
    ASSUME IInv, ~OwnerMayHang, [Next]_vars
    PROVE  IInv'
<1>1. RowsInv'
  BY IInvHasRows, NextKeepsRows
<1>2. QED
  BY <1>1, NextKeepsClaims DEF RowsInv, IInv, ClaimsInv

(* The whole invariant holds for ever: claims belong to one worker, whoever *)
(* releases a match releases the status it read, and the rows agree.        *)
THEOREM LifecycleIsSafe ==
    ASSUME ~OwnerMayHang
    PROVE  Spec => []IInv
<1>1. Init => IInv
  BY InitiallyInv
<1>2. IInv /\ [Next]_vars => IInv'
  BY NextKeepsInv
<1>3. QED
  BY <1>1, <1>2, PTL DEF Spec

(* takeOutboxClaim serializes: never two workers past it for one match.     *)
THEOREM WorkersAreSerialized ==
    ASSUME ~OwnerMayHang
    PROVE  Spec => []OneWorkerPerMatch
<1>1. IInv => OneWorkerPerMatch
  BY OneOwner DEF IInv, OneWorkerPerMatch
<1>2. QED
  BY <1>1, LifecycleIsSafe, PTL

(* The rows that tell how a match ended always agree: a match is settled or *)
(* released, never both, and its money moved accordingly and once.          *)
THEOREM MatchesResolveOnce ==
    ASSUME ~OwnerMayHang
    PROVE  Spec => []ResolvedOnce
<1>1. IInv => ResolvedOnce
  BY DEF IInv
<1>2. QED
  BY <1>1, LifecycleIsSafe, PTL

-----------------------------------------------------------------------------
(* Refinement: the escrow a status stands for, and what each step does to it. *)
LEMMA EscrowOfStatus ==
    ASSUME NEW s \in {"NONE", "FUNDED", "READY", "IN_PLAY", "SETTLED", "RELEASED"}
    PROVE  /\ EscrowOf(s) = "none" <=> s = "NONE"
           /\ EscrowOf(s) = "held" <=> s \in Preterminal
           /\ EscrowOf(s) = "closed" <=> s \in Terminal
  BY DEF EscrowOf, Terminal, Preterminal

(* A new match has two seats nobody of whom holds stakes elsewhere.         *)
LEMMA FundOpensEscrow ==
    ASSUME IInv, NEW m \in Matches, NEW t \in Terms, Fund(m, t)
    PROVE  Escrow!Open(m, t)
<1>1. \A n \in Matches, p \in Players : Escrow!Holds(n, p) => status[n] \in Preterminal /\ p \in Seats(terms[n])
  BY EscrowOfStatus DEF Escrow!Holds, Escrow!Seats, Seats, IInv, TypeOK
<1>2. \A p \in Seats(t) : p \in Players /\ avail[p] >= t.stake /\ \A n \in Matches : ~Escrow!Holds(n, p)
  BY <1>1, TermsAreTyped DEF Fund, HasPreterminalMatch, Seats
<1>3. [n \in Matches |-> EscrowOf(status[n])][m] = "none"
  BY EscrowOfStatus DEF Fund
<1>4. [n \in Matches |-> EscrowOf(status[n])]'
        = [[n \in Matches |-> EscrowOf(status[n])] EXCEPT ![m] = "held"]
  <2>1. \A n \in Matches : EscrowOf(status'[n]) = IF n = m THEN "held" ELSE EscrowOf(status[n])
    BY EscrowOfStatus DEF Fund, IInv, TypeOK, Preterminal
  <2>2. QED
    BY <2>1
<1>5. QED
  BY <1>2, <1>3, <1>4 DEF Fund, Escrow!Open, Escrow!LockStakes, LockStakes, Escrow!Seats, Seats

(* A release closes the escrow by returning the stakes.                     *)
LEMMA ReleaseClosesEscrow ==
    ASSUME IInv, NEW a \in Workers, ReleaseWrite(a)
    PROVE  Escrow!CloseByReturn(worker[a].match)
<1> DEFINE m == worker[a].match
<1>1. m \in Matches /\ status[m] \in {"FUNDED", "READY"} /\ "stake-release" \notin posted[m]
  <2>1. m \in Matches
    BY BusyWorker DEF ReleaseWrite, IInv
  <2>2. status[m] \in {"FUNDED", "READY"}
    BY DEF ReleaseWrite, ReleasersReadTheTruth, IInv
  <2>3. QED
    BY <2>1, <2>2 DEF IInv, ResolvedOnce
<1>2. EscrowOf(status[m]) = "held"
  BY <1>1, EscrowOfStatus DEF Preterminal
<1>3. [n \in Matches |-> EscrowOf(status[n])]'
        = [[n \in Matches |-> EscrowOf(status[n])] EXCEPT ![m] = "closed"]
  <2>1. \A n \in Matches : EscrowOf(status'[n]) = IF n = m THEN "closed" ELSE EscrowOf(status[n])
    BY <1>1, EscrowOfStatus DEF ReleaseWrite, IInv, TypeOK, Terminal
  <2>2. QED
    BY <2>1
<1>4. ReturnStakes(terms[m]) /\ UNCHANGED terms
  BY <1>1 DEF ReleaseWrite
<1>5. QED
  BY <1>1, <1>2, <1>3, <1>4
  DEF Escrow!CloseByReturn, Escrow!ReturnStakes, ReturnStakes, Escrow!Seats, Seats

(* A settlement closes it by paying a seat, or by returning the stakes.     *)
LEMMA SettlementClosesEscrow ==
    ASSUME IInv, NEW c \in calls, SettleMatch(c)
    PROVE  \/ Escrow!CloseByReturn(c.match)
           \/ c.winner \in Players /\ Escrow!CloseByPayout(c.match, c.winner)
<1> DEFINE m == c.match
           t == terms[m]
<1>1. m \in Matches /\ t \in Terms /\ status[m] = "IN_PLAY" /\ c.winner \in Seats(t) \cup {NoPlayer}
  BY SettlementPosts
<1>2. EscrowOf(status[m]) = "held"
  BY <1>1, EscrowOfStatus DEF Preterminal
<1>3. [n \in Matches |-> EscrowOf(status[n])]'
        = [[n \in Matches |-> EscrowOf(status[n])] EXCEPT ![m] = "closed"]
  <2>1. \A n \in Matches : EscrowOf(status'[n]) = IF n = m THEN "closed" ELSE EscrowOf(status[n])
    BY <1>1, EscrowOfStatus DEF SettleMatch, IInv, TypeOK, Terminal
  <2>2. QED
    BY <2>1
<1>4. UNCHANGED terms
  BY DEF SettleMatch
<1>5. CASE c.winner = NoPlayer /\ ReturnStakes(t)
  BY <1>1, <1>2, <1>3, <1>4, <1>5
  DEF Escrow!CloseByReturn, Escrow!ReturnStakes, ReturnStakes, Escrow!Seats, Seats
<1>6. CASE c.winner # NoPlayer /\ PayWinner(t, c.winner)
  <2>1. c.winner \in Players /\ c.winner \in Seats(t)
    BY <1>1, <1>6, TermsAreTyped DEF Seats
  <2>2. QED
    BY <1>1, <1>2, <1>3, <1>4, <1>6, <2>1
    DEF Escrow!CloseByPayout, Escrow!PayWinner, PayWinner, Escrow!Seats, Seats,
        Escrow!Payout, Payout, Escrow!Commission, Commission, Escrow!Pot, Pot
<1>7. QED
  BY <1>5, <1>6, SettlementPosts

LEMMA StartedMatches ==
    ASSUME IInv, NEW a \in Workers, StartMatch(a), NEW m \in Matches
    PROVE  \/ status'[m] = status[m]
           \/ status[m] \in {"FUNDED", "READY"} /\ status'[m] = "IN_PLAY"
<1>1. worker[a].match \in Matches
  BY BusyWorker DEF StartMatch, IInv
<1>2. QED
  BY <1>1 DEF StartMatch, IInv, TypeOK

LEMMA EscrowSteps ==
    ASSUME IInv, [Next]_vars
    PROVE  [Escrow!EscrowNext]_(Escrow!evars)
<1>1. ASSUME NEW m \in Matches, NEW t \in Terms, Fund(m, t)
      PROVE  Escrow!EscrowNext
  <2>1. Escrow!Open(m, t) /\ t \in Escrow!Terms
    BY <1>1, FundOpensEscrow DEF Escrow!Terms, Terms
  <2>2. QED
    BY <2>1 DEF Escrow!EscrowNext
<1>2. ASSUME NEW a \in Workers, ReleaseWrite(a)
      PROVE  Escrow!EscrowNext
  <2>1. worker[a].match \in Matches
    BY <1>2, BusyWorker DEF ReleaseWrite, IInv
  <2>2. QED
    BY <1>2, <2>1, ReleaseClosesEscrow DEF Escrow!EscrowNext
<1>3. ASSUME NEW c \in calls, SettleMatch(c)
      PROVE  Escrow!EscrowNext
  <2>1. c.match \in Matches
    BY <1>3, SettlementPosts
  <2>2. QED
    BY <1>3, <2>1, SettlementClosesEscrow DEF Escrow!EscrowNext
<1>4. CASE /\ \A m \in Matches, t \in Terms : ~Fund(m, t)
           /\ \A a \in Workers : ~ReleaseWrite(a)
           /\ \A c \in calls : ~SettleMatch(c)
  <2>1. \A m \in Matches : EscrowOf(status'[m]) = EscrowOf(status[m])
    BY <1>4, OtherSteps, StartedMatches, EscrowOfStatus DEF Preterminal
  <2>2. [m \in Matches |-> EscrowOf(status[m])]' = [m \in Matches |-> EscrowOf(status[m])]
    BY <2>1
  <2>3. UNCHANGED <<terms, avail, locked, revenue>>
    BY <1>4, OtherSteps DEF balances
  <2>4. QED
    BY <2>2, <2>3 DEF Escrow!evars
<1>5. QED
  BY <1>1, <1>2, <1>3, <1>4

LEMMA EscrowStarts == Init => Escrow!EscrowInit
  BY EscrowOfStatus DEF Init, LedgerInit, Escrow!EscrowInit, Escrow!LedgerInit, Escrow!NoTerms,
     NoTerms

(* The program implements the escrow: whatever its workers, sweeps and      *)
(* faults do, every match's stakes are opened and closed as StakeEscrow     *)
(* allows, once, to the right players, in the right amounts.                *)
THEOREM LifecycleImplementsEscrow ==
    ASSUME ~OwnerMayHang
    PROVE  Spec => ImplementsEscrow
<1>1. Init => Escrow!EscrowInit
  BY EscrowStarts
<1>2. IInv /\ [Next]_vars => [Escrow!EscrowNext]_(Escrow!evars)
  BY EscrowSteps
<1>3. QED
  BY <1>1, <1>2, LifecycleIsSafe, PTL DEF Spec, ImplementsEscrow, Escrow!EscrowSpec

(* A release writes over the status its transaction read, and only a match  *)
(* that never went live has one that allows it.                             *)
LEMMA LiveStaysLive ==
    ASSUME IInv, [Next]_vars, NEW m \in Matches, status[m] \in {"IN_PLAY", "SETTLED"}
    PROVE  status'[m] \in {"IN_PLAY", "SETTLED"}
<1>1. ASSUME NEW n \in Matches, NEW t \in Terms, Fund(n, t)
      PROVE  status'[m] \in {"IN_PLAY", "SETTLED"}
  BY <1>1 DEF Fund, IInv, TypeOK
<1>2. ASSUME NEW a \in Workers, ReleaseWrite(a)
      PROVE  status'[m] \in {"IN_PLAY", "SETTLED"}
  <2>1. worker[a].match \in Matches /\ status[worker[a].match] \in {"FUNDED", "READY"}
    BY <1>2, BusyWorker DEF ReleaseWrite, IInv, ReleasersReadTheTruth
  <2>2. QED
    BY <1>2, <2>1 DEF ReleaseWrite, IInv, TypeOK
<1>3. ASSUME NEW c \in calls, SettleMatch(c)
      PROVE  status'[m] \in {"IN_PLAY", "SETTLED"}
  BY <1>3 DEF SettleMatch, IInv, TypeOK
<1>4. CASE /\ \A n \in Matches, t \in Terms : ~Fund(n, t)
           /\ \A a \in Workers : ~ReleaseWrite(a)
           /\ \A c \in calls : ~SettleMatch(c)
  BY <1>4, OtherSteps, StartedMatches
<1>5. QED
  BY <1>1, <1>2, <1>3, <1>4

(* Whatever happens around it, no step turns a live or a settled match into *)
(* a released one.                                                          *)
THEOREM LiveMatchesAreNotReleased ==
    ASSUME ~OwnerMayHang
    PROVE  Spec => NeverReleasedOnceLive
<1>1. IInv /\ [Next]_vars
        => [\A m \in Matches :
              status[m] \in {"IN_PLAY", "SETTLED"} => status'[m] # "RELEASED"]_vars
  BY LiveStaysLive
<1>2. QED
  BY <1>1, LifecycleIsSafe, PTL DEF Spec, NeverReleasedOnceLive

-----------------------------------------------------------------------------
(* What the escrow guarantees, the program therefore guarantees too.        *)

LEMMA PromiseIsKept == ImplementsEscrow => []Promise!EscrowInv
<1>1. Escrow!EscrowInit => Promise!EscrowInit
  BY DEF Escrow!EscrowInit, Escrow!LedgerInit, Escrow!NoTerms,
         Promise!EscrowInit, Promise!LedgerInit, Promise!NoTerms
<1>2. [Escrow!EscrowNext]_(Escrow!evars) => [Promise!EscrowNext]_(Promise!evars)
  BY DEF Escrow!EscrowNext, Escrow!evars, Escrow!Open, Escrow!CloseByPayout, Escrow!CloseByReturn,
         Escrow!Holds, Escrow!Seats, Escrow!Terms, Escrow!Pot, Escrow!Commission, Escrow!Payout,
         Escrow!LockStakes, Escrow!ReturnStakes, Escrow!PayWinner,
         Promise!EscrowNext, Promise!evars, Promise!Open, Promise!CloseByPayout,
         Promise!CloseByReturn, Promise!Holds, Promise!Seats, Promise!Terms, Promise!Pot,
         Promise!Commission, Promise!Payout, Promise!LockStakes, Promise!ReturnStakes,
         Promise!PayWinner
<1>3. Promise!EscrowSpec => []Promise!EscrowInv
  BY Promise!EscrowIsSafe, PlayersAreFinite, StakesAssumption, PercentsAssumption, FundsAssumption
<1>4. QED
  BY <1>1, <1>2, <1>3, PTL DEF ImplementsEscrow, Escrow!EscrowSpec, Promise!EscrowSpec

(* Nobody's stake is stuck or spent twice: the locked balance of a player   *)
(* is always the stake of the one match the player is in, if any.           *)
THEOREM LockedStakesAreAccountedFor ==
    ASSUME ~OwnerMayHang
    PROVE  Spec => []LockedIsStaked
<1>1. IInv /\ Promise!EscrowInv => LockedIsStaked
  <2> SUFFICES ASSUME IInv, Promise!EscrowInv, NEW p \in Players
               PROVE  /\ \A m \in Matches :
                             status[m] \in Preterminal /\ p \in Seats(terms[m])
                                 => locked[p] = terms[m].stake
                      /\ ~HasPreterminalMatch(p) => locked[p] = 0
    BY DEF LockedIsStaked
  <2>1. \A m \in Matches :
           Promise!Holds(m, p) <=> status[m] \in Preterminal /\ p \in Seats(terms[m])
    BY EscrowOfStatus DEF Promise!Holds, Promise!Seats, Seats, IInv, TypeOK
  <2>2. /\ \A m \in Matches : Promise!Holds(m, p) => locked[p] = terms[m].stake
        /\ (\A m \in Matches : ~Promise!Holds(m, p)) => locked[p] = 0
    BY DEF Promise!EscrowInv, Promise!LockedIsHeld
  <2>3. QED
    BY <2>1, <2>2 DEF HasPreterminalMatch
<1>2. QED
  BY <1>1, LifecycleIsSafe, LifecycleImplementsEscrow, PromiseIsKept, PTL

-----------------------------------------------------------------------------
(* Games and releases, when initializeGame's FUNDED -> IN_PLAY update always *)
(* succeeds: every projection belongs to a match that went live.             *)
LEMMA StartedGamesStay ==
    ASSUME IInv, ~StartMayFail, GamesAreStarted, [Next]_vars
    PROVE  GamesAreStarted'
<1> DEFINE Started(s) == s \in {"IN_PLAY", "SETTLED"}
<1>1. ASSUME NEW m \in Matches, game'[m] # NoGame
      PROVE  Started(status[m])
  <2>1. ASSUME NEW a \in Workers, InitGame(a)
        PROVE  Started(status[m])
    <3>1. worker[a].match \in Matches /\ Started(status[worker[a].match])
      BY <2>1, BusyWorker DEF InitGame, GamesAreStarted, IInv
    <3>2. QED
      BY <1>1, <2>1, <3>1 DEF InitGame, GamesAreStarted, IInv, TypeOK
  <2>2. ASSUME NEW n \in Matches, NEW w \in Winners, GameEnds(n, w)
        PROVE  Started(status[m])
    BY <1>1, <2>2 DEF GameEnds, GamesAreStarted, IInv, TypeOK, NoGame, LiveGame
  <2>3. ASSUME NEW n \in Matches, Reconcile(n)
        PROVE  Started(status[m])
    BY <1>1, <2>3 DEF Reconcile, Rebuild, Live, GamesAreStarted, IInv, TypeOK
  <2>4. ASSUME NEW c \in calls, CleanUp(c)
        PROVE  Started(status[m])
    BY <1>1, <2>4 DEF CleanUp, GamesAreStarted, IInv, TypeOK
  <2>5. ASSUME NEW n \in Matches, GameIsLost(n)
        PROVE  Started(status[m])
    BY <1>1, <2>5 DEF GameIsLost, GamesAreStarted, IInv, TypeOK
  <2>6. ASSUME NEW n \in Matches, Rejoin(n)
        PROVE  Started(status[m])
    BY <1>1, <2>6 DEF Rejoin, Rebuild, GamesAreStarted, IInv, TypeOK
  <2>7. CASE game' = game
    BY <1>1, <2>7 DEF GamesAreStarted
  <2>8. QED
    BY <2>1, <2>2, <2>3, <2>4, <2>5, <2>6, <2>7
    DEF Next, WorkerStep, CallStep, Fund, Scan, TakeClaim, StartMatch, MarkActivated,
        ActivationFails, ReleaseRead, ReleaseWrite, LeaseExpires, FirstMove, TurnForfeit, DisconnectForfeit, SettleMatch,
        GiveUp, WorkerCrashes, ReleaseFails, CallIsLost, vars
<1>2. ASSUME NEW a \in Workers, worker'[a].pc = "init"
      PROVE  worker'[a].match \in Matches /\ Started(status'[worker'[a].match])
  <2>1. ASSUME NEW b \in Workers, StartMatch(b)
        PROVE  worker'[b].match = worker[b].match /\ Started(status'[worker[b].match])
    <3> DEFINE m == worker[b].match
    <3>1. m \in Matches /\ Works(b, m)
      BY <2>1, BusyWorker DEF StartMatch, IInv, Works, Claimed
    <3>2. outbox[m].status = "ACTIVATING"
      BY <3>1 DEF IInv, OwnersHoldClaims
    <3>3. status[m] \in {"FUNDED", "READY", "IN_PLAY", "SETTLED"}
      BY <3>1, <3>2 DEF IInv, TypeOK, RowsExist, ResolvedOnce
    <3>4. QED
      BY <2>1, <3>1, <3>3 DEF StartMatch, At, IInv, TypeOK
  <2>2. CASE StartMatch(a)
    BY <1>2, <2>1, <2>2, BusyWorker DEF StartMatch, IInv
  <2>3. CASE worker'[a] = worker[a]
    <3>1. worker[a].match \in Matches /\ Started(status[worker[a].match])
      BY <1>2, <2>3, BusyWorker DEF GamesAreStarted, IInv
    <3>2. QED
      BY <2>3, <3>1, LiveStaysLive
  <2>4. worker'[a] = worker[a] \/ StartMatch(a)
    <3>1. CASE \E b \in Workers : WorkerStep(b)
      BY <1>2, <3>1 DEF WorkerStep, TakeClaim, StartMatch, InitGame, MarkActivated, ActivationFails,
         ReleaseRead, ReleaseWrite, At, Idle, IInv, TypeOK
    <3>2. CASE \E b \in Workers, m \in Matches : Scan(b, m)
      BY <1>2, <3>2 DEF Scan, At, IInv, TypeOK
    <3>3. CASE \E b \in Workers : WorkerCrashes(b) \/ ReleaseFails(b)
      BY <1>2, <3>3 DEF WorkerCrashes, ReleaseFails, Idle, IInv, TypeOK
    <3>4. QED
      BY <3>1, <3>2, <3>3
      DEF Next, CallStep, Fund, LeaseExpires, GameEnds, TurnForfeit, DisconnectForfeit, FirstMove, Rejoin, Reconcile,
          SettleMatch, CleanUp, GiveUp, CallIsLost, GameIsLost, vars
  <2>5. QED
    BY <2>2, <2>3, <2>4
<1>3. \A m \in Matches : Started(status[m]) => Started(status'[m])
  BY LiveStaysLive
<1>4. ASSUME NEW m \in Matches, played'[m]
      PROVE  Started(status[m])
  <2>1. ASSUME NEW n \in Matches, FirstMove(n)
        PROVE  Started(status[m])
    BY <1>4, <2>1 DEF FirstMove, GamesAreStarted, IInv, TypeOK, NoGame, LiveGame
  <2>2. CASE played' = played
    BY <1>4, <2>2 DEF GamesAreStarted
  <2>3. QED
    BY <2>1, <2>2
    DEF Next, WorkerStep, CallStep, Fund, Scan, TakeClaim, StartMatch, InitGame, MarkActivated,
        ActivationFails, ReleaseRead, ReleaseWrite, LeaseExpires, GameEnds, TurnForfeit, DisconnectForfeit, Rejoin,
        Reconcile, SettleMatch, CleanUp, GiveUp, WorkerCrashes, ReleaseFails, CallIsLost, GameIsLost, vars
<1>5. QED
  BY <1>1, <1>2, <1>3, <1>4 DEF GamesAreStarted

(* A game is never there to be played for stakes that were given back.      *)
THEOREM ReleasedMatchesHaveNoGame ==
    ASSUME ~OwnerMayHang, ~StartMayFail
    PROVE  Spec => []NoGameForReleasedStakes
<1>1. Init => GamesAreStarted
  BY DEF Init, GamesAreStarted, Idle
<1>2. IInv /\ GamesAreStarted /\ [Next]_vars => GamesAreStarted'
  BY StartedGamesStay
<1>3. GamesAreStarted => NoGameForReleasedStakes
  BY DEF GamesAreStarted, NoGameForReleasedStakes
<1>4. QED
  BY <1>1, <1>2, <1>3, LifecycleIsSafe, PTL DEF Spec
=============================================================================

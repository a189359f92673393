--------------------------- MODULE MatchLifecycle ---------------------------
(***************************************************************************)
(* The life of a match whose stakes are money: funding, activation in      *)
(* Redis under a lease, play, settlement, and release when activation is   *)
(* given up.                                                               *)
(*                                                                         *)
(* Postgres transactions that commit in one step are one action.  A        *)
(* transaction whose reads can go stale before its writes is two (the      *)
(* release), and so is everything between two systems (Postgres, Redis)    *)
(* or between two statements outside a transaction.  A worker is a process *)
(* running finalizeMatchActivation or releaseMatch: the request that       *)
(* funded the match, or the activation sweep of a server instance.         *)
(***************************************************************************)
EXTENDS StakeLedger, FiniteSets

CONSTANTS
    Workers,        \* the processes that activate and release matches
    NoWorker,       \* the claimToken null of an outbox row
    MaxAttempts,    \* MAX_ACTIVATION_ATTEMPTS (5 in the code)
    OwnerMayHang,   \* may a claim's owner outlive its 30 s lease and go on?
    StartMayFail,   \* may the FUNDED -> IN_PLAY update fail (and be swallowed)?
    MaxFaults       \* bound: crashes, evictions from Redis and abandoned calls

ASSUME WorkersAssumption == NoWorker \notin Workers
ASSUME AttemptsAssumption == MaxAttempts \in Nat \ {0}
ASSUME SwitchesAssumption == OwnerMayHang \in BOOLEAN /\ StartMayFail \in BOOLEAN
ASSUME FaultsAssumption == MaxFaults \in Nat

VARIABLES
    status,     \* Match.status, "NONE" before the row exists
    resv,       \* the StakeReservation rows of a match (both always agree)
    settled,    \* the MatchSettlement row of a match
    posted,     \* the ledger transactions of a match, by idempotency key
    outbox,     \* the GameOutbox row of a match
    played,     \* has a move of the match been written to the durable log?
    worker,     \* what each worker is doing, for which match
    game,       \* the Redis projection of a match: absent, live or over
    calls,      \* settleGameWithRetry calls in progress: match, winner
    faults

lifecycleVars == <<status, resv, settled, posted, outbox>>
vars == <<terms, avail, locked, revenue, status, resv, settled, posted, outbox,
          played, worker, game, calls, faults>>
-----------------------------------------------------------------------------
Live == {"IN_PLAY"}
Preterminal == {"FUNDED", "READY", "IN_PLAY"}
Terminal == {"SETTLED", "RELEASED"}

(* ALLOWED_TRANSITIONS, over the statuses the program really writes. *)
Allowed == [s \in {"NONE", "FUNDED", "READY", "IN_PLAY", "SETTLED", "RELEASED"} |->
               CASE s = "FUNDED" -> {"READY", "RELEASED"}
                 [] s = "READY" -> {"IN_PLAY", "RELEASED"}
                 [] s = "IN_PLAY" -> {"SETTLED"}
                 [] OTHER -> {}]

Winners == Players \cup {NoPlayer}

NoGame == [phase |-> "absent", winner |-> NoPlayer]
LiveGame == [phase |-> "live", winner |-> NoPlayer]

OverGame(w) == [phase |-> "over", winner |-> w]

NoSettlement == [status |-> "NONE", winner |-> NoPlayer, payout |-> 0, fee |-> 0]

Idle == [pc |-> "idle", match |-> "none"]
At(pc, m) == [pc |-> pc, match |-> m]

(* Points of a worker that come after a successful takeOutboxClaim. *)
Claimed == {"start", "init", "mark", "releaseRead", "releaseWrite"}

Works(a, m) == worker[a].pc \in Claimed /\ worker[a].match = m

(* Mutant: only a match in play keeps a player from funding another. *)
HasLiveMatch(p) == \E m \in Matches : status[m] \in Live /\ p \in Seats(terms[m])

HasPreterminalMatch(p) ==
    \E m \in Matches : status[m] \in Preterminal /\ p \in Seats(terms[m])
-----------------------------------------------------------------------------
Init ==
    /\ LedgerInit
    /\ status = [m \in Matches |-> "NONE"]
    /\ resv = [m \in Matches |-> "NONE"]
    /\ settled = [m \in Matches |-> NoSettlement]
    /\ posted = [m \in Matches |-> {}]
    /\ outbox = [m \in Matches |->
                    [status |-> "NONE", attempts |-> 0, holder |-> NoWorker, lease |-> "free"]]
    /\ played = [m \in Matches |-> FALSE]
    /\ worker = [a \in Workers |-> Idle]
    /\ game = [m \in Matches |-> NoGame]
    /\ calls = {}
    /\ faults = 0
-----------------------------------------------------------------------------
(* createMatchWithStakes: the whole transaction, under both wallet locks.   *)
(* A releaseMatch transaction of one of the two players holds a wallet.     *)

WalletsFree(t) ==
    \A a \in Workers :
        worker[a].pc = "releaseWrite" => Seats(terms[worker[a].match]) \cap Seats(t) = {}

Fund(m, t) ==
    /\ status[m] = "NONE"
    /\ t.light # t.dark
    /\ WalletsFree(t)
    /\ \A p \in Seats(t) : ~HasPreterminalMatch(p) /\ avail[p] >= t.stake
    /\ terms' = [terms EXCEPT ![m] = t]
    /\ status' = [status EXCEPT ![m] = "FUNDED"]
    /\ resv' = [resv EXCEPT ![m] = "RESERVED"]
    /\ LockStakes(t)
    /\ posted' = [posted EXCEPT ![m] = @ \cup {"stake-lock"}]
    /\ outbox' = [outbox EXCEPT ![m].status = "PENDING"]
    /\ UNCHANGED <<settled, played, worker, game, calls, faults>>
-----------------------------------------------------------------------------
(* A worker reads an outbox row and decides, on the attempts it reads,      *)
(* between activating and releasing; then it tries to take the claim.       *)

(* Mutant: a row left ACTIVATING by a crash is never taken up again. *)
ClaimPendingOnly(m) == outbox[m].status = "PENDING" /\ outbox[m].lease # "running"

ClaimFree(m) ==
    /\ outbox[m].status \in {"PENDING", "ACTIVATING"}
    /\ outbox[m].lease # "running"

Scan(a, m) ==
    /\ worker[a].pc = "idle"
    /\ ClaimFree(m)
    /\ worker' = [worker EXCEPT ![a] =
                     At(IF outbox[m].attempts >= MaxAttempts THEN "wantRelease"
                                                             ELSE "wantActivate", m)]
    /\ UNCHANGED <<terms, played, balances, lifecycleVars, game, calls, faults>>

(* takeOutboxClaim: one conditional UPDATE; a worker that loses goes home. *)
TakeClaim(a) ==
    LET m == worker[a].match IN
    /\ worker[a].pc \in {"wantActivate", "wantRelease"}
    /\ IF ClaimFree(m)
       THEN /\ outbox' = [outbox EXCEPT ![m] =
                            [status |-> "ACTIVATING",
                             attempts |-> IF @.attempts < MaxAttempts THEN @.attempts + 1
                                                                      ELSE MaxAttempts,
                             holder |-> a, lease |-> "running"]]
            /\ worker' = [worker EXCEPT ![a] =
                             At(IF @.pc = "wantRelease" THEN "releaseRead" ELSE "start", m)]
       ELSE /\ worker' = [worker EXCEPT ![a] = Idle]
            /\ UNCHANGED outbox
    /\ UNCHANGED <<terms, played, balances, status, resv, settled, posted, game, calls, faults>>

(* Mutant: the lease runs out under the work it protects. *)
LeaseTooShort(m) ==
    /\ outbox[m].lease = "running"
    /\ outbox' = [outbox EXCEPT ![m].lease = "expired"]
    /\ UNCHANGED <<terms, played, balances, status, resv, settled, posted, worker, game, calls, faults>>

(* claimExpiresAt passes.  Unless owners may hang, the lease outlives its   *)
(* owner's work, so only a claim nobody works under any more expires.       *)
LeaseExpires(m) ==
    /\ outbox[m].lease = "running"
    /\ OwnerMayHang \/ \A a \in Workers : ~Works(a, m)
    /\ outbox' = [outbox EXCEPT ![m].lease = "expired"]
    /\ UNCHANGED <<terms, played, balances, status, resv, settled, posted, worker, game, calls, faults>>

(* recordFailure clears the claim, whoever holds it. *)
RecordFailure(m) ==
    outbox' = [outbox EXCEPT ![m].holder = NoWorker, ![m].lease = "free"]
-----------------------------------------------------------------------------
(* finalizeMatchActivation, after the claim: initializeGame's conditional   *)
(* FUNDED/READY -> IN_PLAY, then the Redis projection, then markActivated.  *)

(* Mutant: the start expects a match that is READY. *)
StartReadyMatch(a) ==
    LET m == worker[a].match IN
    /\ worker[a].pc = "start"
    /\ status' = [status EXCEPT ![m] = IF @ = "READY" THEN "IN_PLAY" ELSE @]
    /\ worker' = [worker EXCEPT ![a] = At("init", m)]
    /\ UNCHANGED <<terms, played, balances, resv, settled, posted, outbox, game, calls, faults>>

StartMatch(a) ==
    LET m == worker[a].match IN
    /\ worker[a].pc = "start"
    /\ \/ status' = [status EXCEPT ![m] = IF @ \in {"FUNDED", "READY"} THEN "IN_PLAY" ELSE @]
       \/ StartMayFail /\ UNCHANGED status
    /\ worker' = [worker EXCEPT ![a] = At("init", m)]
    /\ UNCHANGED <<terms, played, balances, resv, settled, posted, outbox, game, calls, faults>>

InitGame(a) ==
    LET m == worker[a].match IN
    /\ worker[a].pc = "init"
    /\ game' = [game EXCEPT ![m] = IF @ = NoGame THEN LiveGame ELSE @]
    /\ worker' = [worker EXCEPT ![a] = At("mark", m)]
    /\ UNCHANGED <<terms, played, balances, lifecycleVars, calls, faults>>

MarkActivated(a) ==
    LET m == worker[a].match IN
    /\ worker[a].pc = "mark"
    /\ outbox' = IF outbox[m].holder = a
                 THEN [outbox EXCEPT ![m].status = "ACTIVATED", ![m].holder = NoWorker,
                                     ![m].lease = "free"]
                 ELSE outbox
    /\ worker' = [worker EXCEPT ![a] = Idle]
    /\ UNCHANGED <<terms, played, balances, status, resv, settled, posted, game, calls, faults>>

(* Redis refuses the projection or the mark fails: recordFailure. *)
ActivationFails(a) ==
    /\ worker[a].pc \in {"init", "mark"}
    /\ RecordFailure(worker[a].match)
    /\ worker' = [worker EXCEPT ![a] = Idle]
    /\ UNCHANGED <<terms, played, balances, status, resv, settled, posted, game, calls, faults>>
-----------------------------------------------------------------------------
(* Mutant: the status is not checked against ALLOWED_TRANSITIONS. *)
ReleaseUnchecked(a) ==
    /\ worker[a].pc = "releaseRead"
    /\ worker' = [worker EXCEPT ![a] = At("releaseWrite", @.match)]
    /\ UNCHANGED <<terms, played, balances, lifecycleVars, game, calls, faults>>

(* releaseMatch, after the claim: transitionMatch reads the status ...      *)

ReleaseRead(a) ==
    LET m == worker[a].match IN
    /\ worker[a].pc = "releaseRead"
    /\ IF "RELEASED" \in Allowed[status[m]]
       THEN /\ worker' = [worker EXCEPT ![a] = At("releaseWrite", m)]
            /\ UNCHANGED outbox
       ELSE /\ worker' = [worker EXCEPT ![a] = Idle]
            /\ RecordFailure(m)
    /\ UNCHANGED <<terms, played, balances, status, resv, settled, posted, game, calls, faults>>

(* ... and then updates it without a condition, turns the RESERVED rows to  *)
(* RELEASED, posts STAKE_RELEASE under its key, and finalizes the outbox.   *)
ReleaseWrite(a) ==
    LET m == worker[a].match IN
    /\ worker[a].pc = "releaseWrite"
    /\ status' = [status EXCEPT ![m] = "RELEASED"]
    /\ resv' = [resv EXCEPT ![m] = IF @ = "RESERVED" THEN "RELEASED" ELSE @]
    /\ IF "stake-release" \in posted[m]
       THEN UNCHANGED <<balances, posted>>
       ELSE ReturnStakes(terms[m]) /\ posted' = [posted EXCEPT ![m] = @ \cup {"stake-release"}]
    /\ outbox' = [outbox EXCEPT ![m].status = "RELEASED", ![m].holder = NoWorker,
                                ![m].lease = "free"]
    /\ worker' = [worker EXCEPT ![a] = Idle]
    /\ UNCHANGED <<terms, played, settled, game, calls, faults>>
-----------------------------------------------------------------------------
(* Play.  A player who resigns or makes the last move first moves the       *)
(* projection to its end and then settles; the deadline and disconnect      *)
(* sweeps settle without touching the projection.                           *)

CallSettle(m, w) == calls' = calls \cup {[match |-> m, winner |-> w]}

GameEnds(m, w) ==
    /\ game[m] = LiveGame
    /\ w \in Seats(terms[m]) \cup {NoPlayer}
    /\ game' = [game EXCEPT ![m] = OverGame(w)]
    /\ CallSettle(m, w)
    /\ UNCHANGED <<terms, played, balances, lifecycleVars, worker, faults>>

(* processTurnDeadlineSweep needs only a live projection, and never draws.  *)
TurnForfeit(m, w) ==
    /\ game[m] = LiveGame
    /\ w \in Seats(terms[m])
    /\ [match |-> m, winner |-> w] \notin calls
    /\ CallSettle(m, w)
    /\ UNCHANGED <<terms, played, balances, lifecycleVars, worker, game, faults>>

(* processDisconnectSweep needs a live match and, to know the opponent, a   *)
(* projection, whose game may be over.                                      *)
DisconnectForfeit(m, w) ==
    /\ status[m] \in Live
    /\ game[m] # NoGame
    /\ w \in Seats(terms[m]) \cup {NoPlayer}
    /\ [match |-> m, winner |-> w] \notin calls
    /\ CallSettle(m, w)
    /\ UNCHANGED <<terms, played, balances, lifecycleVars, worker, game, faults>>

(* persistAcceptedMove: the first move also makes the durable state row.    *)
FirstMove(m) ==
    /\ game[m] = LiveGame
    /\ ~played[m]
    /\ played' = [played EXCEPT ![m] = TRUE]
    /\ UNCHANGED <<terms, balances, lifecycleVars, worker, game, calls, faults>>

(* rebuildProjectionFromDurable: a missing projection is replayed from the  *)
(* log, if there is one.  (A log that ends the game gives a projection that *)
(* is over: the rebuilt game followed by GameEnds.)                         *)
Rebuild(m) ==
    /\ game[m] = NoGame
    /\ played[m]
    /\ game' = [game EXCEPT ![m] = LiveGame]
    /\ UNCHANGED calls

(* handleJoinMatch: a participant opens a match, whatever its status is.    *)
Rejoin(m) ==
    /\ status[m] # "NONE"
    /\ Rebuild(m)
    /\ UNCHANGED <<terms, played, balances, lifecycleVars, worker, faults>>

(* Mutant: the sweep ignores a match whose projection is missing. *)
ReconcileFinished(m) ==
    /\ status[m] \in Live
    /\ game[m].phase = "over"
    /\ [match |-> m, winner |-> game[m].winner] \notin calls
    /\ CallSettle(m, game[m].winner)
    /\ UNCHANGED <<terms, played, balances, lifecycleVars, worker, game, faults>>

(* processReconciliationSweep: a live match whose projection is over is     *)
(* settled, one whose projection is missing gets it rebuilt if it can be.   *)
Reconcile(m) ==
    /\ status[m] \in Live
    /\ \/ /\ game[m].phase = "over"
          /\ [match |-> m, winner |-> game[m].winner] \notin calls
          /\ CallSettle(m, game[m].winner)
          /\ UNCHANGED game
       \/ Rebuild(m)
    /\ UNCHANGED <<terms, played, balances, lifecycleVars, worker, faults>>
-----------------------------------------------------------------------------
(* settleMatch: the claim LIVE -> SETTLED is conditional, and everything it *)
(* reads before it is frozen, so the transaction is one step.  A posting    *)
(* with a zero entry is refused by assertAmount and rolls it all back.      *)

PostableWin(t) == Commission(t) # 0 /\ Payout(t) # 0

Settleable(c) ==
    /\ status[c.match] \in Live
    /\ c.winner = NoPlayer \/ PostableWin(terms[c.match])

SettleMatch(c) ==
    LET m == c.match
        t == terms[m]
        draw == c.winner = NoPlayer
    IN
    /\ c \in calls
    /\ Settleable(c)
    /\ status' = [status EXCEPT ![m] = "SETTLED"]
    /\ resv' = [resv EXCEPT ![m] = "SETTLED"]
    /\ settled' = [settled EXCEPT ![m] =
                      [status |-> "SETTLED", winner |-> c.winner,
                       payout |-> IF draw THEN Pot(t) ELSE Payout(t),
                       fee |-> IF draw THEN 0 ELSE Commission(t)]]
    /\ IF "MATCH_SETTLEMENT" \in posted[m]
       THEN UNCHANGED <<balances, posted>>
       ELSE /\ IF draw THEN ReturnStakes(t) ELSE PayWinner(t, c.winner)
            /\ posted' = [posted EXCEPT ![m] = @ \cup {"MATCH_SETTLEMENT"}]
    /\ UNCHANGED <<terms, played, outbox, worker, game, calls, faults>>

(* The caller's last step: once the match is SETTLED (by it or by another   *)
(* caller) it deletes the projection; but runCleanupFromDbForWin returns    *)
(* early when the match was settled as a draw.                              *)
CleanUp(c) ==
    /\ c \in calls
    /\ status[c.match] = "SETTLED"
    /\ game' = IF c.winner # NoPlayer /\ settled[c.match].winner = NoPlayer
               THEN game
               ELSE [game EXCEPT ![c.match] = NoGame]
    /\ calls' = calls \ {c}
    /\ UNCHANGED <<terms, played, balances, lifecycleVars, worker, faults>>

(* Ten attempts threw: not live and never settled (MatchNotSettleable), or  *)
(* the posting is refused.  The call is dropped.                            *)
GiveUp(c) ==
    /\ c \in calls
    /\ status[c.match] # "SETTLED" /\ ~Settleable(c)
    /\ calls' = calls \ {c}
    /\ UNCHANGED <<terms, played, balances, lifecycleVars, worker, game, faults>>
-----------------------------------------------------------------------------
(* Faults: a worker's process dies; the release transaction fails and rolls *)
(* back; a settlement call dies with its process or exhausts its attempts   *)
(* on transient errors; Redis loses a projection.                           *)

Fault == faults < MaxFaults /\ faults' = faults + 1

WorkerCrashes(a) ==
    /\ worker[a].pc # "idle"
    /\ Fault
    /\ worker' = [worker EXCEPT ![a] = Idle]
    /\ UNCHANGED <<terms, played, balances, lifecycleVars, game, calls>>

(* The catch of releaseMatch: recordFailure. *)
ReleaseFails(a) ==
    /\ worker[a].pc \in {"releaseRead", "releaseWrite"}
    /\ Fault
    /\ RecordFailure(worker[a].match)
    /\ worker' = [worker EXCEPT ![a] = Idle]
    /\ UNCHANGED <<terms, played, balances, status, resv, settled, posted, game, calls>>

CallIsLost(c) ==
    /\ c \in calls
    /\ Fault
    /\ calls' = calls \ {c}
    /\ UNCHANGED <<terms, played, balances, lifecycleVars, worker, game>>

GameIsLost(m) ==
    /\ game[m] # NoGame
    /\ Fault
    /\ game' = [game EXCEPT ![m] = NoGame]
    /\ UNCHANGED <<terms, played, balances, lifecycleVars, worker, calls>>
-----------------------------------------------------------------------------
WorkerStep(a) ==
    \/ TakeClaim(a)
    \/ StartMatch(a)
    \/ InitGame(a)
    \/ MarkActivated(a)
    \/ ActivationFails(a)
    \/ ReleaseRead(a)
    \/ ReleaseWrite(a)

CallStep(c) == SettleMatch(c) \/ CleanUp(c) \/ GiveUp(c)

Next ==
    \/ \E m \in Matches, t \in Terms : Fund(m, t)
    \/ \E a \in Workers, m \in Matches : Scan(a, m)
    \/ \E a \in Workers : WorkerStep(a)
    \/ \E m \in Matches : LeaseExpires(m)
    \/ \E m \in Matches, w \in Winners : GameEnds(m, w) \/ TurnForfeit(m, w) \/ DisconnectForfeit(m, w)
    \/ \E m \in Matches : FirstMove(m)
    \/ \E m \in Matches : Rejoin(m) \/ Reconcile(m)
    \/ \E c \in calls : CallStep(c)
    \/ \E a \in Workers : WorkerCrashes(a) \/ ReleaseFails(a)
    \/ \E c \in calls : CallIsLost(c)
    \/ \E m \in Matches : GameIsLost(m)

Spec == Init /\ [][Next]_vars

(* The sweeps run on a timer and wall-clock time passes: leases expire,     *)
(* every started step of a process ends, the activation sweep goes through  *)
(* all the rows it finds (hence strong fairness for a row a busy worker     *)
(* keeps passing by), and the turn deadline ends every game.  Nobody has to *)
(* fund a match, and no fault has to happen.                                *)
Fairness ==
    /\ \A a \in Workers : WF_vars(WorkerStep(a)) /\ \A m \in Matches : SF_vars(Scan(a, m))
    /\ \A m \in Matches :
          /\ WF_vars(LeaseExpires(m))
          /\ WF_vars(\E w \in Winners : TurnForfeit(m, w))
          /\ WF_vars(Reconcile(m))
          /\ \A w \in Winners : WF_vars(CallStep([match |-> m, winner |-> w]))

FairSpec == Spec /\ Fairness
-----------------------------------------------------------------------------
OutboxRows == [status : {"NONE", "PENDING", "ACTIVATING", "ACTIVATED", "RELEASED"},
               attempts : 0..MaxAttempts,
               holder : Workers \cup {NoWorker},
               lease : {"free", "running", "expired"}]

TypeOK ==
    /\ LedgerTypeOK
    /\ status \in [Matches -> {"NONE", "FUNDED", "READY", "IN_PLAY", "SETTLED", "RELEASED"}]
    /\ resv \in [Matches -> {"NONE", "RESERVED", "SETTLED", "RELEASED"}]
    /\ settled \in [Matches -> [status : {"NONE", "SETTLED"}, winner : Winners, payout : Int, fee : Int]]
    /\ posted \in [Matches -> SUBSET {"stake-lock", "stake-release", "MATCH_SETTLEMENT"}]
    /\ outbox \in [Matches -> OutboxRows]
    /\ played \in [Matches -> BOOLEAN]
    /\ worker \in [Workers -> [pc : Claimed \cup {"wantActivate", "wantRelease"}, match : Matches]
                            \cup {Idle}]
    /\ game \in [Matches -> [phase : {"absent", "live", "over"}, winner : Winners]]
    /\ calls \subseteq [match : Matches, winner : Winners]
    /\ faults \in 0..MaxFaults

(* The claim token and its lease serialize the workers of a match: two of   *)
(* them are never past takeOutboxClaim for the same row.                    *)
OneWorkerPerMatch ==
    \A a, b \in Workers, m \in Matches : Works(a, m) /\ Works(b, m) => a = b

(* The rows that tell how a match ended agree: a settled match has its      *)
(* MatchSettlement row, its SETTLED reservations and its settlement posting *)
(* and was never refunded; a released one is the other way round; and a     *)
(* match that has not ended has neither.                                    *)
ResolvedOnce ==
    \A m \in Matches :
        /\ status[m] = "SETTLED" <=> "MATCH_SETTLEMENT" \in posted[m]
        /\ status[m] = "SETTLED" <=> resv[m] = "SETTLED"
        /\ status[m] = "SETTLED" <=> settled[m].status = "SETTLED"
        /\ status[m] = "RELEASED" <=> "stake-release" \in posted[m]
        /\ status[m] = "RELEASED" <=> resv[m] = "RELEASED"
        /\ status[m] = "RELEASED" <=> outbox[m].status = "RELEASED"

(* A player's PLAYER_LOCKED balance is the stake of the one match the       *)
(* player is in before it is terminal, and zero when there is none: stakes  *)
(* are neither stuck nor spent twice.                                       *)
LockedIsStaked ==
    \A p \in Players :
        /\ \A m \in Matches :
               status[m] \in Preterminal /\ p \in Seats(terms[m]) => locked[p] = terms[m].stake
        /\ ~HasPreterminalMatch(p) => locked[p] = 0

(* Both stakes can be given back only while there is no game to be played   *)
(* for them: a released match never has a projection.                       *)
NoGameForReleasedStakes ==
    \A m \in Matches : status[m] = "RELEASED" => game[m] = NoGame

(* A release never takes over a match that has gone live or was settled.    *)
NeverReleasedOnceLive ==
    [][\A m \in Matches :
          status[m] \in {"IN_PLAY", "SETTLED"} => status'[m] # "RELEASED"]_vars

(* A funded match does not wait for ever: it is started or given up.        *)
FundedMovesOn ==
    \A m \in Matches : status[m] = "FUNDED" ~> status[m] # "FUNDED"

(* "a failed status flip is repaired by the first move or the               *)
(* reconciliation sweep": a match that can be played does not stay FUNDED.  *)
FailedStartIsRepaired ==
    \A m \in Matches : (status[m] = "FUNDED" /\ game[m] = LiveGame) ~> status[m] # "FUNDED"

(* A match that was begun, with a move in the durable log, is settled, over *)
(* crashes of workers and settlements and any loss of Redis.                *)
PlayedIsSettled ==
    \A m \in Matches : (status[m] = "IN_PLAY" /\ played[m]) ~> status[m] = "SETTLED"

(* "A record that keeps failing exhausts its attempts and is released       *)
(* instead": no match stays without a game once its attempts are used up.   *)
ExhaustedIsReleased ==
    \A m \in Matches :
        (outbox[m].attempts = MaxAttempts /\ status[m] # "SETTLED" /\ game[m] = NoGame)
            ~> (status[m] = "RELEASED" \/ game[m] # NoGame)

(* "a restart or Redis loss must surface the canonical board, never a stale *)
(* or missing one": a live match does not stay without its projection.      *)
LostGamesComeBack ==
    \A m \in Matches :
        (status[m] \in Live /\ outbox[m].status = "ACTIVATED" /\ game[m] = NoGame)
            ~> (game[m] # NoGame \/ status[m] \in Terminal)

(* "cleanup may not have run": whoever finds a match settled clears the     *)
(* projection that is still being played.                                   *)
SettledGamesAreCleared ==
    \A m \in Matches : (status[m] = "SETTLED" /\ game[m] = LiveGame) ~> game[m] # LiveGame
-----------------------------------------------------------------------------
(* Why it works: the inductive invariant behind ResolvedOnce and the escrow.*)

(* Rows exist together, and whoever is about to be paid has a seat.         *)
RowsExist ==
    \A m \in Matches :
        /\ status[m] = "NONE" <=> resv[m] = "NONE"
        /\ status[m] = "NONE" <=> outbox[m].status = "NONE"
        /\ status[m] # "NONE" => terms[m] \in Terms /\ terms[m].light # terms[m].dark
        /\ game[m] # NoGame \/ played[m] => status[m] # "NONE"
        /\ game[m].winner \in Seats(terms[m]) \cup {NoPlayer}

CallsNamePlayers ==
    \A c \in calls :
        status[c.match] # "NONE" /\ c.winner \in Seats(terms[c.match]) \cup {NoPlayer}

(* While owners do not hang, whoever works on a match holds its claim ...   *)
OwnersHoldClaims ==
    \A a \in Workers, m \in Matches :
        Works(a, m) => /\ outbox[m].status = "ACTIVATING"
                       /\ outbox[m].holder = a
                       /\ outbox[m].lease = "running"

(* ... so the status a releaser read is still the status it overwrites.     *)
ReleasersReadTheTruth ==
    \A a \in Workers :
        worker[a].pc = "releaseWrite" => status[worker[a].match] \in {"FUNDED", "READY"}

(* And while the start update cannot fail, no game exists, and no worker is *)
(* about to make one, before its match is live.                             *)
GamesAreStarted ==
    /\ \A m \in Matches :
           game[m] # NoGame \/ played[m] => status[m] \in {"IN_PLAY", "SETTLED"}
    /\ \A a \in Workers :
           worker[a].pc = "init" => status[worker[a].match] \in {"IN_PLAY", "SETTLED"}

IInv ==
    /\ TypeOK
    /\ RowsExist
    /\ CallsNamePlayers
    /\ OwnersHoldClaims
    /\ ReleasersReadTheTruth
    /\ ResolvedOnce
-----------------------------------------------------------------------------
(* The escrow a match implements: held from funding to its terminal status. *)

EscrowOf(s) == CASE s = "NONE" -> "none"
                 [] s \in Terminal -> "closed"
                 [] OTHER -> "held"

Escrow == INSTANCE StakeEscrow WITH escrow <- [m \in Matches |-> EscrowOf(status[m])]

(* Every step of the program is a step of the escrow or leaves it alone.    *)
ImplementsEscrow == Escrow!EscrowSpec
=============================================================================

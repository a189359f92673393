# Draught Bet: a verification project

Draught Bet is a draughts game played for money: a Flutter app (`app/`) over a
Node.js backend (`backend/src`) that keeps money and results in Postgres, live
games in Redis and talks to its players over sockets. This directory holds TLA+
models of the backend, the TLC configurations that check them on small
instances, and proofs, checked by TLAPS, that the most important properties hold
for every number of players, matches, workers, tokens and payments.

Paths below are relative to `backend/src/` unless they begin with `app/` or
`backend/`.

## 1. Inventory

| Component | State it keeps | Operations | What makes it correct | Module |
|---|---|---|---|---|
| Match funding (`services/matchService.js`, `modules/stake`) | Match, StakeReservation, ledger, GameOutbox rows | `createMatchWithStakes`: asks who may play, then goes on under both wallet row locks | one match per player, stakes covered, frozen terms | MatchLifecycle, Pairing |
| Match status (`modules/match/service.js`) | `Match.status` | `transitionMatch` (checked, unconditional write), `transitionMatchWhere` (conditional) | legal transitions only | MatchLifecycle |
| Game activation (`services/gameActivationService.js`, `jobs/gameActivationSweep.js`) | GameOutbox: status, attempts, claim token, lease | claim, initialise, mark, record a failure, release | one worker per row; no release of a live match; nothing is forgotten | MatchLifecycle |
| Settlement (`modules/settlement`, `sockets/settlement.js`) | Match, MatchSettlement, StakeReservation, ledger | `settleMatch`, a loop of ten attempts, cleanup of Redis | resolved once, and for good | MatchLifecycle, GameSession |
| Ledger (`services/ledgerService.js`) | accounts, balanced entries, idempotency keys | postings for stakes, settlements, withdrawals, deposits, adjustments | sums to zero, posted once, no overdraft | StakeLedger, WithdrawalMoney, PlayerFunds |
| Game session (`sockets/gameManager.js`) | Redis projection with a version, durable move log | initialise, move, resign | log and projection agree; one move per turn | GameSession, Draughts |
| Recovery (`sockets/gameRecovery.js`, `jobs/reconciliationSweep.js`) | both of the above | replay, rebuild, reconcile, re-arm at boot | a live match has a game; a finished game is settled | GameSession, MatchLifecycle, Presence, Draughts |
| Disconnects and turn clock (`sockets/disconnectHandler.js`, `jobs/disconnectSweep.js`, `jobs/turnDeadlineSweep.js`) | sorted set of grace deadlines, turn deadlines | arm, cancel, forfeit, draw | whoever is back in time is not forfeited; no game lasts for ever | Presence, GameSession |
| Withdrawals (`modules/withdrawal`, `jobs/providerFollowUp.js`) | Withdrawal, BankAccount, ledger | request, approve, pay, result, callback, follow-up, release | money leaves or comes back, once | Withdrawal |
| Payment gateways (`modules/payment`) | none; the provider's transfers | initiate, verify, webhook | one transfer per reference | Withdrawal, PlayerFunds |
| Deposits (`modules/wallet`, `jobs/depositReconciliation.js`) | DepositIntent | intent, webhook credit, stale sweep | credited once, only if paid, and in the end | PlayerFunds |
| Financial reconciliation (`jobs/financialReconciliation.js`) | none; reports | compares intents, settlements and postings | complaints have a reason | PlayerFunds |
| Outbox (`services/outboxService.js`, `jobs/outboxDrainer.js`) | OutboxEvent: status, attempts, lease | enqueue in the caller's transaction, claim, deliver, park | everything committed is announced | Outbox |
| Matchmaking and callouts (`jobs/matchmakingWorker.js`, `modules/matchmaking`, `modules/callout`, `jobs/calloutExpiry.js`) | Redis queues, Callout rows | join, leave, pop a pair, open, accept, expire | a call-out makes one match; a pair is funded only if both are asked again | Pairing |
| Safer play, eligibility (`modules/saferPlay`, `modules/eligibility`, `services/eligibilityService.js`) | limits, pending raises, breaks | set, raise, cool down, check | what a player set against himself is not undone at once | SaferPlay, Pairing |
| Authentication (`modules/auth`) | Redis token keys, UserSession rows, User | register, log in, rotate, log out, revoke, ban | one live token per family; a ban ends access | Accounts |
| Socket transport (`sockets/index.js`, `sockets/middleware.js`) | connections, rooms, the per-user quota | handshake, join, disconnect | the quota holds; no handler is missed | Accounts, Presence |
| MFA, roles, audit (`modules/mfa`, `modules/rbac`, `modules/audit`) | a Redis counter, roles, audit rows | challenge, lock, permit, record | wrong codes are bounded; mutations leave a trace | AdminConsole |
| Identity verification (`modules/verification`) | User.kycStatus, cases, checks | start, approve, reject | VERIFIED rests on a case | Verification |
| Admin (`modules/admin`) | none of its own | reviews, withdrawals, adjustments, bans | as the parts it calls | AdminConsole, Withdrawal, PlayerFunds, Accounts |
| Engine (`modules/engine`) | none | legal moves, apply, end of game | the rules of draughts | Engine, Draughts |
| Notifications, HTTP plumbing, mobile app | records, sockets, screens | inserts and reads | - | not modelled |

**How they interact.** A pair of players reaches `createMatchWithStakes` from
the matchmaking worker or from a callout. That transaction asks again whether each
of them may play, one after the other and without a lock, then locks both wallets,
looks for a match either is in, locks both stakes in the ledger, and writes the
Match and its GameOutbox row. The process that funded the match, or any server's
activation sweep, claims the outbox row, moves the match to IN_PLAY, creates the
projection in Redis and marks the row; when the attempts are used up, the row's
claim is used to release the match and refund both. During play the projection
is shared by the socket handlers of both players and by four sweeps. Whoever
ends the game calls `settleGameWithRetry`; several callers may name different
results, and a conditional update in Postgres decides. Independently, deposits
and withdrawals move money between the same ledger and the provider under the
eyes of operators, callbacks and sweeps; committed events wait in the outbox for
a drainer; sessions, bans and verification decide who may do any of this.

**What is hard.** Several server processes run the same sweeps; Postgres and
Redis cannot be updated together; leases stand for ownership; reads made before
a write go stale; the provider's answers get lost and its events come late; a
process may die anywhere. `PROJECT.json` lists each of these hazards at its line
with the properties that would catch it.

## 2. Modules

    StakeLedger --> StakeEscrow --> StakeEscrow_proofs
         +--> MatchLifecycle --> MatchLifecycle_proofs       implements StakeEscrow
                   +--> MCMatchLifecycle
    WithdrawalMoney --> WithdrawalPromise
         +--> Withdrawal --> Withdrawal_proofs, MCWithdrawal implements WithdrawalPromise
    Turns --> MoveRecord
      +--> GameSession --> MCGameSession                     implements MoveRecord
    EventDelivery
    Outbox                                                   implements EventDelivery
      GameSession, Outbox --> Records_proofs
    SaferPlay --> Pairing --> MCPairing
    PlayerFunds
      PlayerFunds, Pairing --> Funding_proofs
    Presence --> MCPresence
    Accounts --> MCAccounts
    Verification --> AdminConsole --> MCAdminConsole
      Accounts, AdminConsole --> Access_proofs
    Engine --> Draughts --> MCDraughts
      Draughts, Presence --> Play_proofs
    SumLemmas (sums over finite sets) --> the proof modules that add money up

An arrow is EXTENDS. A Postgres transaction whose conditions are repeated in its
writes, or protected by locks, is one action; everything else ends a step at each
await. Clocks are abstracted to what they allow: a lease, a turn, a grace can
pass. `PROJECT.json` maps each definition to the lines it stands for. Two
specifications that share a proof module name their parts apart (`InitConsole`
and `ConsoleSpec`, `OutboxInit` and `OutboxSpec`, `PairingInit` and
`PairingSpec`).

**StakeLedger**: the balances a match touches and its three postings. A balance
is the sum of an account's entries; the model keeps the sum. `Terms` are what
`createMatch` freezes: seats, stake and commission in whole percent.

**MatchLifecycle**: a match from funding to its end.

| Model | Code |
|---|---|
| `Fund` | `createMatchWithStakes`, one transaction |
| `Scan` | `processGameActivationSweep`, and the inline call of the funding request |
| `TakeClaim`, `LeaseExpires` | `takeOutboxClaim`, its 30 s lease |
| `StartMatch`, `InitGame` | the two halves of `initializeGame`: Postgres, then Redis |
| `MarkActivated`, `ActivationFails` | `markActivated`, `recordFailure` |
| `ReleaseRead`, `ReleaseWrite`, `ReleaseFails` | `releaseMatch`: the read of `transitionMatch`, everything after it, the catch |
| `GameEnds` | `handleResign` and the last move of `submitMove`: projection first, then settlement |
| `TurnForfeit` | `processTurnDeadlineSweep`, which needs a live game in Redis |
| `DisconnectForfeit` | `processDisconnectSweep`, which needs a live match in Postgres and any projection, finished or not |
| `FirstMove` | `persistAcceptedMove` creating the durable state row |
| `Rejoin`, `Reconcile` | `handleJoinMatch`, `processReconciliationSweep`; both rebuild through `Rebuild` |
| `SettleMatch`, `CleanUp`, `GiveUp` | `settleMatch`; what `settleGameWithRetry` does after it; its tenth failure |
| `WorkerCrashes`, `CallIsLost`, `GameIsLost` | a process dies; Redis loses a key |

The release is two steps because `transitionMatch` checks a status it read
earlier. A settlement call is an element of the set `calls`: a second identical
call would do the same steps, so the set loses nothing. `OwnerMayHang` and
`StartMayFail` switch on two faults that the code's comments reason about;
everything proved with them off is stated so. The statuses DRAFT, OPEN, CANCELLED
and the legacy ACTIVE are in the schema, but no current path writes them.

**StakeEscrow**: the promise. Stakes are put in escrow by two different players
who can afford it and are in no other escrow, and an escrow is closed once.

**WithdrawalMoney, Withdrawal, WithdrawalPromise**: the same division for
withdrawals. `beginPayout` is split where the code awaits (`BeginPayout`,
`ClaimPayout`, `ProviderAccepts` or `ProviderFails`, `RecordRef`, `RecordFailure`):
its catch covers the call and the write of the reference after it, so FAILED may be
written over a transfer that was accepted. `releaseWithdrawal` is two actions because
its update does not repeat the condition it read; `reportPayoutResult` is one,
whether a callback, the follow-up sweep or an operator calls it. The provider is
external: it starts at most one transfer per reference, ends it either way, and may
take a transfer without its answer arriving. Operators are assumed to report what the
provider's dashboard shows. The two updates that look at nothing leave their mark in
`slips` when what they overwrite is not what their request knew.

The follow-up sweep is a run: `SweepReads` fetches the `MaxPerRun` oldest due rows
(ten in the code), `SweepProbes` asks about one of them, `ProbeThrows` leaves it as it
was, `ComesDue` makes a row due again. A row the provider cannot be asked about
(`Answerable`: it has never heard of it, or its gateway is asked by a reference that
was never stored, `ByRef`) stays at the head of the list for ever.

**Turns, MoveRecord, GameSession**: the pipeline of a move. A position is the
sequence of plays that leads to it; what a play does to a board is Draughts' part.
The app makes a new id for each move (`app/lib/providers/match_provider.dart:552`),
and a submission that is sent again keeps it, so an id belongs to one submission and
one turn (`IdsAssumption`, `TurnOf`); the older protocol sends none (`Legacy`).

| Model | Code |
|---|---|
| `Submit`, `ReadAgain` | `submitMove` reading the projection, and its retries after a lost compare-and-set |
| `CheckReplay`, `CheckRefuse`, `CheckExpired`, `CheckPass` | the duplicate check by `clientMoveId`, the turn, the clock and the rules |
| `Persist`, `Conflict`, `PersistFails`, `Resume` | `persistAcceptedMove`, its unique-key conflicts, its failure, and going on from a row that is there already |
| `CasAdvances`, `CasTooLate`, `CasFails` | the Lua compare-and-set on the version and the deadline |
| `Resign`, `TurnExpires`, `DeadlineSweep` | `handleResign`, the turn clock, `processTurnDeadlineSweep` |
| `RebuildRead`, `RebuildWrite` | `reconcileRedisWithDurable`: the log is read, the projection written later |
| `SweepEnded`, `SettleMatch`, `CleanUp` | reconciliation of an ended projection, settlement with its evidence gate, cleanup |

MoveRecord promises what the players are owed: sides alternate, nothing is recorded
after a move that ends the game, there is one verdict, and one that cites the board is
the log's. It does not promise that moves stop at a verdict for another reason:
`submitMove` looks at the projection only, and a late join rebuilds that of a settled
match (`SettledGamesRest`, section 5).

**SaferPlay, Pairing**: limits and breaks as read and later write (an `edit` is
what a handler has decided and not yet written, `overtaken` the columns last written by
a request that another one had overtaken), and the two ways to a match. `Join` and
`Leave` are the queue's requests (`Without` takes one entry out), `Pop` takes two
players from a queue, `CreateCallout`, `ClaimCallout`, `CalloutLapses` and
`ExpireCallouts` are the call-out's. Both lead to a `funding`: `AskPlayer` twice,
without a lock, then `FundPair` or `AcceptCallout`, both by `MakeMatch`, under the
locks up to the commit; `GiveUp` is every way in which it is rolled back. `barred`
remembers who might not play at any time since the funding began.

**PlayerFunds**: one player's `PLAYER_AVAILABLE` with everything that adds to it
or takes from it: a deposit from the intent through the checkout and the webhook
to the stale sweep, stakes, withdrawals and how they end, administrative adjustments
(balance read first, posted later, without the lock), and the two reconciliation jobs.
A job reads a table and looks up the posting of one row at a time (`CheckRow`) before
it reads the next: withdrawals, intents, settlements (`ReadBooks`). A table is one page
of the query that reads it. `Complaint` is what the checks say of a row, amounts
included. The commission is one unit.

**Presence**: one match, the tabs of its two players, the set of graces. A socket
is off, new (accepted, not yet given its handlers), on, or joined. `Disconnect`
is followed by `DisconnectLooks`, where the count of the other sockets may fail and the
handler goes on, and `DisconnectArms`; a join is `JoinAsks`, `JoinClears` and
`JoinEnters`, of which only the last looks at the connection. A sweep goes `SweepReads`,
`SweepTakes`, `SweepLooks`, `SweepJudges`, `SweepTakesBoth`, `SweepSettles`, and starts
every ten seconds whether or not the one before it has ended (`Sweeps`); `EntryFails` is
the catch around one entry. `Restart`, `BootReads` and `Rearm` are the boot recovery,
which nobody waits for, and a restart may set or clear the incident switch
GAME_FORFEIT_SUSPENDED, which is an environment variable.

**Outbox, EventDelivery**: rows in commit order, drainers with a batch of the oldest
free ones read once, a claim by compare-and-set under a lease, delivery, mark,
failure count and park. EventDelivery is the promise: what was committed is
delivered at least once or parked after it was tried often enough; a straggler may deliver a parked event.

**Accounts**: the two stores of a refresh token, a Redis key that makes it usable
and a UserSession row that remembers it, with every await of registration, login,
rotation, logout, revocation and ban a step; and the handshake of a socket, whose
connection quota is an awaited count: `CountRoom` keeps or drops the socket, and
`CountFails` is the catch that lets it in uncounted.

**Verification, AdminConsole**: `startVerification` write by write around the call to
the provider. `ApproveCase` and `RejectCase` are the writes of an operator's
transaction, at any moment of an attempt and whatever the case has become since
`ReadCase` looked; the rows they lock put two of them one after the other.
`OverrideVerified` is ADMIN_KYC_OVERRIDE_VERIFIED, and `overtaken` the cases that were
reviewed while their attempt was at work. Above it is the administrator's request:
second factor with its counter, its lock and its time to live in three calls, the
counter's deletion in a fourth (`ClearCounter`), permission, review, audit row.

**Engine, Draughts**: the legal moves in the order the code's loops produce
them, because the caller plays the first that fits; the depth-first search for
captures is written as the code does it and compared with `LongestCaptures`, a
definition that knows nothing of the search. The code's recursion has no bound;
`Search` is a function of the number of jumps that may still come, which starts at
the number of enemies on the board, and `SearchEndsByItself` shows that the number
never cuts a path short. Draughts plays games: `Submit` and `After` are
`computeNextState`. Recovery keeps the quiet plies and counts the positions by code of
its own, so `Replay` of the log goes through `ReplayMove` and `Replayed`; what it leads
to, a set of at most one game (none when the code throws), is compared with the game. Games start
from boards on which no man stands on its crown row (`GameAssumption`), which
`createInitialBoard` and `applyMove` guarantee.

## 3. Runs

| Run | Instance | What it shows |
|---|---|---|
| `match_lifecycle` | 1 match, 2 players, 2 workers, 2 attempts, 3 faults, fairness | the inductive invariant: leases serialize, rows agree on the end; no game for returned stakes; a live match is not released; a funded match moves on; a played one is settled |
| `two_matches` | 2 matches, 3 players, 1 worker, starts may fail, one settlement call per match at a time | the escrow is implemented; money is conserved |
| `withdrawal` | 2 withdrawals of a user, 5 of 10 each, one of them asked about by the provider's reference, 2 operators, 1 row per run of the sweep, fairness | nothing is paid and returned; notifications are true; the books agree with the provider; the promise is implemented, all four but for withdrawals in `slips`; an accepted payout that can be asked about does not stay PROCESSING, unless as many rows that cannot be fill the batch |
| `lost_answer` | 1 withdrawal, 1 operator | a violation, see section 5 |
| `game_session` | 2 requests, 1 recovery, a client with ids and one without, 3 moves, 1 retry, 1 fault | the projection is a beginning of the log and only advances; the record is implemented |
| `pairing` | 3 players, 1 queue, 1 call-out, 1 worker, one player with 2 requests at a time who edits a limit or takes a break, 2 matches | one match per player; a call-out makes at most one match; nobody is matched who might not play all through the funding; limits rise by waiting, or by requests that overlap; pairs are served |
| `funds` | 1 deposit, 1 withdrawal, 1 match, 1 adjustment, amounts 1 and 2, 1 pass of each job | credits are payments; those who take the lock do not share money; complaints have reasons, although each table is read after the one before; what was paid is credited in the end |
| `presence` | 2 players, one with 2 tabs, 2 sweeps at a time, 1 restart | only the absent lose; who is in the room when a sweep has read its list is not forfeited by it |
| `outbox` | a good and a poisonous event, 2 drainers, batches of 2, 2 attempts, 3 glitches, 1 stop, fairness | at-least-once delivery is implemented; no early parking; everything is settled |
| `accounts` | 2 requests and an administrator, 3 tokens, 2 sockets, quota 1 | one live token per family; a ban leaves only what was under way, and nothing starts during it; the quota holds for the sockets that were counted |
| `admin` | 2 requests, 2 attempts, 2 cases, lock at 4 wrong codes, 1 death, verified cases may be rejected | wrong codes are bounded, and so are counters without an end; VERIFIED rests on a case, or on one that was reviewed during its attempt; reviews are traced |
| `draughts` | a 6 x 6 board: the opening 2 plies deep, every ending of one against one 3 deep, one white piece in the middle against every three black men 1 deep, endings of two kings 5 deep | the search finds the longest captures; a replay gives the game; only a stuck side loses; a move takes what the longest capture takes |

**Bounds.** One match is enough for everything about leases and endings because
matches share only players and money; `two_matches` adds exactly that sharing:
three players give two matches one player in common, or the same two players one
match after the other, and stakes of 5 out of 10 make the second one affordable
or not. Two workers give an owner and its successor, two attempts a first
failure, a retry and a release. Three faults allow a crash of the worker, of the
settlement and of Redis in one behaviour. `OneCallEach` bounds `two_matches` only;
several simultaneous calls are explored in `match_lifecycle`. In `withdrawal` one of
the two payouts is of the kind that can become unanswerable and a run of the sweep
fetches one row, so that one such row already starves the other; two operators race
over a single withdrawal, and once there are two only one of them acts (`MCSpec`). The
proofs of the four safety properties have no such bound.

In `game_session` two requests are a request and its repetition, or two moves of
the same turn, and a log of three moves has an opening, an answer with an id that
may be repeated, and an end that a late request meets. `MCBounds` leaves one
settlement at a time and, after a fault, one request, and `MCLateMovesComeAlone` lets
a submission to a settled match arrive when no other is being handled; the proofs of
the same properties have none of these bounds. In `pairing` three players are a pair
and a third who is popped too or queues beside it; two amounts are a limit and its
raise. Requests that overlap are tried in every way while nobody queues or plays
(`Quiet`); beside the matchmaking there is one request at a time, for the limit below
the stake or for the break, and its two halves come with no step of the matchmaking in
between (`MCOneRequestBeside`). Nothing the matchmaking does depends on what is decided
and not written, and the proofs have no such bound. In `presence` the second tab is
what tells "the last socket left" from "a socket left". `MCFewAtWork` interleaves three
handlers, or a sweep and two, or the boot recovery and one of these, or two sweeps and
nothing else at a time, and `MCOverIsOver` follows a match that is over only as far as
the sweeps at work; the two proofs have neither. In `accounts` three tokens are a login, a rotation
and a reuse of the first; sockets are opened in behaviours of one token
(`TokensOrSockets`), because tokens and sockets meet only in the ban. In `admin` the
lock is at 4, the code's is at 5, and wrong codes are tried before the player's attempts
begin (`MCCodesFirst`): the counter and the reviews share nothing but the lock in front
of both, and the proofs have no such bound. The board of
`draughts` is the smallest with captures of three pieces, kings that fly and
men that promote; draws come after 5 plies of king moves (50 in the code) or 2
repetitions (3). Deadlock checking is off everywhere: when all matches, withdrawals
or events have ended there is nothing left to do.

**Symmetry** is used in runs without liveness, over values the models
never order or name.

**Fairness.** Every sweep is a cron job, so its step is weakly fair; a scan of a
row is strongly fair because a worker may be busy each time it comes by, and the
sweep goes through all rows it finds. Steps of a running process are weakly fair:
they are statements of one handler. Leases expire because time passes. The turn
clock makes `TurnForfeit` weakly fair. A run of the follow-up sweep is weakly fair, as is
what it does with each row it fetched; that a question which can be answered is answered
in the end is strong fairness of `SweepProbes` alone, and a row without an answer is never
advanced. The provider ends the transfers it takes, and
sends the event of a payment again until it is acknowledged: each webhook call
may fail, but the handler is strongly fair. The matchmaking worker goes through
all queues every three seconds, so `Pop` is strongly fair (players may leave and
come back between its rounds) and what it does with a pair weakly. A drainer's
cycle is weakly fair. Nobody is forced to fund a match, to move, to approve, to
pay or to release, and no fault has to happen. Faults are bounded (`MaxFaults`,
`MaxGlitches`, `MaxStops`), which is the usual reading of "eventually": things
end well if failures stop.

## 4. Proofs

`-` means: no assumption but those the modules state about their constants.

| Theorem | Assumption | Says |
|---|---|---|
| `EscrowIsSafe`, `EscrowConservesMoney` | - | no overdraft, one escrow per player, locked equals held; no step makes or loses money |
| `LifecycleIsTyped`, `MatchesConserveMoney` | - | types; `MoneyIsConserved`, even when two owners work on one match |
| `LifecycleIsSafe` (`IInv`), and from it `WorkersAreSerialized`, `MatchesResolveOnce` | owners do not outlive leases | the inductive invariant and its parts |
| `LiveMatchesAreNotReleased` | same | an action property, from the same invariant |
| `ReleasedMatchesHaveNoGame` | and the start update does not fail | no game for returned stakes |
| `LifecycleImplementsEscrow`, `LockedStakesAreAccountedFor` | owners do not outlive leases | refinement, and `EscrowIsSafe` carried through it |
| `WithdrawalIsTyped`, `CompletionsWerePaid`, `PayoutsAreBookedOnce` | - | types; completed, booked and announced only if the provider has paid; a player's money is spendable, pending or booked as paid out, once per withdrawal |
| `ReturnedMoneyIsNotPaid`, `NotificationsAreTrue`, `WithdrawalImplementsPromise`, `BooksAgreeWithTheProvider` | - | `ReturnedIsNotPaid`, `PlayersAreToldTheTruth`, `ImplementsPromise`, `BooksAgree`: any number of operators, lost answers and late events; what an unconditional update overwrote is excepted by name |
| `ProjectionFollowsLog`, `ProjectionAdvances`, `SessionKeepsTheRecord` | - | `SessionInv`, `ProjectionOnlyAdvances`, `ImplementsRecord` |
| `NothingIsParkedEarly`, `DrainersKeepThePromise` | - | `OutboxInv`, `ImplementsDelivery` |
| `ReplayRebuildsTheGame`, `LongestCapturesAreFound` | - | `GameInv`, `SearchFindsTheLongest` |
| `EngineForcesTheLongest`, `SearchEndsByItself`, `NoMoveMeansStuck` | - | on every board, reachable or not: the legal moves are the longest captures if there are captures; the search never runs out of jumps; no legal move is found only where the rules give none |
| `OnlyTheStuckLose`, `MovesTakeTheMostThereIs` | - | who has lost can neither step nor capture; a move takes as many pieces as any capture would, and only the opponent's |
| `OnlyTheAbsentLose`, `StayersKeepTheirMatch` | - | `PresenceInv`, `StayersAreNotForfeited`, for any number of sweeps at a time |
| `TokensRotateOnce`, `BansLeaveStragglers`, `BannedAccountsStartNothing`, `QuotaHolds` | - | the four properties of `accounts` |
| `CreditsMatchPayments`, `AlarmsHaveReasons`, `LockedSpendingIsCovered` | - | `FundsInv`, `AlarmsAreExplained`, `SpendersAreCovered` |
| `NobodyIsInTwoMatches`, `CalloutsLeadToOneMatch`, `FundingLooksAtThePlayerAgain` | - | `PairingInv`, `CalloutsAreHonouredOnce`, `FundingAsksAgain` |
| `SelfProtection` | raises take time to cool | `SelfProtectionHolds`, for any number of requests at a time; columns last written by a request another one overtook are excepted |
| `VerifiedHasACase` | - | `VerifiedRestsOnACase`, reviews during an attempt included |
| `ReviewsLeaveATrace`, `WrongCodesStayBounded` | - | `ReviewsAreTraced`; wrong codes are bounded by the limit, the requests at a time and those that died |
| `LocksBoundAndEnd` | - | `MfaInv`: types, wrong codes, and the size of a counter without an end, for any number of requests |

**Matches.** `ResolvedOnce` is not inductive: `ReleaseWrite` overwrites a status
without looking, so it must be known that the status is still the one that was
read. `ReleasersReadTheTruth` says so. It is preserved because nobody else starts
the match meanwhile, which follows from `OwnersHoldClaims` (whoever works on a match
holds its claim, and a claim has one holder), and a settlement needs a live
status. These three are `ClaimsInv`. The rest, `RowsInv`, does not need the leases:
rows that a worker or a call is about exist (`RowsExist`, `WorkersHaveMatches`) and
whoever is to be paid is a player (`CallsNamePlayers`). Types and the conservation of
money follow from it alone, because a posting that is repeated, or made for a match
that ended otherwise, still balances. `LeaseExpires` is the step that needs the
assumption: with `OwnerMayHang` TRUE, TLC shows an owner that loses its lease between reading FUNDED and writing
RELEASED, over a match its successor has started. The code counts on the lease
outliving its owner (`services/gameActivationService.js:10-12`), and so do the
theorems. The refinement needs `IInv` to see that the postings of a release or a
settlement really happen (their keys are fresh).

**Withdrawals.** What holds of every withdrawal is `RowsInv` and `MoneyIsAccountedFor`:
the idempotency keys book each payout once and only a transfer that succeeded reports
one, so what can go wrong is that a payout is also refunded, never that it is booked
without having been made. What else one would claim is false of a withdrawal over which
one of the two unconditional updates has written, and `slips` names these: FAILED over a
transfer under way or a withdrawal that is over, RELEASED over a payout that has begun
since the release looked. `WInv` says of all others that rows, notification and transfer
tell one story (`Agreed`) and that as long as the provider has not heard of a withdrawal
one request at most starts it (`StartedByOne`), because the claim for PROCESSING is
conditional. What is pending for a user none of whose withdrawals was overwritten is the
sum of the open ones (`PendingIsReserved`). No theorem excludes operators who race or answers
that are lost.

**Sums.** `SumLemmas` proves what a sum over a finite set does when an element is
added, removed or changed. The library's fold is a choice of a recursive function, and
a wrong sum would have a smallest set on which it is wrong: every lemma is shown by
that counterexample, which needs the well-foundedness of the subset ordering and no
induction theorem. Balances enter the invariants through it. `SpendersAreCovered` is
inductive above `FInv`: a spender reads the balance only when no other has the
wallet, and what a debit takes without the lock is added on the other side.

**Moves.** `SInv` has one part per place where a line of moves is kept: the log
(`LogOK`: sides alternate, only the last play ends it, an id stands at its own turn),
the projection (`GameOK`), what requests have read (`RequestsKeepUp`), what a rebuild
has read (`RebuildsKeepUp`) and what settlement calls say (`CallsAreRight`). They are
preserved together because the log only grows: what was a beginning of it, when
somebody read it, still is when it is written. The compare-and-set is reached only
with a row in the log, at the place that follows the line which was read. For the
record, a play is added only by `Persist`, by the side whose turn it is; a verdict does
not stop it, unless the log itself has ended.

**Outbox.** The count a drainer writes is the one it read plus one, and another may
have written a higher one since. `NeverParkedEarly` holds because what anybody
has in hand is never ahead of the real tries (`HandOK`, with the
history variable `tries`), and a row that is owed always has a try left
(`OwedMayBeTried`). A row has a token exactly when it has a lease
(`ClaimsHaveLeases`), and delivery is noted only of rows that were written.

**Pairing.** `MeetInv` holds the queues (each an injective sequence, which takes most
of the work: `Without` and `Append` keep it), the fundings under way, the call-outs and
the matches; that a player is in one match follows from the check the funding makes under
the locks. That somebody barred all along is not matched follows from `AskedOK`: who has
been asked could play then, hence is not in `barred`. For limits, `ToolsInv` says that
what a request has decided follows from what it has seen (`EditsAreDecided`), and that a
pending limit is above the base it replaces unless an overtaken request put it there
(`PendingIsHigher`). What it has seen may be gone when it writes; then the column is in
`overtaken`, and section 5 says what can become of it.

**Draughts.** The theorems hold on boards of 4, 6, 8 and 10 rows, the last being the
code's, and for all positions, where TLC looks at some of a 6 x 6 board. They are
about sequences in the order of the code's loops on one side (`Search`, `Longest`,
`RegularMoves`) and sets without an order on the other (`CanHop`, `LongestCaptures`),
and go up in the size of what is looked at. Along one ray the loop finds what
`CanHop` allows (`HopsAlongAre`); from one square, `Hops` are the `NextHops` (`HopStep`).
After k jumps k different enemies are taken (`LevelHolds`), so there is a last jump
(`LevelEnds`, `DepthIs`). Then both directions: what the search returns is a capture
of the rules that cannot go on (`SearchSound`), and the search passes everywhere the
rules pass (`SearchPasses`), so it returns every deepest one (`FoundIs`). `Longest` keeps
the same ones as `LongestCaptures` (`LongestIs`, `MaxCapturesAre`). `LegalAre` says of a
legal move what the rest needs: where it starts and ends, and that it takes the
opponent's pieces, each once; with it `ApplyIs` and `MaterialIs` give the board after it.

For games, `PlayInv` is inductive: the state is typed, the quiet plies are below
their limit while the game goes on, who has lost is stuck, and a replay ends and gives the game.
The replay picks the first move with the stored ends and path, the game had picked the
first one with the ends; `StoredPathFits` shows that they are the same, because the
stored path is that of the move played. A log with one row more replays to one move
more (`RerunFrom`). The recursive functions of these modules are unfolded in two
steps: a function that satisfies the equations exists, by induction on its domain, and
hence the one chosen satisfies them. Induction is applied to a set of numbers (`Upward`),
which the well-foundedness of the naturals gives.

**Presence.** That only the absent lose is not inductive because the armed entry,
the sweep's list and its decision are three copies of an observation made at
different times. `ClosersLeft` says that whoever is about to arm a grace has been
away, `SweepsHoldTheAbsent` that whom the sweeps and the boot recovery have in hand has
been away, and was out of the room when the sweep looked. A player whose other sockets
could not be counted counts as away (`left`), because the handler treats them so. The
argument uses that a match has two players.

**Tokens and bans.** `TokensInv` rests on `RInv`: parents and families are issued
tokens (`TokensHaveFamilies`), no two handlers write the same new token
(`WritersAreAlone`), a handler that rotates has a token that no store gives out
again (`HandlersHoldTokens`: the Lua script gives a key to one caller), hence a
family has one usable token or one rotation under way (`OneInUse`). The ban goes
through its own writes in order, so `BInv` says for each of its phases what can
still exist: a handler that would still issue a token began before the ban, a
handshake that would still be let in was checked before it, and once the keys have
been scanned and deleted what remains is theirs. The quota (`SocketQuota`) is an
argument about the size of a finite set of sockets; those that were let in because the
count failed come on top of it.

**Funds.** `FInv` says that money comes through an open checkout
(`PaymentsAreExpected`), that a match is funded and a withdrawal reserved once and a
settlement books what it nets or is a draw (`SpendingHappensOnce`), and that what a job
has read of a row still holds, because rows only go forward (`RowsStillHold`). From it
every alarm has its reason (`AlarmsHold`).

**Verification.** `VInv` follows an attempt write by write: no two attempts work on one
case (`NoCaseIsShared`), a case that is decided while its attempt is at work was
overtaken, and the attempt's last write, which sets `kycStatus` alone, rests on a case
that is VERIFIED or was overtaken (`DecidedIsOvertaken`). Reviews may come at any time.

**Second factor.** The counter is read, increased and given its time to live in three
calls, after the lock was looked at, so `MInv` counts requests by where they are:
those that have tried a code and not counted it (`TriesAreCounted`), those let past
the lock (`PlacesAreTaken`), and those by which a counter without a time to live may
have grown (`BareCountsAreSmall`). Each step moves one request from one count to
another (`CountsMove`). The last says that a counter without an end stays below the
number of requests and deaths. Where that is below the lock, a lock has its end; nothing
in the code makes it so, see section 5.

The proofs use the constants' assumptions and what the table states, nothing else. Sets that are counted or summed over are assumed finite (players, withdrawals,
sockets, requests, references). Lengths of logs and queues, numbers of matches, tries
and faults are not bounded by the proofs where the runs bound them.

**Only model-checked:** everything under fairness (`FundedMovesOn`,
`PlayedIsSettled`, `AcceptedPayoutsAreResolved`, `PairsAreServed`, `PaidIsCredited`,
`EventsAreSettled`), because TLAPS does not reason about ENABLED. Every safety and
action property of the passing runs is stated by a theorem.

## 5. Promises that do not hold

What comments and documents say, or a reader would expect, beyond what the code
does. The first is a run; the others are kept as definitions or switches of the
modules and are reproduced by changing a cfg as stated. In the passing runs they
are excluded by the constants shown there, or the property is weakened by the
exception named (`slips`, `overtaken`, the debits of an adjustment).

| Promise | What happens | How to see it |
|---|---|---|
| `modules/withdrawal/service.js:654` "money never double-moves" | a timed-out initiation is written FAILED, hence releasable, while the transfer goes on | run `lost_answer` |
| `modules/withdrawal/service.js:526` "PROCESSING is deliberately NOT releasable" | a release that read APPROVED overwrites PROCESSING | MCWithdrawal, `OnlyReleasableIsReleased` |
| `modules/withdrawal/service.js:98` "every status move is a conditional, idempotent update" | the catch of `beginPayout` writes FAILED over COMPLETED | same, `FinalIsFinal` |
| `jobs/providerFollowUp.js:8-10`, stuck payouts are resolved | a row whose question throws is not advanced (:79-82) and the ten oldest are fetched (:42-50): ten payouts without a stored reference, or that the provider has never heard of, keep the sweep from every later one, and none of the ten is ever resolved by it | MCWithdrawal, `AcceptedPayoutsAreResolved` without its second disjunct |
| `sockets/settlement.js:223` "the winner is credited exactly once" | with 0 % commission the posting has a zero entry, `assertAmount` (`services/ledgerService.js:73`) refuses it, and the winner is never paid | MCMatchLifecycle, `Percents = {0}`, `PlayedIsSettled` |
| `jobs/gameActivationSweep.js:10` "exhausts its attempts and is released instead" | attempts move the match to IN_PLAY before Redis fails them, so it cannot be released | MCMatchLifecycle, `ExhaustedIsReleased` |
| `sockets/gameManager.js:263` "repaired by the first move or the reconciliation sweep" | neither does: `if (moveCount === 0)` at :709 tests a count already incremented, and the sweep scans live matches | `StartMayFail = TRUE`, `FailedStartIsRepaired` |
| `sockets/disconnectHandler.js:112` "must surface the canonical board" | a projection lost before the first move has nothing to be rebuilt from | `LostGamesComeBack` |
| `sockets/settlement.js:221` "runs cleanup from DB state" | a game rebuilt after a drawn settlement is forfeited, replayed and never cleared | `SettledGamesAreCleared` |
| `sockets/__tests__/disconnectHandler.test.js:141` "lets a participant join a settled match to view state" | what is rebuilt for the view is a live game (`sockets/disconnectHandler.js:115`), and `submitMove` (`sockets/gameManager.js:507-543`) looks at nothing else: moves made after the verdict are validated and written to the log | GameSession, `SettledGamesRest` |
| `services/gameActivationService.js:114` "never after IN_PLAY" | an owner slower than its lease releases what its successor has started | `OwnerMayHang = TRUE`, `NeverReleasedOnceLive`; `ResolvedOnce` fails with it, `MoneyIsConserved` does not |
| `sockets/gameManager.js:599`, the "move log is the source of truth" | a rebuild overtaken by a move takes it out of the projection again | GameSession, `ProjectionOnlyAdvances` without `rebuild' = rebuild` |
| the same | an id used for two positions (the app does not): the unique-key conflict with the other row is taken for a replay, and the projection gets a move the log does not have there | GameSession with `Legal` TRUE, `MaxMoves = 4`, `SessionInv` |
| `sockets/gameManager.js:31` an atomic compare-and-set | it compares versions and not the status: on a projection that a rebuild has set back, a move that was waiting overwrites the resignation played meanwhile | GameSession, `ProjectionOnlyAdvances` without its last exception |
| the same, for the clock | a player whose move is in the log, but not in the projection, loses on time | GameSession, `TimeoutsAreFair` |
| `jobs/disconnectSweep.js`: who stays away is forfeited | the sweep takes the entry out of Redis before it settles; a process that dies in between leaves the match to the turn's deadline | MCPresence, `AbandonedMatchesEnd` |
| `sockets/gameRecovery.js:177` "so an outage can never silently forfeit a player" | the bootstrap starts the sweep and the recovery and waits for neither: an entry that was due is forfeited before it gets its fresh grace | MCPresence, `RestartsGiveAGrace` |
| `jobs/disconnectSweep.js:69` "draw refund, not an arbitrary forfeit" | two sweeps that overlap take one entry each, neither finds the other's, and both decide to forfeit | MCPresence, `BothAbsentAreDrawn` |
| the same: both players disconnected | the opponent's entry is enough (:66-67), and it may have been armed after the opponent came back | Presence, a trace of `SweepJudges` with `OpponentGone` and `InRoom` of the opponent |
| `services/ledgerService.js:454` "a DEBIT never overdraws spendable balance" | an administrative debit reads the balance without the wallet lock | PlayerFunds, `NeverOverdrawn` |
| `jobs/financialReconciliation.js`, a correct settlement passes | a draw's entries never contain the pot, so every draw is reported | PlayerFunds, `SettlementsPass` |
| `modules/wallet/controller.js:147` FAILED "so it can never be credited by a stray webhook" | `modules/wallet/service.js` credits a FAILED intent when its payment arrives | PlayerFunds, `PaidIsCredited` relies on it |
| `docs/backend-handoffs/2026-09-18-kyc-eligibility-safer-play.md:50` "Effective values are what actually binds" | a pending raise that has become effective is ignored by the funding check | MCPairing, `EffectiveLimitBinds` |
| the same, :54 "Setting or lowering applies immediately", and `services/eligibilityService.js:89-90`, the check is part of the transaction | the funding asks each player once, before it locks anything, and reads what is committed then; a break or a lower limit committed after that does not stop the match | MCPairing, `BreaksBindAtOnce` |
| the same: a raise never tightens | a second raise replaces one whose cooling is over, and the old base binds again | MCPairing, `Sums = {1, 2, 3}`, or SaferPlay alone with `SaferSpec`: `RaisesDoNotTighten` |
| the same, "raising stages a pending raise" | two requests of one player that overlap have both read the row without a limit (`modules/saferPlay/service.js:247`); the higher one, written second, is in force at once | MCPairing, `LimitsGrowByWaiting` without its exception `overtaken` |
| `modules/verification/service.js:266` "VERIFIED is terminal and can never be re-reviewed" | an attempt whose case was approved while it waited for the provider writes the provider's refusal; a second operator who had read the open case rejects it after it was approved; and ADMIN_KYC_OVERRIDE_VERIFIED allows it openly | MCAdminConsole, `VerifiedIsTerminal`, also with `OverrideVerified = FALSE` |
| the same: a verified player has a verified case | after the first of these the case is REJECTED and the player stays VERIFIED. (Two operators alone do not come to this: both write the case and then the user, in the order in which they get the row of the case) | MCAdminConsole, `VerifiedHasItsCase` |
| `modules/mfa/service.js:127` "for the remainder of the window" | as many requests at a time as it takes to lock find a time to live, the key expires, they count it up again, and none of them sets EXPIRE: the administrator stays locked out | MCAdminConsole, `MFA_FAIL_LIMIT = 2`, `LocksAreTemporary` |
| `sockets/payloadGuard.js:22` "path is ... the authoritative shape for multi-capture intention" | of two longest captures with the same ends only the first found is accepted | MCDraughts, `Positions <- Rounds`, `EveryCaptureCanBePlayed` |
| `01_PRODUCT_CONTEXT.md:46` "must take the path capturing the most pieces" | the search leaves the moving piece on its square, which then blocks a round trip | same, `LongestCaptureIsForced` |

## 6. Not modelled, and why

Listed per component in `PROJECT.json`. Notifications are single inserts and read
marks on which no decision depends; their delivery is Outbox. HTTP plumbing is
wiring, and the mobile app renders what the server says; its retries are the
repeated submissions of GameSession. In the modelled components: socket events,
receipts and formats, currencies (there is one), signatures and the providers'
formats, the verification of bank accounts, password reset and e-mail
verification, MFA enrolment and recovery codes, administration of roles, disputes
and risk cases (single-row writes), lists and reports (reads), gates that only
refuse (country, age, event budgets), the time a sweep takes, and the pages in which
the reconciliation jobs read a table. A reversal of a transfer that had succeeded is
acknowledged by the code without effect and is not modelled. A crash between the claim
for PROCESSING and the call to the provider is modelled and leaves an unanswerable row:
what it does to others is bounded by `AcceptedPayoutsAreResolved`, but that it is
resolved itself is claimed nowhere, because only an operator's report ends it.

Assumptions a reader should know: Redis executes one command, or one Lua script,
at a time; Postgres transactions are serialized by the locks and conditions shown
in the actions; two operators who review one case are put in order by the lock on its
row. GameSession assumes that a client makes an id for one move and does not use
it for another (`IdsAssumption`, `TurnOf`); section 5 says what happens otherwise.

## 7. Plan

1. What the withdrawal theorems say without their exception when the release and the
   catch of `beginPayout` are made conditional.
2. Composition of Presence with GameSession, so that the same match is left and
   played.
3. Password reset and bank accounts beside Accounts and Withdrawal.
4. The rule of the documents, under which the moving piece leaves its square free
   (`lifted`): on which boards the engine and the rule agree.

---------------------------- MODULE GameSession ----------------------------
(***************************************************************************)
(* A game being played: submissions of moves run beside resignations, the  *)
(* clock, recovery and settlement.  A move is first written to the durable *)
(* log and then put into the Redis projection by a compare-and-set on the  *)
(* projection's version; recovery rebuilds the projection from the log.    *)
(*                                                                         *)
(* A position is the sequence of plays that leads to it.  Illegal moves,   *)
(* malformed paths and database refusals change nothing and are left out.  *)
(***************************************************************************)
EXTENDS Turns, FiniteSets

CONSTANTS
    Ids,            \* clientMoveIds
    Legacy,         \* the null clientMoveId of move_attempt
    TurnOf,         \* the number of the move that a client made each id for
    Submissions,    \* the moves that clients send: who, what, under which id
    Requests,       \* submitMove calls in progress
    Recoverers,     \* reconcileRedisWithDurable calls in progress
    Retries,        \* retries of submitMove after VERSION_MISMATCH (2 in the code)
    MaxMoves,       \* bound: the length of the log
    MaxFaults       \* bound: crashes, losses of the projection, abandoned settlements

ASSUME SubmissionsAssumption ==
    /\ Legacy \notin Ids
    /\ Submissions \subseteq [by : Players, play : Plays, id : Ids \cup {Legacy}]
    /\ TurnOf \in [Ids -> Nat \ {0}]
(* A client gives each of its moves an id of its own. *)
ASSUME IdsAssumption == \A s, t \in Submissions : s.id = t.id /\ s.id # Legacy => s = t
ASSUME SessionAssumption == Retries \in Nat /\ MaxMoves \in Nat /\ MaxFaults \in Nat

VARIABLES
    log,        \* MatchMove rows by moveNumber
    durable,    \* MatchGameState.stateVersion, 0 without a row
    game,       \* the Redis hash match:<id>
    request,    \* what each submission is doing and the state it has read
    rebuild,    \* what each recovery is doing and how much of the log it has read
    calls,      \* settlement calls in progress: winner, reason
    verdict,    \* the settled result
    faults

vars == <<log, durable, game, request, rebuild, calls, verdict, faults>>
-----------------------------------------------------------------------------
(* The record the session keeps: who made which play. *)
Rec == INSTANCE MoveRecord WITH
    record <- [n \in 1..Len(log) |-> [by |-> log[n].by, play |-> log[n].play]],
    verdict <- verdict

Undeclared == -1

NoGame == [status |-> "absent", moves |-> <<>>, version |-> 0, winner |-> Nobody, expired |-> FALSE]
FreshGame == [NoGame EXCEPT !.status = "in_progress"]

Idle == [pc |-> "idle", move |-> [by |-> Light, play |-> "none", id |-> Legacy],
         seen |-> NoGame, expects |-> Undeclared, tries |-> 0]

(* computeNextState, and the replay of a log: the projection after a line   *)
(* of plays whose last one was made by the player named.                    *)
Position(moves, version, late) ==
    LET n == Len(moves)
        last == moves[n]
    IN [status |-> IF last \in WinningPlays THEN "completed"
                   ELSE IF last \in DrawingPlays THEN "draw" ELSE "in_progress",
        moves |-> moves, version |-> version,
        winner |-> WinnerAfter(ToMove(n - 1), last),
        expired |-> late /\ last \notin Ending]

Line(n) == [i \in 1..n |-> log[i].play]

(* findMoveByClientId *)
RowOf(s) == {n \in 1..Len(log) : s.id # Legacy /\ log[n].id = s.id}

CallSettle(w, why) == calls' = calls \cup {[winner |-> w, reason |-> why]}

Finish(r) == request' = [request EXCEPT ![r] = Idle]
Step(r, pc) == request' = [request EXCEPT ![r].pc = pc]
-----------------------------------------------------------------------------
Init ==
    /\ log = <<>>
    /\ durable = 0
    /\ game = FreshGame
    /\ request = [r \in Requests |-> Idle]
    /\ rebuild = [c \in Recoverers |-> [pc |-> "idle", rows |-> 0]]
    /\ calls = {}
    /\ verdict = NoVerdict
    /\ faults = 0
-----------------------------------------------------------------------------
(* A move.submit or move_attempt arrives, perhaps again, and the state is   *)
(* read; a client may declare the version it acted on.  (A submission that   *)
(* declares another version than the one read, is out of turn, or comes     *)
(* after the end is refused at once, unless it repeats a move of the log.)  *)
(* Nothing asks whether the match is settled: a join rebuilds a projection  *)
(* that the cleanup removed, and that game is played on.                    *)
Submit(r, s, e) ==
    /\ request[r] = Idle
    /\ e = Undeclared \/ (s.id # Legacy /\ e = game.version)
    /\ RowOf(s) # {} \/ (game.status = "in_progress" /\ s.by = ToMove(Len(game.moves)))
    /\ request' = [request EXCEPT ![r] =
                      [pc |-> "check", move |-> s, seen |-> game, expects |-> e, tries |-> Retries]]
    /\ UNCHANGED <<log, durable, game, rebuild, calls, verdict, faults>>

ReadAgain(r) ==
    /\ request[r].pc = "read"
    /\ request' = [request EXCEPT ![r].pc = "check", ![r].seen = game]
    /\ UNCHANGED <<log, durable, game, rebuild, calls, verdict, faults>>

(* findMoveByClientId, validatePreconditions, the staleness gate and the    *)
(* expiry pre-check.  The deadline of a state that is no longer the current *)
(* one may have passed or not.                                              *)
Number(q) == Len(q.seen.moves) + 1

PlayedAlready(s) == game # NoGame /\ \E n \in RowOf(s) : n <= Len(game.moves)

(* computeNextState: a client makes an id for a move of one position, and    *)
(* that move is none of the legal moves of another.                         *)
Legal(q) == q.move.id # Legacy => TurnOf[q.move.id] = Number(q)

(* Mutant: whose turn it is is not checked. *)
PermittedAnyone(q) ==
    /\ q.seen.status = "in_progress"
    /\ Legal(q)
    /\ q.expects = Undeclared \/ q.expects = q.seen.version

Permitted(q) ==
    /\ q.seen.status = "in_progress"
    /\ ToMove(Len(q.seen.moves)) = q.move.by
    /\ Legal(q)
    /\ q.expects = Undeclared \/ q.expects = q.seen.version

CheckReplay(r) ==
    /\ request[r].pc = "check"
    /\ PlayedAlready(request[r].move)
    /\ Finish(r)
    /\ UNCHANGED <<log, durable, game, rebuild, calls, verdict, faults>>

CheckRefuse(r) ==
    LET q == request[r] IN
    /\ q.pc = "check"
    /\ ~PlayedAlready(q.move)
    /\ ~Permitted(q)
    /\ Finish(r)
    /\ UNCHANGED <<log, durable, game, rebuild, calls, verdict, faults>>

CheckExpired(r) ==
    LET q == request[r] IN
    /\ q.pc = "check"
    /\ ~PlayedAlready(q.move) /\ Permitted(q)
    /\ q.move.play \notin Ending
    /\ q.seen.expired \/ q.seen # game \/ game.expired
    /\ CallSettle(Opponent(q.move.by), "timeout")
    /\ Finish(r)
    /\ UNCHANGED <<log, durable, game, rebuild, verdict, faults>>

CheckPass(r) ==
    LET q == request[r] IN
    /\ q.pc = "check"
    /\ ~PlayedAlready(q.move) /\ Permitted(q)
    /\ q.move.play \in Ending \/ ~q.seen.expired
    /\ Step(r, "persist")
    /\ UNCHANGED <<log, durable, game, rebuild, calls, verdict, faults>>
-----------------------------------------------------------------------------
(* persistAcceptedMove: the row, and the durable state in the same          *)
(* transaction, unless one of the two unique keys is taken.                 *)

(* Mutant: only the clientMoveId is unique. *)
NumberFreeAnyway(q) == RowOf(q.move) = {} /\ Len(log) < MaxMoves

NumberFree(q) ==
    /\ RowOf(q.move) = {}
    /\ Number(q) > Len(log)
    /\ Len(log) < MaxMoves

Persist(r) ==
    LET q == request[r] IN
    /\ q.pc = "persist"
    /\ NumberFree(q)
    /\ log' = Append(log, q.move)
    /\ durable' = q.seen.version + 1
    /\ Step(r, "cas")
    /\ UNCHANGED <<game, rebuild, calls, verdict, faults>>

(* P2002: the colliding row is this very move, or somebody else's.          *)
(* resolveUniqueConflict prefers the row with this clientMoveId.            *)
SameMove(q) ==
    IF q.move.id # Legacy
    THEN RowOf(q.move) # {}
    ELSE Number(q) <= Len(log) /\ log[Number(q)].play = q.move.play

Conflict(r) ==
    LET q == request[r] IN
    /\ q.pc = "persist"
    /\ RowOf(q.move) # {} \/ Number(q) <= Len(log)
    /\ IF SameMove(q) THEN Step(r, "resume") ELSE Finish(r)
    /\ UNCHANGED <<log, durable, game, rebuild, calls, verdict, faults>>

(* All retries of the transaction failed: the move is refused. *)
PersistFails(r) ==
    /\ request[r].pc = "persist"
    /\ Finish(r)
    /\ UNCHANGED <<log, durable, game, rebuild, calls, verdict, faults>>

(* A row of this move exists: it was projected meanwhile, or a process died *)
(* before it could be.                                                      *)
Resume(r) ==
    LET q == request[r] IN
    /\ q.pc = "resume"
    /\ IF game = NoGame \/ Len(game.moves) >= Number(q) THEN Finish(r) ELSE Step(r, "cas")
    /\ UNCHANGED <<log, durable, game, rebuild, calls, verdict, faults>>
-----------------------------------------------------------------------------
(* casScript: refused when the game is gone, when its version is not the    *)
(* one read, and when a move that does not end the game comes too late.     *)

VersionAny(q) == game # NoGame          \* mutant: versions are not compared

VersionHolds(q) == game # NoGame /\ game.version = q.seen.version

InTime(q) == q.move.play \in Ending \/ ~game.expired

CasAdvances(r) ==
    LET q == request[r]
        next == Position(Append(q.seen.moves, q.move.play), game.version + 1, FALSE)
    IN
    /\ q.pc = "cas"
    /\ VersionHolds(q) /\ InTime(q)
    /\ game' = next
    /\ IF q.move.play \in Ending THEN CallSettle(next.winner, "board") ELSE UNCHANGED calls
    /\ Finish(r)
    /\ UNCHANGED <<log, durable, rebuild, verdict, faults>>

CasTooLate(r) ==
    LET q == request[r] IN
    /\ q.pc = "cas"
    /\ VersionHolds(q) /\ ~InTime(q)
    /\ CallSettle(Opponent(q.move.by), "timeout")
    /\ Finish(r)
    /\ UNCHANGED <<log, durable, game, rebuild, verdict, faults>>

CasFails(r) ==
    LET q == request[r] IN
    /\ q.pc = "cas"
    /\ ~VersionHolds(q)
    /\ IF game # NoGame /\ q.tries > 0
       THEN request' = [request EXCEPT ![r].pc = "read", ![r].seen = NoGame, ![r].tries = @ - 1]
       ELSE Finish(r)
    /\ UNCHANGED <<log, durable, game, rebuild, calls, verdict, faults>>
-----------------------------------------------------------------------------
(* handleResign reads the state and swaps it on the same version. *)
Resign(p) ==
    /\ game.status = "in_progress"
    /\ game' = [game EXCEPT !.status = "completed", !.version = @ + 1,
                            !.winner = Opponent(p), !.expired = FALSE]
    /\ CallSettle(Opponent(p), "resign")
    /\ UNCHANGED <<log, durable, request, rebuild, verdict, faults>>

(* deadlineAt passes, and processTurnDeadlineSweep forfeits the mover. *)
TurnExpires ==
    /\ game.status = "in_progress" /\ ~game.expired
    /\ game' = [game EXCEPT !.expired = TRUE]
    /\ UNCHANGED <<log, durable, request, rebuild, calls, verdict, faults>>

DeadlineSweep ==
    /\ game.status = "in_progress" /\ game.expired
    /\ CallSettle(Opponent(ToMove(Len(game.moves))), "timeout")
    /\ UNCHANGED <<log, durable, game, request, rebuild, verdict, faults>>
-----------------------------------------------------------------------------
(* reconcileRedisWithDurable: nothing to do without a durable state or when *)
(* the projection is at least as advanced.                                  *)

Behind == durable > 0 /\ (game = NoGame \/ game.version < durable)

Rebuilt(n) == \E late \in BOOLEAN : game' = Position(Line(n), n, late)

(* The rows are read, replayed and written, with anything in between: the   *)
(* HSET compares nothing.                                                   *)
RebuildRead(c) ==
    /\ rebuild[c].pc = "idle"
    /\ Behind
    /\ rebuild' = [rebuild EXCEPT ![c] = [pc |-> "write", rows |-> Len(log)]]
    /\ UNCHANGED <<log, durable, game, request, calls, verdict, faults>>

RebuildWrite(c) ==
    /\ rebuild[c].pc = "write"
    /\ Rebuilt(rebuild[c].rows)
    /\ rebuild' = [rebuild EXCEPT ![c] = [pc |-> "idle", rows |-> 0]]
    /\ UNCHANGED <<log, durable, request, calls, verdict, faults>>

(* processReconciliationSweep, resolveTerminalState: an ended game of a     *)
(* live match is settled the way the projection says.  (The reason recorded *)
(* is recovery_sweep: no evidence is asked for.)                            *)
SweepEnded ==
    /\ ~verdict.settled
    /\ game.status \in {"completed", "draw"}
    /\ CallSettle(game.winner, IF game.version = Len(game.moves) THEN "board" ELSE "resign")
    /\ UNCHANGED <<log, durable, game, request, rebuild, verdict, faults>>
-----------------------------------------------------------------------------
(* settleMatch with its evidence gate, the first one wins; then the cleanup *)
(* of the projection by that call and by the ones that find it settled.     *)
SettleMatch(c) ==
    /\ c \in calls
    /\ ~verdict.settled
    /\ c.reason = "board" => log # <<>>
    /\ verdict' = [settled |-> TRUE, winner |-> c.winner, reason |-> c.reason]
    /\ UNCHANGED <<log, durable, game, request, rebuild, calls, faults>>

(* runCleanupFromDbForWin returns early when the settled match has no winner. *)
CleanUp(c) ==
    /\ c \in calls
    /\ verdict.settled
    /\ game' = IF c.winner # Nobody /\ verdict.winner = Nobody THEN game ELSE NoGame
    /\ calls' = calls \ {c}
    /\ UNCHANGED <<log, durable, request, rebuild, verdict, faults>>
-----------------------------------------------------------------------------
Fault == faults < MaxFaults /\ faults' = faults + 1

RequestDies(r) ==
    /\ request[r] # Idle
    /\ Fault
    /\ Finish(r)
    /\ UNCHANGED <<log, durable, game, rebuild, calls, verdict>>

GameIsLost ==
    /\ game # NoGame
    /\ Fault
    /\ game' = NoGame
    /\ UNCHANGED <<log, durable, request, rebuild, calls, verdict>>

CallIsLost(c) ==
    /\ c \in calls
    /\ Fault
    /\ calls' = calls \ {c}
    /\ UNCHANGED <<log, durable, game, request, rebuild, verdict>>
-----------------------------------------------------------------------------
RequestStep(r) ==
    \/ ReadAgain(r)
    \/ CheckReplay(r) \/ CheckRefuse(r) \/ CheckExpired(r) \/ CheckPass(r)
    \/ Persist(r) \/ Conflict(r) \/ PersistFails(r)
    \/ Resume(r)
    \/ CasAdvances(r) \/ CasTooLate(r) \/ CasFails(r)

RecoveryStep(c) == RebuildRead(c) \/ RebuildWrite(c)

Next ==
    \/ \E r \in Requests, s \in Submissions, e \in {Undeclared, game.version} : Submit(r, s, e)
    \/ \E r \in Requests : RequestStep(r)
    \/ \E p \in Players : Resign(p)
    \/ TurnExpires \/ DeadlineSweep \/ SweepEnded
    \/ \E c \in Recoverers : RecoveryStep(c)
    \/ \E c \in calls : SettleMatch(c) \/ CleanUp(c)
    \/ \E r \in Requests : RequestDies(r)
    \/ GameIsLost
    \/ \E c \in calls : CallIsLost(c)

Spec == Init /\ [][Next]_vars
-----------------------------------------------------------------------------
Games == [status : {"absent", "in_progress", "completed", "draw"}, moves : Seq(Plays),
          version : Nat, winner : Players \cup {Nobody}, expired : BOOLEAN]

TypeOK ==
    /\ log \in Seq(Submissions)
    /\ durable \in Nat
    /\ game \in Games
    /\ game.status = "absent" => game = NoGame
    /\ game.expired => game.status = "in_progress"
    /\ \A r \in Requests :
          /\ request[r].pc \in {"idle", "read", "check", "persist", "resume", "cas"}
          /\ request[r] # Idle => request[r].move \in Submissions
          /\ request[r].seen \in Games
          /\ request[r].expects \in Int /\ request[r].tries \in 0..Retries
    /\ rebuild \in [Recoverers -> [pc : {"idle", "write"}, rows : Nat]]
    /\ calls \subseteq [winner : Players \cup {Nobody}, reason : {"board", "resign", "timeout"}]
    /\ verdict \in Verdicts
    /\ faults \in 0..MaxFaults

(* "Redis is a replayable projection of it": whatever the projection shows  *)
(* is the beginning of the durable log.                                     *)
BoardFollowsLog ==
    game # NoGame =>
        /\ Len(game.moves) <= Len(log)
        /\ \A n \in 1..Len(game.moves) : game.moves[n] = log[n].play

(* The state is typed, and the projection is a beginning of the log.        *)
SessionInv == TypeOK /\ BoardFollowsLog

(* However late a request comes back to a state it read, the projection     *)
(* never loses a move it has shown, and a game that has ended does not go   *)
(* on: only a rebuild that was overtaken, or a loss, takes anything back.   *)
(* Such a rebuild may also have taken the last move back before a player    *)
(* resigns: the compare-and-set, which compares versions and not whether    *)
(* the game has ended, then puts that move and its answer over the          *)
(* resignation.                                                             *)
ProjectionOnlyAdvances ==
    [][game # NoGame /\ game' # NoGame /\ rebuild' = rebuild =>
          /\ Len(game'.moves) >= Len(game.moves)
          /\ game.status # "in_progress" =>
                game' = game \/ Len(game'.moves) = Len(game.moves) + 2]_vars

(* The clock takes the game from the player whose turn it is by the log,    *)
(* "the source of truth", not from one whose move it has already accepted.  *)
TimeoutsAreFair ==
    [][\A c \in calls' \ calls :
          c.reason = "timeout" => c.winner = Opponent(ToMove(Len(log)))]_vars

(* "Lets a participant join a settled match to view state": what is rebuilt *)
(* for the view is not played on.  The code does not keep this (not run).   *)
SettledGamesRest == [][verdict.settled => log' = log]_vars

(* The session keeps the record it promises: sides alternate, nothing is    *)
(* played after a move that ends the game, and a verdict of the board is    *)
(* the log's.  After any other verdict the record may grow: a game that is  *)
(* rebuilt for a late join of a settled match takes moves.                  *)
ImplementsRecord == Rec!RecordSpec
=============================================================================

--------------------------- MODULE Records_proofs ---------------------------
(***************************************************************************)
(* Proofs about the two durable records that others read later: the moves  *)
(* of a game (GameSession) and the events of the outbox (Outbox). Each     *)
(* keeps what its abstract specification, MoveRecord and EventDelivery,    *)
(* promises.                                                               *)
(*                                                                         *)
(* In both, an actor acts on what it read earlier. The invariants say of   *)
(* everything that is in hand how it still relates to the record, and what *)
(* they say survives the record's growth.                                  *)
(***************************************************************************)
EXTENDS GameSession, Outbox, SequenceTheorems, FiniteSetTheorems, TLAPS

(***************************************************************************)
(* The moves of a game. The log only grows, so what was a beginning of it  *)
(* remains one, and nothing is appended after a play that ends the game,   *)
(* so what a projection says about the end remains true.                   *)
(***************************************************************************)
Pcs == {"idle", "read", "check", "persist", "resume", "cas"}
Moves == [by : Players, play : Plays \cup {"none"}, id : Ids \cup {Legacy}]
RequestStates == [pc : Pcs, move : Moves, seen : Games, expects : Int, tries : 0..Retries]

(* The log: the sides alternate, an id is used for the turn it was made     *)
(* for, only the last play may end the game; and the durable state is as    *)
(* advanced as the log.                                                     *)
LogOK ==
    /\ log \in Seq(Submissions)
    /\ durable = Len(log)
    /\ \A n \in 1..Len(log) :
          /\ log[n].by = ToMove(n - 1)
          /\ log[n].id # Legacy => TurnOf[log[n].id] = n
          /\ n < Len(log) => log[n].play \notin Ending

(* What a projection, current or read at some time, says about the log. *)
Beginning(g) ==
    /\ Len(g.moves) <= Len(log)
    /\ \A n \in 1..Len(g.moves) : g.moves[n] = log[n].play

EndIsMarked(g) ==
    LET n == Len(g.moves) IN
    /\ g.version \in {n, n + 1}
    /\ g.status = "in_progress" =>
          /\ g.version = n
          /\ n > 0 => g.moves[n] \notin Ending
    /\ g.status # "in_progress" /\ g.version = n =>
          /\ n > 0 /\ g.moves[n] \in Ending
          /\ g.winner = WinnerAfter(ToMove(n - 1), g.moves[n])

Shown(g) == g.status # "absent" => Beginning(g) /\ EndIsMarked(g)

GameOK ==
    /\ game \in Games
    /\ game.status = "absent" => game = NoGame
    /\ game.expired => game.status = "in_progress"
    /\ Shown(game)

(* A request that may play has read a game in which it is its turn; one     *)
(* that goes on to the projection has its row.                              *)
Entitled(q) ==
    /\ q.seen.status = "in_progress"
    /\ ToMove(Len(q.seen.moves)) = q.move.by
    /\ Legal(q)

Logged(q) == Number(q) <= Len(log) /\ log[Number(q)].play = q.move.play

RequestOK(q) ==
    /\ q \in RequestStates
    /\ q.pc = "idle" <=> q = Idle
    /\ q.pc # "idle" => q.move \in Submissions
    /\ Shown(q.seen)
    /\ q.pc \in {"persist", "resume", "cas"} => Entitled(q)
    /\ q.pc \in {"resume", "cas"} => Logged(q)

RequestsKeepUp ==
    /\ request \in [Requests -> RequestStates]
    /\ \A r \in Requests : RequestOK(request[r])

RebuildsKeepUp ==
    /\ rebuild \in [Recoverers -> [pc : {"idle", "write"}, rows : Nat]]
    /\ \A c \in Recoverers : rebuild[c].pc = "write" => rebuild[c].rows \in 1..Len(log)

(* The board's word: the log is over, and the winner is the log's. *)
BoardSays(w) ==
    LET n == Len(log) IN
    /\ n > 0 /\ log[n].play \in Ending
    /\ w = WinnerAfter(log[n].by, log[n].play)

Calls == [winner : Players \cup {Nobody}, reason : {"board", "resign", "timeout"}]

CallOK(c) == c \in Calls /\ (c.reason = "board" => BoardSays(c.winner))

CallsAreRight == \A c \in calls : CallOK(c)

SInv ==
    /\ LogOK
    /\ GameOK
    /\ RequestsKeepUp
    /\ RebuildsKeepUp
    /\ CallsAreRight
    /\ verdict \in Verdicts
    /\ faults \in 0..MaxFaults
-----------------------------------------------------------------------------
(* Operators *)

(* A number of plays of the log, as a sequence. *)
LEMMA LineOfTheLog ==
    ASSUME log \in Seq(Submissions), NEW n \in 0..Len(log)
    PROVE  /\ Line(n) \in Seq(Plays)
           /\ Len(Line(n)) = n
           /\ \A i \in 1..n : Line(n)[i] = log[i].play
<1>1. \A i \in 1..n : log[i].play \in Plays
  BY SubmissionsAssumption, ElementOfSeq
<1>2. n \in Nat
  BY LenProperties
<1>3. Line(n) \in [1..n -> Plays]
  BY <1>1 DEF Line
<1> QED
  BY <1>2, <1>3 DEF Line

(* The position after a line of plays says of its end what the plays say. *)
LEMMA PositionIsMarked ==
    ASSUME NEW moves \in Seq(Plays), Len(moves) > 0, NEW late \in BOOLEAN
    PROVE  LET g == Position(moves, Len(moves), late) IN
           /\ g \in Games
           /\ g.status # "absent"
           /\ g.expired => g.status = "in_progress"
           /\ g.moves = moves
           /\ EndIsMarked(g)
<1> DEFINE n == Len(moves)
           g == Position(moves, n, late)
<1>1. n \in Nat /\ moves[n] \in Plays
  BY LenProperties, ElementOfSeq
<1>2. WinnerAfter(ToMove(n - 1), moves[n]) \in Players \cup {Nobody}
  BY DEF WinnerAfter, ToMove, Players
<1>3. g.status \in {"in_progress", "completed", "draw"}
  BY DEF Position
<1>4. g.status = "in_progress" <=> moves[n] \notin Ending
  BY DEF Position, Ending
<1>5. g \in Games
  BY <1>1, <1>2 DEF Position, Games
<1>6. g.expired => g.status = "in_progress"
  BY <1>4 DEF Position
<1>7. g.moves = moves /\ g.version = n /\ g.winner = WinnerAfter(ToMove(n - 1), moves[n])
  BY DEF Position
<1>8. EndIsMarked(g)
  BY <1>1, <1>4, <1>7 DEF EndIsMarked
<1> QED
  BY <1>3, <1>5, <1>6, <1>7, <1>8

LEMMA NoGameIsAGame == NoGame \in Games /\ Shown(NoGame)
<1>1. <<>> \in Seq(Plays)
  BY EmptySeq
<1> QED
  BY <1>1 DEF NoGame, Games, Shown

(* A part of the state that does not change, beside a log that does not     *)
(* change, remains as it should be.                                         *)
LEMMA Untouched ==
    ASSUME log' = log
    PROVE  /\ LogOK /\ UNCHANGED durable => LogOK'
           /\ GameOK /\ UNCHANGED game => GameOK'
           /\ RequestsKeepUp /\ UNCHANGED request => RequestsKeepUp'
           /\ RebuildsKeepUp /\ UNCHANGED rebuild => RebuildsKeepUp'
           /\ CallsAreRight /\ UNCHANGED calls => CallsAreRight'
<1>1. \A g : Shown(g) = Shown(g)'
  BY DEF Shown, Beginning, EndIsMarked
<1>2. \A q : RequestOK(q) = RequestOK(q)'
  BY <1>1 DEF RequestOK, Entitled, Logged, Legal, Number
<1>3. \A c : CallOK(c) = CallOK(c)'
  BY DEF CallOK, BoardSays
<1>4. LogOK /\ UNCHANGED durable => LogOK'
  BY DEF LogOK
<1>5. GameOK /\ UNCHANGED game => GameOK'
  BY <1>1 DEF GameOK
<1>6. RequestsKeepUp /\ UNCHANGED request => RequestsKeepUp'
  BY <1>2 DEF RequestsKeepUp
<1>7. RebuildsKeepUp /\ UNCHANGED rebuild => RebuildsKeepUp'
  BY DEF RebuildsKeepUp
<1>8. CallsAreRight /\ UNCHANGED calls => CallsAreRight'
  BY <1>3 DEF CallsAreRight
<1> QED
  BY <1>4, <1>5, <1>6, <1>7, <1>8

(* Requests *)

LEMMA IdleIsOK == RequestOK(Idle)
<1>1. Idle \in RequestStates
  BY NoGameIsAGame, SessionAssumption
  DEF Idle, RequestStates, Pcs, Moves, Players, Undeclared
<1>2. Shown(Idle.seen) /\ Idle.pc = "idle"
  BY NoGameIsAGame DEF Idle
<1> QED
  BY <1>1, <1>2 DEF RequestOK

(* A request that goes on to another step, with what that step requires. *)
LEMMA StepIsOK ==
    ASSUME NEW q, RequestOK(q), q.pc # "idle",
           NEW pc \in Pcs \ {"idle"},
           pc \in {"persist", "resume", "cas"} => Entitled(q),
           pc \in {"resume", "cas"} => Logged(q)
    PROVE  RequestOK([q EXCEPT !.pc = pc])
<1> DEFINE p == [q EXCEPT !.pc = pc]
<1>1. /\ p \in RequestStates
      /\ p.pc = pc /\ p.seen = q.seen /\ p.move = q.move
  BY DEF RequestOK, RequestStates
<1>2. p # Idle
  BY <1>1 DEF Idle
<1>3. /\ Entitled(q) => Entitled(p)
      /\ Logged(q) => Logged(p)
  BY <1>1 DEF Entitled, Logged, Legal, Number
<1> QED
  BY <1>1, <1>2, <1>3 DEF RequestOK

(* One request's new state among the others. *)
LEMMA RequestWritten ==
    ASSUME RequestsKeepUp, log' = log, NEW r \in Requests, NEW q, RequestOK(q),
           request' = [request EXCEPT ![r] = q]
    PROVE  RequestsKeepUp'
<1>1. \A x : RequestOK(x) = RequestOK(x)'
  BY DEF RequestOK, Shown, Beginning, EndIsMarked, Entitled, Logged, Legal, Number
<1>2. q \in RequestStates
  BY DEF RequestOK
<1>3. request' \in [Requests -> RequestStates]
  BY <1>2 DEF RequestsKeepUp
<1>4. \A x \in Requests : request'[x] = IF x = r THEN q ELSE request[x]
  BY DEF RequestsKeepUp
<1>5. \A x \in Requests : RequestOK(request'[x])
  BY <1>4 DEF RequestsKeepUp
<1> QED
  BY <1>1, <1>3, <1>5 DEF RequestsKeepUp

LEMMA FinishIsOK ==
    ASSUME RequestsKeepUp, log' = log, NEW r \in Requests, Finish(r)
    PROVE  RequestsKeepUp'
BY IdleIsOK, RequestWritten DEF Finish

LEMMA NextStepIsOK ==
    ASSUME RequestsKeepUp, log' = log, NEW r \in Requests, request[r].pc # "idle",
           NEW pc \in Pcs \ {"idle"}, Step(r, pc),
           pc \in {"persist", "resume", "cas"} => Entitled(request[r]),
           pc \in {"resume", "cas"} => Logged(request[r])
    PROVE  RequestsKeepUp'
<1>1. RequestOK(request[r])
  BY DEF RequestsKeepUp
<1>2. RequestOK([request[r] EXCEPT !.pc = pc])
  BY <1>1, StepIsOK
<1>3. request' = [request EXCEPT ![r] = [request[r] EXCEPT !.pc = pc]]
  BY DEF Step, RequestsKeepUp
<1> QED
  BY <1>2, <1>3, RequestWritten

(* A call asked for on other grounds than the board. *)
LEMMA CallSettleIsOK ==
    ASSUME CallsAreRight, log' = log, NEW w, NEW why, CallSettle(w, why),
           CallOK([winner |-> w, reason |-> why])
    PROVE  CallsAreRight'
BY DEF CallsAreRight, CallSettle, CallOK, BoardSays

LEMMA ByTheClock ==
    ASSUME NEW p
    PROVE  CallOK([winner |-> Opponent(p), reason |-> "timeout"])
BY DEF CallOK, Calls, Opponent, Players
-----------------------------------------------------------------------------
(* Steps.  First the ones of a request that leave the log as it is. *)

LEMMA SubmitKeepsSInv ==
    ASSUME SInv, NEW r \in Requests, NEW s \in Submissions, NEW e \in {Undeclared, game.version},
           Submit(r, s, e)
    PROVE  SInv'
<1> DEFINE q == [pc |-> "check", move |-> s, seen |-> game, expects |-> e, tries |-> Retries]
<1>1. s \in Moves
  BY SubmissionsAssumption DEF Moves
<1>2. q \in RequestStates
  BY <1>1, SessionAssumption DEF SInv, GameOK, Games, RequestStates, Pcs, Undeclared
<1>3. RequestOK(q)
  BY <1>2 DEF RequestOK, Idle, SInv, GameOK
<1>4. RequestsKeepUp'
  BY <1>3, RequestWritten DEF SInv, Submit
<1> QED
  BY <1>4, Untouched DEF SInv, Submit

LEMMA ReadAgainKeepsSInv ==
    ASSUME SInv, NEW r \in Requests, ReadAgain(r)
    PROVE  SInv'
<1> DEFINE q == [request[r] EXCEPT !.pc = "check", !.seen = game]
<1>1. RequestOK(request[r]) /\ request[r].pc = "read"
  BY DEF SInv, RequestsKeepUp, ReadAgain
<1>2. /\ q \in RequestStates
      /\ q.pc = "check" /\ q.seen = game /\ q.move = request[r].move
  BY <1>1 DEF RequestOK, RequestStates, Pcs, SInv, GameOK
<1>3. RequestOK(q)
  BY <1>1, <1>2 DEF RequestOK, Idle, SInv, GameOK
<1>4. request' = [request EXCEPT ![r] = q]
  BY DEF ReadAgain
<1>5. RequestsKeepUp'
  BY <1>3, <1>4, RequestWritten DEF SInv, ReadAgain
<1> QED
  BY <1>5, Untouched DEF SInv, ReadAgain

LEMMA FinishingKeepsSInv ==
    ASSUME SInv, NEW r \in Requests,
           CheckReplay(r) \/ CheckRefuse(r) \/ PersistFails(r) \/ RequestDies(r)
    PROVE  SInv'
<1>1. /\ Finish(r)
      /\ UNCHANGED <<log, durable, game, rebuild, calls, verdict>>
      /\ faults' \in 0..MaxFaults
  BY SessionAssumption DEF SInv, CheckReplay, CheckRefuse, PersistFails, RequestDies, Fault
<1>2. RequestsKeepUp'
  BY <1>1, FinishIsOK DEF SInv
<1> QED
  BY <1>1, <1>2, Untouched DEF SInv

LEMMA TimingOutKeepsSInv ==
    ASSUME SInv, NEW r \in Requests, CheckExpired(r) \/ CasTooLate(r)
    PROVE  SInv'
<1>1. /\ Finish(r)
      /\ CallSettle(Opponent(request[r].move.by), "timeout")
      /\ UNCHANGED <<log, durable, game, rebuild, verdict, faults>>
  BY DEF CheckExpired, CasTooLate
<1>2. RequestsKeepUp'
  BY <1>1, FinishIsOK DEF SInv
<1>3. CallsAreRight'
  BY <1>1, ByTheClock, CallSettleIsOK DEF SInv
<1> QED
  BY <1>1, <1>2, <1>3, Untouched DEF SInv

LEMMA CheckPassKeepsSInv ==
    ASSUME SInv, NEW r \in Requests, CheckPass(r)
    PROVE  SInv'
<1>1. request[r].pc = "check" /\ Entitled(request[r]) /\ Step(r, "persist")
  BY DEF CheckPass, Permitted, Entitled
<1>2. RequestsKeepUp'
  BY <1>1, NextStepIsOK DEF SInv, CheckPass, Pcs
<1> QED
  BY <1>2, Untouched DEF SInv, CheckPass

(* A row with the id of a move is that move, and it is where the request    *)
(* wants to go: the id was made for this turn.                              *)
LEMMA SameMoveIsLogged ==
    ASSUME SInv, NEW q, RequestOK(q), q.pc = "persist", SameMove(q)
    PROVE  Logged(q)
<1>1. CASE q.move.id = Legacy
  BY <1>1 DEF SameMove, Logged
<1>2. CASE q.move.id # Legacy
  <2>1. PICK n \in 1..Len(log) : log[n].id = q.move.id
    BY <1>2 DEF SameMove, RowOf
  <2>2. log[n] \in Submissions /\ q.move \in Submissions
    BY ElementOfSeq DEF SInv, LogOK, RequestOK
  <2>3. log[n] = q.move
    BY <1>2, <2>1, <2>2, IdsAssumption
  <2>4. TurnOf[q.move.id] = n
    BY <1>2, <2>1 DEF SInv, LogOK
  <2>5. TurnOf[q.move.id] = Number(q)
    BY <1>2 DEF RequestOK, Entitled, Legal
  <2>6. n <= Len(log)
    BY LenProperties DEF SInv, LogOK
  <2> QED
    BY <2>3, <2>4, <2>5, <2>6 DEF Logged
<1> QED
  BY <1>1, <1>2

LEMMA ConflictKeepsSInv ==
    ASSUME SInv, NEW r \in Requests, Conflict(r)
    PROVE  SInv'
<1>1. RequestOK(request[r]) /\ request[r].pc = "persist" /\ Entitled(request[r])
  BY DEF SInv, RequestsKeepUp, Conflict, RequestOK
<1>2. ASSUME SameMove(request[r]) PROVE RequestsKeepUp'
  <2>1. Logged(request[r])
    BY <1>1, <1>2, SameMoveIsLogged
  <2> QED
    BY <1>1, <1>2, <2>1, NextStepIsOK DEF SInv, Conflict, Pcs
<1>3. ASSUME ~SameMove(request[r]) PROVE RequestsKeepUp'
  BY <1>3, FinishIsOK DEF SInv, Conflict
<1>4. RequestsKeepUp'
  BY <1>2, <1>3
<1> QED
  BY <1>4, Untouched DEF SInv, Conflict

LEMMA ResumeKeepsSInv ==
    ASSUME SInv, NEW r \in Requests, Resume(r)
    PROVE  SInv'
<1>1. RequestOK(request[r]) /\ request[r].pc = "resume"
  BY DEF SInv, RequestsKeepUp, Resume
<1>2. Entitled(request[r]) /\ Logged(request[r])
  BY <1>1 DEF RequestOK
<1>3. Step(r, "cas") => RequestsKeepUp'
  BY <1>1, <1>2, NextStepIsOK DEF SInv, Resume, Pcs
<1>4. Finish(r) => RequestsKeepUp'
  BY FinishIsOK DEF SInv, Resume
<1>5. RequestsKeepUp'
  BY <1>3, <1>4 DEF Resume
<1> QED
  BY <1>5, Untouched DEF SInv, Resume

LEMMA CasFailsKeepsSInv ==
    ASSUME SInv, NEW r \in Requests, CasFails(r)
    PROVE  SInv'
<1> DEFINE q == [request[r] EXCEPT !.pc = "read", !.seen = NoGame, !.tries = @ - 1]
<1>1. RequestOK(request[r]) /\ request[r].pc = "cas"
  BY DEF SInv, RequestsKeepUp, CasFails
<1>2. ASSUME game # NoGame /\ request[r].tries > 0 PROVE RequestsKeepUp'
  <2>1. /\ q \in RequestStates
        /\ q.pc = "read" /\ q.seen = NoGame /\ q.move = request[r].move
    <3>1. request[r].tries - 1 \in 0..Retries
      BY <1>1, <1>2, SessionAssumption DEF RequestOK, RequestStates
    <3> QED
      BY <1>1, <3>1, NoGameIsAGame DEF RequestOK, RequestStates, Pcs
  <2>2. RequestOK(q)
    BY <1>1, <2>1, NoGameIsAGame DEF RequestOK, Idle
  <2>3. request' = [request EXCEPT ![r] = q]
    BY <1>2 DEF CasFails
  <2> QED
    BY <2>2, <2>3, RequestWritten DEF SInv, CasFails
<1>3. Finish(r) => RequestsKeepUp'
  BY FinishIsOK DEF SInv, CasFails
<1>4. RequestsKeepUp'
  BY <1>2, <1>3 DEF CasFails
<1> QED
  BY <1>4, Untouched DEF SInv, CasFails

(* The log grows only by the answer to all of it, and not beyond an end.    *)
LEMMA PersistKeepsLog ==
    ASSUME SInv, NEW r \in Requests, Persist(r)
    PROVE  /\ LogOK'
           /\ Len(log') = Len(log) + 1
           /\ log'[Len(log) + 1] = request[r].move
           /\ \A n \in 1..Len(log) : log'[n] = log[n] /\ log[n].play \notin Ending
           /\ Len(request[r].seen.moves) = Len(log)
<1> DEFINE q == request[r]
           m == Len(log)
<1>1. RequestOK(q) /\ q.pc = "persist" /\ Entitled(q) /\ q.move \in Submissions
  BY DEF SInv, RequestsKeepUp, Persist, RequestOK
<1>2. /\ log \in Seq(Submissions) /\ m \in Nat
      /\ q.seen.moves \in Seq(Plays) /\ Len(q.seen.moves) \in Nat
      /\ q.seen.version \in Nat
  BY <1>1, LenProperties DEF SInv, LogOK, RequestOK, RequestStates, Games
<1>3. Beginning(q.seen) /\ EndIsMarked(q.seen)
  BY <1>1 DEF RequestOK, Shown, Entitled
<1>4. Len(q.seen.moves) = m
  BY <1>2, <1>3 DEF Persist, NumberFree, Number, Beginning
<1>5. q.seen.version = m /\ (m > 0 => log[m].play \notin Ending)
  BY <1>1, <1>2, <1>3, <1>4 DEF EndIsMarked, Entitled, Beginning
<1>6. /\ log' \in Seq(Submissions)
      /\ Len(log') = m + 1
      /\ log'[m + 1] = q.move
      /\ \A n \in 1..m : log'[n] = log[n]
  BY <1>1, <1>2, AppendProperties DEF Persist
<1>7. \A n \in 1..m : log[n].play \notin Ending
  BY <1>2, <1>5 DEF SInv, LogOK
<1>8. durable' = Len(log')
  BY <1>2, <1>5, <1>6 DEF Persist
<1>9. q.move.by = ToMove((m + 1) - 1) /\ (q.move.id # Legacy => TurnOf[q.move.id] = m + 1)
  BY <1>1, <1>2, <1>4 DEF Entitled, Legal, Number
<1>10. ASSUME NEW n \in 1..Len(log')
       PROVE  /\ log'[n].by = ToMove(n - 1)
              /\ log'[n].id # Legacy => TurnOf[log'[n].id] = n
              /\ n < Len(log') => log'[n].play \notin Ending
  <2>1. CASE n = m + 1
    BY <1>2, <1>6, <1>9, <2>1
  <2>2. CASE n \in 1..m
    BY <1>6, <1>7, <2>2 DEF SInv, LogOK
  <2> QED
    BY <1>2, <1>6, <2>1, <2>2
<1> QED
  BY <1>4, <1>6, <1>7, <1>8, <1>10 DEF LogOK

LEMMA PersistKeepsSInv ==
    ASSUME SInv, NEW r \in Requests, Persist(r)
    PROVE  SInv'
<1> DEFINE m == Len(log)
<1>1. /\ LogOK'
      /\ Len(log') = m + 1
      /\ log'[m + 1] = request[r].move
      /\ \A n \in 1..m : log'[n] = log[n] /\ log[n].play \notin Ending
      /\ Len(request[r].seen.moves) = m
  BY PersistKeepsLog
<1>2. m \in Nat
  BY LenProperties DEF SInv, LogOK
<1>3. ASSUME NEW g \in Games, Shown(g)
      PROVE  Shown(g)'
  <2>1. Len(g.moves) \in Nat
    BY LenProperties DEF Games
  <2>2. Beginning(g) => Beginning(g)'
    BY <1>1, <1>2, <2>1 DEF Beginning
  <2> QED
    BY <1>3, <2>2 DEF Shown, EndIsMarked
<1>4. GameOK'
  BY <1>3 DEF SInv, GameOK, Persist
<1>5. ASSUME NEW q, RequestOK(q)
      PROVE  /\ Shown(q.seen)'
             /\ Logged(q) => Logged(q)'
  <2>1. q.seen \in Games /\ Len(q.seen.moves) \in Nat
    BY <1>5, LenProperties DEF RequestOK, RequestStates, Games
  <2>2. Shown(q.seen)'
    BY <1>3, <1>5, <2>1 DEF RequestOK
  <2>3. Logged(q) => Logged(q)'
    BY <1>1, <1>2, <2>1 DEF Logged, Number
  <2> QED
    BY <2>2, <2>3
<1>6. ASSUME NEW q, RequestOK(q)
      PROVE  RequestOK(q)'
  <2>1. Entitled(q) <=> Entitled(q)'
    BY DEF Entitled, Legal, Number
  <2> QED
    BY <1>5, <1>6, <2>1 DEF RequestOK
<1>7. ASSUME NEW q, q = [request[r] EXCEPT !.pc = "cas"]
      PROVE  RequestOK(q)'
  <2>1. RequestOK(request[r]) /\ request[r].pc = "persist"
    BY DEF SInv, RequestsKeepUp, Persist
  <2>2. /\ q \in RequestStates
        /\ q.pc = "cas" /\ q.seen = request[r].seen /\ q.move = request[r].move
    BY <1>7, <2>1 DEF RequestOK, RequestStates, Pcs
  <2>3. Entitled(q) /\ q # Idle /\ q.move \in Submissions /\ Shown(q.seen)
    BY <2>1, <2>2 DEF RequestOK, Entitled, Legal, Number, Idle
  <2>4. q.seen \in Games /\ Len(q.seen.moves) = m
    BY <1>1, <2>2 DEF RequestStates
  <2>5. Logged(q)'
    BY <1>1, <1>2, <2>2, <2>4 DEF Logged, Number
  <2>6. Entitled(q)'
    BY <2>3 DEF Entitled, Legal, Number
  <2>7. Shown(q.seen)'
    BY <1>3, <2>3, <2>4
  <2> QED
    BY <2>2, <2>3, <2>5, <2>6, <2>7 DEF RequestOK
<1>8. RequestsKeepUp'
  <2> DEFINE p == [request[r] EXCEPT !.pc = "cas"]
  <2>1. request' = [request EXCEPT ![r] = p]
    BY DEF Persist, Step, SInv, RequestsKeepUp
  <2>2. p \in RequestStates
    BY DEF SInv, RequestsKeepUp, RequestStates, Pcs
  <2>3. /\ request' \in [Requests -> RequestStates]
        /\ \A x \in Requests : request'[x] = IF x = r THEN p ELSE request[x]
    BY <2>1, <2>2 DEF SInv, RequestsKeepUp
  <2>4. \A x \in Requests : RequestOK(request[x])'
    <3> TAKE x \in Requests
    <3>1. CASE x = r
      BY <1>7, <2>3, <3>1
    <3>2. CASE x # r
      BY <1>6, <2>3, <3>2 DEF SInv, RequestsKeepUp
    <3> QED
      BY <3>1, <3>2
  <2> QED
    BY <2>3, <2>4 DEF RequestsKeepUp
<1>9. RebuildsKeepUp'
  BY <1>1, <1>2 DEF SInv, RebuildsKeepUp, Persist
<1>10. CallsAreRight'
  BY <1>1, <1>2 DEF SInv, CallsAreRight, CallOK, BoardSays, Persist
<1> QED
  BY <1>1, <1>4, <1>8, <1>9, <1>10 DEF SInv, Persist

(* What a compare-and-set writes: the plays the request read, and its own,  *)
(* which is the row of the log that follows them.                           *)
LEMMA CasWritesTheLog ==
    ASSUME SInv, NEW r \in Requests, CasAdvances(r)
    PROVE  LET q == request[r]
               k == Len(q.seen.moves)
           IN /\ q.pc = "cas" /\ Entitled(q) /\ Logged(q)
              /\ k \in Nat /\ q.seen.moves \in Seq(Plays)
              /\ q.seen.version = k /\ game.version = k /\ game # NoGame
              /\ Beginning(q.seen)
              /\ k > 0 => q.seen.moves[k] \notin Ending
              /\ game' = Position(Append(q.seen.moves, q.move.play), k + 1, FALSE)
              /\ game'.moves = Append(q.seen.moves, q.move.play)
              /\ Len(game'.moves) = k + 1
              /\ q.move.play \in Plays
<1> DEFINE q == request[r]
           k == Len(q.seen.moves)
<1>1. RequestOK(q) /\ q.pc = "cas" /\ Entitled(q) /\ Logged(q)
  BY DEF SInv, RequestsKeepUp, CasAdvances, RequestOK
<1>2. q.seen.moves \in Seq(Plays) /\ k \in Nat /\ q.move.play \in Plays
  BY <1>1, LenProperties, SubmissionsAssumption DEF RequestOK, RequestStates, Games
<1>3. Beginning(q.seen) /\ EndIsMarked(q.seen) /\ q.seen.status = "in_progress"
  BY <1>1 DEF RequestOK, Entitled, Shown
<1>4. game # NoGame /\ game.version = q.seen.version
  BY DEF CasAdvances, VersionHolds
<1>5. q.seen.version = k /\ (k > 0 => q.seen.moves[k] \notin Ending)
  BY <1>3 DEF EndIsMarked
<1>6. game' = Position(Append(q.seen.moves, q.move.play), k + 1, FALSE)
  BY <1>4, <1>5 DEF CasAdvances
<1>7. game'.moves = Append(q.seen.moves, q.move.play)
  BY <1>6 DEF Position
<1>8. Len(game'.moves) = k + 1
  BY <1>2, <1>7, AppendProperties
<1> QED
  BY <1>1, <1>2, <1>3, <1>4, <1>5, <1>6, <1>7, <1>8

LEMMA CasAdvancesKeepsSInv ==
    ASSUME SInv, NEW r \in Requests, CasAdvances(r)
    PROVE  SInv'
<1> DEFINE q == request[r]
           k == Len(q.seen.moves)
           moves == Append(q.seen.moves, q.move.play)
<1>1. /\ q.pc = "cas" /\ Entitled(q) /\ Logged(q)
      /\ k \in Nat /\ q.seen.moves \in Seq(Plays)
      /\ Beginning(q.seen)
      /\ game' = Position(moves, k + 1, FALSE)
      /\ q.move.play \in Plays
  BY CasWritesTheLog
<1>2. /\ moves \in Seq(Plays)
      /\ Len(moves) = k + 1
      /\ moves[k + 1] = q.move.play
      /\ \A n \in 1..k : moves[n] = q.seen.moves[n]
  BY <1>1, AppendProperties
<1>3. k + 1 <= Len(log) /\ log[k + 1].play = q.move.play
  BY <1>1 DEF Logged, Number
<1>4. /\ game' \in Games
      /\ game'.status # "absent"
      /\ game'.expired => game'.status = "in_progress"
      /\ game'.moves = moves
      /\ EndIsMarked(game')
  <2>1. game' = Position(moves, Len(moves), FALSE) /\ Len(moves) > 0
    BY <1>1, <1>2
  <2>2. /\ Position(moves, Len(moves), FALSE) \in Games
        /\ Position(moves, Len(moves), FALSE).status # "absent"
        /\ Position(moves, Len(moves), FALSE).expired
              => Position(moves, Len(moves), FALSE).status = "in_progress"
        /\ Position(moves, Len(moves), FALSE).moves = moves
        /\ EndIsMarked(Position(moves, Len(moves), FALSE))
    BY <1>2, <2>1, PositionIsMarked
  <2> QED
    BY <2>1, <2>2
<1>5. Beginning(game')
  <2>1. \A n \in 1..(k + 1) : n = k + 1 \/ n \in 1..k
    BY <1>1
  <2> QED
    BY <1>1, <1>2, <1>3, <1>4, <2>1 DEF Beginning
<1>6. GameOK'
  BY <1>4, <1>5 DEF GameOK, Shown, Beginning, EndIsMarked, CasAdvances
<1>7. CASE q.move.play \notin Ending
  <2>1. CallsAreRight'
    BY <1>7, Untouched DEF CasAdvances, SInv
  <2> QED
    BY <1>6, <2>1, Untouched, FinishIsOK DEF CasAdvances, SInv
<1>8. CASE q.move.play \in Ending
  <2>1. Len(log) \in Nat
    BY LenProperties DEF SInv, LogOK
  <2>2. k + 1 = Len(log)
    <3>1. ASSUME NEW n \in 1..Len(log), log[n].play \in Ending PROVE n = Len(log)
      BY <2>1, <3>1 DEF SInv, LogOK
    <3>2. k + 1 \in 1..Len(log)
      BY <1>1, <1>3, <2>1
    <3> QED
      BY <1>3, <1>8, <3>1, <3>2
  <2>3. log[k + 1].by = ToMove(k)
    BY <1>1, <1>3, <2>2 DEF SInv, LogOK
  <2>4. game'.winner = WinnerAfter(ToMove(k), q.move.play)
    BY <1>1, <1>2 DEF Position
  <2>5. BoardSays(game'.winner)
    <3>1. log[Len(log)].by = ToMove(k) /\ log[Len(log)].play = q.move.play /\ Len(log) > 0
      BY <1>1, <1>3, <2>2, <2>3
    <3> QED
      BY <1>8, <2>4, <3>1 DEF BoardSays
  <2>6. CallOK([winner |-> game'.winner, reason |-> "board"])
    BY <1>4, <2>5 DEF CallOK, Calls, Games
  <2>7. CallSettle(game'.winner, "board")
    BY <1>8 DEF CasAdvances
  <2>8. CallsAreRight'
    BY <2>6, <2>7, CallSettleIsOK DEF CasAdvances, SInv
  <2> QED
    BY <1>6, <2>8, Untouched, FinishIsOK DEF CasAdvances, SInv
<1> QED
  BY <1>7, <1>8

(* The other writers of the projection. *)

LEMMA ResignKeepsSInv ==
    ASSUME SInv, NEW p \in Players, Resign(p)
    PROVE  SInv'
<1>1. /\ game \in Games /\ Len(game.moves) \in Nat
      /\ Beginning(game) /\ EndIsMarked(game) /\ game.status = "in_progress"
  BY LenProperties DEF SInv, GameOK, Shown, Games, Resign
<1>2. /\ game' \in Games
      /\ game'.status = "completed" /\ game'.expired = FALSE
      /\ game'.moves = game.moves /\ game'.version = game.version + 1
  <2>1. game' = [game EXCEPT !.status = "completed", !.version = game.version + 1,
                             !.winner = Opponent(p), !.expired = FALSE]
    BY DEF Resign
  <2>2. game.version + 1 \in Nat /\ Opponent(p) \in Players \cup {Nobody}
    BY <1>1 DEF Games, Opponent, Players
  <2> QED
    BY <1>1, <2>1, <2>2 DEF Games
<1>3. GameOK'
  BY <1>1, <1>2 DEF GameOK, Shown, Beginning, EndIsMarked, Resign
<1>4. CallOK([winner |-> Opponent(p), reason |-> "resign"])
  BY DEF CallOK, Calls, Opponent, Players
<1>5. CallsAreRight'
  BY <1>4, CallSettleIsOK DEF SInv, Resign
<1> QED
  BY <1>3, <1>5, Untouched DEF SInv, Resign

LEMMA TurnExpiresKeepsSInv ==
    ASSUME SInv, TurnExpires
    PROVE  SInv'
<1>1. /\ game' \in Games
      /\ game'.status = game.status /\ game'.moves = game.moves
      /\ game'.version = game.version /\ game'.winner = game.winner
  BY DEF TurnExpires, SInv, GameOK, Games
<1>2. GameOK'
  BY <1>1 DEF SInv, GameOK, Shown, Beginning, EndIsMarked, TurnExpires
<1> QED
  BY <1>2, Untouched DEF SInv, TurnExpires

LEMMA RebuildWriteKeepsSInv ==
    ASSUME SInv, NEW c \in Recoverers, RebuildWrite(c)
    PROVE  SInv'
<1> DEFINE n == rebuild[c].rows
<1>1. n \in 1..Len(log) /\ log \in Seq(Submissions) /\ Len(log) \in Nat
  BY LenProperties DEF SInv, LogOK, RebuildsKeepUp, RebuildWrite
<1>2. PICK late \in BOOLEAN : game' = Position(Line(n), n, late)
  BY DEF RebuildWrite, Rebuilt
<1>3. /\ Line(n) \in Seq(Plays)
      /\ Len(Line(n)) = n
      /\ \A i \in 1..n : Line(n)[i] = log[i].play
  BY <1>1, LineOfTheLog
<1>4. game' = Position(Line(n), Len(Line(n)), late) /\ Len(Line(n)) > 0
  BY <1>1, <1>2, <1>3
<1>5. /\ game' \in Games
      /\ game'.status # "absent"
      /\ game'.expired => game'.status = "in_progress"
      /\ game'.moves = Line(n)
      /\ EndIsMarked(game')
  BY <1>3, <1>4, PositionIsMarked
<1>6. Beginning(game')
  BY <1>1, <1>3, <1>5 DEF Beginning
<1>7. GameOK'
  BY <1>5, <1>6 DEF GameOK, Shown, Beginning, EndIsMarked, RebuildWrite
<1>8. RebuildsKeepUp'
  BY DEF SInv, RebuildsKeepUp, RebuildWrite
<1> QED
  BY <1>7, <1>8, Untouched DEF SInv, RebuildWrite

LEMMA RebuildReadKeepsSInv ==
    ASSUME SInv, NEW c \in Recoverers, RebuildRead(c)
    PROVE  SInv'
<1>1. Len(log) \in Nat /\ Len(log) > 0
  BY LenProperties DEF SInv, LogOK, RebuildRead, Behind
<1>2. RebuildsKeepUp'
  BY <1>1 DEF SInv, RebuildsKeepUp, RebuildRead
<1> QED
  BY <1>2, Untouched DEF SInv, RebuildRead

(* A projection whose end is one of the board shows the whole log. *)
LEMMA SweepEndedKeepsSInv ==
    ASSUME SInv, SweepEnded
    PROVE  SInv'
<1> DEFINE n == Len(game.moves)
           why == IF game.version = n THEN "board" ELSE "resign"
<1>1. /\ game \in Games /\ n \in Nat /\ Len(log) \in Nat
      /\ Beginning(game) /\ EndIsMarked(game)
      /\ game.status \in {"completed", "draw"}
  BY LenProperties DEF SInv, LogOK, GameOK, Shown, Games, SweepEnded
<1>2. CASE game.version = n
  <2>1. n > 0 /\ game.moves[n] \in Ending /\ game.winner = WinnerAfter(ToMove(n - 1), game.moves[n])
    BY <1>1, <1>2 DEF EndIsMarked
  <2>2. n \in 1..Len(log) /\ game.moves[n] = log[n].play
    BY <1>1, <2>1 DEF Beginning
  <2>3. n = Len(log) /\ log[n].by = ToMove(n - 1)
    BY <1>1, <2>1, <2>2 DEF SInv, LogOK
  <2>4. BoardSays(game.winner)
    <3>1. /\ Len(log) > 0 /\ log[Len(log)].play \in Ending
          /\ game.winner = WinnerAfter(log[Len(log)].by, log[Len(log)].play)
      BY <2>1, <2>2, <2>3
    <3> QED
      BY <3>1 DEF BoardSays
  <2> QED
    BY <1>1, <1>2, <2>4, CallSettleIsOK, Untouched DEF SInv, SweepEnded, CallOK, Calls, Games
<1>3. CASE game.version # n
  BY <1>1, <1>3, CallSettleIsOK, Untouched DEF SInv, SweepEnded, CallOK, Calls, Games
<1> QED
  BY <1>2, <1>3

LEMMA DeadlineSweepKeepsSInv ==
    ASSUME SInv, DeadlineSweep
    PROVE  SInv'
<1>1. CallsAreRight'
  BY ByTheClock, CallSettleIsOK DEF SInv, DeadlineSweep
<1> QED
  BY <1>1, Untouched DEF SInv, DeadlineSweep

LEMMA SettlingKeepsSInv ==
    ASSUME SInv, NEW c \in calls, SettleMatch(c) \/ CleanUp(c) \/ CallIsLost(c)
    PROVE  SInv'
<1>1. GameOK'
  <2>1. game' \in {game, NoGame} /\ log' = log
    BY DEF SettleMatch, CleanUp, CallIsLost
  <2>2. CASE game' = NoGame
    BY <2>2, NoGameIsAGame DEF GameOK, NoGame, Shown
  <2> QED
    BY <2>1, <2>2, Untouched DEF SInv
<1>2. CallsAreRight'
  <2>1. calls' \subseteq calls /\ log' = log
    BY DEF SettleMatch, CleanUp, CallIsLost
  <2> QED
    BY <2>1 DEF SInv, CallsAreRight, CallOK, BoardSays
<1>3. verdict' \in Verdicts
  <2>1. c.winner \in Players \cup {Nobody} /\ c.reason \in {"none", "board", "resign", "timeout"}
    BY DEF SInv, CallsAreRight, CallOK, Calls
  <2>2. [settled |-> TRUE, winner |-> c.winner, reason |-> c.reason] \in Verdicts
    BY <2>1 DEF Verdicts
  <2> QED
    BY <2>2 DEF SInv, SettleMatch, CleanUp, CallIsLost
<1>4. faults' \in 0..MaxFaults
  BY SessionAssumption DEF SInv, SettleMatch, CleanUp, CallIsLost, Fault
<1> QED
  BY <1>1, <1>2, <1>3, <1>4, Untouched DEF SInv, SettleMatch, CleanUp, CallIsLost

LEMMA GameIsLostKeepsSInv ==
    ASSUME SInv, GameIsLost
    PROVE  SInv'
<1>1. GameOK'
  BY NoGameIsAGame DEF GameIsLost, GameOK, NoGame, Shown
<1>2. faults' \in 0..MaxFaults
  BY SessionAssumption DEF SInv, GameIsLost, Fault
<1> QED
  BY <1>1, <1>2, Untouched DEF SInv, GameIsLost
-----------------------------------------------------------------------------
LEMMA InitIsOK == Init => SInv
<1> SUFFICES ASSUME Init PROVE SInv
  OBVIOUS
<1>1. <<>> \in Seq(Submissions) /\ <<>> \in Seq(Plays) /\ Len(<<>>) = 0
  BY EmptySeq
<1>2. LogOK
  BY <1>1 DEF Init, LogOK
<1>3. GameOK
  <2>1. game = [status |-> "in_progress", moves |-> <<>>, version |-> 0,
                winner |-> Nobody, expired |-> FALSE]
    BY DEF Init, FreshGame, NoGame
  <2>2. game \in Games
    BY <1>1, <2>1 DEF Games
  <2>3. Beginning(game) /\ EndIsMarked(game)
    BY <1>1, <2>1 DEF Init, Beginning, EndIsMarked
  <2> QED
    BY <2>1, <2>2, <2>3 DEF GameOK, Shown
<1>4. RequestsKeepUp
  BY IdleIsOK DEF Init, RequestsKeepUp, RequestOK
<1>5. RebuildsKeepUp
  BY DEF Init, RebuildsKeepUp
<1>6. CallsAreRight /\ verdict \in Verdicts /\ faults \in 0..MaxFaults
  BY SessionAssumption DEF Init, CallsAreRight, NoVerdict, Verdicts
<1> QED
  BY <1>2, <1>3, <1>4, <1>5, <1>6 DEF SInv

LEMMA StepKeepsSInv == SInv /\ [Next]_vars => SInv'
<1> SUFFICES ASSUME SInv, [Next]_vars PROVE SInv'
  OBVIOUS
<1>1. ASSUME NEW r \in Requests, NEW s \in Submissions, NEW e \in {Undeclared, game.version},
             Submit(r, s, e)
      PROVE  SInv'
  BY <1>1, SubmitKeepsSInv
<1>2. ASSUME NEW r \in Requests, RequestStep(r) \/ RequestDies(r)
      PROVE  SInv'
  <2>1. CASE ReadAgain(r)
    BY <2>1, ReadAgainKeepsSInv
  <2>2. CASE CheckReplay(r) \/ CheckRefuse(r) \/ PersistFails(r) \/ RequestDies(r)
    BY <2>2, FinishingKeepsSInv
  <2>3. CASE CheckExpired(r) \/ CasTooLate(r)
    BY <2>3, TimingOutKeepsSInv
  <2>4. CASE CheckPass(r)
    BY <2>4, CheckPassKeepsSInv
  <2>5. CASE Persist(r)
    BY <2>5, PersistKeepsSInv
  <2>6. CASE Conflict(r)
    BY <2>6, ConflictKeepsSInv
  <2>7. CASE Resume(r)
    BY <2>7, ResumeKeepsSInv
  <2>8. CASE CasAdvances(r)
    BY <2>8, CasAdvancesKeepsSInv
  <2>9. CASE CasFails(r)
    BY <2>9, CasFailsKeepsSInv
  <2> QED
    BY <1>2, <2>1, <2>2, <2>3, <2>4, <2>5, <2>6, <2>7, <2>8, <2>9 DEF RequestStep
<1>3. ASSUME NEW p \in Players, Resign(p) PROVE SInv'
  BY <1>3, ResignKeepsSInv
<1>4. ASSUME TurnExpires \/ DeadlineSweep \/ SweepEnded \/ GameIsLost PROVE SInv'
  BY <1>4, TurnExpiresKeepsSInv, DeadlineSweepKeepsSInv, SweepEndedKeepsSInv, GameIsLostKeepsSInv
<1>5. ASSUME NEW c \in Recoverers, RecoveryStep(c) PROVE SInv'
  BY <1>5, RebuildReadKeepsSInv, RebuildWriteKeepsSInv DEF RecoveryStep
<1>6. ASSUME NEW c \in calls, SettleMatch(c) \/ CleanUp(c) \/ CallIsLost(c) PROVE SInv'
  BY <1>6, SettlingKeepsSInv
<1>7. CASE UNCHANGED vars
  BY <1>7, Untouched DEF SInv, vars
<1> QED
  BY <1>1, <1>2, <1>3, <1>4, <1>5, <1>6, <1>7 DEF Next

LEMMA SInvGivesSessionInv == SInv => SessionInv
<1> SUFFICES ASSUME SInv PROVE SessionInv
  OBVIOUS
<1>1. ASSUME NEW r \in Requests
      PROVE  /\ request[r].pc \in {"idle", "read", "check", "persist", "resume", "cas"}
             /\ request[r] # Idle => request[r].move \in Submissions
             /\ request[r].seen \in Games
             /\ request[r].expects \in Int /\ request[r].tries \in 0..Retries
  <2>1. RequestOK(request[r])
    BY DEF SInv, RequestsKeepUp
  <2> QED
    BY <2>1 DEF RequestOK, RequestStates, Pcs
<1>2. durable \in Nat
  BY LenProperties DEF SInv, LogOK
<1>3. calls \subseteq Calls
  BY DEF SInv, CallsAreRight, CallOK
<1>4. TypeOK
  BY <1>1, <1>2, <1>3 DEF TypeOK, SInv, LogOK, GameOK, RebuildsKeepUp, Calls
<1>5. BoardFollowsLog
  <2>1. CASE game.status = "absent"
    BY <2>1 DEF BoardFollowsLog, SInv, GameOK
  <2>2. CASE game.status # "absent"
    BY <2>2 DEF BoardFollowsLog, SInv, GameOK, Shown, Beginning
  <2> QED
    BY <2>1, <2>2
<1> QED
  BY <1>4, <1>5 DEF SessionInv

LEMMA SInvIsInvariant == Spec => []SInv
BY InitIsOK, StepKeepsSInv, PTL DEF Spec

(* "Redis is a replayable projection of it" (submitMove): in every state    *)
(* the projection is a beginning of the durable log, whatever number of     *)
(* requests and recoveries write it.                                        *)
THEOREM ProjectionFollowsLog == Spec => []SessionInv
BY SInvIsInvariant, SInvGivesSessionInv, PTL
-----------------------------------------------------------------------------
(* The compare-and-set puts a longer line in the place of a shorter one.    *)
LEMMA CasOnlyAdvances ==
    ASSUME SInv, NEW r \in Requests, CasAdvances(r)
    PROVE  /\ Len(game'.moves) >= Len(game.moves)
           /\ game.status # "in_progress" => Len(game'.moves) = Len(game.moves) + 2
<1> DEFINE q == request[r]
           k == Len(q.seen.moves)
<1>1. /\ k \in Nat
      /\ game.version = k /\ game # NoGame
      /\ Beginning(q.seen)
      /\ k > 0 => q.seen.moves[k] \notin Ending
      /\ Len(game'.moves) = k + 1
  BY CasWritesTheLog
<1>2. /\ game \in Games /\ Len(game.moves) \in Nat
      /\ Beginning(game) /\ EndIsMarked(game)
  BY <1>1, LenProperties DEF SInv, GameOK, Shown, Games
<1>3. Len(game.moves) = k \/ Len(game.moves) = k - 1
  BY <1>1, <1>2 DEF EndIsMarked
<1>4. ASSUME game.status # "in_progress" PROVE Len(game.moves) = k - 1
  <2>1. ASSUME Len(game.moves) = k PROVE FALSE
    <3>1. k > 0 /\ game.moves[k] \in Ending
      BY <1>1, <1>2, <1>4, <2>1 DEF EndIsMarked
    <3>2. game.moves[k] = log[k].play
      BY <1>1, <1>2, <2>1, <3>1 DEF Beginning
    <3>3. q.seen.moves[k] = log[k].play
      BY <1>1, <3>1 DEF Beginning
    <3> QED
      BY <1>1, <3>1, <3>2, <3>3
  <2> QED
    BY <1>3, <2>1
<1>5. Len(game'.moves) >= Len(game.moves)
  BY <1>1, <1>3
<1> QED
  BY <1>1, <1>4, <1>5

LEMMA StepOnlyAdvances ==
    ASSUME SInv, [Next]_vars,
           game # NoGame, game' # NoGame, rebuild' = rebuild
    PROVE  /\ Len(game'.moves) >= Len(game.moves)
           /\ game.status # "in_progress" =>
                 game' = game \/ Len(game'.moves) = Len(game.moves) + 2
<1>1. Len(game.moves) \in Nat
  BY LenProperties DEF SInv, GameOK, Games
<1>2. CASE game' = game
  BY <1>1, <1>2
<1>3. CASE \E r \in Requests : CasAdvances(r)
  BY <1>3, CasOnlyAdvances
<1>4. CASE \E p \in Players : Resign(p)
  BY <1>1, <1>4 DEF Resign, SInv, GameOK, Games
<1>5. CASE TurnExpires
  BY <1>1, <1>5 DEF TurnExpires, SInv, GameOK, Games
<1>6. ASSUME NEW c \in Recoverers, RebuildWrite(c) PROVE FALSE
  <2>1. rebuild'[c].pc = "idle" /\ rebuild[c].pc = "write"
    BY <1>6 DEF RebuildWrite, SInv, RebuildsKeepUp
  <2> QED
    BY <2>1
<1>7. ASSUME NEW r \in Requests, RequestStep(r), ~CasAdvances(r) PROVE game' = game
  BY <1>7
  DEF RequestStep, ReadAgain, CheckReplay, CheckRefuse, CheckExpired, CheckPass, Persist, Conflict,
      PersistFails, Resume, CasTooLate, CasFails
<1>8. ASSUME NEW c \in calls, SettleMatch(c) \/ CleanUp(c) \/ CallIsLost(c) PROVE game' = game
  BY <1>8 DEF SettleMatch, CleanUp, CallIsLost
<1>9. ASSUME \/ \E r \in Requests, s \in Submissions, e \in {Undeclared, game.version} : Submit(r, s, e)
             \/ DeadlineSweep \/ SweepEnded
             \/ \E c \in Recoverers : RebuildRead(c)
             \/ \E r \in Requests : RequestDies(r)
             \/ UNCHANGED vars
      PROVE  game' = game
  BY <1>9 DEF Submit, DeadlineSweep, SweepEnded, RebuildRead, RequestDies, vars
<1>10. ~GameIsLost
  BY DEF GameIsLost
<1> QED
  BY <1>2, <1>3, <1>4, <1>5, <1>6, <1>7, <1>8, <1>9, <1>10 DEF Next, RecoveryStep

(* submitMove, handleResign and casScript: however late a request comes     *)
(* back to the state it read, what the projection has shown stays, and an   *)
(* end stays, but for the one case the property names.                      *)
THEOREM ProjectionAdvances == Spec => ProjectionOnlyAdvances
<1>1. SInv /\ [Next]_vars =>
        [game # NoGame /\ game' # NoGame /\ rebuild' = rebuild =>
            /\ Len(game'.moves) >= Len(game.moves)
            /\ game.status # "in_progress" =>
                  game' = game \/ Len(game'.moves) = Len(game.moves) + 2]_vars
  BY StepOnlyAdvances
<1> QED
  BY <1>1, SInvIsInvariant, PTL DEF Spec, ProjectionOnlyAdvances
-----------------------------------------------------------------------------
(* The record *)

Record == [n \in 1..Len(log) |-> [by |-> log[n].by, play |-> log[n].play]]
Entries == [by : Players, play : Plays]

LEMMA RecordOfTheLog ==
    ASSUME log \in Seq(Submissions)
    PROVE  /\ Record \in Seq(Entries)
           /\ Len(Record) = Len(log)
           /\ \A n \in 1..Len(log) : Record[n] = [by |-> log[n].by, play |-> log[n].play]
<1>1. \A n \in 1..Len(log) : [by |-> log[n].by, play |-> log[n].play] \in Entries
  BY SubmissionsAssumption, ElementOfSeq DEF Entries
<1>2. Len(log) \in Nat
  BY LenProperties
<1>3. Record \in [1..Len(log) -> Entries]
  BY <1>1 DEF Record
<1> QED
  BY <1>2, <1>3 DEF Record

LEMMA PersistMakesAMove ==
    ASSUME SInv, SInv', NEW r \in Requests, Persist(r)
    PROVE  Rec!MakeMove(request[r].move.play)
<1> DEFINE q == request[r]
           m == Len(log)
           entry == [by |-> ToMove(Len(Record)), play |-> q.move.play]
<1>1. /\ log \in Seq(Submissions) /\ log' \in Seq(Submissions) /\ m \in Nat
  BY LenProperties DEF SInv, LogOK
<1>2. /\ Len(log') = m + 1
      /\ log'[m + 1] = q.move
      /\ \A n \in 1..m : log'[n] = log[n] /\ log[n].play \notin Ending
  BY PersistKeepsLog
<1>3. /\ Record \in Seq(Entries)
      /\ Len(Record) = m
      /\ \A n \in 1..m : Record[n] = [by |-> log[n].by, play |-> log[n].play]
  BY <1>1, RecordOfTheLog
<1>4. /\ Record' \in Seq(Entries)
      /\ Len(Record') = m + 1
      /\ \A n \in 1..(m + 1) : Record'[n] = [by |-> log'[n].by, play |-> log'[n].play]
  <2>1. \A n \in 1..Len(log') : [by |-> log'[n].by, play |-> log'[n].play] \in Entries
    BY <1>1, SubmissionsAssumption, ElementOfSeq DEF Entries
  <2>2. Record' \in [1..(m + 1) -> Entries]
    BY <1>2, <2>1 DEF Record
  <2> QED
    BY <1>1, <1>2, <2>2 DEF Record
<1>5. q.move \in Submissions /\ q.move.by = ToMove(m)
  BY PersistKeepsLog DEF SInv, RequestsKeepUp, Persist, RequestOK, Entitled
<1>6. entry = [by |-> q.move.by, play |-> q.move.play] /\ entry \in Entries /\ q.move.play \in Plays
  BY <1>3, <1>5, SubmissionsAssumption DEF Entries
<1>7. /\ Append(Record, entry) \in Seq(Entries)
      /\ Len(Append(Record, entry)) = m + 1
      /\ Append(Record, entry)[m + 1] = entry
      /\ \A n \in 1..m : Append(Record, entry)[n] = Record[n]
  BY <1>3, <1>6, AppendProperties
<1>8. Record' = Append(Record, entry)
  <2>1. ASSUME NEW n \in 1..(m + 1) PROVE Record'[n] = Append(Record, entry)[n]
    <3>1. CASE n = m + 1
      BY <1>2, <1>4, <1>6, <1>7, <3>1
    <3>2. CASE n \in 1..m
      BY <1>2, <1>3, <1>4, <1>7, <3>2
    <3>3. n = m + 1 \/ n \in 1..m
      BY <1>1
    <3> QED
      BY <3>1, <3>2, <3>3
  <2> QED
    BY <1>4, <1>7, <2>1, SeqEqual
<1>9. ~Rec!Over
  <2>1. Rec!Over => m > 0 /\ Record[m].play \in Ending
    BY <1>1, <1>3, EmptySeq DEF Rec!Over, Rec!Ending, Ending, Record
  <2>2. m > 0 => Record[m].play \notin Ending
    <3>1. m > 0 => m \in 1..m
      BY <1>1
    <3>2. ASSUME NEW n \in 1..m PROVE Record[n].play \notin Ending
      <4>1. Record[n] = [by |-> log[n].by, play |-> log[n].play] /\ log[n].play \notin Ending
        BY <1>2, <1>3
      <4> QED
        BY <4>1
    <3> QED
      BY <3>1, <3>2
  <2> QED
    BY <2>1, <2>2
<1>10. Rec!ToMove(Len(Record)) = ToMove(Len(Record))
  BY DEF Rec!ToMove, ToMove
<1> QED
  BY <1>8, <1>9, <1>10 DEF Rec!MakeMove, Record, Persist

LEMMA SettleMatchSettles ==
    ASSUME SInv, NEW c \in calls, SettleMatch(c)
    PROVE  Rec!Settle(verdict')
<1> DEFINE m == Len(log)
<1>1. /\ ~verdict.settled
      /\ verdict' = [settled |-> TRUE, winner |-> c.winner, reason |-> c.reason]
      /\ log' = log
  BY DEF SettleMatch
<1>2. Record' = Record
  BY <1>1 DEF Record
<1>3. /\ log \in Seq(Submissions) /\ m \in Nat
      /\ Record \in Seq(Entries) /\ Len(Record) = m
      /\ \A n \in 1..m : Record[n] = [by |-> log[n].by, play |-> log[n].play]
  BY LenProperties, RecordOfTheLog DEF SInv, LogOK
<1>4. ASSUME verdict'.reason = "board"
      PROVE  /\ Rec!Over
             /\ verdict'.winner = Rec!WinnerAfter(Record[Len(Record)].by, Record[Len(Record)].play)
  <2>1. BoardSays(c.winner)
    BY <1>1, <1>4 DEF SInv, CallsAreRight, CallOK
  <2>2. /\ m > 0 /\ log[m].play \in Ending
        /\ c.winner = WinnerAfter(log[m].by, log[m].play)
    BY <2>1 DEF BoardSays
  <2>3. Record[m] = [by |-> log[m].by, play |-> log[m].play]
    BY <1>3, <2>2
  <2>4. Record # <<>>
    BY <1>3, <2>2, EmptySeq
  <2>5. Rec!Over
    BY <1>3, <2>2, <2>3, <2>4 DEF Rec!Over, Rec!Ending, Ending, Record
  <2>6. verdict'.winner = Rec!WinnerAfter(Record[m].by, Record[m].play)
    BY <1>1, <2>2, <2>3 DEF Rec!WinnerAfter, WinnerAfter
  <2> QED
    BY <1>3, <2>5, <2>6
<1> QED
  BY <1>1, <1>2, <1>4 DEF Rec!Settle, Record

LEMMA StepsMakeTheRecord ==
    SInv /\ SInv' /\ [Next]_vars => [Rec!RecordNext]_(Rec!recordVars)
<1> SUFFICES ASSUME SInv, SInv', [Next]_vars
             PROVE  Rec!RecordNext \/ UNCHANGED <<Record, verdict>>
  BY DEF Rec!recordVars, Record
<1>1. UNCHANGED <<log, verdict>> => UNCHANGED <<Record, verdict>>
  BY DEF Record
<1>2. ASSUME NEW r \in Requests, RequestStep(r)
      PROVE  Rec!RecordNext \/ UNCHANGED <<log, verdict>>
  <2>1. CASE Persist(r)
    <3>1. request[r].move \in Submissions
      BY <2>1 DEF SInv, RequestsKeepUp, Persist, RequestOK
    <3>2. request[r].move.play \in Plays
      BY <3>1, SubmissionsAssumption
    <3> QED
      <4>1. Rec!MakeMove(request[r].move.play)
        BY <2>1, PersistMakesAMove
      <4> QED
        BY <3>2, <4>1 DEF Rec!RecordNext, Rec!MakeMove
  <2>2. CASE ~Persist(r)
    BY <1>2, <2>2
    DEF RequestStep, ReadAgain, CheckReplay, CheckRefuse, CheckExpired, CheckPass, Conflict,
        PersistFails, Resume, CasAdvances, CasTooLate, CasFails
  <2> QED
    BY <2>1, <2>2
<1>3. ASSUME NEW c \in calls, SettleMatch(c) \/ CleanUp(c) \/ CallIsLost(c)
      PROVE  Rec!RecordNext \/ UNCHANGED <<log, verdict>>
  <2>1. CASE SettleMatch(c)
    <3>1. verdict' \in Rec!Verdicts
      BY DEF SInv, Verdicts, Rec!Verdicts, Players, Rec!Players
    <3> QED
      BY <2>1, <3>1, SettleMatchSettles DEF Rec!RecordNext
  <2> QED
    BY <1>3, <2>1 DEF CleanUp, CallIsLost
<1>4. ASSUME \/ \E r \in Requests, s \in Submissions, e \in {Undeclared, game.version} : Submit(r, s, e)
             \/ \E p \in Players : Resign(p)
             \/ TurnExpires \/ DeadlineSweep \/ SweepEnded \/ GameIsLost
             \/ \E c \in Recoverers : RecoveryStep(c)
             \/ \E r \in Requests : RequestDies(r)
             \/ UNCHANGED vars
      PROVE  UNCHANGED <<log, verdict>>
  BY <1>4
  DEF Submit, Resign, TurnExpires, DeadlineSweep, SweepEnded, GameIsLost, RecoveryStep, RebuildRead,
      RebuildWrite, RequestDies, vars
<1> QED
  BY <1>1, <1>2, <1>3, <1>4 DEF Next

(* persistAcceptedMove and settleMatch keep the record a game promises: the *)
(* sides alternate, nothing is played after the end, and a verdict that     *)
(* rests on the board is the one the record shows.                          *)
THEOREM SessionKeepsTheRecord == Spec => ImplementsRecord
<1>1. Init => Rec!RecordInit
  <2> SUFFICES ASSUME Init PROVE Rec!RecordInit
    OBVIOUS
  <2>1. log = <<>> /\ log \in Seq(Submissions) /\ verdict = NoVerdict
    BY EmptySeq DEF Init
  <2>2. Record \in Seq(Entries) /\ Len(Record) = 0
    BY <2>1, RecordOfTheLog, EmptySeq
  <2>3. Record = <<>>
    BY <2>2, EmptySeq
  <2> QED
    BY <2>1, <2>3 DEF Rec!RecordInit, Record, NoVerdict, Rec!NoVerdict
<1> QED
  BY <1>1, StepsMakeTheRecord, SInvIsInvariant, PTL DEF Spec, ImplementsRecord, Rec!RecordSpec

-----------------------------------------------------------------------------
(***************************************************************************)
(* The outbox, for every set of events and of drainers, and every size of  *)
(* a batch.                                                                *)
(***************************************************************************)
(* The rows by themselves: one that is still owed may be tried once more,   *)
(* and what was sent, and nothing that was not written, has been delivered. *)
ColumnsAreTyped ==
    /\ rows \in Seq(Events) /\ ToSet(rows) = {e \in Events : status[e] # None}
    /\ status \in [Events -> {None, "PENDING", "SENT", "FAILED"}]
    /\ attempts \in [Events -> 0 .. MaxAttempts]
    /\ tries \in [Events -> 0 .. MaxAttempts]
    /\ token \in [Events -> Drainers \cup {None}]
    /\ lease \in [Events -> {None, "held", "expired"}]
    /\ delivered \subseteq Events

ClaimsHaveLeases ==
    \A e \in Events : /\ token[e] = None <=> lease[e] = None
                      /\ token[e] # None => status[e] = "PENDING"

OwedMayBeTried == \A e \in Events : status[e] \in {None, "PENDING"} => attempts[e] < MaxAttempts

DeliveredWasWritten ==
    \A e \in Events : /\ status[e] = "SENT" => e \in delivered
                      /\ e \in delivered => status[e] # None

RowsInv == ColumnsAreTyped /\ ClaimsHaveLeases /\ NeverParkedEarly /\ OwedMayBeTried /\ DeliveredWasWritten

(* What a drainer has in hand are rows that were written, with counts that  *)
(* are not ahead of their tries; while it waits for an answer it has a row  *)
(* it waits for, and what it is about to mark it has delivered.             *)
Row == [event : Events, attempts : 0 .. (MaxAttempts - 1), lapsed : BOOLEAN]
Work == [pc : {"rest", "claiming", "delivering", "delivered", "failed"}, batch : Seq(Row), claimed : Seq(Row)]

WasRead(r) == status[r.event] # None /\ r.attempts <= tries[r.event]

HandOK(w) ==
    /\ w \in Work
    /\ \A r \in ToSet(w.batch) \cup ToSet(w.claimed) : WasRead(r)
    /\ w.pc \in {"delivered", "failed"} => w.claimed # <<>>
    /\ w.pc = "delivered" => w.claimed[1].event \in delivered

OInv ==
    /\ RowsInv
    /\ drainer \in [Drainers -> Work]
    /\ \A d \in Drainers : HandOK(drainer[d])
-----------------------------------------------------------------------------
LEMMA FirstOfAll ==
    ASSUME NEW S, NEW s \in Seq(S), s # <<>>
    PROVE  s[1] \in S /\ s[1] \in ToSet(s) /\ Tail(s) \in Seq(S) /\ ToSet(Tail(s)) \subseteq ToSet(s)
<1>1. Len(s) \in Nat \ {0} /\ DOMAIN s = 1 .. Len(s)
  BY EmptySeq, LenProperties
<1>2. /\ Tail(s) \in Seq(S) /\ Len(Tail(s)) = Len(s) - 1
      /\ \A i \in 1 .. Len(Tail(s)) : Tail(s)[i] = s[i + 1]
  BY HeadTailProperties
<1>3. DOMAIN Tail(s) = 1 .. (Len(s) - 1)
  BY <1>2, LenProperties
<1>4. s[1] \in S
  BY <1>1, ElementOfSeq
<1>5. \A i \in DOMAIN Tail(s) : i + 1 \in DOMAIN s /\ Tail(s)[i] = s[i + 1]
  BY <1>1, <1>2, <1>3
<1>6. QED
  BY <1>1, <1>2, <1>4, <1>5 DEF ToSet

LEMMA OneMore ==
    ASSUME NEW S, NEW s \in Seq(S), NEW r \in S
    PROVE  Append(s, r) \in Seq(S) /\ ToSet(Append(s, r)) = ToSet(s) \cup {r}
<1>1. Len(s) \in Nat /\ DOMAIN s = 1 .. Len(s)
  BY LenProperties
<1>2. /\ Append(s, r) \in Seq(S) /\ Len(Append(s, r)) = Len(s) + 1
      /\ \A i \in 1 .. Len(s) : Append(s, r)[i] = s[i]
      /\ Append(s, r)[Len(s) + 1] = r
  BY AppendProperties
<1>3. DOMAIN Append(s, r) = 1 .. (Len(s) + 1)
  BY <1>2, LenProperties
<1>4. DOMAIN Append(s, r) = DOMAIN s \cup {Len(s) + 1}
  BY <1>1, <1>3
<1>5. \A i \in DOMAIN s : Append(s, r)[i] = s[i]
  BY <1>1, <1>2
<1>6. QED
  BY <1>2, <1>4, <1>5 DEF ToSet

LEMMA RestIsASeq == ASSUME NEW S PROVE <<>> \in Seq(S) /\ ToSet(<<>>) = {}
  BY EmptySeq DEF ToSet

(* Rows are never unwritten, tries and deliveries never forgotten: a hand   *)
(* that is not touched stays right.                                         *)
RowsMoveOn ==
    /\ \A e \in Events : (status[e] # None => status'[e] # None) /\ tries[e] <= tries'[e]
    /\ delivered \subseteq delivered'

LEMMA HandMovesOn ==
    ASSUME NEW w, HandOK(w), RowsInv, RowsInv', RowsMoveOn
    PROVE  HandOK(w)'
<1>1. w \in Work /\ w.batch \in Seq(Row) /\ w.claimed \in Seq(Row)
  BY DEF HandOK, Work
<1>2. \A r \in ToSet(w.batch) \cup ToSet(w.claimed) : r \in Row
  BY <1>1, ElementOfSeq, LenProperties DEF ToSet
<1>3. ASSUME NEW r \in ToSet(w.batch) \cup ToSet(w.claimed) PROVE WasRead(r)'
  <2>1. r.event \in Events /\ r.attempts \in Nat
    BY <1>2, OutboxAssumption DEF Row
  <2>2. tries[r.event] \in Nat /\ tries'[r.event] \in Nat
    BY <2>1, OutboxAssumption DEF RowsInv, ColumnsAreTyped
  <2>3. status[r.event] # None /\ r.attempts <= tries[r.event]
    BY DEF HandOK, WasRead
  <2>4. QED
    BY <2>1, <2>2, <2>3 DEF WasRead, RowsMoveOn
<1>4. w.pc = "delivered" => w.claimed[1].event \in delivered'
  BY DEF HandOK, RowsMoveOn
<1>5. QED
  BY <1>1, <1>3, <1>4 DEF HandOK

LEMMA OneHandChanges ==
    ASSUME OInv, RowsInv', RowsMoveOn, NEW d \in Drainers, NEW w, HandOK(w)',
           drainer' = [drainer EXCEPT ![d] = w]
    PROVE  OInv'
<1>1. w \in Work
  BY DEF HandOK
<1>2. drainer' \in [Drainers -> Work]
  BY <1>1 DEF OInv
<1>3. ASSUME NEW c \in Drainers PROVE HandOK(drainer[c])'
  <2>1. CASE c = d
    BY <2>1 DEF OInv, HandOK, WasRead
  <2>2. ASSUME c # d, NEW v, v = drainer[c] PROVE HandOK(v)'
    BY <2>2, HandMovesOn DEF OInv
  <2>3. CASE c # d
    <3>1. drainer'[c] = drainer[c]
      BY <2>3 DEF OInv
    <3>2. QED
      BY <2>2, <2>3, <3>1 DEF HandOK, WasRead
  <2>4. QED
    BY <2>1, <2>3
<1>4. QED
  BY <1>2, <1>3 DEF OInv

LEMMA NoHandChanges ==
    ASSUME OInv, RowsInv', RowsMoveOn, drainer' = drainer
    PROVE  OInv'
<1>1. ASSUME NEW c \in Drainers PROVE HandOK(drainer[c])'
  <2>1. ASSUME NEW v, v = drainer[c] PROVE HandOK(v)'
    BY <2>1, HandMovesOn DEF OInv
  <2>2. QED
    BY <2>1 DEF HandOK, WasRead
<1>2. QED
  BY <1>1 DEF OInv
-----------------------------------------------------------------------------
LEMMA InitiallyOInv == OutboxInit => OInv
<1> SUFFICES ASSUME OutboxInit PROVE OInv
  OBVIOUS
<1>1. ToSet(rows) = {} /\ rows \in Seq(Events)
  BY RestIsASeq DEF OutboxInit
<1>2. RowsInv
  BY <1>1, OutboxAssumption
  DEF OutboxInit, RowsInv, ColumnsAreTyped, ClaimsHaveLeases, NeverParkedEarly, OwedMayBeTried, DeliveredWasWritten, None
<1>3. AtRest \in Work /\ ToSet(AtRest.batch) = {} /\ ToSet(AtRest.claimed) = {}
  BY RestIsASeq DEF AtRest, Work
<1>4. HandOK(AtRest)
  BY <1>3 DEF HandOK, AtRest
<1>5. QED
  BY <1>2, <1>3, <1>4 DEF OutboxInit, OInv

LEMMA EnqueueKeepsOInv ==
    ASSUME OInv, NEW e \in Events, Enqueue(e)
    PROVE  OInv'
<1>1. /\ status[e] = None /\ rows' = Append(rows, e)
      /\ status' = [status EXCEPT ![e] = "PENDING"]
      /\ UNCHANGED <<attempts, tries, token, lease, drainer, delivered>>
  BY DEF Enqueue
<1>2. rows' \in Seq(Events) /\ ToSet(rows') = ToSet(rows) \cup {e}
  BY <1>1, OneMore DEF OInv, RowsInv, ColumnsAreTyped
<1>3. ToSet(rows') = {f \in Events : status'[f] # None}
  BY <1>1, <1>2 DEF OInv, RowsInv, ColumnsAreTyped, None
<1>4. (ColumnsAreTyped /\ ClaimsHaveLeases)'
  BY <1>1, <1>2, <1>3 DEF OInv, RowsInv, ColumnsAreTyped, ClaimsHaveLeases, None
<1>5. (NeverParkedEarly /\ OwedMayBeTried /\ DeliveredWasWritten)'
  BY <1>1 DEF OInv, RowsInv, ColumnsAreTyped, NeverParkedEarly, OwedMayBeTried, DeliveredWasWritten, None
<1>6. RowsMoveOn
  BY <1>1, OutboxAssumption DEF OInv, RowsInv, ColumnsAreTyped, RowsMoveOn, None
<1>7. QED
  BY <1>1, <1>4, <1>5, <1>6, NoHandChanges DEF RowsInv

LEMMA LeaseExpiresKeepsOInv ==
    ASSUME OInv, NEW e \in Events, LeaseExpires(e)
    PROVE  OInv'
<1>1. /\ lease[e] = "held" /\ lease' = [lease EXCEPT ![e] = "expired"]
      /\ UNCHANGED <<rows, status, attempts, tries, token, drainer, delivered>>
  BY DEF LeaseExpires
<1>2. RowsInv'
  BY <1>1 DEF OInv, RowsInv, ColumnsAreTyped, ClaimsHaveLeases, NeverParkedEarly, OwedMayBeTried,
         DeliveredWasWritten, None
<1>3. RowsMoveOn
  BY <1>1, OutboxAssumption DEF OInv, RowsInv, ColumnsAreTyped, RowsMoveOn
<1>4. QED
  BY <1>1, <1>2, <1>3, NoHandChanges

(* Steps of a cycle that leave the rows alone.                              *)
LEMMA RowsStay ==
    ASSUME RowsInv, UNCHANGED rows, UNCHANGED columns,
           delivered \subseteq delivered', \A e \in delivered' : e \in Events /\ status[e] # None
    PROVE  RowsInv' /\ RowsMoveOn
<1>1. RowsInv'
  BY DEF RowsInv, columns, ColumnsAreTyped, ClaimsHaveLeases, NeverParkedEarly, OwedMayBeTried, DeliveredWasWritten
<1>2. RowsMoveOn
  BY OutboxAssumption DEF RowsInv, columns, ColumnsAreTyped, RowsMoveOn
<1>3. QED
  BY <1>1, <1>2

LEMMA FreeRowsAreFinite == ASSUME RowsInv PROVE IsFiniteSet(FreeRows)
<1>1. Len(rows) \in Nat /\ DOMAIN rows = 1 .. Len(rows) /\ rows \in [1 .. Len(rows) -> Events]
  BY LenProperties DEF RowsInv, ColumnsAreTyped
<1>2. IsFiniteSet(1 .. Len(rows))
  BY <1>1, FS_Interval
<1>3. rows \in Surjection(1 .. Len(rows), ToSet(rows))
  BY <1>1 DEF Surjection, ToSet
<1>4. IsFiniteSet(ToSet(rows))
  BY <1>2, <1>3, FS_Surjection
<1>5. FreeRows \subseteq ToSet(rows)
  BY DEF RowsInv, ColumnsAreTyped, FreeRows, Free, None
<1>6. QED
  BY <1>4, <1>5, FS_Subset

LEMMA ReadBatchKeepsOInv ==
    ASSUME OInv, NEW d \in Drainers, ReadBatch(d)
    PROVE  OInv'
<1> DEFINE size == IF Cardinality(FreeRows) < BatchSize THEN Cardinality(FreeRows) ELSE BatchSize
<1>1. size \in Nat
  BY FreeRowsAreFinite, FS_CardinalityType, OutboxAssumption DEF OInv
<1> HIDE DEF size
<1>2. PICK order \in [1 .. size -> FreeRows] :
        drainer' = [drainer EXCEPT ![d] =
           [AtRest EXCEPT !.pc = "claiming", !.batch = [n \in 1 .. size |-> BatchRow(order[n])]]]
  BY DEF ReadBatch, size
<1>3. ASSUME NEW e \in FreeRows PROVE BatchRow(e) \in Row /\ WasRead(BatchRow(e))
  <2>1. e \in Events /\ status[e] = "PENDING"
    BY DEF FreeRows, Free
  <2>2. attempts[e] \in 0 .. MaxAttempts /\ attempts[e] < MaxAttempts /\ attempts[e] <= tries[e]
    BY <2>1 DEF OInv, RowsInv, ColumnsAreTyped, OwedMayBeTried, NeverParkedEarly
  <2>3. attempts[e] \in 0 .. (MaxAttempts - 1)
    BY <2>2, OutboxAssumption
  <2>4. QED
    BY <2>1, <2>2, <2>3 DEF BatchRow, Row, WasRead, None
<1> DEFINE batch == [n \in 1 .. size |-> BatchRow(order[n])]
           w == [AtRest EXCEPT !.pc = "claiming", !.batch = batch]
<1>4. batch \in Seq(Row) /\ \A r \in ToSet(batch) : WasRead(r)
  <2>1. batch \in [1 .. size -> Row]
    BY <1>3
  <2>2. QED
    BY <1>1, <1>3, <2>1, SeqDef DEF ToSet
<1> HIDE DEF batch
<1>5. w.pc = "claiming" /\ w.batch = batch /\ w.claimed = <<>> /\ w \in Work
  BY <1>4, RestIsASeq DEF AtRest, Work
<1>6. HandOK(w) /\ drainer' = [drainer EXCEPT ![d] = w]
  BY <1>2, <1>4, <1>5, RestIsASeq DEF HandOK, batch
<1> HIDE DEF w
<1>7. PICK v : HandOK(v) /\ drainer' = [drainer EXCEPT ![d] = v]
  BY <1>6
<1>8. RowsInv' /\ RowsMoveOn
  BY RowsStay DEF OInv, ReadBatch, RowsInv, ColumnsAreTyped, DeliveredWasWritten
<1>9. HandOK(v)'
  BY <1>7, <1>8, HandMovesOn DEF OInv
<1>10. QED
  BY <1>7, <1>8, <1>9, OneHandChanges

(* Steps that end a cycle, or only move it on to another of its stages.     *)
LEMMA CycleMoves ==
    ASSUME OInv, NEW d \in Drainers, UNCHANGED rows, UNCHANGED columns, UNCHANGED delivered,
           \/ drainer' = [drainer EXCEPT ![d] = AtRest]
           \/ drainer' = [drainer EXCEPT ![d].pc = "failed"] /\ drainer[d].claimed # <<>>
    PROVE  OInv'
<1>1. RowsInv' /\ RowsMoveOn
  BY RowsStay DEF OInv, RowsInv, ColumnsAreTyped, DeliveredWasWritten
<1>2. HandOK(AtRest)
  BY RestIsASeq DEF HandOK, Work, AtRest
<1>3. ASSUME drainer[d].claimed # <<>> PROVE HandOK([drainer[d] EXCEPT !.pc = "failed"])
  <2>1. HandOK(drainer[d])
    BY DEF OInv
  <2>2. QED
    BY <1>3, <2>1 DEF HandOK, Work
<1>4. PICK v : HandOK(v) /\ drainer' = [drainer EXCEPT ![d] = v]
  BY <1>2, <1>3 DEF OInv
<1>5. HandOK(v)'
  BY <1>1, <1>4, HandMovesOn DEF OInv
<1>6. QED
  BY <1>1, <1>4, <1>5, OneHandChanges

LEMMA DeliverKeepsOInv ==
    ASSUME OInv, NEW d \in Drainers, Deliver(d)
    PROVE  /\ OInv' /\ UNCHANGED columns
           /\ \E e \in Events : /\ status[e] # None
                                /\ delivered' = delivered \cup {e}
<1> DEFINE e == drainer[d].claimed[1].event
<1>1. /\ drainer[d].claimed # <<>> /\ delivered' = delivered \cup {e}
      /\ drainer' = [drainer EXCEPT ![d].pc = "delivered"]
      /\ UNCHANGED rows /\ UNCHANGED columns
  BY DEF Deliver
<1>2. HandOK(drainer[d]) /\ drainer[d] \in Work /\ drainer[d].claimed \in Seq(Row)
  BY DEF OInv, HandOK, Work
<1>3. e \in Events /\ status[e] # None
  <2>1. drainer[d].claimed[1] \in Row /\ drainer[d].claimed[1] \in ToSet(drainer[d].claimed)
    BY <1>1, <1>2, FirstOfAll
  <2>2. QED
    BY <1>2, <2>1 DEF HandOK, Row, WasRead
<1>4. RowsInv' /\ RowsMoveOn
  BY <1>1, <1>3, RowsStay DEF OInv, RowsInv, ColumnsAreTyped, DeliveredWasWritten
<1>5. PICK v : v = [drainer[d] EXCEPT !.pc = "delivered"]
  OBVIOUS
<1>6. v \in Work /\ v.claimed = drainer[d].claimed /\ v.batch = drainer[d].batch
  BY <1>2, <1>5 DEF Work
<1>7. PICK u : u = drainer[d]
  OBVIOUS
<1>8. HandOK(u)'
  BY <1>2, <1>4, <1>7, HandMovesOn DEF OInv
<1>9. HandOK(v)'
  BY <1>1, <1>6, <1>7, <1>8 DEF HandOK, WasRead
<1>10. OInv'
  BY <1>1, <1>4, <1>5, <1>9, OneHandChanges DEF OInv
<1>11. QED
  BY <1>1, <1>3, <1>10

LEMMA NextHandIsOK ==
    ASSUME OInv, NEW d \in Drainers, drainer[d].claimed # <<>>
    PROVE  HandOK([drainer[d] EXCEPT !.pc = "delivering", !.claimed = Tail(@)])
<1> DEFINE v == [drainer[d] EXCEPT !.pc = "delivering", !.claimed = Tail(@)]
<1>1. HandOK(drainer[d]) /\ drainer[d] \in Work /\ drainer[d].claimed \in Seq(Row)
  BY DEF OInv, HandOK, Work
<1>2. /\ Tail(drainer[d].claimed) \in Seq(Row)
      /\ ToSet(Tail(drainer[d].claimed)) \subseteq ToSet(drainer[d].claimed)
  BY <1>1, FirstOfAll
<1>3. /\ v \in Work /\ v.pc = "delivering" /\ v.batch = drainer[d].batch
      /\ v.claimed = Tail(drainer[d].claimed)
  BY <1>1, <1>2 DEF Work
<1>4. QED
  BY <1>1, <1>2, <1>3 DEF HandOK

(* The row a drainer settles: it was written, and it is still owed if its   *)
(* claim is still the drainer's.                                            *)
LEMMA RowInHand ==
    ASSUME OInv, NEW d \in Drainers, drainer[d].pc \in {"delivered", "failed"}
    PROVE  /\ drainer[d].claimed # <<>>
           /\ drainer[d].claimed[1] \in Row /\ WasRead(drainer[d].claimed[1])
           /\ StillMine(d, drainer[d].claimed[1].event) => status[drainer[d].claimed[1].event] = "PENDING"
           /\ drainer[d].pc = "delivered" => drainer[d].claimed[1].event \in delivered
<1>1. HandOK(drainer[d]) /\ drainer[d].claimed \in Seq(Row) /\ drainer[d].claimed # <<>>
  BY DEF OInv, HandOK, Work
<1>2. drainer[d].claimed[1] \in Row /\ drainer[d].claimed[1] \in ToSet(drainer[d].claimed)
  BY <1>1, FirstOfAll
<1>3. WasRead(drainer[d].claimed[1])
  BY <1>1, <1>2 DEF HandOK
<1>4. drainer[d].claimed[1].event \in Events
  BY <1>2 DEF Row
<1>5. QED
  BY <1>1, <1>2, <1>3, <1>4, DrainersAssumption DEF HandOK, OInv, RowsInv, ClaimsHaveLeases, StillMine

LEMMA DeliveryThrowsKeepsOInv ==
    ASSUME OInv, NEW d \in Drainers, DeliveryThrows(d)
    PROVE  OInv'
<1>1. drainer[d].claimed # <<>>
  BY RowInHand DEF DeliveryThrows
<1>2. QED
  BY <1>1, CycleMoves DEF DeliveryThrows

LEMMA MarkSentKeepsOInv ==
    ASSUME OInv, NEW d \in Drainers, MarkSent(d)
    PROVE  OInv'
<1> DEFINE e == drainer[d].claimed[1].event
<1>1. drainer[d].claimed # <<>> /\ e \in Events /\ e \in delivered /\ (token[e] = d => status[e] = "PENDING")
  BY RowInHand DEF MarkSent, Row, StillMine
<1>2. /\ drainer' = [drainer EXCEPT ![d].pc = "delivering", ![d].claimed = Tail(@)]
      /\ UNCHANGED <<rows, attempts, tries, delivered>>
  BY DEF MarkSent, NextInCycle
<1>3. \/ /\ token[e] = d
         /\ status' = [status EXCEPT ![e] = "SENT"]
         /\ token' = [token EXCEPT ![e] = None] /\ lease' = [lease EXCEPT ![e] = None]
      \/ UNCHANGED <<status, token, lease>>
  BY DEF MarkSent, StillMine
<1> HIDE DEF e
<1>4. ColumnsAreTyped'
  <2>1. /\ rows' \in Seq(Events) /\ delivered' \subseteq Events
        /\ attempts' \in [Events -> 0 .. MaxAttempts] /\ tries' \in [Events -> 0 .. MaxAttempts]
    BY <1>2 DEF OInv, RowsInv, ColumnsAreTyped
  <2>2. /\ status' \in [Events -> {None, "PENDING", "SENT", "FAILED"}]
        /\ token' \in [Events -> Drainers \cup {None}]
        /\ lease' \in [Events -> {None, "held", "expired"}]
    BY <1>3 DEF OInv, RowsInv, ColumnsAreTyped
  <2>3. \A f \in Events : status'[f] # None <=> status[f] # None
    BY <1>1, <1>3 DEF OInv, RowsInv, ColumnsAreTyped, None
  <2>4. ToSet(rows') = {f \in Events : status'[f] # None}
    BY <1>2, <2>3 DEF OInv, RowsInv, ColumnsAreTyped
  <2>5. QED
    BY <2>1, <2>2, <2>4 DEF ColumnsAreTyped
<1>5. (ClaimsHaveLeases /\ NeverParkedEarly /\ OwedMayBeTried /\ DeliveredWasWritten)'
  BY <1>1, <1>2, <1>3
  DEF OInv, RowsInv, ColumnsAreTyped, ClaimsHaveLeases, NeverParkedEarly, OwedMayBeTried, DeliveredWasWritten, None
<1>6. RowsMoveOn
  BY <1>1, <1>2, <1>3, OutboxAssumption DEF OInv, RowsInv, ColumnsAreTyped, RowsMoveOn, None
<1>7. PICK v : HandOK(v) /\ drainer' = [drainer EXCEPT ![d] = v]
  BY <1>1, <1>2, NextHandIsOK
<1>8. HandOK(v)'
  BY <1>4, <1>5, <1>6, <1>7, HandMovesOn DEF OInv, RowsInv
<1>9. QED
  BY <1>4, <1>5, <1>6, <1>7, <1>8, OneHandChanges DEF RowsInv

LEMMA FailureIsCounted ==
    ASSUME RowsInv, NEW e \in Events, status[e] = "PENDING", NEW n \in 1 .. MaxAttempts, n <= tries[e] + 1,
           attempts' = [attempts EXCEPT ![e] = n],
           tries' = [tries EXCEPT ![e] = IF @ < MaxAttempts THEN @ + 1 ELSE @],
           status' = [status EXCEPT ![e] = IF n >= MaxAttempts THEN "FAILED" ELSE @],
           token' = [token EXCEPT ![e] = None], lease' = [lease EXCEPT ![e] = None],
           UNCHANGED <<rows, delivered>>
    PROVE  RowsInv' /\ RowsMoveOn
<1>1. /\ attempts \in [Events -> 0 .. MaxAttempts] /\ tries \in [Events -> 0 .. MaxAttempts]
      /\ status \in [Events -> {None, "PENDING", "SENT", "FAILED"}]
      /\ MaxAttempts \in Nat
  BY OutboxAssumption DEF RowsInv, ColumnsAreTyped
<1>2. tries'[e] = (IF tries[e] < MaxAttempts THEN tries[e] + 1 ELSE tries[e]) /\ tries[e] \in 0 .. MaxAttempts
  BY <1>1
<1>3. tries'[e] \in 0 .. MaxAttempts /\ tries[e] <= tries'[e] /\ n <= tries'[e]
  BY <1>1, <1>2
<1>4. \A f \in Events : f # e => /\ tries'[f] = tries[f] /\ attempts'[f] = attempts[f]
                                 /\ status'[f] = status[f]
  BY <1>1
<1>5. status'[e] = (IF n >= MaxAttempts THEN "FAILED" ELSE "PENDING") /\ attempts'[e] = n
  BY <1>1
<1>6. ColumnsAreTyped'
  <2>1. rows' \in Seq(Events) /\ delivered' \subseteq Events /\ attempts' \in [Events -> 0 .. MaxAttempts]
    BY <1>1 DEF RowsInv, ColumnsAreTyped
  <2>2. tries' \in [Events -> 0 .. MaxAttempts]
    BY <1>1, <1>3, <1>4
  <2>3. /\ status' \in [Events -> {None, "PENDING", "SENT", "FAILED"}]
        /\ token' \in [Events -> Drainers \cup {None}]
        /\ lease' \in [Events -> {None, "held", "expired"}]
    BY <1>1 DEF RowsInv, ColumnsAreTyped
  <2>4. \A f \in Events : status'[f] # None <=> status[f] # None
    BY <1>4, <1>5 DEF None
  <2>5. ToSet(rows') = {f \in Events : status'[f] # None}
    BY <2>4 DEF RowsInv, ColumnsAreTyped
  <2>6. QED
    BY <2>1, <2>2, <2>3, <2>5 DEF ColumnsAreTyped
<1>7. ClaimsHaveLeases'
  BY <1>4 DEF RowsInv, ColumnsAreTyped, ClaimsHaveLeases
<1>8. NeverParkedEarly'
  <2>1. \A f \in Events : f # e => attempts'[f] <= tries'[f] /\ (status'[f] = "FAILED" => tries'[f] = MaxAttempts)
    BY <1>4 DEF RowsInv, NeverParkedEarly
  <2>2. attempts'[e] <= tries'[e] /\ (status'[e] = "FAILED" => tries'[e] = MaxAttempts)
    BY <1>1, <1>3, <1>5
  <2>3. QED
    BY <2>1, <2>2 DEF NeverParkedEarly
<1>9. OwedMayBeTried'
  BY <1>1, <1>4, <1>5 DEF RowsInv, OwedMayBeTried, None
<1>10. DeliveredWasWritten'
  BY <1>4, <1>5 DEF RowsInv, DeliveredWasWritten, None
<1>11. RowsMoveOn
  BY <1>1, <1>3, <1>4, <1>5 DEF RowsMoveOn, None
<1>12. QED
  BY <1>6, <1>7, <1>8, <1>9, <1>10, <1>11 DEF RowsInv

(* Of a drainer that failed, and still has its claim: the count it writes.  *)
LEMMA CountInHand ==
    ASSUME OInv, NEW d \in Drainers, drainer[d].pc = "failed"
    PROVE  LET r == drainer[d].claimed[1] IN
           /\ drainer[d].claimed # <<>> /\ r.event \in Events
           /\ Counted(r) \in 1 .. MaxAttempts /\ Counted(r) <= tries[r.event] + 1
           /\ StillMine(d, r.event) => status[r.event] = "PENDING"
<1> DEFINE r == drainer[d].claimed[1]
<1>1. /\ drainer[d].claimed # <<>> /\ r \in Row /\ WasRead(r)
      /\ StillMine(d, r.event) => status[r.event] = "PENDING"
  BY RowInHand
<1> HIDE DEF r
<1>2. r.event \in Events /\ r.attempts \in 0 .. (MaxAttempts - 1) /\ r.attempts <= tries[r.event]
  BY <1>1 DEF Row, WasRead
<1>3. tries[r.event] \in Nat
  BY <1>2, OutboxAssumption DEF OInv, RowsInv, ColumnsAreTyped
<1>4. Counted(r) \in 1 .. MaxAttempts /\ Counted(r) <= tries[r.event] + 1
  BY <1>2, <1>3, OutboxAssumption DEF Counted
<1>5. QED
  BY <1>1, <1>2, <1>4 DEF r

LEMMA RecordFailureKeepsOInv ==
    ASSUME OInv, NEW d \in Drainers, RecordFailure(d)
    PROVE  OInv'
<1> DEFINE e == drainer[d].claimed[1].event
           n == Counted(drainer[d].claimed[1])
<1>1. /\ drainer[d].claimed # <<>> /\ e \in Events /\ (StillMine(d, e) => status[e] = "PENDING")
      /\ n \in 1 .. MaxAttempts /\ n <= tries[e] + 1
  BY CountInHand DEF RecordFailure
<1>2. /\ drainer' = [drainer EXCEPT ![d].pc = "delivering", ![d].claimed = Tail(@)]
      /\ UNCHANGED <<rows, delivered>>
  BY DEF RecordFailure, NextInCycle
<1>3. \/ /\ StillMine(d, e)
         /\ attempts' = [attempts EXCEPT ![e] = n]
         /\ tries' = [tries EXCEPT ![e] = IF @ < MaxAttempts THEN @ + 1 ELSE @]
         /\ status' = [status EXCEPT ![e] = IF n >= MaxAttempts THEN "FAILED" ELSE @]
         /\ token' = [token EXCEPT ![e] = None] /\ lease' = [lease EXCEPT ![e] = None]
      \/ UNCHANGED columns
  BY DEF RecordFailure, Enough
<1> HIDE DEF e, n
<1>4. RowsInv' /\ RowsMoveOn
  <2>1. CASE UNCHANGED columns
    BY <1>2, <2>1, RowsStay DEF OInv, RowsInv, ColumnsAreTyped, DeliveredWasWritten
  <2>2. CASE ~UNCHANGED columns
    BY <1>1, <1>2, <1>3, <2>2, FailureIsCounted DEF OInv
  <2>3. QED
    BY <2>1, <2>2
<1>5. PICK v : HandOK(v) /\ drainer' = [drainer EXCEPT ![d] = v]
  BY <1>1, <1>2, NextHandIsOK
<1>6. HandOK(v)'
  BY <1>4, <1>5, HandMovesOn DEF OInv
<1>7. QED
  BY <1>4, <1>5, <1>6, OneHandChanges

LEMMA AllHandsChange ==
    ASSUME RowsInv, RowsInv', RowsMoveOn, NEW f \in [Drainers -> Work], \A c \in Drainers : HandOK(f[c]),
           drainer' = f
    PROVE  OInv'
<1>1. \A c \in Drainers : HandOK(f[c])'
  BY HandMovesOn
<1>2. QED
  BY <1>1 DEF OInv, HandOK, WasRead

(* The hand of the drainer that claims, and those of the others, in which   *)
(* a row it claimed is no longer one whose lease has run out.               *)
LEMMA ClaimersHand ==
    ASSUME OInv, NEW d \in Drainers, drainer[d].batch # <<>>,
           NEW pc \in {"claiming", "delivering"}, NEW won \in BOOLEAN
    PROVE  HandOK([pc |-> pc, batch |-> Tail(drainer[d].batch),
                   claimed |-> IF won THEN Append(drainer[d].claimed, drainer[d].batch[1])
                               ELSE drainer[d].claimed])
<1> DEFINE r == drainer[d].batch[1]
           claimed == IF won THEN Append(drainer[d].claimed, r) ELSE drainer[d].claimed
<1>1. HandOK(drainer[d]) /\ drainer[d].batch \in Seq(Row) /\ drainer[d].claimed \in Seq(Row)
  BY DEF OInv, HandOK, Work
<1>2. /\ r \in Row /\ r \in ToSet(drainer[d].batch)
      /\ Tail(drainer[d].batch) \in Seq(Row)
      /\ ToSet(Tail(drainer[d].batch)) \subseteq ToSet(drainer[d].batch)
  BY <1>1, FirstOfAll
<1> HIDE DEF r
<1>3. claimed \in Seq(Row) /\ ToSet(claimed) \subseteq ToSet(drainer[d].claimed) \cup {r}
  BY <1>1, <1>2, OneMore
<1> HIDE DEF claimed
<1>4. HandOK([pc |-> pc, batch |-> Tail(drainer[d].batch), claimed |-> claimed])
  BY <1>1, <1>2, <1>3 DEF HandOK, Work
<1>5. QED
  BY <1>4 DEF claimed, r

LEMMA OthersHand ==
    ASSUME OInv, NEW c \in Drainers, NEW e, NEW won \in BOOLEAN
    PROVE  HandOK([drainer[c] EXCEPT !.batch =
                      [n \in DOMAIN @ |-> IF @[n].event = e /\ won THEN [@[n] EXCEPT !.lapsed = FALSE] ELSE @[n]]])
<1> DEFINE b == drainer[c].batch
           After(n) == IF b[n].event = e /\ won THEN [b[n] EXCEPT !.lapsed = FALSE] ELSE b[n]
           f == [n \in DOMAIN b |-> After(n)]
<1>1. HandOK(drainer[c]) /\ drainer[c] \in Work /\ b \in Seq(Row)
  BY DEF OInv, HandOK, Work
<1>2. Len(b) \in Nat /\ DOMAIN b = 1 .. Len(b)
  BY <1>1, LenProperties
<1>3. ASSUME NEW n \in DOMAIN b PROVE b[n] \in Row /\ WasRead(b[n])
  BY <1>1, <1>2, <1>3, ElementOfSeq DEF HandOK, ToSet
<1>4. ASSUME NEW n \in DOMAIN b PROVE After(n) \in Row /\ WasRead(After(n))
  BY <1>3, <1>4 DEF Row, WasRead
<1> HIDE DEF After
<1>5. f \in Seq(Row) /\ \A r \in ToSet(f) : WasRead(r)
  <2>1. f \in [1 .. Len(b) -> Row]
    BY <1>2, <1>4
  <2>2. f \in Seq(Row)
    BY <1>2, <2>1, SeqDef
  <2>3. \A n \in DOMAIN f : n \in DOMAIN b /\ f[n] = After(n)
    OBVIOUS
  <2>4. QED
    BY <1>4, <2>2, <2>3 DEF ToSet
<1> HIDE DEF f
<1> DEFINE w == [drainer[c] EXCEPT !.batch = f]
<1>6. w \in Work /\ w.pc = drainer[c].pc /\ w.batch = f /\ w.claimed = drainer[c].claimed
  BY <1>1, <1>5 DEF Work
<1>7. HandOK(w)
  BY <1>1, <1>5, <1>6 DEF HandOK
<1>8. QED
  BY <1>7 DEF f, After

LEMMA ClaimKeepsOInv ==
    ASSUME OInv, NEW d \in Drainers, Claim(d)
    PROVE  OInv'
<1> DEFINE r == drainer[d].batch[1]
           won == Claimable(r)
           Hand(c) ==
              IF c = d
              THEN [pc |-> IF Len(drainer[d].batch) = 1 THEN "delivering" ELSE "claiming",
                    batch |-> Tail(drainer[d].batch),
                    claimed |-> IF won THEN Append(drainer[d].claimed, r) ELSE drainer[d].claimed]
              ELSE [drainer[c] EXCEPT !.batch =
                       [n \in DOMAIN @ |-> IF @[n].event = r.event /\ won
                                           THEN [@[n] EXCEPT !.lapsed = FALSE] ELSE @[n]]]
<1>1. /\ drainer[d].batch # <<>>
      /\ drainer' = [c \in Drainers |-> Hand(c)]
      /\ UNCHANGED <<rows, status, attempts, tries, delivered>>
  BY DEF Claim
<1>2. IF won THEN /\ token' = [token EXCEPT ![r.event] = d] /\ lease' = [lease EXCEPT ![r.event] = "held"]
      ELSE UNCHANGED <<token, lease>>
  BY DEF Claim
<1>3. won \in BOOLEAN /\ (won => status[r.event] = "PENDING")
  BY DEF Claimable
<1>4. drainer[d].batch \in Seq(Row)
  BY DEF OInv, Work
<1>5. r.event \in Events
  <2>1. r \in Row
    BY <1>1, <1>4, FirstOfAll
  <2>2. QED
    BY <2>1 DEF Row
<1> HIDE DEF r, won
<1>6. RowsInv'
  <2>1. ColumnsAreTyped'
    BY <1>1, <1>2 DEF OInv, RowsInv, ColumnsAreTyped
  <2>2. ClaimsHaveLeases'
    BY <1>1, <1>2, <1>3, <1>5, DrainersAssumption DEF OInv, RowsInv, ColumnsAreTyped, ClaimsHaveLeases, None
  <2>3. (NeverParkedEarly /\ OwedMayBeTried /\ DeliveredWasWritten)'
    BY <1>1 DEF OInv, RowsInv, NeverParkedEarly, OwedMayBeTried, DeliveredWasWritten
  <2>4. QED
    BY <2>1, <2>2, <2>3 DEF RowsInv
<1>7. RowsMoveOn
  BY <1>1, OutboxAssumption DEF OInv, RowsInv, ColumnsAreTyped, RowsMoveOn
<1>8. ASSUME NEW c \in Drainers PROVE HandOK(Hand(c))
  <2>1. CASE c = d
    BY <1>1, <1>3, <2>1, ClaimersHand DEF r
  <2>2. CASE c # d
    BY <1>3, <2>2, OthersHand
  <2>3. QED
    BY <2>1, <2>2
<1> HIDE DEF Hand
<1>9. PICK f \in [Drainers -> Work] : (\A c \in Drainers : HandOK(f[c])) /\ drainer' = f
  BY <1>1, <1>8 DEF HandOK
<1>10. QED
  BY <1>6, <1>7, <1>9, AllHandsChange DEF OInv

LEMMA OInvIsInductive == OInv /\ [OutboxNext]_outboxVars => OInv'
<1> SUFFICES ASSUME OInv, [OutboxNext]_outboxVars PROVE OInv'
  OBVIOUS
<1>1. ASSUME NEW e \in Events, Enqueue(e) \/ LeaseExpires(e) PROVE OInv'
  BY <1>1, EnqueueKeepsOInv, LeaseExpiresKeepsOInv
<1>2. ASSUME NEW d \in Drainers, Cycle(d) PROVE OInv'
  <2>1. CASE EndCycle(d)
    BY <2>1, CycleMoves DEF EndCycle
  <2>2. QED
    BY <1>2, <2>1, ReadBatchKeepsOInv, ClaimKeepsOInv, DeliverKeepsOInv, DeliveryThrowsKeepsOInv,
       MarkSentKeepsOInv, RecordFailureKeepsOInv DEF Cycle
<1>3. ASSUME NEW d \in Drainers, Stop(d) PROVE OInv'
  BY <1>3, CycleMoves DEF Stop
<1>4. CASE UNCHANGED outboxVars
  <2>1. RowsInv' /\ RowsMoveOn
    BY <1>4, RowsStay DEF outboxVars, columns, OInv, RowsInv, ColumnsAreTyped, DeliveredWasWritten
  <2>2. QED
    BY <1>4, <2>1, NoHandChanges DEF outboxVars
<1>5. QED
  BY <1>1, <1>2, <1>3, <1>4 DEF OutboxNext

(* The state is typed, a settled row is claimed by nobody, and no event is  *)
(* parked before it has really been tried as often as it may be, although   *)
(* two drainers may set each other's counts back.                           *)
THEOREM NothingIsParkedEarly == OutboxSpec => []OutboxInv
<1>1. OInv => OutboxInv
  BY DEF OInv, RowsInv, ColumnsAreTyped, ClaimsHaveLeases, OutboxInv, OutboxTypeOK, Work
<1>2. QED
  BY <1>1, InitiallyOInv, OInvIsInductive, PTL DEF OutboxSpec
-----------------------------------------------------------------------------
(* The refinement: what becomes of the row of an event is a step of the     *)
(* promise, and nothing else touches it.                                    *)
LEMMA PromiseSteps ==
    ASSUME OInv, [OutboxNext]_outboxVars
    PROVE  [Promise!DNext]_(Promise!dvars)
<1>1. ASSUME NEW e \in Events, Enqueue(e) PROVE Promise!Commit(e)
  BY <1>1 DEF Enqueue, Promise!Commit, OInv, RowsInv, ColumnsAreTyped, DeliveredWasWritten, None
<1>2. ASSUME NEW d \in Drainers, Deliver(d) PROVE \E e \in Events : Promise!Deliver(e)
  <2>1. PICK e \in Events : status[e] # None /\ delivered' = delivered \cup {e}
    BY <1>2, DeliverKeepsOInv
  <2>2. UNCHANGED status
    BY <1>2 DEF Deliver, columns
  <2>3. QED
    BY <2>1, <2>2 DEF Promise!Deliver, OInv, RowsInv, ColumnsAreTyped, DeliveredWasWritten
<1>3. ASSUME NEW d \in Drainers, MarkSent(d)
      PROVE  (\E e \in Events : Promise!Close(e)) \/ UNCHANGED Promise!dvars
  <2> DEFINE e == drainer[d].claimed[1].event
  <2>1. /\ e \in Events /\ e \in delivered /\ (StillMine(d, e) => status[e] = "PENDING")
        /\ delivered' = delivered
        /\ \/ StillMine(d, e) /\ status' = [status EXCEPT ![e] = "SENT"]
           \/ status' = status
    BY <1>3, RowInHand DEF MarkSent, Row
  <2> HIDE DEF e
  <2>2. CASE status' = status
    BY <2>1, <2>2 DEF Promise!dvars
  <2>3. CASE StillMine(d, e) /\ status' = [status EXCEPT ![e] = "SENT"]
    BY <2>1, <2>3 DEF Promise!Close, OInv, RowsInv, ColumnsAreTyped
  <2>4. QED
    BY <2>1, <2>2, <2>3
<1>4. ASSUME NEW d \in Drainers, RecordFailure(d)
      PROVE  (\E e \in Events : Promise!Park(e)) \/ UNCHANGED Promise!dvars
  <2> DEFINE e == drainer[d].claimed[1].event
             n == Counted(drainer[d].claimed[1])
  <2>1. /\ e \in Events /\ (StillMine(d, e) => status[e] = "PENDING") /\ delivered' = delivered
        /\ \/ /\ StillMine(d, e)
              /\ status' = [status EXCEPT ![e] = IF Enough(n) THEN "FAILED" ELSE @]
           \/ status' = status
    BY <1>4, CountInHand DEF RecordFailure, columns
  <2> HIDE DEF e, n
  <2>2. CASE status' = status
    BY <2>1, <2>2 DEF Promise!dvars
  <2>3. CASE StillMine(d, e) /\ status' = [status EXCEPT ![e] = "FAILED"]
    BY <2>1, <2>3 DEF Promise!Park, OInv, RowsInv, ColumnsAreTyped
  <2>4. [status EXCEPT ![e] = status[e]] = status
    BY DEF OInv, RowsInv, ColumnsAreTyped
  <2>5. QED
    BY <2>1, <2>2, <2>3, <2>4
<1>5. CASE UNCHANGED <<status, delivered>>
  BY <1>5 DEF Promise!dvars
<1>6. QED
  BY <1>1, <1>2, <1>3, <1>4, <1>5
  DEF OutboxNext, Cycle, LeaseExpires, ReadBatch, Claim, EndCycle, DeliveryThrows, Stop, columns, outboxVars, Promise!DNext

(* Whatever dies, fails or is slow, the drainers only ever do what the      *)
(* outbox promises its writers: an event is owed until it was delivered or  *)
(* parked, and what became of it is final.                                  *)
THEOREM DrainersKeepThePromise == OutboxSpec => ImplementsDelivery
<1>1. OutboxInit => Promise!DInit
  BY DEF OutboxInit, Promise!DInit, None
<1>2. QED
  BY <1>1, InitiallyOInv, OInvIsInductive, PromiseSteps, PTL DEF OutboxSpec, ImplementsDelivery, Promise!DSpec
=============================================================================

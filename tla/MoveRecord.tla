----------------------------- MODULE MoveRecord -----------------------------
(***************************************************************************)
(* What a game promises to keep: a record of moves that the two sides make *)
(* in turn until one of them ends the game, and one verdict that, when it  *)
(* rests on the board, is what the record says.  A verdict for another     *)
(* reason does not close the record: moves may follow it.                  *)
(***************************************************************************)
EXTENDS Turns

VARIABLES
    record,     \* the moves made, each with the player who made it
    verdict     \* how the match was settled

recordVars == <<record, verdict>>
-----------------------------------------------------------------------------
Over == record # <<>> /\ record[Len(record)].play \in Ending

RecordInit == record = <<>> /\ verdict = NoVerdict

MakeMove(x) ==
    /\ ~Over
    /\ record' = Append(record, [by |-> ToMove(Len(record)), play |-> x])
    /\ UNCHANGED verdict

(* A resignation or a clock may decide for anyone; the board only for the   *)
(* player, or the draw, the record shows.                                   *)
Settle(v) ==
    /\ ~verdict.settled
    /\ v.settled
    /\ v.reason = "board" =>
          /\ Over
          /\ v.winner = WinnerAfter(record[Len(record)].by, record[Len(record)].play)
    /\ verdict' = v
    /\ UNCHANGED record

RecordNext == (\E x \in Plays : MakeMove(x)) \/ (\E v \in Verdicts : Settle(v))

RecordSpec == RecordInit /\ [][RecordNext]_recordVars
=============================================================================

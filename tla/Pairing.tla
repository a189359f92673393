------------------------------- MODULE Pairing -------------------------------
(***************************************************************************)
(* How two players come to a funded match: the matchmaking queues, emptied *)
(* in pairs by a worker, and call-outs that anyone may accept.  Both end   *)
(* in the same funding transaction: it asks for each player whether they   *)
(* may play, without a lock, and looks for a match they are in under the   *)
(* locks of their wallets.                                                 *)
(*                                                                         *)
(* Tiers are left out: queues and call-outs of different tiers never meet. *)
(***************************************************************************)
EXTENDS SaferPlay, Sequences, SequencesExt

CONSTANTS
    Stakes,     \* the presets of the queues and of call-outs
    Callouts,
    Workers,    \* server processes that run the matchmaking worker
    MaxMatches  \* bound: matches live at once

ASSUME StakesAssumption ==
    Stakes \subseteq Sums /\ MaxMatches \in Nat /\ Workers \cap Callouts = {}

VARIABLES
    queue,      \* the sorted sets queue:<tier>:<stake>, longest waiting first
    funding,    \* the transaction of each worker, and of the request that has locked a call-out
    callout,    \* Callout rows
    matches,    \* the matches made that have not ended
    barred      \* history: the players of a funding who might not play at any time since it began

matchmakingVars == <<queue, funding, callout, matches, barred>>
pairingVars == <<saferVars, matchmakingVars>>
-----------------------------------------------------------------------------
Fundings == Workers \cup Callouts

Resting == [stake |-> 0, players |-> <<>>, asked |-> 0]
Begun(stake, players) == [stake |-> stake, players |-> players, asked |-> 0]

NoCallout == [status |-> "none", by |-> None, to |-> None, stake |-> 0, lapsed |-> FALSE]

(* hasPreterminalMatchForPlayers *)
InMatch(p) == \E i \in 1..Len(matches) : p \in matches[i].players

(* assertEligibleForMoney with enforceTimeout and the stake *)
Eligible(p, stake) == ~OnBreak(p) /\ StakeAllowed(p, stake)
-----------------------------------------------------------------------------
(* createMatchWithStakes.  Mutant: one player is asked twice, the other     *)
(* never.                                                                   *)
AskFirstTwice(f) ==
    /\ funding[f] # Resting /\ funding[f].asked < 2
    /\ Eligible(funding[f].players[1], funding[f].stake)
    /\ funding' = [funding EXCEPT ![f].asked = @ + 1]
    /\ UNCHANGED <<saferVars, queue, callout, matches>>

AskPlayer(f) ==
    /\ funding[f] # Resting /\ funding[f].asked < 2
    /\ Eligible(funding[f].players[funding[f].asked + 1], funding[f].stake)
    /\ funding' = [funding EXCEPT ![f].asked = @ + 1]
    /\ UNCHANGED <<saferVars, queue, callout, matches>>

MatchOf(f) ==
    [players |-> {funding[f].players[1], funding[f].players[2]},
     stake |-> funding[f].stake, from |-> f]

(* Mutant: a match the players are in is looked for before the locks only.  *)
MakeMatchUnreserved(f) ==
    /\ funding[f].asked = 2
    /\ Len(matches) < MaxMatches
    /\ matches' = Append(matches, MatchOf(f))
    /\ funding' = [funding EXCEPT ![f] = Resting]

(* Both wallets are locked from here to the commit. *)
MakeMatch(f) ==
    /\ funding[f].asked = 2
    /\ ~InMatch(funding[f].players[1]) /\ ~InMatch(funding[f].players[2])
    /\ Len(matches) < MaxMatches
    /\ matches' = Append(matches, MatchOf(f))
    /\ funding' = [funding EXCEPT ![f] = Resting]

(* Refused, not affordable, failed, or the process died: the transaction is *)
(* rolled back.  A worker's pair is not queued again; a call-out stays open. *)
GiveUp(f) ==
    /\ funding[f] # Resting
    /\ funding' = [funding EXCEPT ![f] = Resting]
    /\ UNCHANGED <<saferVars, queue, callout, matches>>
-----------------------------------------------------------------------------
PairingInit ==
    /\ SaferInit
    /\ queue = [s \in Stakes |-> <<>>]
    /\ funding = [f \in Fundings |-> Resting]
    /\ callout = [k \in Callouts |-> NoCallout]
    /\ matches = <<>>
    /\ barred = [f \in Fundings |-> {}]

(* ZREM: a sorted set has a member once. *)
Without(line, p) ==
    IF Contains(line, p) THEN RemoveAt(line, CHOOSE i \in DOMAIN line : line[i] = p) ELSE line

(* POST /join: ZADD moves a player who queues again to the end. *)
Join(p, s) ==
    /\ Eligible(p, s) /\ ~InMatch(p)
    /\ queue' = [queue EXCEPT ![s] = Append(Without(@, p), p)]
    /\ UNCHANGED <<saferVars, funding, callout, matches>>

(* POST /leave answers "dequeued" whether or not the player was there. *)
Leave(p, s) ==
    /\ Contains(queue[s], p)
    /\ queue' = [queue EXCEPT ![s] = Without(@, p)]
    /\ UNCHANGED <<saferVars, funding, callout, matches>>

(* Mutant: the last pair of a queue stays. *)
PopOfThree(w, s) ==
    /\ funding[w] = Resting
    /\ Len(queue[s]) > 2
    /\ funding' = [funding EXCEPT ![w] = Begun(s, SubSeq(queue[s], 1, 2))]
    /\ queue' = [queue EXCEPT ![s] = SubSeq(@, 3, Len(@))]
    /\ UNCHANGED <<saferVars, callout, matches>>

(* popMatchmakingPair takes the two who wait longest. *)
Pop(w, s) ==
    /\ funding[w] = Resting
    /\ Len(queue[s]) >= 2
    /\ funding' = [funding EXCEPT ![w] = Begun(s, SubSeq(queue[s], 1, 2))]
    /\ queue' = [queue EXCEPT ![s] = SubSeq(@, 3, Len(@))]
    /\ UNCHANGED <<saferVars, callout, matches>>

FundPair(w) ==
    /\ MakeMatch(w)
    /\ UNCHANGED <<saferVars, queue, callout>>
-----------------------------------------------------------------------------
(* createCallout does not ask whether the challenger is playing. *)
CreateCallout(p, k, s) ==
    /\ callout[k].status = "none"
    /\ Eligible(p, s)
    /\ callout' = [callout EXCEPT ![k] = [NoCallout EXCEPT !.status = "OPEN", !.by = p, !.stake = s]]
    /\ UNCHANGED <<saferVars, queue, funding, matches>>

(* Fifteen minutes have passed. *)
CalloutLapses(k) ==
    /\ callout[k].status = "OPEN" /\ ~callout[k].lapsed
    /\ callout' = [callout EXCEPT ![k].lapsed = TRUE]
    /\ UNCHANGED <<saferVars, queue, funding, matches>>

(* Mutant: the status is not looked at: an accepted call-out is taken again. *)
OpenOnceRead(k) == callout[k].status # "none" /\ ~callout[k].lapsed

Open(k) == callout[k].status = "OPEN" /\ ~callout[k].lapsed

(* acceptCallout: the row is locked and looked at, *)
ClaimCallout(p, k) ==
    /\ funding[k] = Resting
    /\ Open(k)
    /\ p # callout[k].by
    /\ ~InMatch(callout[k].by) /\ ~InMatch(p)
    /\ funding' = [funding EXCEPT ![k] = Begun(callout[k].stake, <<callout[k].by, p>>)]
    /\ UNCHANGED <<saferVars, queue, callout, matches>>

(* the match is made, and both are committed at once. *)
AcceptCallout(k) ==
    /\ MakeMatch(k)
    /\ callout' = [callout EXCEPT ![k].status = "ACCEPTED", ![k].to = funding[k].players[2]]
    /\ UNCHANGED <<saferVars, queue>>

(* processCalloutExpiry: one statement, which waits for a locked row. *)
ExpireCallouts ==
    LET stale == {k \in Callouts : callout[k].status = "OPEN" /\ callout[k].lapsed} IN
    /\ stale # {} /\ \A k \in stale : funding[k] = Resting
    /\ callout' = [k \in Callouts |-> IF k \in stale THEN [callout[k] EXCEPT !.status = "EXPIRED"]
                                      ELSE callout[k]]
    /\ UNCHANGED <<saferVars, queue, funding, matches>>

MatchEnds(i) ==
    /\ i \in 1..Len(matches)
    /\ matches' = RemoveAt(matches, i)
    /\ UNCHANGED <<saferVars, queue, funding, callout>>
-----------------------------------------------------------------------------
(* Who might not play when the funding began and has not been allowed to    *)
(* since.                                                                   *)
Watch ==
    barred' = [f \in Fundings |->
                 IF funding'[f] = Resting THEN {}
                 ELSE {p \in IF funding[f] = Resting THEN ToSet(funding'[f].players) ELSE barred[f] :
                          ~Eligible(p, funding[f].stake)'}]

WorkerStep(w) == (\E s \in Stakes : Pop(w, s)) \/ AskPlayer(w) \/ FundPair(w) \/ GiveUp(w)

CalloutStep(k) ==
    \/ \E p \in Players, s \in Stakes : CreateCallout(p, k, s)
    \/ \E p \in Players : ClaimCallout(p, k)
    \/ AskPlayer(k) \/ AcceptCallout(k) \/ GiveUp(k)
    \/ CalloutLapses(k)

PairingNext ==
    /\ \/ SaferNext /\ UNCHANGED <<queue, funding, callout, matches>>
       \/ \E p \in Players, s \in Stakes : Join(p, s) \/ Leave(p, s)
       \/ \E w \in Workers : WorkerStep(w)
       \/ \E k \in Callouts : CalloutStep(k)
       \/ ExpireCallouts
       \/ \E i \in 1..Len(matches) : MatchEnds(i)
    /\ Watch

(* A worker runs every three seconds and works through all queues. *)
PairingFairness ==
    /\ \A w \in Workers, s \in Stakes : SF_pairingVars(Pop(w, s) /\ Watch)
    /\ \A w \in Workers : WF_pairingVars((AskPlayer(w) \/ FundPair(w) \/ GiveUp(w)) /\ Watch)

PairingSpec == PairingInit /\ [][PairingNext]_pairingVars /\ PairingFairness
-----------------------------------------------------------------------------
Fates == {"none", "OPEN", "ACCEPTED", "EXPIRED"}

PairingTypeOK ==
    /\ SaferTypeOK
    /\ \A s \in Stakes : IsInjective(queue[s]) /\ ToSet(queue[s]) \subseteq Players
    /\ \A f \in Fundings :
          funding[f] # Resting => /\ funding[f].stake \in Stakes /\ funding[f].asked \in 0..2
                                  /\ Len(funding[f].players) = 2
                                  /\ ToSet(funding[f].players) \subseteq Players
    /\ \A f \in Fundings : barred[f] \subseteq ToSet(funding[f].players)
    /\ \A k \in Callouts : callout[k].status \in Fates
    /\ \A i \in 1..Len(matches) : matches[i].players \subseteq Players /\ matches[i].stake \in Stakes

(* "A player may only be in one game at a time": whatever mixture of queues,*)
(* workers and call-outs a player takes part in.                            *)
OneMatchAtATime ==
    \A i, j \in 1..Len(matches) :
        i # j => matches[i].players \cap matches[j].players = {}

(* The state is typed, and nobody is in two matches.                        *)
PairingInv == PairingTypeOK /\ OneMatchAtATime

(* A call-out leads to one match, between the player who made it and the    *)
(* one who is written down as having accepted it, and an expired one to     *)
(* none.                                                                    *)
CalloutsAreHonouredOnce ==
    [][\A k \in Callouts :
          LET made == {i \in (1..Len(matches')) \ (1..Len(matches)) : matches'[i].from = k}
              taken == callout[k].status = "OPEN" /\ callout'[k].status = "ACCEPTED"
          IN /\ taken <=> made # {}
             /\ callout[k].status \in {"ACCEPTED", "EXPIRED"} => callout'[k].status = callout[k].status
             /\ \A i \in made : /\ matches'[i].players = {callout'[k].by, callout'[k].to}
                                /\ callout'[k].by # callout'[k].to]_pairingVars

(* Eligibility is asked again when a match is funded: whoever has been on   *)
(* a break, or under a limit below the stake, since before the funding      *)
(* began is not matched, however long ago they queued or called out.        *)
FundingAsksAgain ==
    [][\A i \in (1..Len(matches')) \ (1..Len(matches)) :
          matches'[i].players \cap barred[matches'[i].from] = {}]_pairingVars

(* Not a property of the code: a break written between the question and the *)
(* commit of the funding is not seen (matchService.js:93-99).               *)
BreaksBindAtOnce ==
    [][\A i \in (1..Len(matches')) \ (1..Len(matches)) :
          \A p \in matches'[i].players : Eligible(p, matches'[i].stake)]_pairingVars

(* Nobody waits in front of a queue with another player behind forever.     *)
PairsAreServed ==
    \A s \in Stakes, p \in Players :
        (Len(queue[s]) >= 2 /\ queue[s][1] = p) ~> (Len(queue[s]) < 2 \/ queue[s][1] # p)
=============================================================================

------------------------------ MODULE SaferPlay ------------------------------
(***************************************************************************)
(* Limits and breaks a player sets on the own play.  Every handler reads   *)
(* the player's row, decides, and writes it in a second step that compares *)
(* nothing: an edit is what one of them has decided and not yet written.   *)
(*                                                                         *)
(* What an edit has seen and the variable overtaken record the history the *)
(* properties speak of; no step depends on them.                           *)
(***************************************************************************)
EXTENDS Integers, FiniteSets

CONSTANTS
    Players,
    Editors,    \* the players who use these tools
    Fields,     \* the limits edited: a subset of {"deposit", "stake"}
    Breaks,     \* the breaks taken: a subset of {"timeoutUntil", "selfExcludedUntil"}
    Sums,       \* amounts of money
    None,       \* no limit (null)
    Cooling,    \* limitRaiseCoolingHours
    MaxTime,    \* bound: the hours that pass
    MaxEdits    \* bound: edits of one player in progress at once

ASSUME LimitsAssumption ==
    /\ Editors \subseteq Players /\ Sums \subseteq Nat /\ None \notin Sums
    /\ Fields \subseteq {"deposit", "stake"} /\ Breaks \subseteq {"timeoutUntil", "selfExcludedUntil"}
ASSUME HoursAssumption == Cooling \in Nat /\ MaxTime \in Nat /\ MaxEdits \in Nat

VARIABLES
    now,
    limits,     \* base, pending and raisedAt of every player's limits
    until,      \* the end of every player's breaks, 0 for none
    edits,      \* decided and not yet written
    overtaken   \* history: <<player, column>> last written by a request the column had changed under

saferVars == <<now, limits, until, edits, overtaken>>
-----------------------------------------------------------------------------
Times == 0..(MaxTime + 1)

NoLimit == [base |-> None, pending |-> None, raisedAt |-> 0]

(* effectiveValue: a raise binds once it has cooled. *)
Effective(limit) ==
    IF limit.pending # None /\ now >= limit.raisedAt + Cooling
    THEN limit.pending ELSE limit.base

OnBreak(p) == \E b \in Breaks : until[p][b] > now

(* assertEligibleForMoney looks at the base of the stake limit. *)
StakeAllowed(p, amount) ==
    "stake" \in Fields /\ limits[p]["stake"].base # None
        => amount <= limits[p]["stake"].base

MayEdit(p) == Cardinality({e \in edits : e.player = p}) < MaxEdits
-----------------------------------------------------------------------------
SaferInit ==
    /\ now = 0
    /\ limits = [p \in Players |-> [f \in Fields |-> NoLimit]]
    /\ until = [p \in Players |-> [b \in Breaks |-> 0]]
    /\ edits = {}
    /\ overtaken = {}

(* Mutant: a raise is told by the base alone. *)
IsRaiseOfBase(limit, amount) ==
    limit.base # None /\ limit.pending = None /\ amount # None /\ amount > limit.base

(* setDepositLimit, setStakeLimit: a first or a lower limit replaces the    *)
(* row's values, a higher one is staged beside the base until it cools.     *)
IsRaise(limit, amount) ==
    Effective(limit) # None /\ amount # None /\ amount > Effective(limit)

Edit(p, what, seen, stage, value) ==
    [player |-> p, what |-> what, seen |-> seen, stage |-> stage, value |-> value]

(* History: the columns last written under another request.            *)
Overtaken(e, inForce) ==
    LET column == <<e.player, e.what>> IN
    IF e.seen # inForce THEN overtaken \cup {column}
    ELSE IF e.stage THEN overtaken ELSE overtaken \ {column}

SetLimit(p, f, amount) ==
    /\ MayEdit(p)
    /\ edits' = edits \cup {Edit(p, f, Effective(limits[p][f]), IsRaise(limits[p][f], amount), amount)}
    /\ UNCHANGED <<now, limits, until, overtaken>>

WriteLimit(e) ==
    /\ e \in edits /\ e.what \in Fields
    /\ limits' = [limits EXCEPT ![e.player][e.what] =
                     IF e.stage
                     THEN [@ EXCEPT !.pending = e.value, !.raisedAt = now]
                     ELSE [NoLimit EXCEPT !.base = e.value]]
    /\ edits' = edits \ {e}
    /\ overtaken' = Overtaken(e, Effective(limits[e.player][e.what]))
    /\ UNCHANGED <<now, until>>

(* startTimeout, extendSelfExclusion *)

Extends(p, b, t) == t > now /\ t > until[p][b]

StartBreak(p, b, t) ==
    /\ MayEdit(p)
    /\ Extends(p, b, t)
    /\ edits' = edits \cup {Edit(p, b, until[p][b], FALSE, t)}
    /\ UNCHANGED <<now, limits, until, overtaken>>

WriteBreak(e) ==
    /\ e \in edits /\ e.what \in Breaks
    /\ until' = [until EXCEPT ![e.player][e.what] = e.value]
    /\ edits' = edits \ {e}
    /\ overtaken' = Overtaken(e, until[e.player][e.what])
    /\ UNCHANGED <<now, limits>>

(* clearTimeoutByAdmin, endSelfExclusionByAdmin *)
LiftBreak(p, b) ==
    /\ until[p][b] # 0
    /\ until' = [until EXCEPT ![p][b] = 0]
    /\ UNCHANGED <<now, limits, edits, overtaken>>

(* No request takes an hour. *)
Tick ==
    /\ now < MaxTime
    /\ edits = {}
    /\ now' = now + 1
    /\ UNCHANGED <<limits, until, edits, overtaken>>

EditOf(p) ==
    \/ \E f \in Fields, amount \in Sums \cup {None} : SetLimit(p, f, amount)
    \/ \E b \in Breaks, t \in Times : StartBreak(p, b, t)
    \/ \E b \in Breaks : LiftBreak(p, b)

SaferNext ==
    \/ \E p \in Editors : EditOf(p)
    \/ \E e \in edits : WriteLimit(e) \/ WriteBreak(e)
    \/ Tick

SaferSpec == SaferInit /\ [][SaferNext]_saferVars
-----------------------------------------------------------------------------
Limits == [base : Sums \cup {None}, pending : Sums \cup {None}, raisedAt : 0..MaxTime]

SaferTypeOK ==
    /\ now \in 0..MaxTime
    /\ limits \in [Players -> [Fields -> Limits]]
    /\ until \in [Players -> [Breaks -> Times]]
    /\ edits \subseteq [player : Players, what : Fields \cup Breaks,
                        seen : Sums \cup {None} \cup Times, stage : BOOLEAN,
                        value : Sums \cup {None} \cup Times]
    /\ overtaken \subseteq Players \X (Fields \cup Breaks)

(* "raising stages a pending raise that only becomes effective after a 24h  *)
(* cooling window": no request of a player lets a limit in force grow, only *)
(* time does.  The exception is a column last written by a request that     *)
(* was overtaken by another one.  (Clearing a limit is allowed at any       *)
(* time.)                                                                   *)
LimitsGrowByWaiting ==
    [][\A p \in Players, f \in Fields :
          LET old == Effective(limits[p][f])  new == Effective(limits[p][f])'
          IN old # None /\ new # None /\ new > old
                => now' > now \/ <<p, f>> \in overtaken']_saferVars

(* "Extend-only": a break that runs is shortened by an operator only, or by *)
(* a request that another one overtook.                                     *)
BreaksAreExtendOnly ==
    [][\A p \in Players, b \in Breaks :
          until'[p][b] < until[p][b]
             => until'[p][b] = 0 \/ <<p, b>> \in overtaken']_saferVars

(* What a player set against themselves, the player cannot undo at once,    *)
(* unless two of the player's requests overlap on one column.               *)
SelfProtectionHolds == LimitsGrowByWaiting /\ BreaksAreExtendOnly

(* "Effective values are what actually binds": a stake the effective limit  *)
(* allows is not refused, one beyond it is.                                 *)
EffectiveLimitBinds ==
    \A p \in Players, amount \in Sums :
        "stake" \in Fields /\ Effective(limits[p]["stake"]) # None
            => (StakeAllowed(p, amount) <=> amount <= Effective(limits[p]["stake"]))

(* Asking for a higher limit never tightens the limit in force. *)
RaisesDoNotTighten ==
    [][\A e \in edits \ edits' :
          e.stage /\ Effective(limits[e.player][e.what]) # None
              => Effective(limits[e.player][e.what])' >= Effective(limits[e.player][e.what])]_saferVars
=============================================================================

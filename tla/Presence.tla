------------------------------ MODULE Presence ------------------------------
(***************************************************************************)
(* Who is there. A live match, the sockets of its two players, the Redis   *)
(* sorted set of players whose grace is running, the sweeps that forfeit   *)
(* them, and the boot recovery that gives everybody a fresh grace.         *)
(*                                                                         *)
(* Handlers and sweeps are asynchronous: each await ends a step, and every *)
(* other step may come between, those of the next tick's sweep and of the  *)
(* boot recovery too, for which nobody waits.                              *)
(***************************************************************************)
EXTENDS Naturals, FiniteSets

CONSTANTS
    Players,        \* the two players of the match
    Sockets,        \* connections that may be made
    Owner,          \* [Sockets -> Players]
    Sweeps,         \* bound: runs of the sweep at the same time
    MaxRestarts     \* bound: restarts of the process

Nobody == "nobody"

ASSUME PresenceAssumption ==
    /\ IsFiniteSet(Players) /\ Cardinality(Players) = 2 /\ Nobody \notin Players
    /\ Owner \in [Sockets -> Players] /\ MaxRestarts \in Nat

VARIABLES
    socket,         \* "off", "new" (in the user's room, no handlers yet), "on", "joined" (the
                    \* match's room)
    closing,        \* handleDisconnect of a socket: "none", "started", "arming"
    joining,        \* handleJoinMatch of a socket: "none", "asked" (budget and match are looked
                    \* up), "cleared" (the entry is gone)
    grace,          \* the sorted set "disconnects": "none", "running", "due"
    match,          \* "live", or how it ended: "forfeit", "draw", "elsewhere"
    loser,          \* who was forfeited
    pointer,        \* the Redis keys user:<id>:activeMatch
    sweep,          \* each sweep's list, the entry in hand and where it is
    suspended,      \* GAME_FORFEIT_SUSPENDED
    recovering,     \* the boot recovery has not read the entries yet
    booting,        \* entries it has read and not yet rearmed
    restarts,
    stayed,         \* history: in the room ever since the sweep read its list
    left            \* history: was without any socket at some time, or lost one while the rest
                    \* could not be counted

vars == <<socket, closing, joining, grace, match, loser, pointer, sweep, suspended, recovering,
          booting, restarts, stayed, left>>
-----------------------------------------------------------------------------
Opponent(p) == CHOOSE q \in Players : q # p
SocketsOf(p) == {s \in Sockets : Owner[s] = p}
Connected(p) == \E s \in SocketsOf(p) : socket[s] # "off"
InRoom(p) == \E s \in SocketsOf(p) : socket[s] = "joined"
Idle == [list |-> {}, entry |-> Nobody, at |-> "idle"]

Init ==
    /\ socket = [s \in Sockets |-> "off"]
    /\ closing = [s \in Sockets |-> "none"]
    /\ joining = [s \in Sockets |-> "none"]
    /\ grace = [p \in Players |-> "none"]
    /\ match = "live" /\ loser = Nobody /\ pointer = TRUE
    /\ sweep = [w \in Sweeps |-> Idle]
    /\ suspended = FALSE /\ recovering = FALSE /\ booting = {} /\ restarts = 0
    /\ stayed = [w \in Sweeps |-> {}] /\ left = {}
-----------------------------------------------------------------------------
(***************************************************************************)
(* Connections.                                                            *)
(***************************************************************************)
SocketFrame == UNCHANGED <<match, loser, pointer, sweep, suspended, recovering, booting, restarts>>

Connect(s) ==
    /\ socket[s] = "off" /\ closing[s] = "none" /\ joining[s] = "none"
    /\ socket' = [socket EXCEPT ![s] = "new"]
    /\ UNCHANGED <<closing, joining, grace, stayed, left>> /\ SocketFrame

(* The handlers are attached after the quota check, which awaits.         *)
Attach(s) ==
    /\ socket[s] = "new"
    /\ socket' = [socket EXCEPT ![s] = "on"]
    /\ UNCHANGED <<closing, joining, grace, stayed, left>> /\ SocketFrame

(* The connection is lost: the socket leaves its rooms, then the handler, *)
(* if it has one already, starts.                                         *)
Disconnect(s) ==
    /\ socket[s] # "off"
    /\ socket' = [socket EXCEPT ![s] = "off"]
    /\ closing' = [closing EXCEPT ![s] = IF socket[s] = "new" THEN "none" ELSE "started"]
    /\ stayed' = [w \in Sweeps |-> {p \in stayed[w] : InRoom(p)'}]
    /\ left' = left \cup {p \in Players : Owner[s] = p /\ ~Connected(p)'}
    /\ UNCHANGED <<joining, grace>> /\ SocketFrame

(* Only the last socket of a player counts, and only in a match; when the *)
(* others cannot be counted, the handler goes on as if there were none.   *)
MustArmAnySocket(s, counted) == pointer
MustArm(s, counted) == pointer /\ (counted => ~Connected(Owner[s]))

DisconnectLooks(s, counted) ==
    /\ closing[s] = "started"
    /\ closing' = [closing EXCEPT ![s] = IF MustArm(s, counted) THEN "arming" ELSE "none"]
    /\ left' = IF counted THEN left ELSE left \cup {Owner[s]}
    /\ UNCHANGED <<socket, joining, grace, stayed>> /\ SocketFrame

(* zadd: a fresh grace, also over an entry that is already due.           *)
DisconnectArms(s) ==
    /\ closing[s] = "arming"
    /\ closing' = [closing EXCEPT ![s] = "none"]
    /\ grace' = [grace EXCEPT ![Owner[s]] = "running"]
    /\ UNCHANGED <<socket, joining, stayed, left>> /\ SocketFrame

(* handleJoinMatch awaits the budget and the match; then the player's     *)
(* entry goes, whatever has become of the connection meanwhile, and then  *)
(* the socket enters, if it is still there.                               *)
JoinAsks(s) ==
    /\ socket[s] \in {"on", "joined"} /\ joining[s] = "none"
    /\ joining' = [joining EXCEPT ![s] = "asked"]
    /\ UNCHANGED <<socket, closing, grace, stayed, left>> /\ SocketFrame

JoinClears(s) ==
    /\ joining[s] = "asked"
    /\ joining' = [joining EXCEPT ![s] = "cleared"]
    /\ grace' = [grace EXCEPT ![Owner[s]] = "none"]
    /\ UNCHANGED <<socket, closing, stayed, left>> /\ SocketFrame

JoinEnters(s) ==
    /\ joining[s] = "cleared"
    /\ joining' = [joining EXCEPT ![s] = "none"]
    /\ socket' = [socket EXCEPT ![s] = IF @ = "off" THEN @ ELSE "joined"]
    /\ UNCHANGED <<closing, grace, stayed, left>> /\ SocketFrame

GracePasses(p) ==
    /\ grace[p] = "running"
    /\ grace' = [grace EXCEPT ![p] = "due"]
    /\ UNCHANGED <<socket, closing, joining, stayed, left>> /\ SocketFrame
-----------------------------------------------------------------------------
(***************************************************************************)
(* The sweep. It starts every ten seconds, also while the one before it is *)
(* still at work.                                                          *)
(***************************************************************************)
SweepFrame == UNCHANGED <<socket, closing, joining, suspended, recovering, booting, restarts, left>>

ForfeitsAllowed == ~suspended

SweepReads(w) ==
    /\ sweep[w] = Idle /\ ForfeitsAllowed
    /\ \E p \in Players : grace[p] = "due"
    /\ sweep' = [sweep EXCEPT ![w].list = {p \in Players : grace[p] = "due"}]
    /\ stayed' = [stayed EXCEPT ![w] = {p \in Players : InRoom(p)}]
    /\ UNCHANGED <<grace, match, loser, pointer>> /\ SweepFrame

(* The entry is removed first; whoever removes it owns the decision.      *)
SweepTakes(w, p) ==
    /\ sweep[w].at = "idle" /\ p \in sweep[w].list
    /\ sweep' = [sweep EXCEPT ![w] =
                   [list |-> @.list \ {p},
                    entry |-> IF grace[p] = "none" THEN Nobody ELSE p,
                    at |-> IF grace[p] = "none" THEN "idle" ELSE "taken"]]
    /\ grace' = [grace EXCEPT ![p] = "none"]
    /\ UNCHANGED <<match, loser, pointer, stayed>> /\ SweepFrame

BackInTimeNever(p) == FALSE
BackInTime(p) == InRoom(p)

Drops(w) == sweep' = [sweep EXCEPT ![w].entry = Nobody, ![w].at = "idle"]

(* Has the player come back since?                                        *)
SweepLooks(w) ==
    /\ sweep[w].at = "taken"
    /\ IF BackInTime(sweep[w].entry) THEN Drops(w)
                                     ELSE sweep' = [sweep EXCEPT ![w].at = "absent"]
    /\ UNCHANGED <<grace, match, loser, pointer, stayed>> /\ SweepFrame

(* Is the match live, and does the opponent have an entry too?            *)
OpponentGone(p) == grace[Opponent(p)] # "none"

SweepJudges(w) ==
    /\ sweep[w].at = "absent"
    /\ IF match # "live"
       THEN Drops(w)
       ELSE sweep' = [sweep EXCEPT ![w].at = IF OpponentGone(sweep[w].entry) THEN "both"
                                                                            ELSE "forfeit"]
    /\ UNCHANGED <<grace, match, loser, pointer, stayed>> /\ SweepFrame

(* The opponent's entry goes too, if it is still there.                   *)
SweepTakesBoth(w) ==
    /\ sweep[w].at = "both"
    /\ sweep' = [sweep EXCEPT ![w].at = "draw"]
    /\ grace' = [grace EXCEPT ![Opponent(sweep[w].entry)] = "none"]
    /\ UNCHANGED <<match, loser, pointer, stayed>> /\ SweepFrame

Loses(t) == IF t.at = "forfeit" THEN t.entry ELSE Nobody

(* settleMatch claims a live match once; every other caller is told how   *)
(* it ended.                                                              *)
SweepSettles(w) ==
    /\ sweep[w].at \in {"draw", "forfeit"}
    /\ IF match = "live"
       THEN /\ match' = sweep[w].at
            /\ loser' = Loses(sweep[w])
       ELSE UNCHANGED <<match, loser>>
    /\ Drops(w)
    /\ UNCHANGED <<grace, pointer, stayed>> /\ SweepFrame

(* An error on the way, or a settlement whose retries run out: the sweep   *)
(* goes on with the next entry, and this one is already gone.              *)
EntryFails(w) ==
    /\ sweep[w].at # "idle" /\ match = "live"
    /\ Drops(w)
    /\ UNCHANGED <<grace, match, loser, pointer, stayed>> /\ SweepFrame

(* A move, a resignation or the turn's deadline ends the match.           *)
EndsElsewhere ==
    /\ match = "live"
    /\ match' = "elsewhere"
    /\ UNCHANGED <<grace, loser, pointer, sweep, stayed>> /\ SweepFrame

(* The clean-up after a settlement clears the players' pointers.          *)
CleanUp ==
    /\ match # "live" /\ pointer
    /\ pointer' = FALSE
    /\ UNCHANGED <<grace, match, loser, sweep, stayed>> /\ SweepFrame
-----------------------------------------------------------------------------
(***************************************************************************)
(* A restart: every connection and every handler is gone, Redis stays.     *)
(***************************************************************************)
Restart(suspend) ==
    /\ restarts < MaxRestarts
    /\ restarts' = restarts + 1
    /\ socket' = [s \in Sockets |-> "off"]
    /\ closing' = [s \in Sockets |-> "none"] /\ joining' = [s \in Sockets |-> "none"]
    /\ sweep' = [w \in Sweeps |-> Idle] /\ stayed' = [w \in Sweeps |-> {}] /\ left' = Players
    /\ suspended' = suspend
    /\ recovering' = TRUE /\ booting' = {}
    /\ UNCHANGED <<grace, match, loser, pointer>>

(* rearmPendingDisconnects: its turn comes when the live games are         *)
(* recovered; it writes the entries it has read, whatever has become of    *)
(* them, and a game whose state is gone loses its entry.                   *)
BootReads ==
    /\ recovering
    /\ recovering' = FALSE
    /\ booting' = {p \in Players : grace[p] # "none"}
    /\ UNCHANGED <<socket, closing, joining, grace, match, loser, pointer, sweep, suspended,
                   restarts, stayed, left>>

Rearm(p) ==
    /\ p \in booting
    /\ booting' = booting \ {p}
    /\ grace' = [grace EXCEPT ![p] = IF pointer THEN "running" ELSE "none"]
    /\ UNCHANGED <<socket, closing, joining, match, loser, pointer, sweep, suspended, recovering,
                   restarts, stayed, left>>
-----------------------------------------------------------------------------
Next ==
    \/ \E s \in Sockets : \/ Connect(s) \/ Attach(s) \/ Disconnect(s)
                          \/ (\E counted \in BOOLEAN : DisconnectLooks(s, counted))
                          \/ DisconnectArms(s)
                          \/ JoinAsks(s) \/ JoinClears(s) \/ JoinEnters(s)
    \/ \E p \in Players : GracePasses(p) \/ Rearm(p)
    \/ \E w \in Sweeps : \/ SweepReads(w) \/ (\E p \in Players : SweepTakes(w, p))
                         \/ SweepLooks(w) \/ SweepJudges(w) \/ SweepTakesBoth(w)
                         \/ SweepSettles(w) \/ EntryFails(w)
    \/ EndsElsewhere \/ CleanUp \/ BootReads
    \/ \E suspend \in BOOLEAN : Restart(suspend)

(* Handlers run to their end, time passes, and the sweep comes every ten   *)
(* seconds.                                                                *)
Fairness ==
    /\ \A s \in Sockets :
          /\ WF_vars(\E counted \in BOOLEAN : DisconnectLooks(s, counted))
          /\ WF_vars(DisconnectArms(s)) /\ WF_vars(JoinClears(s)) /\ WF_vars(JoinEnters(s))
    /\ \A p \in Players : WF_vars(GracePasses(p)) /\ WF_vars(Rearm(p))
    /\ \A w \in Sweeps :
          /\ WF_vars(SweepReads(w)) /\ WF_vars(\E p \in Players : SweepTakes(w, p))
          /\ WF_vars(SweepLooks(w)) /\ WF_vars(SweepJudges(w))
          /\ WF_vars(SweepTakesBoth(w)) /\ WF_vars(SweepSettles(w))
    /\ WF_vars(BootReads)

Spec == Init /\ [][Next]_vars /\ Fairness
-----------------------------------------------------------------------------
(* The types of the state. *)
TypeOK ==
    /\ socket \in [Sockets -> {"off", "new", "on", "joined"}]
    /\ closing \in [Sockets -> {"none", "started", "arming"}]
    /\ joining \in [Sockets -> {"none", "asked", "cleared"}]
    /\ grace \in [Players -> {"none", "running", "due"}]
    /\ match \in {"live", "forfeit", "draw", "elsewhere"}
    /\ loser \in Players \cup {Nobody} /\ (match = "forfeit" <=> loser # Nobody)
    /\ sweep \in [Sweeps -> [list : SUBSET Players, entry : Players \cup {Nobody},
                            at : {"idle", "taken", "absent", "both", "draw", "forfeit"}]]
    /\ \A w \in Sweeps : sweep[w].at = "idle" <=> sweep[w].entry = Nobody
    /\ pointer \in BOOLEAN /\ suspended \in BOOLEAN /\ recovering \in BOOLEAN
    /\ restarts \in 0 .. MaxRestarts
    /\ booting \subseteq Players /\ stayed \in [Sweeps -> SUBSET Players] /\ left \subseteq Players

(* An entry can be armed for a player who is back already: the handler     *)
(* looked before the return, and wrote after it; so may the boot. Even so  *)
(* a player who has been in the room since a sweep read its list is not    *)
(* forfeited by that sweep, whatever the one beside it does.               *)
StayersAreNotForfeited ==
    [][\A w \in Sweeps :
         match = "live" /\ match' = "forfeit" /\ sweep[w].at = "forfeit" /\ sweep'[w].at = "idle"
         => loser' \notin stayed[w]]_vars

(* A match is drawn, or a player forfeited, only after the players it is   *)
(* held against have been without a connection, or lost one when the rest  *)
(* could not be counted; one that never connected at all is left to the    *)
(* turn's deadline.                                                        *)
OnlyForThoseWhoLeft ==
    /\ match = "forfeit" => loser \in left
    /\ match = "draw" => left = Players
    /\ \A p \in Players : grace[p] # "none" => p \in left

(* The state is typed, and absence is what players are called away for. *)
PresenceInv == TypeOK /\ OnlyForThoseWhoLeft

(* A match whose player has gone for good ends. *)
AbandonedMatchesEnd ==
    \A p \in Players :
        (grace[p] # "none" /\ [](~Connected(p) /\ ~suspended)) ~> match # "live"

(* gameRecovery.js:177 says that every pending entry gets a fresh grace     *)
(* after a restart, so that the outage forfeits nobody: while the recovery  *)
(* has entries to arm, no absence decides the match. The code does not wait *)
(* for the recovery before it starts the sweep.                             *)
RestartsGiveAGrace ==
    [][match = "live" /\ match' \in {"forfeit", "draw"} => ~recovering /\ booting = {}]_vars

(* disconnectSweep.js:69 says that two absent players get a draw, not an    *)
(* arbitrary forfeit: no two sweeps are about to forfeit one of them each.  *)
(* Sweeps that overlap can take one entry each and then miss the other's.   *)
BothAbsentAreDrawn ==
    \A v, w \in Sweeps :
        sweep[v].at = "forfeit" /\ sweep[w].at = "forfeit" => sweep[v].entry = sweep[w].entry
=============================================================================

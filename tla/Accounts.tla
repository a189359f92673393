------------------------------ MODULE Accounts ------------------------------
(***************************************************************************)
(* One player's account: registration, login, the rotation of refresh      *)
(* tokens, logout, ban and the sockets of the account                      *)
(* (modules/auth/service.js, sockets/middleware.js, sockets/index.js).      *)
(*                                                                          *)
(* A refresh token lives in two stores that no transaction joins: a Redis   *)
(* key that makes it usable and a UserSession row that remembers it.  Every *)
(* await of a handler is a step of its own, so handlers interleave between  *)
(* the two stores; a handler may die at any of them.                        *)
(***************************************************************************)
EXTENDS Naturals, FiniteSets, FiniteSetsExt

CONSTANTS Requests,      \* slots of concurrent HTTP requests of the account
          Admin,         \* the slot of the administrator (bans are one at a time)
          MaxTokens,     \* bound: refresh tokens issued in a behaviour
          Sockets,
          MaxSockets     \* MAX_SOCKETS_PER_USER

ASSUME AccountsAssumption ==
    /\ Admin \notin Requests
    /\ MaxTokens \in Nat /\ MaxSockets \in Nat
    /\ IsFiniteSet(Sockets) /\ Sockets \cap (1 .. MaxTokens) = {}

Tokens == 1 .. MaxTokens
NoToken == 0
Actors == Requests \cup {Admin}

VARIABLES
    account,    \* the User row exists
    banned,     \* User.isBanned
    binding,    \* the geo binding is still in Redis (bound: one is minted)
    keys,       \* refresh:{user}:{token} keys in Redis
    rows,       \* UserSession.status by token
    family,     \* UserSession.family by token: its first token
    job,        \* what each handler is doing
    socket,     \* state of each socket
    parent,     \* history: the token a token was rotated from
    strays      \* history: tokens issued, and handshakes let in, by what was under way at the ban

vars == <<account, banned, binding, keys, rows, family, job, socket, parent, strays>>
stores == <<keys, rows, family, parent>>

(* early: history, the handler was already running when the ban was set.     *)
Idle == [pc |-> "idle", token |-> NoToken, scanned |-> {}, early |-> FALSE]
At(a, pc) == job[a].pc = pc
Goes(a, pc) == job' = [job EXCEPT ![a].pc = pc]
Forgets(a, pc) == job' = [job EXCEPT ![a] = [Idle EXCEPT !.pc = pc, !.early = job[a].early]]
Ends(a) == job' = [job EXCEPT ![a] = Idle]
Starts(a, pc, t) == At(a, "idle") /\ job' = [job EXCEPT ![a] = [Idle EXCEPT !.pc = pc, !.token = t]]

(* Tokens a client may present: those whose row was written, after which the *)
(* answer is sent (a client that lost the answer presents nothing).          *)
Held == {t \in Tokens : rows[t] # "NONE"}
Issued == {t \in Tokens : family[t] # NoToken}
Live == {s \in Sockets : socket[s] \in {"joined", "on", "uncounted"}}
DroppedAccepted == [s \in Sockets |-> IF socket[s] = "joined" THEN "joined" ELSE "off"]   \* mutant
Dropped == [s \in Sockets |-> IF s \in Live THEN "off" ELSE socket[s]]

-----------------------------------------------------------------------------
(* POST /auth/register: the geo binding is read, then deleted; the unique   *)
(* e-mail lets one registration create the account, which is then logged in.*)
BindingRead(r) ==
    /\ binding /\ Starts(r, "unbind", NoToken)
    /\ UNCHANGED <<account, banned, binding, stores, socket, strays>>

BindingDeleted(r) ==
    /\ At(r, "unbind") /\ binding' = FALSE /\ Goes(r, "create")
    /\ UNCHANGED <<account, banned, stores, socket, strays>>

UserCreated(r) ==
    /\ At(r, "create")
    /\ IF account THEN Ends(r) ELSE Goes(r, "mint")
    /\ account' = TRUE
    /\ UNCHANGED <<banned, binding, stores, socket, strays>>

Register(r) == BindingRead(r) \/ BindingDeleted(r) \/ UserCreated(r)

(* POST /auth/login with the right password.                                *)
Login(r) ==
    /\ account /\ ~banned /\ Starts(r, "mint", NoToken)
    /\ UNCHANGED <<account, banned, binding, stores, socket, strays>>

(* issueTokens: the Redis key first, the session row second; the family of  *)
(* a rotated token is carried on.                                           *)
IssueKey(r) ==
    /\ At(r, "mint") /\ Issued # Tokens
    /\ LET t == Min(Tokens \ Issued)
           old == job[r].token
       IN  /\ keys' = keys \cup {t}
           /\ family' = [family EXCEPT ![t] = IF old = NoToken THEN t ELSE family[old]]
           /\ parent' = [parent EXCEPT ![t] = old]
           /\ job' = [job EXCEPT ![r].pc = "row", ![r].token = t]
           /\ strays' = IF banned /\ job[r].early THEN strays \cup {t} ELSE strays
    /\ UNCHANGED <<account, banned, binding, rows, socket>>

IssueRow(r) ==
    /\ At(r, "row")
    /\ rows' = [rows EXCEPT ![job[r].token] = "ACTIVE"]
    /\ Ends(r)
    /\ UNCHANGED <<account, banned, binding, keys, family, socket, parent, strays>>

-----------------------------------------------------------------------------
(* POST /auth/refresh.  A row that is no longer ACTIVE means a replay, and   *)
(* every session is revoked; otherwise the key is consumed atomically, the   *)
(* ban is looked up, and the old row is superseded before the next token is  *)
(* issued.                                                                   *)
IsReplay(t) == rows[t] # "ACTIVE"

RefreshReads(r, t) ==
    /\ t \in Held
    /\ IF IsReplay(t) THEN Starts(r, "scan", NoToken) ELSE Starts(r, "consume", t)
    /\ UNCHANGED <<account, banned, binding, stores, socket, strays>>

ConsumedLater(ks, t) == ks              \* mutant: GET without the DEL of ROTATE_SCRIPT
Consumed(ks, t) == ks \ {t}

Consume(r) ==
    /\ At(r, "consume")
    /\ keys' = Consumed(keys, job[r].token)
    /\ Goes(r, IF job[r].token \in keys THEN "check" ELSE "expire")
    /\ UNCHANGED <<account, banned, binding, rows, family, socket, parent, strays>>

Expire(r) ==
    /\ At(r, "expire")
    /\ rows' = [rows EXCEPT ![job[r].token] = "EXPIRED"]
    /\ Ends(r)
    /\ UNCHANGED <<account, banned, binding, keys, family, socket, parent, strays>>

MayMintBanned == TRUE                   \* mutant: refresh without the look at isBanned
MayMint == ~banned

CheckBan(r) ==
    /\ At(r, "check")
    /\ IF MayMint THEN Goes(r, "supersede") ELSE Ends(r)
    /\ UNCHANGED <<account, banned, binding, stores, socket, strays>>

Superseded(rs, t) == [rs EXCEPT ![t] = "REVOKED"]

Supersede(r) ==
    /\ At(r, "supersede")
    /\ rows' = Superseded(rows, job[r].token)
    /\ Goes(r, "mint")
    /\ UNCHANGED <<account, banned, binding, keys, family, socket, parent, strays>>

Refresh(r) == (\E t \in Tokens : RefreshReads(r, t)) \/ Consume(r) \/ Expire(r) \/ CheckBan(r) \/ Supersede(r)

-----------------------------------------------------------------------------
(* revokeAllRefreshTokens: scan the keys, delete what was found, then the    *)
(* rows.  Run by a replay and by a ban.                                      *)
ScanKeys(a) ==
    /\ At(a, "scan")
    /\ job' = [job EXCEPT ![a].pc = "del", ![a].scanned = keys]
    /\ UNCHANGED <<account, banned, binding, stores, socket, strays>>

DeleteKeys(a) ==
    /\ At(a, "del")
    /\ keys' = keys \ job[a].scanned
    /\ Forgets(a, "rows")
    /\ UNCHANGED <<account, banned, binding, rows, family, socket, parent, strays>>

RevokedRow(st) == IF st \in {"ACTIVE", "EXPIRED"} THEN "REVOKED" ELSE st

RevokeRows(a) ==
    /\ At(a, "rows")
    /\ rows' = [t \in Tokens |-> RevokedRow(rows[t])]
    /\ IF a = Admin THEN Goes(a, "drop") ELSE Ends(a)
    /\ UNCHANGED <<account, banned, binding, keys, family, socket, parent, strays>>

RevokeAll(a) == ScanKeys(a) \/ DeleteKeys(a) \/ RevokeRows(a)

(* requireAuth reads isBanned of the token's user at every request.          *)
Authorised == ~banned

(* POST /auth/logout: key, row, then every live socket of the account.       *)
LogoutKey(r, t) ==
    /\ Authorised /\ t \in Held /\ Starts(r, "logout", t)
    /\ keys' = keys \ {t}
    /\ UNCHANGED <<account, banned, binding, rows, family, socket, parent, strays>>

LogoutRow(r) ==
    /\ At(r, "logout")
    /\ rows' = [rows EXCEPT ![job[r].token] = "REVOKED"]
    /\ Forgets(r, "drop")
    /\ UNCHANGED <<account, banned, binding, keys, family, socket, parent, strays>>

(* disconnectSockets, at the end of a logout and of a ban.                   *)
DropSockets(a) ==
    /\ At(a, "drop")
    /\ socket' = Dropped
    /\ IF a = Admin THEN Goes(a, "banned") ELSE Ends(a)
    /\ UNCHANGED <<account, banned, binding, stores, strays>>

Logout(r) == (\E t \in Tokens : LogoutKey(r, t)) \/ LogoutRow(r)

-----------------------------------------------------------------------------
(* PATCH /admin/users/:id/ban and /unban: setAccountStatus raises the flag   *)
(* first and revokes second.                                                 *)
Ban ==
    /\ account /\ ~banned /\ At(Admin, "idle")
    /\ banned' = TRUE
    /\ job' = [a \in Actors |-> IF a = Admin THEN [Idle EXCEPT !.pc = "scan"]
                                ELSE [job[a] EXCEPT !.early = ~At(a, "idle")]]
    /\ strays' = {s \in Sockets : socket[s] = "checked"}
    /\ UNCHANGED <<account, binding, stores, socket>>

Unban ==
    /\ At(Admin, "banned") /\ Ends(Admin)
    /\ banned' = FALSE /\ strays' = {}
    /\ UNCHANGED <<account, binding, stores, socket>>

(* A key runs out or is evicted; a handler fails or its process dies.        *)
KeyIsLost(t) ==
    /\ t \in keys /\ keys' = keys \ {t}
    /\ UNCHANGED <<account, banned, binding, rows, family, job, socket, parent, strays>>

RequestDies(r) ==
    /\ ~At(r, "idle") /\ Ends(r)
    /\ UNCHANGED <<account, banned, binding, stores, socket, strays>>

-----------------------------------------------------------------------------
(* socketAuthMiddleware, then io.on('connection'): join the user's room,     *)
(* count it, keep or close the socket.                                       *)
Handshake(s) ==
    /\ account /\ ~banned /\ socket[s] = "off"
    /\ socket' = [socket EXCEPT ![s] = "checked"]
    /\ UNCHANGED <<account, banned, binding, stores, job, strays>>

JoinRoom(s) ==
    /\ socket[s] = "checked"
    /\ socket' = [socket EXCEPT ![s] = "joined"]
    /\ UNCHANGED <<account, banned, binding, stores, job, strays>>

WithinQuotaOfOthers(s) ==               \* mutant: the room is counted before it is joined
    Cardinality(Live \ {s}) <= MaxSockets
WithinQuota(s) == Cardinality(Live) <= MaxSockets

CountRoom(s) ==
    /\ socket[s] = "joined"
    /\ socket' = [socket EXCEPT ![s] = IF WithinQuota(s) THEN "on" ELSE "off"]
    /\ UNCHANGED <<account, banned, binding, stores, job, strays>>

(* The room cannot be counted: the error is logged, the socket admitted.     *)
CountFails(s) ==
    /\ socket[s] = "joined"
    /\ socket' = [socket EXCEPT ![s] = "uncounted"]
    /\ UNCHANGED <<account, banned, binding, stores, job, strays>>

(* The client leaves, or guardSocketHandler finds the access token expired.  *)
SocketCloses(s) ==
    /\ socket[s] # "off"
    /\ socket' = [socket EXCEPT ![s] = "off"]
    /\ strays' = strays \ {s}
    /\ UNCHANGED <<account, banned, binding, stores, job>>

Connection(s) == Handshake(s) \/ JoinRoom(s) \/ CountRoom(s) \/ CountFails(s) \/ SocketCloses(s)

-----------------------------------------------------------------------------
Init ==
    /\ account = FALSE /\ banned = FALSE
    /\ binding = TRUE
    /\ keys = {}
    /\ rows = [t \in Tokens |-> "NONE"]
    /\ family = [t \in Tokens |-> NoToken] /\ parent = [t \in Tokens |-> NoToken]
    /\ job = [a \in Actors |-> Idle]
    /\ socket = [s \in Sockets |-> "off"]
    /\ strays = {}

Next ==
    \/ \E r \in Requests :
          \/ Register(r) \/ Login(r) \/ IssueKey(r) \/ IssueRow(r) \/ Refresh(r)
          \/ Logout(r) \/ RequestDies(r)
    \/ \E a \in Actors : RevokeAll(a) \/ DropSockets(a)
    \/ Ban \/ Unban
    \/ \E t \in Tokens : KeyIsLost(t)
    \/ \E s \in Sockets : Connection(s)

Spec == Init /\ [][Next]_vars

-----------------------------------------------------------------------------
(* Types; a token has a row only once it was issued.                         *)
TypeOK ==
    /\ account \in BOOLEAN /\ banned \in BOOLEAN /\ binding \in BOOLEAN
    /\ keys \subseteq Issued
    /\ rows \in [Tokens -> {"NONE", "ACTIVE", "REVOKED", "EXPIRED"}]
    /\ \A t \in Tokens : rows[t] # "NONE" => t \in Issued
    /\ family \in [Tokens -> Tokens \cup {NoToken}] /\ parent \in [Tokens -> Tokens \cup {NoToken}]
    /\ \A a \in Actors : /\ job[a].token \in Tokens \cup {NoToken} /\ job[a].scanned \subseteq Tokens
                         /\ job[a].pc \in {"idle", "unbind", "create", "mint", "row", "consume", "expire",
                                           "check", "supersede", "scan", "del", "rows", "logout", "drop", "banned"}
    /\ socket \in [Sockets -> {"off", "checked", "joined", "on", "uncounted"}]
    /\ strays \subseteq Tokens \cup Sockets

(* A family of tokens is a chain, never a tree: it has one usable token or   *)
(* one rotation in progress, however many requests present its tokens at     *)
(* once (service.js: "exactly one concurrent caller wins per token").        *)
Rotating(r, f) ==
    job[r].pc \in {"check", "supersede", "mint"} /\ job[r].token # NoToken /\ family[job[r].token] = f

OneLiveTokenPerFamily ==
    \A f \in Tokens :
        Cardinality({t \in keys : family[t] = f}) + Cardinality({r \in Requests : Rotating(r, f)}) <= 1

(* A token that has a successor is spent in both stores: presenting it again *)
(* is always recognised as a replay, whatever happened in between.           *)
RotatedTokensAreSpent ==
    \A t \in Tokens : (\E n \in Tokens : parent[n] = t) => t \notin keys /\ IsReplay(t)

(* The state is typed, a family has one usable token, and a rotated one is    *)
(* known as spent.                                                           *)
TokensInv == TypeOK /\ OneLiveTokenPerFamily /\ RotatedTokensAreSpent

(* Once a ban has run its course, all that is left of the account's access   *)
(* is what requests and handshakes already under way at the ban made         *)
(* afterwards: nothing that existed before, nothing begun since.             *)
BanLeavesOnlyStragglers ==
    banned /\ At(Admin, "banned") => keys \subseteq strays /\ Live \subseteq strays

(* Handlers that start during a ban issue nothing (service.js: "A banned or  *)
(* deleted account must never mint a fresh access token").                   *)
BannedStartsNothing ==
    banned => \A r \in Requests : job[r].pc \in {"mint", "row"} => job[r].early

(* No more sockets of one account are accepted than the quota allows, though *)
(* each of them joins the room before it counts it. Those that are admitted  *)
(* because the count failed come on top, and are counted by the others.      *)
SocketQuota == Cardinality({s \in Sockets : socket[s] = "on"}) <= MaxSockets
=============================================================================

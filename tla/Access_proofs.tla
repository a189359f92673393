--------------------------- MODULE Access_proofs ---------------------------
(* Theorems about who is let in.  First an account, for every number of     *)
(* concurrent requests, tokens and sockets; then identity verification and  *)
(* the administrator's gate, for every number of attempts, cases and        *)
(* requests.                                                                *)
EXTENDS Accounts, AdminConsole, FiniteSetTheorems, WellFoundedInduction, TLAPS

Pcs == {"idle", "unbind", "create", "mint", "row", "consume", "expire", "check", "supersede",
        "scan", "del", "rows", "logout", "drop", "banned"}
Job == [pc : Pcs, token : Tokens \cup {NoToken}, scanned : SUBSET Tokens, early : BOOLEAN]
Typed == TypeOK /\ job \in [Actors -> Job]

(* Parents and families are tokens that were issued.                        *)
TokensHaveFamilies ==
    \A t \in Tokens :
        /\ family[t] = NoToken => parent[t] = NoToken
        /\ family[t] # NoToken => family[family[t]] # NoToken
        /\ parent[t] # NoToken => parent[t] \in Held

(* A new token has one writer, and no row before it is written.             *)
WritersAreAlone ==
    \A q \in Actors : At(q, "row") =>
        /\ job[q].token \in Issued /\ rows[job[q].token] = "NONE"
        /\ \A r \in Actors : At(r, "row") /\ job[r].token = job[q].token => r = q

(* What a handler has in hand: a token that was held, and from the moment   *)
(* it is consumed on is in no store to be used again.                       *)
HandlersHoldTokens ==
    \A q \in Actors :
        /\ job[q].pc \in {"unbind", "create"} => job[q].token = NoToken
        /\ job[q].pc \in {"consume", "check", "expire", "supersede", "logout"} => job[q].token \in Held
        /\ job[q].pc \in {"check", "supersede"} => job[q].token \notin keys
        /\ At(q, "mint") /\ job[q].token # NoToken =>
              job[q].token \in Held /\ job[q].token \notin keys /\ IsReplay(job[q].token)

(* OneLiveTokenPerFamily without its cardinalities.                         *)
OneInUse ==
    \A f \in Tokens :
        /\ \A t, u \in keys : family[t] = f /\ family[u] = f => t = u
        /\ \A q, r \in Requests : Rotating(q, f) /\ Rotating(r, f) => q = r
        /\ \A t \in keys, r \in Requests : family[t] = f => ~Rotating(r, f)

RInv ==
    /\ Typed
    /\ TokensHaveFamilies
    /\ WritersAreAlone
    /\ HandlersHoldTokens
    /\ RotatedTokensAreSpent
    /\ OneInUse

-----------------------------------------------------------------------------
LEMMA LeastIsFresh == ASSUME Issued # Tokens PROVE Min(Tokens \ Issued) \in Tokens \ Issued
<1> DEFINE S == Tokens \ Issued
           Less == {ss \in Nat \X Nat : ss[1] < ss[2]}
<1>1. IsWellFoundedOn(Less, Nat)
  BY NatLessThanWellFounded, Zenon DEF OpToRel
<1>2. S \subseteq Nat /\ S # {}
  BY AccountsAssumption DEF Tokens, Issued
<1> HIDE DEF Less, S
<1>3. PICK x \in S : \A y \in S : ~ (<<y, x>> \in Less)
  BY <1>1, <1>2, WFMin
<1>4. ASSUME NEW y \in S PROVE x =< y
  <2>1. x \in Nat /\ y \in Nat /\ <<y, x>> \notin Less
    BY <1>2, <1>3
  <2>2. ~(y < x)
    BY <2>1 DEF Less
  <2>3. QED
    BY <2>1, <2>2
<1>5. Min(S) \in S
  BY <1>4 DEF Min
<1>6. QED
  BY <1>5 DEF S

LEMMA TokensAreTyped == Tokens \subseteq Nat /\ NoToken \notin Tokens /\ Admin \in Actors
                        /\ Requests \subseteq Actors
  BY AccountsAssumption DEF Tokens, NoToken, Actors

LEMMA InitiallyRInv == Init => RInv
<1> SUFFICES ASSUME Init PROVE RInv
  OBVIOUS
<1> USE DEF Init, Idle
<1>1. Typed
  BY TokensAreTyped DEF Typed, TypeOK, Job, Pcs, Issued
<1>2. TokensHaveFamilies /\ RotatedTokensAreSpent
  BY TokensAreTyped DEF TokensHaveFamilies, RotatedTokensAreSpent
<1>3. WritersAreAlone /\ HandlersHoldTokens
  BY DEF WritersAreAlone, HandlersHoldTokens, At
<1>4. OneInUse
  BY TokensAreTyped DEF OneInUse, Rotating
<1>5. QED
  BY <1>1, <1>2, <1>3, <1>4 DEF RInv

-----------------------------------------------------------------------------
(* Steps that touch no store. *)
Quiet(a) ==
    \/ \E r \in Requests : BindingRead(r) \/ BindingDeleted(r) \/ UserCreated(r) \/ Login(r)
                           \/ (\E t \in Tokens : RefreshReads(r, t)) \/ CheckBan(r) \/ RequestDies(r)
    \/ ScanKeys(a) \/ DropSockets(a) \/ Ban \/ Unban
    \/ \E s \in Sockets : Connection(s)

(* Where a handler goes in a step that puts no token into circulation.      *)
QuietMove(q) ==
    \/ job'[q].pc = job[q].pc /\ job'[q].token = job[q].token
    \/ job'[q].pc \in {"idle", "scan", "del", "rows", "drop", "banned"}
    \/ job'[q].pc \in {"unbind", "create", "mint"} /\ job'[q].token = NoToken
    \/ job'[q].pc \in {"consume", "logout"} /\ job'[q].token \in Held
    \/ job[q].pc = "check" /\ job'[q].pc = "supersede" /\ job'[q].token = job[q].token
    \/ /\ job[q].pc = "supersede" /\ job'[q].pc = "mint" /\ job'[q].token = job[q].token
       /\ IsReplay(job[q].token)'

(* What a handler's step does to the list of handlers. *)
Others(a) == \A q \in Actors \ {a} : job'[q] = job[q]

LEMMA JobChanges ==
    ASSUME job \in [Actors -> Job], NEW a \in Actors, NEW j \in Job, job' = [job EXCEPT ![a] = j]
    PROVE  job' \in [Actors -> Job] /\ job'[a] = j /\ Others(a)
  BY DEF Others

LEMMA JobGoes ==
    ASSUME job \in [Actors -> Job], NEW a \in Actors, NEW pc \in Pcs, Goes(a, pc)
    PROVE  /\ job' \in [Actors -> Job] /\ Others(a)
           /\ job'[a].pc = pc /\ job'[a].token = job[a].token
           /\ job'[a].early = job[a].early /\ job'[a].scanned = job[a].scanned
<1> DEFINE j == [job[a] EXCEPT !.pc = pc]
<1>1. /\ j \in Job
      /\ j.pc = pc /\ j.token = job[a].token /\ j.early = job[a].early /\ j.scanned = job[a].scanned
  BY DEF Job
<1>2. job' = [job EXCEPT ![a] = j]
  BY DEF Goes
<1> HIDE DEF j
<1>3. QED
  BY <1>1, <1>2, JobChanges

LEMMA JobForgets ==
    ASSUME job \in [Actors -> Job], NEW a \in Actors, NEW pc \in Pcs, Forgets(a, pc)
    PROVE  /\ job' \in [Actors -> Job] /\ Others(a)
           /\ job'[a].pc = pc /\ job'[a].token = NoToken /\ job'[a].early = job[a].early
<1> DEFINE j == [Idle EXCEPT !.pc = pc, !.early = job[a].early]
<1>1. j \in Job /\ j.pc = pc /\ j.token = NoToken /\ j.early = job[a].early
  BY DEF Idle, Job, Pcs
<1>2. job' = [job EXCEPT ![a] = j]
  BY DEF Forgets
<1> HIDE DEF j
<1>3. QED
  BY <1>1, <1>2, JobChanges

LEMMA JobEnds ==
    ASSUME job \in [Actors -> Job], NEW a \in Actors, Ends(a)
    PROVE  job' \in [Actors -> Job] /\ Others(a) /\ job'[a].pc = "idle"
<1>1. Idle \in Job /\ Idle.pc = "idle"
  BY DEF Idle, Job, Pcs
<1>2. QED
  BY <1>1, JobChanges DEF Ends

LEMMA JobStarts ==
    ASSUME job \in [Actors -> Job], NEW a \in Actors, NEW pc \in Pcs,
           NEW t \in Tokens \cup {NoToken}, Starts(a, pc, t)
    PROVE  /\ job' \in [Actors -> Job] /\ Others(a)
           /\ job'[a].pc = pc /\ job'[a].token = t /\ job'[a].early = FALSE
           /\ job[a].pc = "idle"
<1> DEFINE j == [Idle EXCEPT !.pc = pc, !.token = t]
<1>1. j \in Job /\ j.pc = pc /\ j.token = t /\ j.early = FALSE
  BY DEF Idle, Job, Pcs
<1>2. job' = [job EXCEPT ![a] = j] /\ job[a].pc = "idle"
  BY DEF Starts, At
<1> HIDE DEF j
<1>3. QED
  BY <1>1, <1>2, JobChanges

LEMMA QuietSteps ==
    ASSUME RInv, NEW a \in Actors, Quiet(a)
    PROVE  Typed' /\ UNCHANGED stores /\ \A q \in Actors : QuietMove(q)
<1> DEFINE Goal == job' \in [Actors -> Job] /\ \A q \in Actors : QuietMove(q)
<1>0. job \in [Actors -> Job] /\ Requests \subseteq Actors /\ Admin \in Actors
  BY TokensAreTyped DEF RInv, Typed
<1>a. \A q \in Actors : job[q].pc \in {"unbind", "create"} => job[q].token = NoToken
  BY DEF RInv, HandlersHoldTokens
<1>b. ASSUME NEW r \in Requests, QuietMove(r), Others(r) PROVE \A q \in Actors : QuietMove(q)
  BY <1>b DEF Others, QuietMove
<1>1. ASSUME NEW r \in Requests PROVE BindingRead(r) => Goal
  BY <1>0, <1>b, JobStarts DEF BindingRead, QuietMove, Pcs
<1>2. ASSUME NEW r \in Requests PROVE BindingDeleted(r) => Goal
  BY <1>0, <1>a, <1>b, JobGoes DEF BindingDeleted, QuietMove, Pcs, At
<1>3. ASSUME NEW r \in Requests PROVE UserCreated(r) => Goal
  BY <1>0, <1>a, <1>b, JobGoes, JobEnds DEF UserCreated, QuietMove, Pcs, At
<1>4. ASSUME NEW r \in Requests PROVE Login(r) => Goal
  BY <1>0, <1>b, JobStarts DEF Login, QuietMove, Pcs
<1>5. ASSUME NEW r \in Requests PROVE (\E t \in Tokens : RefreshReads(r, t)) => Goal
  <2> SUFFICES ASSUME NEW t \in Tokens, RefreshReads(r, t) PROVE Goal
    OBVIOUS
  <2>1. t \in Held /\ (Starts(r, "scan", NoToken) \/ Starts(r, "consume", t))
    BY DEF RefreshReads
  <2>2. CASE Starts(r, "scan", NoToken)
    BY <1>0, <1>b, <2>2, JobStarts DEF QuietMove, Pcs
  <2>3. CASE Starts(r, "consume", t)
    <3>1. /\ job' \in [Actors -> Job] /\ Others(r)
          /\ job'[r].pc = "consume" /\ job'[r].token = t
      BY <1>0, <2>3, JobStarts DEF Pcs
    <3>2. QuietMove(r)
      BY <2>1, <3>1 DEF QuietMove
    <3>3. QED
      BY <1>b, <3>1, <3>2
  <2>4. QED
    BY <2>1, <2>2, <2>3
<1>6. ASSUME NEW r \in Requests PROVE CheckBan(r) => Goal
  BY <1>0, <1>b, JobGoes, JobEnds DEF CheckBan, QuietMove, Pcs, At
<1>7. ASSUME NEW r \in Requests PROVE RequestDies(r) => Goal
  BY <1>0, <1>b, JobEnds DEF RequestDies, QuietMove
<1>8. ScanKeys(a) => Goal
  <2> SUFFICES ASSUME ScanKeys(a) PROVE Goal
    OBVIOUS
  <2>1. keys \in SUBSET Tokens
    BY DEF RInv, Typed, TypeOK, Issued
  <2>2. [job[a] EXCEPT !.pc = "del", !.scanned = keys] \in Job
    BY <1>0, <2>1 DEF Job, Pcs
  <2>3. QED
    BY <1>0, <2>2 DEF ScanKeys, QuietMove, Job
<1>9. DropSockets(a) => Goal
  BY <1>0, JobGoes, JobEnds DEF DropSockets, QuietMove, Others, Pcs
<1>10. Ban => Goal
  <2> SUFFICES ASSUME Ban PROVE Goal
    OBVIOUS
  <2>1. \A q \in Actors : [job[q] EXCEPT !.early = ~At(q, "idle")] \in Job
    BY <1>0 DEF Job, At
  <2>2. [Idle EXCEPT !.pc = "scan"] \in Job
    BY DEF Idle, Job, Pcs
  <2>3. QED
    BY <1>0, <2>1, <2>2 DEF Ban, QuietMove, Job
<1>11. Unban => Goal
  BY <1>0, JobEnds DEF Unban, QuietMove, Others
<1>12. ASSUME NEW s \in Sockets PROVE Connection(s) => Goal
  BY <1>0 DEF Connection, Handshake, JoinRoom, CountRoom, CountFails, SocketCloses, QuietMove
<1>13. Goal
  BY <1>1, <1>2, <1>3, <1>4, <1>5, <1>6, <1>7, <1>8, <1>9, <1>10, <1>11, <1>12 DEF Quiet
<1>14. UNCHANGED stores
  BY DEF Quiet, stores, BindingRead, BindingDeleted, UserCreated, Login, RefreshReads, CheckBan, RequestDies,
         ScanKeys, DropSockets, Ban, Unban, Connection, Handshake, JoinRoom, CountRoom, CountFails, SocketCloses
<1>15. /\ account' \in BOOLEAN /\ banned' \in BOOLEAN /\ binding' \in BOOLEAN
       /\ socket' \in [Sockets -> {"off", "checked", "joined", "on", "uncounted"}]
       /\ strays' \subseteq Tokens \cup Sockets
  BY DEF Quiet, BindingRead, BindingDeleted, UserCreated, Login, RefreshReads, CheckBan, RequestDies,
         ScanKeys, DropSockets, Dropped, Ban, Unban, Connection, Handshake, JoinRoom, CountRoom, CountFails, SocketCloses,
         RInv, Typed, TypeOK
<1>16. TypeOK'
  BY <1>13, <1>14, <1>15 DEF stores, RInv, Typed, TypeOK, Issued, Job, Pcs
<1>17. QED
  BY <1>13, <1>14, <1>16 DEF Typed

(* Tokens may be lost from the one store and spent in the other. *)
LEMMA SpendingKeepsRInv ==
    ASSUME RInv, Typed', keys' \subseteq keys, UNCHANGED <<family, parent>>,
           \A t \in Tokens : rows'[t] = rows[t] \/ (t \in Held /\ rows'[t] \in {"REVOKED", "EXPIRED"}),
           \A q \in Actors : QuietMove(q)
    PROVE  RInv'
<1>1. Held' = Held /\ Issued' = Issued /\ \A t \in Tokens : IsReplay(t) => IsReplay(t)'
  BY DEF Held, Issued, IsReplay
<1>2. TokensHaveFamilies' /\ RotatedTokensAreSpent'
  BY <1>1 DEF RInv, TokensHaveFamilies, RotatedTokensAreSpent
<1>3. WritersAreAlone'
  <2>1. \A t \in Tokens : rows[t] = "NONE" => rows'[t] = "NONE"
    BY DEF Held
  <2>2. \A q \in Actors : At(q, "row")' => At(q, "row") /\ job'[q].token = job[q].token
    BY DEF QuietMove, At
  <2>3. QED
    BY <1>1, <2>1, <2>2 DEF RInv, WritersAreAlone, Issued
<1>4. HandlersHoldTokens'
  BY <1>1, TokensAreTyped DEF RInv, HandlersHoldTokens, QuietMove, At, Held
<1>5. \A q \in Requests, f \in Tokens : Rotating(q, f)' => Rotating(q, f)
  BY TokensAreTyped DEF QuietMove, Rotating
<1>6. OneInUse'
  BY <1>5 DEF RInv, OneInUse
<1>7. QED
  BY <1>2, <1>3, <1>4, <1>6 DEF RInv

LEMMA QuietKeepsRInv ==
    ASSUME RInv, NEW a \in Actors, Quiet(a)
    PROVE  RInv'
<1>1. Typed' /\ UNCHANGED stores /\ \A q \in Actors : QuietMove(q)
  BY QuietSteps
<1>2. /\ keys' \subseteq keys /\ UNCHANGED <<family, parent>>
      /\ \A t \in Tokens : rows'[t] = rows[t] \/ (t \in Held /\ rows'[t] \in {"REVOKED", "EXPIRED"})
  BY <1>1 DEF stores
<1>3. QED
  BY <1>1, <1>2, SpendingKeepsRInv

LEMMA KeyLossKeepsRInv ==
    ASSUME RInv, \/ \E t \in Tokens : KeyIsLost(t)
                 \/ \E a \in Actors : DeleteKeys(a)
                 \/ \E r \in Requests, t \in Tokens : LogoutKey(r, t)
    PROVE  RInv'
<1>1. /\ keys' \subseteq keys /\ keys \subseteq Issued
      /\ UNCHANGED <<account, banned, binding, rows, family, parent, socket, strays>>
  BY DEF KeyIsLost, DeleteKeys, LogoutKey, RInv, Typed, TypeOK
<1>2. job' \in [Actors -> Job] /\ \A q \in Actors : QuietMove(q)
  <2>0. job \in [Actors -> Job]
    BY DEF RInv, Typed
  <2>1. CASE \E t \in Tokens : KeyIsLost(t)
    BY <2>0, <2>1 DEF KeyIsLost, QuietMove
  <2>2. ASSUME NEW a \in Actors, DeleteKeys(a)
        PROVE  job' \in [Actors -> Job] /\ \A q \in Actors : QuietMove(q)
    BY <2>0, <2>2, JobForgets DEF DeleteKeys, Pcs, QuietMove, Others
  <2>3. ASSUME NEW r \in Requests, NEW t \in Tokens, LogoutKey(r, t)
        PROVE  job' \in [Actors -> Job] /\ \A q \in Actors : QuietMove(q)
    <3>1. r \in Actors /\ t \in Held /\ Starts(r, "logout", t)
      BY <2>3, TokensAreTyped DEF LogoutKey
    <3>2. /\ job' \in [Actors -> Job] /\ Others(r)
          /\ job'[r].pc = "logout" /\ job'[r].token = t
      BY <2>0, <3>1, JobStarts DEF Pcs
    <3>3. QED
      BY <3>1, <3>2 DEF QuietMove, Others
  <2>4. QED
    BY <2>1, <2>2, <2>3
<1>3. Typed'
  BY <1>1, <1>2 DEF RInv, Typed, TypeOK, Issued, Job, Pcs
<1>4. /\ keys' \subseteq keys /\ UNCHANGED <<family, parent>>
      /\ \A t \in Tokens : rows'[t] = rows[t] \/ (t \in Held /\ rows'[t] \in {"REVOKED", "EXPIRED"})
  BY <1>1
<1>5. QED
  BY <1>2, <1>3, <1>4, SpendingKeepsRInv

LEMMA RowLossKeepsRInv ==
    ASSUME RInv, \/ \E r \in Requests : Expire(r) \/ Supersede(r) \/ LogoutRow(r)
                 \/ \E a \in Actors : RevokeRows(a)
    PROVE  RInv'
<1>0. job \in [Actors -> Job] /\ rows \in [Tokens -> {"NONE", "ACTIVE", "REVOKED", "EXPIRED"}]
      /\ Requests \subseteq Actors
  BY TokensAreTyped DEF RInv, Typed, TypeOK
<1> DEFINE Spends == \A t \in Tokens :
                        rows'[t] = rows[t] \/ (t \in Held /\ rows'[t] \in {"REVOKED", "EXPIRED"})
           Goal == /\ job' \in [Actors -> Job] /\ \A q \in Actors : QuietMove(q)
                   /\ rows' \in [Tokens -> {"NONE", "ACTIVE", "REVOKED", "EXPIRED"}] /\ Spends
<1>1. UNCHANGED <<account, banned, binding, keys, family, parent, socket, strays>>
  BY DEF Expire, Supersede, LogoutRow, RevokeRows
<1>2. ASSUME NEW r \in Requests, Expire(r) PROVE Goal
  <2>1. job[r].token \in Held
    BY <1>0, <1>2 DEF Expire, At, RInv, HandlersHoldTokens
  <2>2. rows' = [rows EXCEPT ![job[r].token] = "EXPIRED"] /\ Ends(r)
    BY <1>2 DEF Expire
  <2>3. rows' \in [Tokens -> {"NONE", "ACTIVE", "REVOKED", "EXPIRED"}] /\ Spends
    BY <1>0, <2>1, <2>2 DEF Held
  <2>4. QED
    BY <1>0, <2>2, <2>3, JobEnds DEF QuietMove, Others
<1>3. ASSUME NEW r \in Requests, Supersede(r) PROVE Goal
  <2>1. job[r].token \in Held /\ job[r].pc = "supersede"
    BY <1>0, <1>3 DEF Supersede, At, RInv, HandlersHoldTokens
  <2>2. rows' = [rows EXCEPT ![job[r].token] = "REVOKED"] /\ Goes(r, "mint")
    BY <1>3 DEF Supersede, Superseded
  <2>3. IsReplay(job[r].token)'
    <3>1. job'[r].token = job[r].token
      BY <1>0, <2>2, JobGoes DEF Pcs
    <3>2. QED
      BY <1>0, <2>1, <2>2, <3>1 DEF IsReplay, Held
  <2>4. /\ job' \in [Actors -> Job] /\ Others(r)
        /\ job'[r].pc = "mint" /\ job'[r].token = job[r].token
    BY <1>0, <2>2, JobGoes DEF Pcs
  <2>5. rows' \in [Tokens -> {"NONE", "ACTIVE", "REVOKED", "EXPIRED"}] /\ Spends
    BY <1>0, <2>1, <2>2 DEF Held
  <2>6. QuietMove(r)
    BY <2>1, <2>3, <2>4 DEF QuietMove
  <2>7. QED
    BY <2>4, <2>5, <2>6 DEF QuietMove, Others
<1>4. ASSUME NEW r \in Requests, LogoutRow(r) PROVE Goal
  <2>1. job[r].token \in Held
    BY <1>0, <1>4 DEF LogoutRow, At, RInv, HandlersHoldTokens
  <2>2. rows' = [rows EXCEPT ![job[r].token] = "REVOKED"] /\ Forgets(r, "drop")
    BY <1>4 DEF LogoutRow
  <2>3. rows' \in [Tokens -> {"NONE", "ACTIVE", "REVOKED", "EXPIRED"}] /\ Spends
    BY <1>0, <2>1, <2>2 DEF Held
  <2>4. QED
    BY <1>0, <2>2, <2>3, JobForgets DEF QuietMove, Others, Pcs
<1>5. ASSUME NEW a \in Actors, RevokeRows(a) PROVE Goal
  <2>1. rows' = [t \in Tokens |-> RevokedRow(rows[t])] /\ (Goes(a, "drop") \/ Ends(a))
    BY <1>5 DEF RevokeRows
  <2>2. rows' \in [Tokens -> {"NONE", "ACTIVE", "REVOKED", "EXPIRED"}] /\ Spends
    <3>1. \A t \in Tokens : rows'[t] = RevokedRow(rows[t])
      BY <2>1
    <3>2. \A t \in Tokens : RevokedRow(rows[t]) \in {"NONE", "ACTIVE", "REVOKED", "EXPIRED"}
      BY <1>0 DEF RevokedRow
    <3>3. \A t \in Tokens : \/ RevokedRow(rows[t]) = rows[t]
                            \/ t \in Held /\ RevokedRow(rows[t]) \in {"REVOKED", "EXPIRED"}
      BY <1>0 DEF RevokedRow, Held
    <3>4. QED
      BY <2>1, <3>1, <3>2, <3>3
  <2>3. QED
    BY <1>0, <2>1, <2>2, JobGoes, JobEnds DEF QuietMove, Others, Pcs
<1>6. Goal
  BY <1>2, <1>3, <1>4, <1>5
<1>7. Typed'
  BY <1>1, <1>6 DEF RInv, Typed, TypeOK, Issued, Held, Job, Pcs
<1>8. QED
  BY <1>1, <1>6, <1>7, SpendingKeepsRInv

-----------------------------------------------------------------------------
(* Steps that change a store. *)
LEMMA IssueKeyKeepsRInv ==
    ASSUME RInv, NEW r \in Requests, IssueKey(r)
    PROVE  RInv'
<1> DEFINE t == Min(Tokens \ Issued)
           old == job[r].token
<1>1. t \in Tokens /\ t \notin Issued /\ family[t] = NoToken /\ parent[t] = NoToken
      /\ t \notin keys /\ rows[t] = "NONE"
  BY LeastIsFresh DEF IssueKey, Issued, RInv, Typed, TypeOK, TokensHaveFamilies
<1>2. /\ r \in Actors /\ At(r, "mint") /\ job[r] \in Job /\ old \in Tokens \cup {NoToken}
      /\ rows \in [Tokens -> {"NONE", "ACTIVE", "REVOKED", "EXPIRED"}]
      /\ family \in [Tokens -> Tokens \cup {NoToken}] /\ parent \in [Tokens -> Tokens \cup {NoToken}]
      /\ keys \subseteq Issued /\ \A u \in Tokens : rows[u] # "NONE" => family[u] # NoToken
  BY TokensAreTyped DEF IssueKey, RInv, Typed, TypeOK, Job, Issued
<1>3. old # NoToken => old \in Held /\ old \notin keys /\ IsReplay(old) /\ family[old] \in Tokens
                       /\ family[family[old]] # NoToken
  BY <1>2 DEF RInv, HandlersHoldTokens, TokensHaveFamilies, Held
<1>4. /\ keys' = keys \cup {t} /\ rows' = rows
      /\ family' = [family EXCEPT ![t] = IF old = NoToken THEN t ELSE family[old]]
      /\ parent' = [parent EXCEPT ![t] = old]
      /\ job' = [job EXCEPT ![r].pc = "row", ![r].token = t]
  BY DEF IssueKey
<1>5. [job[r] EXCEPT !.pc = "row", !.token = t] \in Job
  BY <1>1, <1>2 DEF Job, Pcs
<1>6. /\ job' \in [Actors -> Job] /\ Others(r)
      /\ job'[r].pc = "row" /\ job'[r].token = t
  <2>1. job \in [Actors -> Job] /\ job' = [job EXCEPT ![r] = [job[r] EXCEPT !.pc = "row", !.token = t]]
    BY <1>4 DEF RInv, Typed
  <2>2. job'[r] = [job[r] EXCEPT !.pc = "row", !.token = t]
    BY <1>2, <1>5, <2>1, JobChanges
  <2>3. QED
    BY <1>2, <1>5, <2>1, <2>2, JobChanges DEF Job
<1>7. strays' \subseteq Tokens \cup Sockets /\ UNCHANGED <<account, banned, binding, socket>>
  BY <1>1 DEF IssueKey, RInv, Typed, TypeOK
<1> HIDE DEF t, old
<1>8. Issued' = Issued \cup {t} /\ Held' = Held /\ \A u \in Tokens : IsReplay(u)' = IsReplay(u)
  BY <1>1, <1>2, <1>3, <1>4, TokensAreTyped DEF Issued, Held, IsReplay
<1>9. Typed'
  <2>1. family' \in [Tokens -> Tokens \cup {NoToken}] /\ parent' \in [Tokens -> Tokens \cup {NoToken}]
    BY <1>1, <1>2, <1>3, <1>4
  <2>2. keys' \subseteq Issued' /\ \A u \in Tokens : rows'[u] # "NONE" => u \in Issued'
    BY <1>2, <1>4, <1>8 DEF Issued
  <2>3. QED
    BY <1>4, <1>6, <1>7, <2>1, <2>2 DEF RInv, Typed, TypeOK, Job, Pcs
<1>10. TokensHaveFamilies'
  <2>1. SUFFICES ASSUME NEW u \in Tokens
                 PROVE  /\ family'[u] = NoToken => parent'[u] = NoToken
                        /\ family'[u] # NoToken => family'[family'[u]] # NoToken
                        /\ parent'[u] # NoToken => parent'[u] \in Held
    BY <1>8 DEF TokensHaveFamilies
  <2>2. CASE u = t
    BY <1>1, <1>2, <1>3, <1>4, <2>2, TokensAreTyped
  <2>3. CASE u # t
    BY <1>1, <1>2, <1>3, <1>4, <2>3, TokensAreTyped DEF RInv, TokensHaveFamilies
  <2>4. QED
    BY <2>2, <2>3
<1>11. WritersAreAlone'
  <2>1. \A q \in Actors \ {r} : At(q, "row") => job[q].token # t /\ job[q].token \in Issued
    BY <1>1 DEF RInv, WritersAreAlone
  <2>2. QED
    BY <1>1, <1>4, <1>6, <1>8, <2>1 DEF RInv, WritersAreAlone, At, Others
<1>12. HandlersHoldTokens'
  <2>1. t \notin Held
    BY <1>1 DEF Held
  <2>2. QED
    BY <1>4, <1>6, <1>8, <2>1 DEF RInv, HandlersHoldTokens, At, Others, Held
<1>13. RotatedTokensAreSpent'
  <2>1. ASSUME NEW u \in Tokens, NEW n \in Tokens, parent'[n] = u
        PROVE  u \notin keys' /\ IsReplay(u)
    <3>1. CASE n = t
      BY <1>1, <1>2, <1>3, <1>4, <2>1, <3>1, TokensAreTyped DEF Held
    <3>2. CASE n # t
      <4>1. parent[n] = u /\ u # NoToken
        BY <1>2, <1>4, <2>1, <3>2, TokensAreTyped
      <4>2. u \in Held /\ u \notin keys /\ IsReplay(u)
        BY <4>1 DEF RInv, TokensHaveFamilies, RotatedTokensAreSpent
      <4>3. QED
        BY <1>1, <1>4, <4>2 DEF Held
    <3>3. QED
      BY <3>1, <3>2
  <2>2. QED
    BY <1>8, <2>1 DEF RotatedTokensAreSpent
<1>14. OneInUse'
  <2>1. \A q \in Requests, f \in Tokens : Rotating(q, f)' => q # r /\ Rotating(q, f)
    <3>1. SUFFICES ASSUME NEW q \in Requests, NEW f \in Tokens, Rotating(q, f)'
                   PROVE  q # r /\ Rotating(q, f)
      OBVIOUS
    <3>2. q # r /\ job'[q] = job[q] /\ q \in Actors
      BY <1>6, <3>1, TokensAreTyped DEF Rotating, Others
    <3>3. job[q].token \in Held /\ job[q].token # t
      BY <1>1, <3>1, <3>2 DEF RInv, HandlersHoldTokens, Rotating, Held, At
    <3>4. QED
      BY <1>2, <1>4, <3>1, <3>2, <3>3 DEF Rotating
  <2>2. ASSUME NEW u \in keys, family'[u] = family'[t]
        PROVE  FALSE
    <3>1. u # t /\ u \in Tokens /\ family'[u] = family[u] /\ u \in Issued
      BY <1>1, <1>2, <1>4 DEF Issued
    <3>2. family[t] = NoToken /\ family[family[u]] # NoToken
      BY <1>1, <3>1 DEF RInv, TokensHaveFamilies, Issued
    <3>3. old # NoToken /\ family[u] = family[old]
      BY <1>1, <1>2, <1>4, <2>2, <3>1, <3>2
    <3>4. Rotating(r, family[old])
      BY <1>2, <3>3 DEF Rotating, old, At
    <3>5. QED
      BY <1>3, <3>3, <3>4 DEF RInv, OneInUse
  <2>3. ASSUME NEW f \in Tokens, f = family'[t], NEW q \in Requests, Rotating(q, f)'
        PROVE  FALSE
    <3>1. q # r /\ Rotating(q, f)
      BY <2>1, <2>3
    <3>2. job[q].token \in Tokens /\ family[job[q].token] = f
      BY <1>2, <3>1, TokensAreTyped DEF Rotating, RInv, Typed, Job
    <3>3. family[t] = NoToken /\ family[f] # NoToken
      BY <1>1, <3>2, TokensAreTyped DEF RInv, TokensHaveFamilies
    <3>4. old # NoToken /\ f = family[old]
      BY <1>1, <1>2, <1>4, <2>3, <3>3
    <3>5. Rotating(r, f)
      BY <1>2, <3>4 DEF Rotating, old, At
    <3>6. QED
      BY <3>1, <3>5 DEF RInv, OneInUse
  <2>4. \A u \in keys : family'[u] = family[u]
    BY <1>1, <1>2, <1>4 DEF Issued
  <2>5. SUFFICES ASSUME NEW f \in Tokens
                 PROVE  /\ \A u, v \in keys' : family'[u] = f /\ family'[v] = f => u = v
                        /\ \A p, q \in Requests : Rotating(p, f)' /\ Rotating(q, f)' => p = q
                        /\ \A u \in keys', q \in Requests : family'[u] = f => ~Rotating(q, f)'
    BY DEF OneInUse
  <2>6. \A u, v \in keys' : family'[u] = f /\ family'[v] = f => u = v
    BY <1>4, <2>2, <2>4 DEF RInv, OneInUse
  <2>7. \A p, q \in Requests : Rotating(p, f)' /\ Rotating(q, f)' => p = q
    BY <2>1 DEF RInv, OneInUse
  <2>8. ASSUME NEW u \in keys', NEW q \in Requests, family'[u] = f PROVE ~Rotating(q, f)'
    <3>1. CASE u = t
      BY <2>3, <2>8, <3>1
    <3>2. CASE u # t
      BY <1>4, <2>1, <2>4, <2>8, <3>2 DEF RInv, OneInUse
    <3>3. QED
      BY <3>1, <3>2
  <2>9. QED
    BY <2>6, <2>7, <2>8
<1>15. QED
  BY <1>9, <1>10, <1>11, <1>12, <1>13, <1>14 DEF RInv

LEMMA ConsumeKeepsRInv ==
    ASSUME RInv, NEW r \in Requests, Consume(r)
    PROVE  RInv'
<1> DEFINE t == job[r].token
<1>1. /\ r \in Actors /\ job \in [Actors -> Job] /\ job[r].pc = "consume"
      /\ t \in Held /\ t \in Tokens /\ keys \subseteq Issued
  BY TokensAreTyped DEF Consume, At, RInv, Typed, TypeOK, HandlersHoldTokens, Held
<1>2. /\ keys' = keys \ {t}
      /\ UNCHANGED <<account, banned, binding, rows, family, socket, parent, strays>>
      /\ Goes(r, IF t \in keys THEN "check" ELSE "expire")
  BY DEF Consume, Consumed
<1> HIDE DEF t
<1>3. /\ job' \in [Actors -> Job] /\ Others(r)
      /\ job'[r].pc = (IF t \in keys THEN "check" ELSE "expire") /\ job'[r].token = t
  BY <1>1, <1>2, JobGoes DEF Pcs, t
<1>4. Held' = Held /\ Issued' = Issued /\ \A u \in Tokens : IsReplay(u)' = IsReplay(u)
  BY <1>2 DEF Held, Issued, IsReplay
<1>5. Typed'
  BY <1>1, <1>2, <1>3 DEF RInv, Typed, TypeOK, Issued, Job, Pcs
<1>6. TokensHaveFamilies' /\ RotatedTokensAreSpent'
  BY <1>2, <1>4 DEF RInv, TokensHaveFamilies, RotatedTokensAreSpent
<1>7. WritersAreAlone'
  BY <1>2, <1>3, <1>4 DEF RInv, WritersAreAlone, At, Others
<1>8. HandlersHoldTokens'
  BY <1>1, <1>2, <1>3, <1>4 DEF RInv, HandlersHoldTokens, At, Others, Held
<1>9. \A q \in Requests, f \in Tokens :
         Rotating(q, f)' => Rotating(q, f) \/ (q = r /\ t \in keys /\ family[t] = f)
  BY <1>2, <1>3, TokensAreTyped DEF Rotating, Others
<1>10. OneInUse'
  <2>1. SUFFICES ASSUME NEW f \in Tokens
                 PROVE  /\ \A u, v \in keys' : family'[u] = f /\ family'[v] = f => u = v
                        /\ \A p, q \in Requests : Rotating(p, f)' /\ Rotating(q, f)' => p = q
                        /\ \A u \in keys', q \in Requests : family'[u] = f => ~Rotating(q, f)'
    BY DEF OneInUse
  <2>2. \A u, v \in keys' : family'[u] = f /\ family'[v] = f => u = v
    BY <1>2 DEF RInv, OneInUse
  <2>3. \A p, q \in Requests : Rotating(p, f)' /\ Rotating(q, f)' => p = q
    BY <1>9 DEF RInv, OneInUse
  <2>4. \A u \in keys', q \in Requests : family'[u] = f => ~Rotating(q, f)'
    BY <1>2, <1>9 DEF RInv, OneInUse
  <2>5. QED
    BY <2>2, <2>3, <2>4
<1>11. QED
  BY <1>5, <1>6, <1>7, <1>8, <1>10 DEF RInv

LEMMA IssueRowKeepsRInv ==
    ASSUME RInv, NEW r \in Requests, IssueRow(r)
    PROVE  RInv'
<1> DEFINE t == job[r].token
<1>1. /\ r \in Actors /\ job \in [Actors -> Job] /\ At(r, "row")
      /\ t \in Issued /\ t \in Tokens /\ rows[t] = "NONE" /\ t \notin Held
      /\ \A q \in Actors : At(q, "row") /\ job[q].token = t => q = r
      /\ rows \in [Tokens -> {"NONE", "ACTIVE", "REVOKED", "EXPIRED"}]
  BY TokensAreTyped DEF IssueRow, RInv, Typed, TypeOK, WritersAreAlone, Issued, Held
<1>2. /\ rows' = [rows EXCEPT ![t] = "ACTIVE"] /\ Ends(r)
      /\ UNCHANGED <<account, banned, binding, keys, family, socket, parent, strays>>
  BY DEF IssueRow
<1> HIDE DEF t
<1>3. job' \in [Actors -> Job] /\ Others(r) /\ job'[r].pc = "idle"
  BY <1>1, <1>2, JobEnds
<1>4. /\ Held' = Held \cup {t} /\ Issued' = Issued
      /\ \A u \in Held : u # t /\ rows'[u] = rows[u] /\ IsReplay(u)' = IsReplay(u)
  BY <1>1, <1>2 DEF Held, Issued, IsReplay
<1>5. Typed'
  BY <1>1, <1>2, <1>3 DEF RInv, Typed, TypeOK, Issued, Job, Pcs
<1>6. TokensHaveFamilies'
  BY <1>2, <1>4 DEF RInv, TokensHaveFamilies
<1>7. RotatedTokensAreSpent'
  <2>1. ASSUME NEW u \in Tokens, NEW n \in Tokens, parent[n] = u PROVE u \notin keys /\ IsReplay(u)'
    <3>1. u \in Held
      BY <2>1, TokensAreTyped DEF RInv, TokensHaveFamilies
    <3>2. QED
      BY <1>4, <2>1, <3>1 DEF RInv, RotatedTokensAreSpent
  <2>2. QED
    BY <1>2, <2>1 DEF RotatedTokensAreSpent
<1>8. WritersAreAlone'
  <2>1. ASSUME NEW q \in Actors, At(q, "row")'
        PROVE  /\ q # r /\ At(q, "row") /\ job'[q] = job[q] /\ job[q].token # t
               /\ job[q].token \in Issued /\ rows'[job[q].token] = "NONE"
    <3>1. q # r /\ At(q, "row") /\ job'[q] = job[q]
      BY <1>3, <2>1 DEF At, Others
    <3>2. QED
      BY <1>1, <1>2, <3>1 DEF RInv, WritersAreAlone, Issued
  <2>2. QED
    BY <1>4, <2>1 DEF RInv, WritersAreAlone
<1>9. HandlersHoldTokens'
  BY <1>2, <1>3, <1>4 DEF RInv, HandlersHoldTokens, At, Others
<1>10. \A q \in Requests, f \in Tokens : Rotating(q, f)' => Rotating(q, f)
  BY <1>2, <1>3, TokensAreTyped DEF Rotating, Others
<1>11. OneInUse'
  BY <1>2, <1>10 DEF RInv, OneInUse
<1>12. QED
  BY <1>5, <1>6, <1>7, <1>8, <1>9, <1>11 DEF RInv

LEMMA RInvIsInductive == RInv /\ [Next]_vars => RInv'
<1> SUFFICES ASSUME RInv, [Next]_vars PROVE RInv'
  OBVIOUS
<1>1. ASSUME NEW r \in Requests,
             Register(r) \/ Login(r) \/ IssueKey(r) \/ IssueRow(r) \/ Refresh(r) \/ Logout(r) \/ RequestDies(r)
      PROVE  RInv'
  BY <1>1, QuietKeepsRInv, IssueKeyKeepsRInv, IssueRowKeepsRInv, ConsumeKeepsRInv, RowLossKeepsRInv,
     KeyLossKeepsRInv, TokensAreTyped DEF Register, Refresh, Logout, Quiet
<1>2. ASSUME NEW a \in Actors, RevokeAll(a) \/ DropSockets(a)
      PROVE  RInv'
  BY <1>2, QuietKeepsRInv, RowLossKeepsRInv, KeyLossKeepsRInv DEF RevokeAll, Quiet
<1>3. CASE Ban \/ Unban \/ \E s \in Sockets : Connection(s)
  BY <1>3, QuietKeepsRInv, TokensAreTyped DEF Quiet
<1>4. CASE \E t \in Tokens : KeyIsLost(t)
  BY <1>4, KeyLossKeepsRInv
<1>5. CASE UNCHANGED vars
  BY <1>5 DEF vars, stores, RInv, Typed, TypeOK, Issued, TokensHaveFamilies, WritersAreAlone, HandlersHoldTokens,
          RotatedTokensAreSpent, OneInUse, Held, IsReplay, At, Rotating
<1>6. QED
  BY <1>1, <1>2, <1>3, <1>4, <1>5 DEF Next

(* At most one of two kinds of things, as a sum of cardinalities. *)
LEMMA AtMostOne ==
    ASSUME NEW S, NEW T, \A x, y \in S : x = y, \A x, y \in T : x = y, S = {} \/ T = {}
    PROVE  Cardinality(S) + Cardinality(T) <= 1
<1>1. \A x : Cardinality({x}) = 1
  BY FS_Singleton
<1>2. Cardinality({}) = 0
  BY FS_EmptySet
<1>3. S = {} \/ \E x : S = {x}
  OBVIOUS
<1>4. T = {} \/ \E x : T = {x}
  OBVIOUS
<1>5. Cardinality(S) \in {0, 1} /\ Cardinality(T) \in {0, 1}
  BY <1>1, <1>2, <1>3, <1>4
<1>6. Cardinality(S) = 0 \/ Cardinality(T) = 0
  BY <1>2
<1>7. QED
  BY <1>5, <1>6

(* A refresh token has one successor at most, a family one token that can   *)
(* be used, and a rotated token is recognised for ever (auth/service.js).   *)
THEOREM TokensRotateOnce == Spec => []TokensInv
<1>1. RInv => TokensInv
  <2> SUFFICES ASSUME RInv PROVE TokensInv
    OBVIOUS
  <2>1. ASSUME NEW f \in Tokens
        PROVE  Cardinality({t \in keys : family[t] = f}) + Cardinality({r \in Requests : Rotating(r, f)}) <= 1
    <3> DEFINE S == {t \in keys : family[t] = f}
               T == {r \in Requests : Rotating(r, f)}
    <3>1. (\A x, y \in S : x = y) /\ (\A x, y \in T : x = y) /\ (S = {} \/ T = {})
      BY DEF RInv, OneInUse
    <3> HIDE DEF S, T
    <3>2. Cardinality(S) + Cardinality(T) <= 1
      BY <3>1, AtMostOne
    <3>3. QED
      BY <3>2 DEF S, T
  <2>2. QED
    BY <2>1 DEF RInv, Typed, TokensInv, OneLiveTokenPerFamily
<1>2. RInv /\ [Next]_vars => RInv'
  BY RInvIsInductive
<1>3. QED
  BY <1>1, <1>2, InitiallyRInv, PTL DEF Spec

-----------------------------------------------------------------------------
(* A ban. Handlers that would still issue a token ran before it; handshakes *)
(* that would still be let in were let through before it; and the           *)
(* administrator's sweep of the keys leaves none but theirs.                *)
BInv ==
    /\ Typed
    /\ banned => account /\ job[Admin].pc \in {"scan", "del", "rows", "drop", "banned"}
    /\ ~banned => At(Admin, "idle")
    /\ banned => \A r \in Requests : job[r].pc \in {"supersede", "mint", "row"} => job[r].early
    /\ banned => \A s \in Sockets : socket[s] = "checked" => s \in strays
    /\ At(Admin, "del") => keys \subseteq strays \cup job[Admin].scanned
    /\ job[Admin].pc \in {"rows", "drop", "banned"} => keys \subseteq strays
    /\ At(Admin, "banned") => Live \subseteq strays

LEMMA InitiallyBInv == Init => BInv
  BY InitiallyRInv, TokensAreTyped DEF RInv, BInv, Init, Idle, At

LEMMA RequestsKeepBInv ==
    ASSUME BInv, Typed', NEW r \in Requests,
           Register(r) \/ Login(r) \/ IssueRow(r) \/ Refresh(r) \/ Logout(r) \/ RequestDies(r)
    PROVE  BInv'
<1>1. r \in Actors /\ r # Admin /\ job \in [Actors -> Job] /\ Admin \in Actors /\ Requests \subseteq Actors
  BY TokensAreTyped, AccountsAssumption DEF BInv, Typed
<1>2. /\ UNCHANGED <<banned, socket, strays>> /\ keys' \subseteq keys /\ (account => account')
  BY DEF Register, BindingRead, BindingDeleted, UserCreated, Login, IssueRow, Refresh, RefreshReads, Consume,
         Consumed, Expire, CheckBan, Supersede, Logout, LogoutKey, LogoutRow, RequestDies, stores
<1>3. /\ Others(r)
      /\ banned /\ job'[r].pc \in {"supersede", "mint", "row"} =>
            /\ job[r].pc \in {"supersede", "mint", "row"} /\ job'[r].early = job[r].early
  <2> DEFINE Goal ==
         /\ Others(r)
         /\ banned /\ job'[r].pc \in {"supersede", "mint", "row"} =>
               /\ job[r].pc \in {"supersede", "mint", "row"} /\ job'[r].early = job[r].early
  <2>1. BindingRead(r) => Goal
    BY <1>1, JobStarts, TokensAreTyped DEF BindingRead, Pcs
  <2>2. BindingDeleted(r) => Goal
    BY <1>1, JobGoes DEF BindingDeleted, Pcs
  <2>3. UserCreated(r) => Goal
    BY <1>1, JobGoes, JobEnds DEF UserCreated, Pcs, BInv
  <2>4. Login(r) => Goal
    BY <1>1, JobStarts, TokensAreTyped DEF Login, Pcs
  <2>5. IssueRow(r) => Goal
    BY <1>1, JobEnds DEF IssueRow
  <2>6. ASSUME NEW t \in Tokens, RefreshReads(r, t) PROVE Goal
    <3>1. Starts(r, "scan", NoToken) \/ Starts(r, "consume", t)
      BY <2>6 DEF RefreshReads
    <3>2. Others(r) /\ job'[r].pc \in {"scan", "consume"}
      BY <1>1, <3>1, JobStarts DEF Pcs
    <3>3. QED
      BY <3>2
  <2>7. Consume(r) => Goal
    BY <1>1, JobGoes DEF Consume, Pcs
  <2>8. Expire(r) => Goal
    BY <1>1, JobEnds DEF Expire
  <2>9. CheckBan(r) => Goal
    BY <1>1, JobGoes, JobEnds DEF CheckBan, MayMint, Pcs
  <2>10. Supersede(r) => Goal
    BY <1>1, JobGoes DEF Supersede, At, Pcs
  <2>11. ASSUME NEW t \in Tokens, LogoutKey(r, t) PROVE Goal
    BY <1>1, <2>11, JobStarts DEF LogoutKey, Pcs
  <2>12. LogoutRow(r) => Goal
    BY <1>1, JobForgets DEF LogoutRow, Pcs
  <2>13. RequestDies(r) => Goal
    BY <1>1, JobEnds DEF RequestDies
  <2>14. QED
    BY <2>1, <2>2, <2>3, <2>4, <2>5, <2>6, <2>7, <2>8, <2>9, <2>10, <2>11, <2>12, <2>13
    DEF Register, Refresh, Logout
<1>4. job'[Admin] = job[Admin]
  BY <1>1, <1>3 DEF Others
<1>5. \A q \in Requests : banned /\ job'[q].pc \in {"supersede", "mint", "row"} => job'[q].early
  BY <1>1, <1>3 DEF Others, BInv
<1>6. QED
  BY <1>2, <1>4, <1>5 DEF BInv, At, Live

LEMMA IssueKeyKeepsBInv ==
    ASSUME BInv, Typed', NEW r \in Requests, IssueKey(r)
    PROVE  BInv'
<1> DEFINE t == Min(Tokens \ Issued)
<1>1. r \in Actors /\ r # Admin /\ job \in [Actors -> Job] /\ Admin \in Actors /\ Requests \subseteq Actors
  BY TokensAreTyped, AccountsAssumption DEF BInv, Typed
<1>2. /\ At(r, "mint") /\ keys' = keys \cup {t}
      /\ job' = [job EXCEPT ![r].pc = "row", ![r].token = t]
      /\ strays' = (IF banned /\ job[r].early THEN strays \cup {t} ELSE strays)
      /\ UNCHANGED <<account, banned, socket>>
  BY DEF IssueKey
<1> HIDE DEF t
<1>3. job'[r].early = job[r].early /\ \A q \in Actors \ {r} : job'[q] = job[q]
  BY <1>1, <1>2 DEF Job
<1>4. banned => job[r].early /\ strays' = strays \cup {t}
  BY <1>2 DEF BInv, At
<1>5. strays \subseteq strays'
  BY <1>2
<1>6. \A q \in Requests : banned /\ job'[q].pc \in {"supersede", "mint", "row"} => job'[q].early
  BY <1>1, <1>3, <1>4 DEF BInv
<1>7. job'[Admin] = job[Admin]
  BY <1>1, <1>3
<1>8. QED
  BY <1>2, <1>4, <1>5, <1>6, <1>7 DEF BInv, At, Live

LEMMA BanKeepsBInv ==
    ASSUME BInv, Typed', Ban \/ Unban
    PROVE  BInv'
<1>1. job \in [Actors -> Job] /\ Admin \in Actors /\ Requests \subseteq Actors /\ Admin \notin Requests
  BY TokensAreTyped, AccountsAssumption DEF BInv, Typed
<1>2. CASE Ban
  <2>1. job'[Admin] = [Idle EXCEPT !.pc = "scan"]
        /\ \A r \in Requests : job'[r] = [job[r] EXCEPT !.early = ~At(r, "idle")]
    BY <1>1, <1>2 DEF Ban
  <2>2. job'[Admin].pc = "scan" /\ \A r \in Requests : job'[r].pc = job[r].pc /\ job'[r].early = (job[r].pc # "idle")
    <3>1. job'[Admin].pc = "scan"
      BY <2>1 DEF Idle
    <3>2. ASSUME NEW r \in Requests
          PROVE  job'[r].pc = job[r].pc /\ job'[r].early = (job[r].pc # "idle")
      <4>1. job[r] \in Job /\ job'[r] = [job[r] EXCEPT !.early = ~(job[r].pc = "idle")]
        BY <1>1, <2>1 DEF At
      <4>2. QED
        BY <4>1 DEF Job
    <3>3. QED
      BY <3>1, <3>2
  <2>3. account' /\ banned' /\ strays' = {s \in Sockets : socket[s] = "checked"} /\ socket' = socket
    BY <1>2 DEF Ban
  <2>4. QED
    BY <2>2, <2>3 DEF BInv, At
<1>3. CASE Unban
  <2>1. job'[Admin].pc = "idle" /\ ~banned'
    BY <1>1, <1>3, JobEnds DEF Unban
  <2>2. QED
    BY <2>1 DEF BInv, At
<1>4. QED
  BY <1>2, <1>3

LEMMA RevocationKeepsBInv ==
    ASSUME BInv, Typed', NEW a \in Actors, RevokeAll(a) \/ DropSockets(a)
    PROVE  BInv'
<1>1. job \in [Actors -> Job] /\ Admin \in Actors /\ Requests \subseteq Actors /\ Admin \notin Requests
  BY TokensAreTyped, AccountsAssumption DEF BInv, Typed
<1>2. UNCHANGED <<account, banned, strays>>
  BY DEF RevokeAll, ScanKeys, DeleteKeys, RevokeRows, DropSockets, stores
<1>3. CASE ScanKeys(a)
  <2>1. /\ job[a].pc = "scan" /\ job'[a].pc = "del" /\ job'[a].scanned = keys
        /\ Others(a) /\ UNCHANGED <<keys, socket>>
    BY <1>1, <1>3 DEF ScanKeys, At, Others, stores, Job
  <2>2. QED
    BY <1>1, <1>2, <2>1 DEF BInv, At, Others, Live
<1>4. CASE DeleteKeys(a)
  <2>1. /\ job[a].pc = "del" /\ job'[a].pc = "rows" /\ keys' = keys \ job[a].scanned
        /\ Others(a) /\ UNCHANGED socket
    BY <1>1, <1>4, JobForgets DEF DeleteKeys, At, Pcs
  <2>2. QED
    BY <1>1, <1>2, <2>1 DEF BInv, At, Others, Live
<1>5. CASE RevokeRows(a)
  <2>1. /\ job[a].pc = "rows" /\ job'[a].pc = (IF a = Admin THEN "drop" ELSE "idle")
        /\ Others(a) /\ UNCHANGED <<keys, socket>>
    BY <1>1, <1>5, JobGoes, JobEnds DEF RevokeRows, At, Pcs
  <2>2. QED
    BY <1>1, <1>2, <2>1 DEF BInv, At, Others, Live
<1>6. CASE DropSockets(a)
  <2>1. /\ job[a].pc = "drop" /\ job'[a].pc = (IF a = Admin THEN "banned" ELSE "idle")
        /\ Others(a) /\ UNCHANGED keys
    BY <1>1, <1>6, JobGoes, JobEnds DEF DropSockets, At, Pcs, stores
  <2>2. Live' = {} /\ \A s \in Sockets : socket'[s] = "checked" => socket[s] = "checked"
    BY <1>6 DEF DropSockets, Dropped, Live
  <2>3. QED
    BY <1>1, <1>2, <2>1, <2>2 DEF BInv, At, Others
<1>7. QED
  BY <1>3, <1>4, <1>5, <1>6 DEF RevokeAll

LEMMA ConnectionsKeepBInv ==
    ASSUME BInv, Typed', NEW s \in Sockets, Connection(s)
    PROVE  BInv'
<1>1. socket \in [Sockets -> {"off", "checked", "joined", "on", "uncounted"}] /\ keys \subseteq Tokens
  BY DEF BInv, Typed, TypeOK, Issued
<1>2. UNCHANGED <<account, banned, job, keys>>
  BY DEF Connection, Handshake, JoinRoom, CountRoom, CountFails, SocketCloses, stores
<1>3. CASE Handshake(s)
  BY <1>1, <1>2, <1>3 DEF Handshake, BInv, At, Live
<1>4. CASE JoinRoom(s)
  <2>1. strays' = strays /\ socket[s] = "checked" /\ socket' = [socket EXCEPT ![s] = "joined"]
    BY <1>4 DEF JoinRoom
  <2>2. Live' = Live \cup {s} /\ \A x \in Sockets : socket'[x] = "checked" => socket[x] = "checked"
    BY <1>1, <2>1 DEF Live
  <2>3. At(Admin, "banned") => banned
    BY DEF BInv, At
  <2>4. QED
    BY <1>2, <2>1, <2>2, <2>3 DEF BInv, At
<1>5. CASE CountRoom(s) \/ CountFails(s)
  <2>1. strays' = strays /\ Live' \subseteq Live /\ \A x \in Sockets : socket'[x] = "checked" => socket[x] = "checked"
    BY <1>1, <1>5 DEF CountRoom, CountFails, Live
  <2>2. QED
    BY <1>2, <2>1 DEF BInv, At
<1>6. CASE SocketCloses(s)
  <2>1. strays' = strays \ {s} /\ socket' = [socket EXCEPT ![s] = "off"]
    BY <1>6 DEF SocketCloses
  <2>2. s \notin keys
    BY <1>1, AccountsAssumption DEF Tokens
  <2>3. s \notin Live' /\ Live' \subseteq Live /\ \A x \in Sockets : socket'[x] = "checked" => socket[x] = "checked" /\ x # s
    BY <1>1, <2>1 DEF Live
  <2>4. QED
    BY <1>2, <2>1, <2>2, <2>3 DEF BInv, At
<1>7. QED
  BY <1>3, <1>4, <1>5, <1>6 DEF Connection

LEMMA BInvIsInductive == RInv /\ BInv /\ [Next]_vars => RInv' /\ BInv'
<1> SUFFICES ASSUME RInv, BInv, [Next]_vars PROVE RInv' /\ BInv'
  OBVIOUS
<1>1. RInv' /\ Typed'
  BY RInvIsInductive DEF RInv
<1>2. CASE \E t \in Tokens : KeyIsLost(t)
  BY <1>1, <1>2 DEF KeyIsLost, BInv, At, Live
<1>3. CASE UNCHANGED vars
  BY <1>1, <1>3 DEF vars, stores, BInv, At, Live
<1>4. CASE Next
  BY <1>1, <1>2, <1>4, RequestsKeepBInv, IssueKeyKeepsBInv, BanKeepsBInv, RevocationKeepsBInv, ConnectionsKeepBInv
  DEF Next
<1>5. QED
  BY <1>1, <1>3, <1>4

(* After a ban only what was under way when it came has any access          *)
(* (setAccountStatus, auth/service.js).                                     *)
THEOREM BansLeaveStragglers == Spec => []BanLeavesOnlyStragglers
<1>1. BInv => BanLeavesOnlyStragglers
  BY DEF BInv, BanLeavesOnlyStragglers, At
<1>2. RInv /\ BInv /\ [Next]_vars => RInv' /\ BInv'
  BY BInvIsInductive
<1>3. QED
  BY <1>1, <1>2, InitiallyRInv, InitiallyBInv, PTL DEF Spec

(* "A banned or deleted account must never mint a fresh access token"       *)
(* (auth/service.js): who began during the ban does not.                    *)
THEOREM BannedAccountsStartNothing == Spec => []BannedStartsNothing
<1>1. BInv => BannedStartsNothing
  BY DEF BInv, BannedStartsNothing
<1>2. RInv /\ BInv /\ [Next]_vars => RInv' /\ BInv'
  BY BInvIsInductive
<1>3. QED
  BY <1>1, <1>2, InitiallyRInv, InitiallyBInv, PTL DEF Spec

-----------------------------------------------------------------------------
(* Each socket counts a room it is in itself, with everybody accepted.      *)
QInv == socket \in [Sockets -> {"off", "checked", "joined", "on", "uncounted"}] /\ SocketQuota

LEMMA QInvIsInductive == QInv /\ [Next]_vars => QInv'
<1> SUFFICES ASSUME QInv, [Next]_vars PROVE QInv'
  OBVIOUS
<1> DEFINE On == {x \in Sockets : socket[x] = "on"}
<1>1. IsFiniteSet(On) /\ IsFiniteSet(Live) /\ Cardinality(On) <= MaxSockets
  BY AccountsAssumption, FS_Subset DEF QInv, SocketQuota, Live
<1>2. \A X \in SUBSET On : Cardinality(X) <= MaxSockets
  <2>1. \A X \in SUBSET On : Cardinality(X) <= Cardinality(On) /\ Cardinality(X) \in Nat
    BY <1>1, FS_Subset, FS_CardinalityType
  <2>2. QED
    BY <1>1, <2>1, FS_CardinalityType, AccountsAssumption
<1>3. ASSUME NEW s \in Sockets, CountRoom(s), WithinQuota(s) PROVE QInv'
  <2>1. On' \in SUBSET Live
    BY <1>3 DEF CountRoom, Live, QInv
  <2>2. Cardinality(On') <= Cardinality(Live) /\ Cardinality(On') \in Nat
    BY <1>1, <2>1, FS_Subset, FS_CardinalityType
  <2>3. Cardinality(Live) \in Nat /\ MaxSockets \in Nat /\ Cardinality(Live) <= MaxSockets
    BY <1>1, <1>3, FS_CardinalityType, AccountsAssumption DEF WithinQuota
  <2>4. Cardinality(On') <= MaxSockets
    BY <2>2, <2>3
  <2>5. QED
    BY <1>3, <2>4 DEF CountRoom, QInv, SocketQuota
<1>4. CASE socket' \in [Sockets -> {"off", "checked", "joined", "on", "uncounted"}] /\ On' \subseteq On
  BY <1>2, <1>4 DEF QInv, SocketQuota
<1>5. ASSUME NEW s \in Sockets, Connection(s), ~(CountRoom(s) /\ WithinQuota(s)) PROVE QInv'
  <2>1. socket' \in [Sockets -> {"off", "checked", "joined", "on", "uncounted"}] /\ On' \subseteq On
    BY <1>5 DEF Connection, Handshake, JoinRoom, CountRoom, CountFails, SocketCloses, QInv
  <2>2. QED
    BY <1>4, <2>1
<1>6. ASSUME NEW a \in Actors, DropSockets(a) PROVE QInv'
  <2>1. socket' \in [Sockets -> {"off", "checked", "joined", "on", "uncounted"}] /\ On' \subseteq On
    BY <1>6 DEF DropSockets, Dropped, QInv
  <2>2. QED
    BY <1>4, <2>1
<1>7. CASE UNCHANGED socket
  BY <1>4, <1>7 DEF QInv
<1>8. QED
  BY <1>3, <1>5, <1>6, <1>7
  DEF Next, vars, Register, BindingRead, BindingDeleted, UserCreated, Login, IssueKey, IssueRow, Refresh,
      RefreshReads, Consume, Expire, CheckBan, Supersede, Logout, LogoutKey, LogoutRow, RequestDies,
      RevokeAll, ScanKeys, DeleteKeys, RevokeRows, Ban, Unban, KeyIsLost, Connection

(* No more sockets than the quota are ever accepted (sockets/index.js).     *)
THEOREM QuotaHolds == Spec => []SocketQuota
<1>1. Init => QInv
  <2> SUFFICES ASSUME Init PROVE QInv
    OBVIOUS
  <2>1. {x \in Sockets : socket[x] = "on"} = {}
    BY DEF Init
  <2>2. QED
    BY <2>1, FS_EmptySet, AccountsAssumption DEF Init, QInv, SocketQuota
<1>2. QInv /\ [Next]_vars => QInv'
  BY QInvIsInductive
<1>3. QInv => SocketQuota
  BY DEF QInv
<1>4. QED
  BY <1>1, <1>2, <1>3, PTL DEF Spec

-----------------------------------------------------------------------------
(* The audit trail.                                                         *)
AtTheGate == {"idle", "code", "clear", "permission", "ttl", "incr", "expire", "act"}
AtTheCase == Verdicts \cup {"audit"}

RequestsAreTyped ==
    /\ request \in [Workers -> [pc : AtTheGate \cup AtTheCase, saw : BOOLEAN, of : Cases \cup {NoCase}]]
    /\ \A w \in Workers : request[w].pc \in AtTheCase => request[w].of \in Cases
    /\ ttl \in BOOLEAN /\ fails \in Nat /\ tries \in Nat /\ deaths \in Nat
    /\ IsFiniteSet(reviewed)

TraceInv == RequestsAreTyped /\ ReviewsAreTraced

LEMMA InitiallyTraceInv == InitConsole => TraceInv
<1> SUFFICES ASSUME InitConsole PROVE TraceInv
  OBVIOUS
<1>1. RequestsAreTyped
  BY FS_EmptySet
  DEF InitConsole, RequestsAreTyped, NoRequest, AtTheGate, AtTheCase, Verdicts, Approval, Rejection
<1>2. Untraced = {} /\ deaths = 0
  BY DEF InitConsole, Untraced
<1>3. QED
  BY <1>1, <1>2, FS_EmptySet DEF TraceInv, ReviewsAreTraced

LEMMA RequestsStayTyped ==
    ASSUME RequestsAreTyped, [NextConsole]_consoleVars
    PROVE  RequestsAreTyped'
<1>1. CASE UNCHANGED gate
  BY <1>1 DEF RequestsAreTyped, gate, In
<1> USE DEF AtTheGate, AtTheCase, Verdicts, Approval, Rejection
<1>2. ASSUME NEW w \in Workers, Review(w) PROVE RequestsAreTyped'
  <2>1. request[w].of \in Cases
    BY <1>2 DEF Review, RequestsAreTyped, In
  <2>2. IsFiniteSet(reviewed')
    BY <1>2, FS_AddElement DEF Review, RequestsAreTyped
  <2>3. QED
    BY <1>2, <2>1, <2>2 DEF Review, Moves, RequestsAreTyped
<1>3. ASSUME NEW w \in Workers, Handle(w), ~Review(w) PROVE RequestsAreTyped'
  <2>1. CASE CheckLock(w)
    BY <2>1 DEF CheckLock, RequestsAreTyped, In, Moves, Answers, NoRequest
  <2>2. CASE RightCode(w)
    BY <2>2 DEF RightCode, RequestsAreTyped, In, Moves, Answers, NoRequest
  <2>3. CASE ClearCounter(w)
    BY <2>3 DEF ClearCounter, RequestsAreTyped, In, Moves
  <2>4. CASE ReadCase(w)
    <3>1. PICK c \in Cases, verdict \in Verdicts :
             \/ request' = [request EXCEPT ![w].pc = "audit", ![w].of = c]
             \/ request' = [request EXCEPT ![w].pc = verdict, ![w].of = c]
             \/ Answers(w)
      BY <2>4 DEF ReadCase
    <3>2. UNCHANGED <<ttl, fails, tries, deaths, reviewed>>
      BY <2>4 DEF ReadCase
    <3>3. CASE Answers(w)
      BY <3>2, <3>3 DEF RequestsAreTyped, Answers, NoRequest
    <3>4. CASE \E pc \in AtTheCase : request' = [request EXCEPT ![w].pc = pc, ![w].of = c]
      BY <3>2, <3>4 DEF RequestsAreTyped
    <3>5. QED
      BY <3>1, <3>3, <3>4
  <2>5. CASE WrongCode(w)
    BY <2>5 DEF WrongCode, RequestsAreTyped, In, Moves, Answers, NoRequest
  <2>6. CASE ReadTtl(w)
    BY <2>6 DEF ReadTtl, RequestsAreTyped, In, Moves, Answers, NoRequest
  <2>7. CASE Increment(w)
    <3>1. CASE Answers(w)
      BY <2>7, <3>1 DEF Increment, RequestsAreTyped, In, Answers, NoRequest
    <3>2. CASE Moves(w, "expire")
      BY <2>7, <3>2 DEF Increment, RequestsAreTyped, In, Moves
    <3>3. QED
      BY <2>7, <3>1, <3>2 DEF Increment
  <2>8. CASE ExpireKey(w)
    BY <2>8 DEF ExpireKey, RequestsAreTyped, In, Moves, Answers, NoRequest, GivesTtl
  <2>9. CASE CheckPermission(w)
    <3>1. CASE Answers(w)
      BY <2>9, <3>1 DEF CheckPermission, RequestsAreTyped, In, Answers, NoRequest
    <3>2. CASE Moves(w, "act")
      BY <2>9, <3>2 DEF CheckPermission, RequestsAreTyped, In, Moves
    <3>3. QED
      BY <2>9, <3>1, <3>2 DEF CheckPermission
  <2>10. CASE Audit(w)
    BY <2>10 DEF Audit, RequestsAreTyped, In, Moves, Answers, NoRequest
  <2>11. QED
    BY <1>3, <2>1, <2>2, <2>3, <2>4, <2>5, <2>6, <2>7, <2>8, <2>9, <2>10 DEF Handle
<1>4. ASSUME NEW w \in Workers, ReviewerDies(w) PROVE RequestsAreTyped'
  BY <1>4 DEF ReviewerDies, RequestsAreTyped, In, Answers, NoRequest
<1>5. CASE WindowEnds
  BY <1>5 DEF WindowEnds, RequestsAreTyped, In
<1>6. QED
  BY <1>1, <1>2, <1>3, <1>4, <1>5 DEF NextConsole, consoleVars

(* The untraced reviews are among finitely many, so fewer of them count     *)
(* less.                                                                    *)
LEMMA FewerUntraced ==
    ASSUME TraceInv, RequestsAreTyped', deaths' = deaths, Untraced' \subseteq Untraced
    PROVE  ReviewsAreTraced'
<1>1. IsFiniteSet(Untraced)
  BY FS_Subset DEF TraceInv, RequestsAreTyped, Untraced
<1>2. IsFiniteSet(Untraced') /\ Cardinality(Untraced') <= Cardinality(Untraced)
  BY <1>1, FS_Subset
<1>3. Cardinality(Untraced) \in Nat /\ Cardinality(Untraced') \in Nat
  BY <1>1, <1>2, FS_CardinalityType
<1>4. QED
  BY <1>2, <1>3 DEF TraceInv, RequestsAreTyped, ReviewsAreTraced

LEMMA DeathLeavesOneUntraced ==
    ASSUME TraceInv, RequestsAreTyped', NEW w \in Workers, ReviewerDies(w)
    PROVE  ReviewsAreTraced'
<1> DEFINE c == request[w].of
<1>1. IsFiniteSet(Untraced)
  BY FS_Subset DEF TraceInv, RequestsAreTyped, Untraced
<1>2. Untraced' \subseteq Untraced \cup {c}
  BY DEF Untraced, ReviewerDies, Answers, In, TraceInv, RequestsAreTyped
<1>3. IsFiniteSet(Untraced \cup {c}) /\ Cardinality(Untraced \cup {c}) <= Cardinality(Untraced) + 1
  BY <1>1, FS_AddElement, FS_CardinalityType
<1>4. IsFiniteSet(Untraced') /\ Cardinality(Untraced') <= Cardinality(Untraced \cup {c})
  BY <1>2, <1>3, FS_Subset
<1>5. /\ Cardinality(Untraced) \in Nat /\ Cardinality(Untraced') \in Nat
      /\ Cardinality(Untraced \cup {c}) \in Nat
  BY <1>1, <1>3, <1>4, FS_CardinalityType
<1>6. deaths' = deaths + 1
  BY DEF ReviewerDies
<1>7. QED
  BY <1>3, <1>4, <1>5, <1>6 DEF TraceInv, RequestsAreTyped, ReviewsAreTraced

LEMMA TraceInvIsInductive ==
    ASSUME TraceInv, [NextConsole]_consoleVars
    PROVE  TraceInv'
<1>1. RequestsAreTyped'
  BY RequestsStayTyped DEF TraceInv
<1>2. CASE UNCHANGED gate
  <2>1. Untraced' = Untraced /\ deaths' = deaths
    BY <1>2 DEF gate, Untraced, In
  <2>2. QED
    BY <1>1, <2>1, FewerUntraced DEF TraceInv
<1>3. ASSUME NEW w \in Workers, Handle(w) PROVE TraceInv'
  <2>1. deaths' = deaths
    BY <1>3
    DEF Handle, CheckLock, RightCode, ClearCounter, WrongCode, ReadTtl, Increment, ExpireKey, CheckPermission,
        ReadCase, Review, Audit
  <2>2. CASE Review(w)
    <3>1. /\ request' = [request EXCEPT ![w].pc = "audit"] /\ request[w].pc \in Verdicts
          /\ reviewed' = reviewed \cup {request[w].of} /\ trail' = trail
      BY <2>2 DEF Review, Moves, In, Verdicts
    <3>2. Untraced' \subseteq Untraced
      BY <3>1 DEF Untraced, In, TraceInv, RequestsAreTyped, Verdicts, Approval, Rejection
    <3>3. QED
      BY <1>1, <2>1, <3>2, FewerUntraced DEF TraceInv
  <2>3. CASE Audit(w)
    <3>1. Untraced' \subseteq Untraced
      BY <2>3 DEF Audit, Audited, Answers, Untraced, In, TraceInv, RequestsAreTyped
    <3>2. QED
      BY <1>1, <2>1, <3>1, FewerUntraced DEF TraceInv
  <2>4. CASE ~Review(w) /\ ~Audit(w)
    <3>1. UNCHANGED <<reviewed, trail>> /\ \A v \in Workers : In(v, "audit") => request'[v] = request[v]
      BY <1>3, <2>4
      DEF Handle, CheckLock, RightCode, ClearCounter, WrongCode, ReadTtl, Increment, ExpireKey, CheckPermission,
          ReadCase, In, Moves, Answers, TraceInv, RequestsAreTyped
    <3>2. Untraced' \subseteq Untraced
      BY <3>1 DEF Untraced, In
    <3>3. QED
      BY <1>1, <2>1, <3>2, FewerUntraced DEF TraceInv
  <2>5. QED
    BY <2>2, <2>3, <2>4
<1>4. ASSUME NEW w \in Workers, ReviewerDies(w) PROVE TraceInv'
  BY <1>1, <1>4, DeathLeavesOneUntraced DEF TraceInv
<1>5. CASE WindowEnds
  <2>1. Untraced' = Untraced /\ deaths' = deaths
    BY <1>5 DEF WindowEnds, Untraced, In
  <2>2. QED
    BY <1>1, <2>1, FewerUntraced DEF TraceInv
<1>6. QED
  BY <1>2, <1>3, <1>4, <1>5 DEF NextConsole, consoleVars

(* A review without an audit row is a request that died between the two     *)
(* ("Every privileged mutation ... is written", audit/service.js).           *)
THEOREM ReviewsLeaveATrace == ConsoleSpec => []ReviewsAreTraced
<1>1. TraceInv /\ [NextConsole]_consoleVars => TraceInv'
  BY TraceInvIsInductive
<1>2. TraceInv => ReviewsAreTraced
  BY DEF TraceInv
<1>3. QED
  BY <1>1, <1>2, InitiallyTraceInv, PTL DEF ConsoleSpec
-----------------------------------------------------------------------------
(* The second factor.  Requests are counted by where they are: those that   *)
(* still have to count the wrong code they tried, those that were let past  *)
(* the lock, those that still owe the counter its time to live, and those   *)
(* that do not because the counter had one when they looked.                *)
Sits(P) == {w \in Workers : request[w].pc \in P}
Stale == {w \in Workers : In(w, "incr") /\ request[w].saw}

TriesAreCounted == tries <= fails + Cardinality(Sits({"ttl", "incr"})) + deaths
PlacesAreTaken == tries + Cardinality(Sits({"code"})) <= (MFA_FAIL_LIMIT - 1) + Cardinality(Workers) + deaths
BareCountsAreSmall ==
    ~ttl => fails + Cardinality(Stale) <= Cardinality(Sits({"expire"})) + Cardinality(Workers) + deaths

CountsInv ==
    /\ TriesAreCounted /\ PlacesAreTaken /\ BareCountsAreSmall
    /\ ttl => fails > 0
    /\ deaths \in 0 .. MaxDeaths

LEMMA OneElementChanges ==
    ASSUME NEW W, IsFiniteSet(W), NEW S \in SUBSET W, NEW T \in SUBSET W, NEW w \in W, S \ {w} = T \ {w}
    PROVE  /\ Cardinality(S) \in Nat /\ Cardinality(T) \in Nat /\ Cardinality(W) \in Nat
           /\ Cardinality(S) <= Cardinality(W)
           /\ Cardinality(T) + (IF w \in S THEN 1 ELSE 0) = Cardinality(S) + (IF w \in T THEN 1 ELSE 0)
<1> DEFINE R == S \ {w}
<1>1. IsFiniteSet(R) /\ IsFiniteSet(S) /\ IsFiniteSet(T) /\ Cardinality(S) <= Cardinality(W)
  BY FS_Subset
<1>2. Cardinality(R) \in Nat /\ Cardinality(S) \in Nat /\ Cardinality(T) \in Nat /\ Cardinality(W) \in Nat
  BY <1>1, FS_CardinalityType
<1>3. Cardinality(R \cup {w}) = Cardinality(R) + 1
  BY <1>1, FS_AddElement
<1>4. Cardinality(S) = Cardinality(R) + (IF w \in S THEN 1 ELSE 0)
  <2>1. CASE w \in S
    <3>1. S = R \cup {w}
      BY <2>1
    <3>2. QED
      BY <1>3, <2>1, <3>1
  <2>2. CASE w \notin S
    <3>1. S = R
      BY <2>2
    <3>2. QED
      BY <1>2, <2>2, <3>1
  <2>3. QED
    BY <2>1, <2>2
<1>5. Cardinality(T) = Cardinality(R) + (IF w \in T THEN 1 ELSE 0)
  <2>1. CASE w \in T
    <3>1. T = R \cup {w}
      BY <2>1
    <3>2. QED
      BY <1>3, <2>1, <3>1
  <2>2. CASE w \notin T
    <3>1. T = R
      BY <2>2
    <3>2. QED
      BY <1>2, <2>2, <3>1
  <2>3. QED
    BY <2>1, <2>2
<1> HIDE DEF R
<1>6. QED
  BY <1>1, <1>2, <1>4, <1>5

LEMMA OneSeatChanges ==
    ASSUME NEW w \in Workers, \A u \in Workers : u # w => request'[u] = request[u], NEW P
    PROVE  /\ Cardinality(Sits(P)) \in Nat /\ Cardinality(Sits(P)') \in Nat /\ Cardinality(Workers) \in Nat
           /\ Cardinality(Sits(P)) <= Cardinality(Workers)
           /\ Cardinality(Sits(P)') + (IF request[w].pc \in P THEN 1 ELSE 0)
                = Cardinality(Sits(P)) + (IF request'[w].pc \in P THEN 1 ELSE 0)
<1>1. Sits(P) \subseteq Workers /\ Sits(P)' \subseteq Workers /\ Sits(P) \ {w} = Sits(P)' \ {w}
  BY DEF Sits
<1>2. (w \in Sits(P) <=> request[w].pc \in P) /\ (w \in Sits(P)' <=> request'[w].pc \in P)
  BY DEF Sits
<1>3. QED
  BY <1>1, <1>2, OneElementChanges, AdminConsoleAssumption

LEMMA StaleChanges ==
    ASSUME NEW w \in Workers, \A u \in Workers : u # w => request'[u] = request[u]
    PROVE  /\ Cardinality(Stale) \in Nat /\ Cardinality(Stale') \in Nat
           /\ Cardinality(Stale) <= Cardinality(Workers)
           /\ Cardinality(Stale') + (IF In(w, "incr") /\ request[w].saw THEN 1 ELSE 0)
                = Cardinality(Stale) + (IF (In(w, "incr") /\ request[w].saw)' THEN 1 ELSE 0)
<1>1. Stale \subseteq Workers /\ Stale' \subseteq Workers /\ Stale \ {w} = Stale' \ {w}
  BY DEF Stale, In
<1>2. (w \in Stale <=> In(w, "incr") /\ request[w].saw) /\ (w \in Stale' <=> (In(w, "incr") /\ request[w].saw)')
  BY DEF Stale, In
<1>3. QED
  BY <1>1, <1>2, OneElementChanges, AdminConsoleAssumption

(* Two kinds of requests are never more than there are requests.            *)
LEMMA SeatsAreFew ==
    ASSUME NEW S \in SUBSET Workers, NEW T \in SUBSET Workers, S \cap T = {}
    PROVE  Cardinality(S) + Cardinality(T) <= Cardinality(Workers)
<1>1. IsFiniteSet(S) /\ IsFiniteSet(T) /\ Cardinality(S \cup T) <= Cardinality(Workers)
  BY FS_Subset, AdminConsoleAssumption
<1>2. Cardinality(S \cup T) = Cardinality(S) + Cardinality(T) - Cardinality(S \cap T)
  BY <1>1, FS_Union
<1>3. Cardinality(S) \in Nat /\ Cardinality(T) \in Nat /\ Cardinality(S \cap T) = 0
  BY <1>1, FS_CardinalityType, FS_EmptySet
<1>4. QED
  BY <1>1, <1>2, <1>3

(* A request takes a step: what its step does to the four counts.           *)
Counts(code, counting, expire, stale) ==
    /\ code = Cardinality(Sits({"code"})) /\ counting = Cardinality(Sits({"ttl", "incr"}))
    /\ expire = Cardinality(Sits({"expire"})) /\ stale = Cardinality(Stale)

LEMMA CountsMove ==
    ASSUME RequestsAreTyped, NEW w \in Workers, NEW v, request' = [request EXCEPT ![w] = v]
    PROVE  \E a, b, e, z, a1, b1, e1, z1 \in Nat :
             /\ Counts(a, b, e, z) /\ Counts(a1, b1, e1, z1)'
             /\ a1 + (IF In(w, "code") THEN 1 ELSE 0) = a + (IF v.pc = "code" THEN 1 ELSE 0)
             /\ b1 + (IF request[w].pc \in {"ttl", "incr"} THEN 1 ELSE 0)
                  = b + (IF v.pc \in {"ttl", "incr"} THEN 1 ELSE 0)
             /\ e1 + (IF In(w, "expire") THEN 1 ELSE 0) = e + (IF v.pc = "expire" THEN 1 ELSE 0)
             /\ z1 + (IF In(w, "incr") /\ request[w].saw THEN 1 ELSE 0)
                  = z + (IF v.pc = "incr" /\ v.saw THEN 1 ELSE 0)
             /\ a1 + b1 <= Cardinality(Workers) /\ z1 <= Cardinality(Workers)
             /\ Cardinality(Workers) \in Nat
<1>1. request'[w] = v /\ \A u \in Workers : u # w => request'[u] = request[u]
  BY DEF RequestsAreTyped
<1>2. /\ Cardinality(Sits({"code"})) \in Nat /\ Cardinality(Sits({"code"})') \in Nat
      /\ Cardinality(Sits({"code"})') + (IF request[w].pc \in {"code"} THEN 1 ELSE 0)
           = Cardinality(Sits({"code"})) + (IF v.pc \in {"code"} THEN 1 ELSE 0)
      /\ Cardinality(Workers) \in Nat
  BY <1>1, OneSeatChanges
<1>3. /\ Cardinality(Sits({"ttl", "incr"})) \in Nat /\ Cardinality(Sits({"ttl", "incr"})') \in Nat
      /\ Cardinality(Sits({"ttl", "incr"})') + (IF request[w].pc \in {"ttl", "incr"} THEN 1 ELSE 0)
           = Cardinality(Sits({"ttl", "incr"})) + (IF v.pc \in {"ttl", "incr"} THEN 1 ELSE 0)
  BY <1>1, OneSeatChanges
<1>4. /\ Cardinality(Sits({"expire"})) \in Nat /\ Cardinality(Sits({"expire"})') \in Nat
      /\ Cardinality(Sits({"expire"})') + (IF request[w].pc \in {"expire"} THEN 1 ELSE 0)
           = Cardinality(Sits({"expire"})) + (IF v.pc \in {"expire"} THEN 1 ELSE 0)
  BY <1>1, OneSeatChanges
<1>5. /\ Cardinality(Stale) \in Nat /\ Cardinality(Stale') \in Nat
      /\ Cardinality(Stale') + (IF In(w, "incr") /\ request[w].saw THEN 1 ELSE 0)
           = Cardinality(Stale) + (IF v.pc = "incr" /\ v.saw THEN 1 ELSE 0)
  BY <1>1, StaleChanges DEF In
<1>6. Cardinality(Stale') <= Cardinality(Workers)
  BY FS_Subset, AdminConsoleAssumption DEF Stale
<1>7. Cardinality(Sits({"code"})') + Cardinality(Sits({"ttl", "incr"})') <= Cardinality(Workers)
  BY SeatsAreFew DEF Sits
<1> DEFINE A == Cardinality(Sits({"code"}))
           B == Cardinality(Sits({"ttl", "incr"}))
           E == Cardinality(Sits({"expire"}))
           Z == Cardinality(Stale)
<1>8. PICK a, b, e, z, a1, b1, e1, z1 : a = A /\ b = B /\ e = E /\ z = Z /\ a1 = A' /\ b1 = B' /\ e1 = E' /\ z1 = Z'
  OBVIOUS
<1>9. Counts(a, b, e, z) /\ Counts(a1, b1, e1, z1)'
  BY <1>8 DEF Counts
<1>10. /\ a \in Nat /\ b \in Nat /\ e \in Nat /\ z \in Nat
       /\ a1 \in Nat /\ b1 \in Nat /\ e1 \in Nat /\ z1 \in Nat
  BY <1>2, <1>3, <1>4, <1>5, <1>8
<1>11. /\ a1 + (IF In(w, "code") THEN 1 ELSE 0) = a + (IF v.pc = "code" THEN 1 ELSE 0)
       /\ e1 + (IF In(w, "expire") THEN 1 ELSE 0) = e + (IF v.pc = "expire" THEN 1 ELSE 0)
  BY <1>2, <1>4, <1>8 DEF In
<1>12. /\ b1 + (IF request[w].pc \in {"ttl", "incr"} THEN 1 ELSE 0)
            = b + (IF v.pc \in {"ttl", "incr"} THEN 1 ELSE 0)
       /\ z1 + (IF In(w, "incr") /\ request[w].saw THEN 1 ELSE 0)
            = z + (IF v.pc = "incr" /\ v.saw THEN 1 ELSE 0)
  BY <1>3, <1>5, <1>8
<1>13. a1 + b1 <= Cardinality(Workers) /\ z1 <= Cardinality(Workers) /\ Cardinality(Workers) \in Nat
  BY <1>2, <1>6, <1>7, <1>8
<1>14. QED
  BY <1>9, <1>10, <1>11, <1>12, <1>13

LEMMA RequestsKeepCounts ==
    ASSUME RequestsAreTyped, CountsInv, NEW w \in Workers, Handle(w) \/ ReviewerDies(w)
    PROVE  CountsInv'
<1>1. PICK v : request' = [request EXCEPT ![w] = v]
  <2>1. ASSUME NEW pc, NEW c, request' = [request EXCEPT ![w].pc = pc, ![w].of = c]
        PROVE  \E v : request' = [request EXCEPT ![w] = v]
    BY <2>1
  <2>2. CASE ReadCase(w)
    BY <2>1, <2>2 DEF ReadCase, Answers
  <2>3. CASE ~ReadCase(w)
    BY <2>3
    DEF Handle, CheckLock, RightCode, ClearCounter, WrongCode, ReadTtl, Increment, ExpireKey, CheckPermission,
        Review, Audit, ReviewerDies, Moves, Answers
  <2>4. QED
    BY <2>2, <2>3
<1>2. request[w].pc \in AtTheGate \cup AtTheCase /\ request'[w] = v
  BY <1>1 DEF RequestsAreTyped
<1>3. PICK a, b, e, z, a1, b1, e1, z1 \in Nat :
             /\ Counts(a, b, e, z) /\ Counts(a1, b1, e1, z1)'
             /\ a1 + (IF In(w, "code") THEN 1 ELSE 0) = a + (IF v.pc = "code" THEN 1 ELSE 0)
             /\ b1 + (IF request[w].pc \in {"ttl", "incr"} THEN 1 ELSE 0)
                  = b + (IF v.pc \in {"ttl", "incr"} THEN 1 ELSE 0)
             /\ e1 + (IF In(w, "expire") THEN 1 ELSE 0) = e + (IF v.pc = "expire" THEN 1 ELSE 0)
             /\ z1 + (IF In(w, "incr") /\ request[w].saw THEN 1 ELSE 0)
                  = z + (IF v.pc = "incr" /\ v.saw THEN 1 ELSE 0)
             /\ a1 + b1 <= Cardinality(Workers) /\ z1 <= Cardinality(Workers)
             /\ Cardinality(Workers) \in Nat
  BY <1>1, CountsMove
<1> DEFINE N == Cardinality(Workers)
<1> HIDE DEF N
<1>4. /\ tries <= fails + b + deaths
      /\ tries + a <= (MFA_FAIL_LIMIT - 1) + N + deaths
      /\ ~ttl => fails + z <= e + N + deaths
      /\ ttl => fails > 0
  BY <1>3 DEF CountsInv, TriesAreCounted, PlacesAreTaken, BareCountsAreSmall, Counts, N
<1>5. /\ tries \in Nat /\ fails \in Nat /\ deaths \in Nat /\ ttl \in BOOLEAN /\ request[w].saw \in BOOLEAN
      /\ MFA_FAIL_LIMIT \in Nat \ {0} /\ MaxDeaths \in Nat /\ N \in Nat /\ deaths \in 0 .. MaxDeaths
  BY <1>3, AdminConsoleAssumption DEF RequestsAreTyped, CountsInv, N
<1>6. SUFFICES /\ tries' <= fails' + b1 + deaths'
               /\ tries' + a1 <= (MFA_FAIL_LIMIT - 1) + N + deaths'
               /\ ~ttl' => fails' + z1 <= e1 + N + deaths'
               /\ ttl' => fails' > 0
               /\ deaths' \in 0 .. MaxDeaths
  BY <1>3 DEF CountsInv, TriesAreCounted, PlacesAreTaken, BareCountsAreSmall, Counts, N
<1>7. a1 + b1 <= N /\ z1 <= N
  BY <1>3 DEF N
<1>8. CASE CheckLock(w)
  <2>1. In(w, "idle") /\ fails < MFA_FAIL_LIMIT /\ v.pc = "code" /\ UNCHANGED <<fails, ttl, tries, deaths>>
    BY <1>2, <1>5, <1>8 DEF CheckLock, LockHolds, Locked, Moves, RequestsAreTyped
  <2>2. a1 = a + 1 /\ b1 = b /\ e1 = e /\ z1 = z
    BY <1>3, <2>1 DEF In
  <2>3. QED
    BY <1>4, <1>5, <1>7, <2>1, <2>2
<1>9. CASE ClearCounter(w)
  <2>1. In(w, "clear") /\ v.pc = "permission" /\ fails' = 0 /\ ~ttl' /\ tries' = 0 /\ deaths' = deaths
    BY <1>2, <1>9 DEF ClearCounter, Moves, RequestsAreTyped
  <2>2. tries' <= fails' + b1 + deaths' /\ fails' + z1 <= e1 + N + deaths'
    BY <1>3, <1>5, <1>7, <2>1
  <2>3. tries' + a1 <= (MFA_FAIL_LIMIT - 1) + N + deaths'
    <3>1. a1 <= N
      BY <1>3, <1>5, <1>7
    <3>2. MFA_FAIL_LIMIT - 1 \in Nat
      BY <1>5
    <3>3. QED
      BY <1>3, <1>5, <2>1, <3>1, <3>2
  <2>4. ~ttl' /\ deaths' \in 0 .. MaxDeaths
    BY <1>5, <2>1
  <2>5. QED
    BY <2>2, <2>3, <2>4
<1>10. CASE WrongCode(w)
  <2>1. In(w, "code") /\ v.pc = "ttl" /\ tries' = tries + 1 /\ UNCHANGED <<fails, ttl, deaths>>
    BY <1>2, <1>10 DEF WrongCode, Moves, RequestsAreTyped
  <2>2. a1 + 1 = a /\ b1 = b + 1 /\ e1 = e /\ z1 = z
    BY <1>3, <2>1 DEF In
  <2>3. QED
    BY <1>4, <1>5, <2>1, <2>2
<1>11. CASE ReadTtl(w)
  <2>1. In(w, "ttl") /\ v.pc = "incr" /\ v.saw = ttl /\ UNCHANGED <<tries, fails, ttl, deaths>>
    BY <1>2, <1>11 DEF ReadTtl, RequestsAreTyped
  <2>2. a1 = a /\ b1 = b /\ e1 = e /\ (~ttl => z1 = z)
    BY <1>3, <2>1 DEF In
  <2>3. QED
    BY <1>4, <1>5, <2>1, <2>2
<1>12. CASE Increment(w)
  <2>1. /\ In(w, "incr") /\ fails' = fails + 1 /\ UNCHANGED <<tries, ttl, deaths>>
        /\ v.pc = (IF request[w].saw THEN "idle" ELSE "expire")
    BY <1>2, <1>5, <1>12 DEF Increment, Moves, Answers, NoRequest, RequestsAreTyped
  <2>2. /\ a1 = a /\ b1 + 1 = b
        /\ request[w].saw => e1 = e /\ z1 + 1 = z
        /\ ~request[w].saw => e1 = e + 1 /\ z1 = z
    BY <1>3, <1>5, <2>1 DEF In
  <2>3. QED
    BY <1>4, <1>5, <2>1, <2>2
<1>13. CASE ExpireKey(w)
  <2>1. /\ In(w, "expire") /\ v.pc = "idle" /\ (ttl' <=> ttl \/ fails > 0)
        /\ UNCHANGED <<tries, fails, deaths>>
    BY <1>2, <1>13 DEF ExpireKey, GivesTtl, Answers, NoRequest, RequestsAreTyped
  <2>2. a1 = a /\ b1 = b /\ e1 + 1 = e /\ z1 = z
    BY <1>3, <2>1 DEF In
  <2>3. ttl' => fails' > 0
    BY <1>4, <2>1
  <2>4. ~ttl' => fails' = 0
    BY <1>5, <2>1
  <2>5. ~ttl' => fails' + z1 <= e1 + N + deaths'
    BY <1>5, <1>7, <2>1, <2>4
  <2>6. QED
    BY <1>4, <1>5, <2>1, <2>2, <2>3, <2>5
<1>14. CASE RightCode(w) \/ CheckPermission(w) \/ ReadCase(w) \/ Review(w) \/ Audit(w)
  <2>1. /\ request[w].pc \in {"code", "permission", "act"} \cup AtTheCase
        /\ v.pc \in {"clear", "act", "idle"} \cup AtTheCase
        /\ UNCHANGED <<tries, fails, ttl, deaths>>
    <3>1. CASE RightCode(w) \/ CheckPermission(w)
      BY <1>2, <3>1 DEF RightCode, CheckPermission, Moves, Answers, NoRequest, RequestsAreTyped, In
    <3>2. CASE ReadCase(w)
      BY <1>2, <3>2 DEF ReadCase, Answers, NoRequest, RequestsAreTyped, In, AtTheCase
    <3>3. CASE Review(w) \/ Audit(w)
      BY <1>2, <3>3 DEF Review, Audit, Moves, Answers, NoRequest, RequestsAreTyped, In, AtTheCase, Verdicts
    <3>4. QED
      BY <1>14, <3>1, <3>2, <3>3
  <2>2. a1 <= a /\ b1 = b /\ e1 = e /\ z1 = z
    BY <1>3, <2>1 DEF In, AtTheCase, Verdicts, Approval, Rejection
  <2>3. QED
    BY <1>4, <1>5, <2>1, <2>2
<1>15. CASE ReviewerDies(w)
  <2>1. v.pc = "idle" /\ deaths' = deaths + 1 /\ deaths < MaxDeaths /\ UNCHANGED <<tries, fails, ttl>>
    BY <1>2, <1>15 DEF ReviewerDies, Answers, NoRequest, RequestsAreTyped
  <2>2. a1 <= a /\ b <= b1 + 1 /\ e <= e1 + 1 /\ z1 <= z
    BY <1>2, <1>3, <2>1 DEF In
  <2>3. QED
    BY <1>4, <1>5, <2>1, <2>2
<1>16. QED
  BY <1>8, <1>9, <1>10, <1>11, <1>12, <1>13, <1>14, <1>15 DEF Handle

LEMMA CountsInvIsInductive ==
    ASSUME RequestsAreTyped, CountsInv, [NextConsole]_consoleVars
    PROVE  CountsInv'
<1>1. CASE UNCHANGED gate
  BY <1>1 DEF gate, CountsInv, TriesAreCounted, PlacesAreTaken, BareCountsAreSmall, Sits, Stale, In
<1>2. CASE WindowEnds
  <2>1. ~ttl' /\ fails' = 0 /\ tries' = 0 /\ deaths' = deaths
    BY <1>2 DEF WindowEnds
  <2>2. /\ Cardinality(Sits({"code"})') \in Nat /\ Cardinality(Sits({"code"})') <= Cardinality(Workers)
        /\ Cardinality(Sits({"ttl", "incr"})') \in Nat /\ Cardinality(Sits({"expire"})') \in Nat
        /\ Cardinality(Stale') \in Nat /\ Cardinality(Stale') <= Cardinality(Workers)
        /\ Cardinality(Workers) \in Nat
    BY FS_Subset, FS_CardinalityType, AdminConsoleAssumption DEF Sits, Stale
  <2>3. deaths \in 0 .. MaxDeaths /\ deaths \in Nat /\ MFA_FAIL_LIMIT \in Nat \ {0}
    BY AdminConsoleAssumption DEF CountsInv
  <2>4. QED
    BY <2>1, <2>2, <2>3 DEF CountsInv, TriesAreCounted, PlacesAreTaken, BareCountsAreSmall
<1>3. QED
  BY <1>1, <1>2, RequestsKeepCounts DEF NextConsole, consoleVars

LEMMA InitiallyCountsInv == InitConsole => CountsInv
<1> SUFFICES ASSUME InitConsole PROVE CountsInv
  OBVIOUS
<1>1. /\ Sits({"code"}) = {} /\ Sits({"ttl", "incr"}) = {} /\ Sits({"expire"}) = {} /\ Stale = {}
      /\ ~ttl /\ fails = 0 /\ tries = 0 /\ deaths = 0
  BY DEF InitConsole, NoRequest, Sits, Stale, In
<1>2. Cardinality(Workers) \in Nat /\ MFA_FAIL_LIMIT \in Nat \ {0} /\ MaxDeaths \in Nat
  BY FS_CardinalityType, AdminConsoleAssumption
<1>3. /\ Cardinality(Sits({"code"})) = 0 /\ Cardinality(Sits({"ttl", "incr"})) = 0
      /\ Cardinality(Sits({"expire"})) = 0 /\ Cardinality(Stale) = 0
  BY <1>1, FS_EmptySet
<1>4. QED
  BY <1>1, <1>2, <1>3
  DEF CountsInv, TriesAreCounted, PlacesAreTaken, BareCountsAreSmall
-----------------------------------------------------------------------------
(* The types: an attempt at work and a review that is to be written each    *)
(* have a case that was opened.                                             *)
Working == {"check", "provider", "PASSED", "FAILED", "verify", "refuse"}

AttemptsAreTyped ==
    attempt \in [Attempts -> [pc : {"idle", "look", "open", "project"} \cup Working,
                              of : Cases \cup {NoCase}]]

AttemptsHaveACase ==
    \A s \in Attempts : attempt[s].pc \in Working \cup {"project"} =>
        attempt[s].of \in Cases /\ case[attempt[s].of] # "NONE"

CasesAreTyped ==
    /\ kyc \in {"REQUIRED", "VERIFIED", "PENDING"}
    /\ case \in [Cases -> {"NONE", "STARTED", "VERIFIED", "REJECTED"}]
    /\ check \in [Cases -> {"NONE", "PENDING", "PASSED", "FAILED"}]
    /\ \A c \in Cases : check[c] # "NONE" => case[c] # "NONE"
    /\ trail \subseteq Cases /\ reviewed \subseteq Cases /\ overtaken \subseteq Cases

ReviewsHaveACase == \A w \in Workers : request[w].pc \in Verdicts => case[request[w].of] # "NONE"

KycInv == CasesAreTyped /\ AttemptsAreTyped /\ AttemptsHaveACase /\ ReviewsHaveACase

CasesStayOpen == \A c \in Cases : case[c] # "NONE" => case'[c] # "NONE"

LEMMA AttemptKeepsKycInv ==
    ASSUME RequestsAreTyped, KycInv, NEW s \in Attempts, StartVerification(s), UNCHANGED gate
    PROVE  KycInv'
<1>0. UNCHANGED <<request, trail, reviewed, overtaken>>
  BY DEF gate, StartVerification
<1> SUFFICES (CasesAreTyped /\ AttemptsAreTyped /\ AttemptsHaveACase)' /\ CasesStayOpen
  BY <1>0 DEF KycInv, ReviewsHaveACase, CasesStayOpen, RequestsAreTyped, AtTheCase
<1> USE <1>0 DEF KycInv, CasesAreTyped, AttemptsAreTyped, AttemptsHaveACase, Working, CasesStayOpen
<1>1. CASE ReadUser(s)
  BY <1>1 DEF ReadUser, Doing, Proceeds
<1>2. CASE LookForCase(s)
  BY <1>2 DEF LookForCase, Doing, Proceeds, Stops, Resting
<1>3. CASE OpenCase(s)
  BY <1>3 DEF OpenCase, Doing
<1>4. CASE OpenCheck(s)
  BY <1>4 DEF OpenCheck, Doing, Proceeds
<1>5. CASE ProviderAnswers(s)
  BY <1>5 DEF ProviderAnswers, Doing, Proceeds
<1>6. CASE WriteCheck(s)
  BY <1>6 DEF WriteCheck, Doing, Proceeds
<1>7. CASE WriteVerified(s)
  BY <1>7 DEF WriteVerified, Doing, Proceeds, Stops, Resting
<1>8. CASE WriteRejected(s)
  BY <1>8 DEF WriteRejected, Doing, Stops, Resting
<1>9. CASE AttemptStops(s)
  BY <1>9 DEF AttemptStops, Stops, Resting
<1>10. QED
  BY <1>1, <1>2, <1>3, <1>4, <1>5, <1>6, <1>7, <1>8, <1>9 DEF StartVerification

LEMMA KycInvIsInductive ==
    ASSUME RequestsAreTyped, KycInv, [NextConsole]_consoleVars
    PROVE  KycInv'
<1> USE DEF KycInv, CasesAreTyped, AttemptsAreTyped, AttemptsHaveACase, ReviewsHaveACase, kycVars
<1>1. CASE UNCHANGED kycVars /\ UNCHANGED <<trail, reviewed, request>>
  BY <1>1
<1>2. ASSUME NEW s \in Attempts, StartVerification(s), UNCHANGED gate PROVE KycInv'
  BY <1>2, AttemptKeepsKycInv
<1>3. ASSUME NEW w \in Workers, UNCHANGED <<kycVars, trail, reviewed>>,
             NEW v, request' = [request EXCEPT ![w] = v], v.pc \notin Verdicts
      PROVE  KycInv'
  BY <1>3 DEF RequestsAreTyped
<1>4. ASSUME NEW w \in Workers, Moves(w, "code") \/ Moves(w, "clear") \/ Moves(w, "permission") \/ Moves(w, "ttl")
                                 \/ Moves(w, "expire") \/ Moves(w, "act") \/ Answers(w)
                                 \/ request' = [request EXCEPT ![w].pc = "incr", ![w].saw = ttl],
             UNCHANGED <<kycVars, trail, reviewed>>
      PROVE  KycInv'
  BY <1>3, <1>4 DEF Moves, Answers, NoRequest, Verdicts, Approval, Rejection, RequestsAreTyped
<1>5. ASSUME NEW w \in Workers, ReadCase(w) PROVE KycInv'
  <2>1. UNCHANGED <<kycVars, trail, reviewed>>
    BY <1>5 DEF ReadCase
  <2>2. CASE Answers(w)
    BY <1>4, <2>1, <2>2
  <2>3. ASSUME NEW pc, NEW c \in Cases, case[c] # "NONE", request' = [request EXCEPT ![w].pc = pc, ![w].of = c]
        PROVE  KycInv'
    BY <2>1, <2>3 DEF RequestsAreTyped
  <2>4. QED
    BY <1>5, <2>2, <2>3 DEF ReadCase
<1>6. ASSUME NEW w \in Workers, Review(w) PROVE KycInv'
  <2> DEFINE c == request[w].of
  <2>1. /\ c \in Cases /\ case[c] # "NONE" /\ attempt' = attempt
        /\ trail' = trail /\ reviewed' = reviewed \cup {c} /\ overtaken' \subseteq overtaken \cup {c}
        /\ request' = [request EXCEPT ![w].pc = "audit"]
    BY <1>6 DEF Review, In, Moves, RequestsAreTyped, AtTheCase, Verdicts, ApproveCase, RejectCase, Overtakes
  <2>2. CasesStayOpen
    BY <1>6, <2>1 DEF Review, ApproveCase, RejectCase, CasesStayOpen
  <2>3. CasesAreTyped'
    BY <1>6, <2>1, <2>2 DEF Review, ApproveCase, RejectCase, CasesStayOpen
  <2>4. ReviewsHaveACase'
    BY <2>1, <2>2 DEF CasesStayOpen, RequestsAreTyped, AtTheCase, Verdicts, Approval, Rejection
  <2>5. QED
    BY <2>1, <2>2, <2>3, <2>4 DEF CasesStayOpen
<1>7. ASSUME NEW w \in Workers, Audit(w) PROVE KycInv'
  BY <1>7 DEF Audit, Audited, Answers, NoRequest, Verdicts, Approval, Rejection, RequestsAreTyped, AtTheCase, In
<1>8. ASSUME NEW w \in Workers, Handle(w) \/ ReviewerDies(w) PROVE KycInv'
  BY <1>4, <1>5, <1>6, <1>7, <1>8
  DEF Handle, CheckLock, RightCode, ClearCounter, WrongCode, ReadTtl, Increment, ExpireKey, CheckPermission,
      ReviewerDies
<1>9. QED
  BY <1>1, <1>2, <1>8 DEF NextConsole, consoleVars, gate, WindowEnds

LEMMA InitiallyKycInv == InitConsole => KycInv
  BY DEF InitConsole, InitVerification, KycInv, CasesAreTyped, AttemptsAreTyped, AttemptsHaveACase, ReviewsHaveACase,
         Resting, Working, NoRequest, Verdicts, Approval, Rejection

MInv == RequestsAreTyped /\ CountsInv /\ KycInv

LEMMA InitiallyMInv == InitConsole => MInv
  BY InitiallyTraceInv, InitiallyCountsInv, InitiallyKycInv DEF TraceInv, MInv

LEMMA MInvIsInductive == MInv /\ [NextConsole]_consoleVars => MInv'
  BY RequestsStayTyped, CountsInvIsInductive, KycInvIsInductive DEF MInv

LEMMA MInvBoundsCodes == ASSUME MInv PROVE WrongCodesAreBounded
<1>1. Cardinality(Workers) \in Nat /\ Cardinality(Sits({"code"})) \in Nat
  BY FS_Subset, FS_CardinalityType, AdminConsoleAssumption DEF Sits
<1>2. tries \in Nat /\ deaths \in Nat /\ MFA_FAIL_LIMIT \in Nat
  BY AdminConsoleAssumption DEF MInv, RequestsAreTyped
<1>3. QED
  BY <1>1, <1>2 DEF MInv, CountsInv, PlacesAreTaken, WrongCodesAreBounded

(* However many requests of the administrator slip past the lock together,  *)
(* no more wrong codes are tried than the limit allows and one for each of  *)
(* them and each that dies uncounted (mfa/service.js: three calls, no       *)
(* transaction).                                                            *)
THEOREM WrongCodesStayBounded == ConsoleSpec => []WrongCodesAreBounded
  BY InitiallyMInv, MInvIsInductive, MInvBoundsCodes, PTL DEF ConsoleSpec

(* A counter nobody is about to give its time to live was counted up only   *)
(* by requests that overtook one another or died: it stops growing.  That   *)
(* the lock itself ends, as mfa/service.js:127 has it, cannot be proved:     *)
(* LocksAreTemporary fails when so many requests reach the limit.           *)
THEOREM LocksBoundAndEnd == ConsoleSpec => []MfaInv
<1>1. ASSUME MInv PROVE MfaInv
  <2>1. ConsoleTypeOK
    BY <1>1
    DEF MInv, ConsoleTypeOK, RequestsAreTyped, AtTheCase, CountsInv, KycInv, CasesAreTyped, AttemptsAreTyped
  <2>2. Cardinality(Workers) \in Nat /\ Cardinality(Stale) \in Nat
    BY FS_Subset, FS_CardinalityType, AdminConsoleAssumption DEF Stale
  <2>3. fails \in Nat /\ deaths \in Nat
    BY <1>1 DEF MInv, RequestsAreTyped
  <2>4. ASSUME ~ttl, \A w \in Workers : ~In(w, "expire") PROVE fails <= Cardinality(Workers) + deaths
    <3>1. Sits({"expire"}) = {}
      BY <2>4 DEF Sits, In
    <3>2. Cardinality(Sits({"expire"})) = 0
      BY <3>1, FS_EmptySet
    <3>3. QED
      BY <1>1, <2>2, <2>3, <2>4, <3>2 DEF MInv, CountsInv, BareCountsAreSmall
  <2>5. QED
    BY <1>1, <2>1, <2>4, MInvBoundsCodes DEF MfaInv, CountersGetAnEnd
<1>2. QED
  BY <1>1, InitiallyMInv, MInvIsInductive, PTL DEF ConsoleSpec
-----------------------------------------------------------------------------
(* Identity verification.  Two attempts never work on one case.  A case may *)
(* be decided while its attempt is at work, but then it was overtaken, and  *)
(* the attempt's last write, of the user alone, rests on a case that is     *)
(* verified or was overtaken.                                               *)
NoCaseIsShared ==
    \A s, t \in Attempts : s # t /\ attempt[s].of = attempt[t].of => attempt[s].of = NoCase

DecidedIsOvertaken ==
    \A s \in Attempts :
        /\ attempt[s].pc \in Working =>
             (case[attempt[s].of] = "VERIFIED" => attempt[s].of \in overtaken)
        /\ attempt[s].pc = "project" => case[attempt[s].of] = "VERIFIED" \/ attempt[s].of \in overtaken
        /\ attempt[s].pc \in {"idle", "look", "open"} => attempt[s].of = NoCase

VInv == NoCaseIsShared /\ DecidedIsOvertaken /\ VerifiedRestsOnACase
-----------------------------------------------------------------------------
LEMMA InitiallyVInv == InitConsole => VInv
  BY VerificationAssumption
  DEF InitConsole, InitVerification, VInv, DecidedIsOvertaken, NoCaseIsShared, VerifiedRestsOnACase, Resting, Working

(* Steps that leave the cases and the player alone: an attempt goes on with *)
(* the case it has, or gives it up.                                         *)
LEMMA AttemptMoves ==
    ASSUME KycInv, VInv, NEW s \in Attempts, UNCHANGED <<kyc, case, overtaken>>,
           \/ Stops(s)
           \/ \E pc \in Working : attempt[s].pc \in Working /\ Proceeds(s, pc)
           \/ \E pc \in {"look", "open"} : attempt[s].pc \in {"idle", "look"} /\ Proceeds(s, pc)
    PROVE  VInv'
<1>1. VerifiedRestsOnACase'
  BY DEF VInv, VerifiedRestsOnACase
<1>2. DecidedIsOvertaken'
  BY DEF VInv, KycInv, AttemptsAreTyped, DecidedIsOvertaken, Stops, Proceeds, Resting, Working
<1>3. NoCaseIsShared'
  BY DEF VInv, KycInv, AttemptsAreTyped, NoCaseIsShared, Stops, Proceeds, Resting
<1>4. QED
  BY <1>1, <1>2, <1>3 DEF VInv

LEMMA OpenCaseKeepsVInv ==
    ASSUME KycInv, VInv, NEW s \in Attempts, OpenCase(s), UNCHANGED overtaken
    PROVE  VInv'
<1>1. PICK c \in Cases : /\ case[c] = "NONE"
                         /\ case' = [case EXCEPT ![c] = "STARTED"]
                         /\ attempt' = [attempt EXCEPT ![s] = [pc |-> "check", of |-> c]]
  BY DEF OpenCase
<1>2. \A t \in Attempts : attempt[t].of # c
  <2>1. SUFFICES ASSUME NEW t \in Attempts, attempt[t].of = c PROVE FALSE
    OBVIOUS
  <2>2. attempt[t].pc \in {"idle", "look", "open", "project"} \cup Working
    BY DEF KycInv, AttemptsAreTyped
  <2>3. QED
    BY <1>1, <2>1, <2>2, VerificationAssumption DEF VInv, KycInv, AttemptsHaveACase, DecidedIsOvertaken
<1>3. VerifiedRestsOnACase'
  BY <1>1 DEF OpenCase, VInv, KycInv, CasesAreTyped, VerifiedRestsOnACase
<1>4. DecidedIsOvertaken'
  BY <1>1, <1>2 DEF VInv, KycInv, CasesAreTyped, AttemptsAreTyped, DecidedIsOvertaken, Working
<1>5. NoCaseIsShared'
  BY <1>1, <1>2 DEF VInv, KycInv, AttemptsAreTyped, NoCaseIsShared
<1>6. QED
  BY <1>3, <1>4, <1>5 DEF VInv

(* An attempt writes its verdict into a case nobody else works on.          *)
LEMMA VerdictKeepsVInv ==
    ASSUME KycInv, VInv, NEW s \in Attempts, WriteVerified(s) \/ WriteRejected(s), UNCHANGED overtaken
    PROVE  VInv'
<1> DEFINE c == attempt[s].of
<1>1. attempt[s].pc \in {"project", "verify", "refuse"}
  BY DEF WriteVerified, WriteRejected, Doing
<1>2. c \in Cases
  BY <1>1 DEF KycInv, AttemptsHaveACase, Working
<1>3. \A t \in Attempts : t # s => attempt[t].of # c
  BY <1>2, VerificationAssumption DEF VInv, NoCaseIsShared
<1>4. CASE attempt[s].pc = "project" /\ kyc' = "VERIFIED" /\ Stops(s) /\ case' = case
  <2>1. case[c] = "VERIFIED" \/ c \in overtaken
    BY <1>4 DEF VInv, DecidedIsOvertaken
  <2>2. VerifiedRestsOnACase'
    BY <1>2, <1>4, <2>1 DEF VerifiedRestsOnACase
  <2>3. DecidedIsOvertaken' /\ NoCaseIsShared'
    BY <1>4 DEF VInv, KycInv, AttemptsAreTyped, DecidedIsOvertaken, NoCaseIsShared, Stops, Resting, Working
  <2>4. QED
    BY <2>2, <2>3 DEF VInv
<1>5. CASE /\ attempt[s].pc = "verify" /\ case' = [case EXCEPT ![c] = "VERIFIED"]
           /\ Proceeds(s, "project") /\ kyc' = kyc
  <2>1. VerifiedRestsOnACase'
    BY <1>2, <1>5 DEF VInv, KycInv, CasesAreTyped, VerifiedRestsOnACase
  <2>2. DecidedIsOvertaken' /\ NoCaseIsShared'
    BY <1>2, <1>3, <1>5
    DEF VInv, KycInv, CasesAreTyped, AttemptsAreTyped, AttemptsHaveACase, DecidedIsOvertaken, NoCaseIsShared,
        Proceeds, Working
  <2>3. QED
    BY <2>1, <2>2 DEF VInv
<1>6. CASE /\ attempt[s].pc = "refuse" /\ case' = [case EXCEPT ![c] = "REJECTED"]
           /\ Stops(s) /\ kyc' = kyc
  <2>1. case[c] = "VERIFIED" => c \in overtaken
    BY <1>6 DEF VInv, DecidedIsOvertaken, Working
  <2>2. VerifiedRestsOnACase'
    BY <1>2, <1>6, <2>1 DEF VInv, KycInv, CasesAreTyped, VerifiedRestsOnACase
  <2>3. DecidedIsOvertaken' /\ NoCaseIsShared'
    BY <1>2, <1>3, <1>6
    DEF VInv, KycInv, CasesAreTyped, AttemptsAreTyped, AttemptsHaveACase, DecidedIsOvertaken, NoCaseIsShared,
        Stops, Resting, Working
  <2>4. QED
    BY <2>2, <2>3 DEF VInv
<1>7. QED
  BY <1>4, <1>5, <1>6 DEF WriteVerified, WriteRejected, Doing

LEMMA StartVerificationKeepsVInv ==
    ASSUME KycInv, VInv, NEW s \in Attempts, StartVerification(s)
    PROVE  VInv'
<1>0. UNCHANGED overtaken
  BY DEF StartVerification
<1>1. CASE ReadUser(s)
  BY <1>0, <1>1, AttemptMoves DEF ReadUser, Doing
<1>2. CASE LookForCase(s)
  BY <1>0, <1>2, AttemptMoves DEF LookForCase, Doing
<1>3. CASE OpenCase(s)
  BY <1>0, <1>3, OpenCaseKeepsVInv
<1>4. CASE OpenCheck(s)
  BY <1>0, <1>4, AttemptMoves DEF OpenCheck, Doing, Working
<1>5. CASE ProviderAnswers(s)
  BY <1>0, <1>5, AttemptMoves DEF ProviderAnswers, Doing, Working
<1>6. CASE WriteCheck(s)
  BY <1>0, <1>6, AttemptMoves DEF WriteCheck, Doing, Working
<1>7. CASE WriteVerified(s) \/ WriteRejected(s)
  BY <1>0, <1>7, VerdictKeepsVInv
<1>8. CASE AttemptStops(s)
  BY <1>0, <1>8, AttemptMoves DEF AttemptStops
<1>9. QED
  BY <1>1, <1>2, <1>3, <1>4, <1>5, <1>6, <1>7, <1>8 DEF StartVerification

(* A review writes whatever the case has become since it was read; if its   *)
(* attempt is still at work, the case counts as overtaken.                  *)
LEMMA ReviewKeepsVInv ==
    ASSUME KycInv, VInv, NEW c \in Cases, ApproveCase(c) \/ RejectCase(c)
    PROVE  VInv'
<1>1. /\ attempt' = attempt
      /\ overtaken' = overtaken \cup {d \in {c} : \E s \in Attempts : attempt[s].of = d}
  BY DEF ApproveCase, RejectCase, Overtakes
<1>2. \/ kyc' = "VERIFIED" /\ case' = [case EXCEPT ![c] = "VERIFIED"]
      \/ kyc' = "PENDING" /\ case' = [case EXCEPT ![c] = "REJECTED"]
  BY DEF ApproveCase, RejectCase
<1>3. VerifiedRestsOnACase'
  BY <1>2 DEF KycInv, CasesAreTyped, VerifiedRestsOnACase
<1>4. NoCaseIsShared'
  BY <1>1 DEF VInv, NoCaseIsShared
<1>5. \A d \in Cases : d # c => case'[d] = case[d]
  BY <1>2 DEF KycInv, CasesAreTyped
<1>6. \A s \in Attempts : attempt[s].of = c => c \in overtaken'
  BY <1>1
<1>7. DecidedIsOvertaken'
  BY <1>1, <1>5, <1>6 DEF VInv, KycInv, AttemptsHaveACase, DecidedIsOvertaken
<1>8. QED
  BY <1>3, <1>4, <1>7 DEF VInv

LEMMA VInvIsInductive ==
    ASSUME MInv, VInv, [NextConsole]_consoleVars
    PROVE  VInv'
<1>1. CASE UNCHANGED kycVars
  BY <1>1 DEF VInv, kycVars, VerifiedRestsOnACase, DecidedIsOvertaken, NoCaseIsShared
<1>2. ASSUME NEW s \in Attempts, StartVerification(s) PROVE VInv'
  BY <1>2, StartVerificationKeepsVInv DEF MInv
<1>3. ASSUME NEW w \in Workers, Handle(w) PROVE VInv'
  <2>1. CASE Review(w)
    <3>1. request[w].of \in Cases /\ (ApproveCase(request[w].of) \/ RejectCase(request[w].of))
      BY <2>1 DEF Review, In, MInv, RequestsAreTyped, AtTheCase, Verdicts
    <3>2. QED
      BY <3>1, ReviewKeepsVInv DEF MInv
  <2>2. CASE ~Review(w)
    BY <1>1, <1>3, <2>2
    DEF Handle, CheckLock, RightCode, ClearCounter, WrongCode, ReadTtl, Increment, ExpireKey, CheckPermission,
        ReadCase, Audit
  <2>3. QED
    BY <2>1, <2>2
<1>4. QED
  BY <1>1, <1>2, <1>3 DEF NextConsole, ReviewerDies, WindowEnds, consoleVars

(* A player who counts as verified has a verified case, or one that was     *)
(* reviewed while its attempt was at work, whichever write an attempt       *)
(* stopped after (startVerification has no transaction), however many       *)
(* operators review, and with or without ADMIN_KYC_OVERRIDE_VERIFIED.       *)
THEOREM VerifiedHasACase == ConsoleSpec => []VerifiedRestsOnACase
<1>1. (MInv /\ VInv) /\ [NextConsole]_consoleVars => (MInv /\ VInv)'
  BY MInvIsInductive, VInvIsInductive
<1>2. MInv /\ VInv => VerifiedRestsOnACase
  BY DEF VInv
<1>3. QED
  BY <1>1, <1>2, InitiallyMInv, InitiallyVInv, PTL DEF ConsoleSpec
=============================================================================

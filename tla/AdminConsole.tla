---------------------------- MODULE AdminConsole ----------------------------
(***************************************************************************)
(* The administrator's requests: second factor, permission, action, audit   *)
(* (modules/rbac/service.js, modules/mfa/service.js, admin/controller.js),  *)
(* with the review of verification cases as the action behind the gate.     *)
(* One administrator, several requests at a time; the counter of wrong      *)
(* codes is one Redis key that is read, incremented and given its time to    *)
(* live in three separate calls.                                            *)
(***************************************************************************)
EXTENDS Verification, FiniteSets

CONSTANTS Workers,         \* concurrent requests of the administrator
          MFA_FAIL_LIMIT,
          MaxDeaths        \* bound: requests that die in a behaviour

ASSUME AdminConsoleAssumption ==
    IsFiniteSet(Workers) /\ MFA_FAIL_LIMIT \in Nat \ {0} /\ MaxDeaths \in Nat

VARIABLES
    fails,      \* mfa:fail:{admin}; 0 when the key does not exist
    ttl,        \* the key has a time to live
    request,    \* what each request is doing
    trail,      \* cases with an audit row of a review
    reviewed,   \* history: cases a review was committed for
    tries,      \* history: wrong codes tried since the counter was last empty
    deaths

gate == <<fails, ttl, request, trail, reviewed, tries, deaths>>
consoleVars == <<kycVars, gate>>

NoRequest == [pc |-> "idle", saw |-> TRUE, of |-> NoCase]
Verdicts == {Approval, Rejection}
In(w, pc) == request[w].pc = pc
Moves(w, pc) == request' = [request EXCEPT ![w].pc = pc]
Answers(w) == request' = [request EXCEPT ![w] = NoRequest]

Locked == fails >= MFA_FAIL_LIMIT

(* requireAdminMfa: the lock is looked at, then the code is verified.        *)
LockedByMore == fails > MFA_FAIL_LIMIT    \* mutant: off by one
LockHolds == Locked

CheckLock(w) ==
    /\ In(w, "idle") /\ ~LockHolds
    /\ Moves(w, "code")
    /\ UNCHANGED <<kycVars, fails, ttl, trail, reviewed, tries, deaths>>

(* The right code deletes the counter, in a call of its own.                 *)
RightCode(w) ==
    /\ In(w, "code") /\ Moves(w, "clear")
    /\ UNCHANGED <<kycVars, fails, ttl, trail, reviewed, tries, deaths>>

ClearCounter(w) ==
    /\ In(w, "clear") /\ Moves(w, "permission")
    /\ fails' = 0 /\ ttl' = FALSE /\ tries' = 0
    /\ UNCHANGED <<kycVars, trail, reviewed, deaths>>

WrongCode(w) ==
    /\ In(w, "code") /\ Moves(w, "ttl")
    /\ tries' = tries + 1
    /\ UNCHANGED <<kycVars, fails, ttl, trail, reviewed, deaths>>

(* recordMfaFailure: TTL, INCR, and EXPIRE when the first call found none.   *)
ReadTtl(w) ==
    /\ In(w, "ttl") /\ request' = [request EXCEPT ![w].pc = "incr", ![w].saw = ttl]
    /\ UNCHANGED <<kycVars, fails, ttl, trail, reviewed, tries, deaths>>

Increment(w) ==
    /\ In(w, "incr") /\ fails' = fails + 1
    /\ IF request[w].saw THEN Answers(w) ELSE Moves(w, "expire")
    /\ UNCHANGED <<kycVars, ttl, trail, reviewed, tries, deaths>>

GivesTtl(w) == fails > 0                  \* EXPIRE does nothing to a missing key
ExpireKey(w) ==
    /\ In(w, "expire") /\ Answers(w)
    /\ ttl' = (ttl \/ GivesTtl(w))
    /\ UNCHANGED <<kycVars, fails, trail, reviewed, tries, deaths>>

(* requirePermission reads the roles at every request; whether the           *)
(* administrator holds one with VERIFICATION_REVIEW may change at any time.   *)
CheckPermission(w) ==
    /\ In(w, "permission")
    /\ Moves(w, "act") \/ Answers(w)
    /\ UNCHANGED <<kycVars, fails, ttl, trail, reviewed, tries, deaths>>

(* The case is read; one that may not be reviewed is refused.                *)
ReadCase(w) ==
    /\ In(w, "act")
    /\ \E c \in Cases, verdict \in Verdicts :
          /\ case[c] # "NONE"
          /\ IF Replays(c, verdict)
             THEN request' = [request EXCEPT ![w].pc = "audit", ![w].of = c]
             ELSE IF MayReview(c, verdict)
             THEN request' = [request EXCEPT ![w].pc = verdict, ![w].of = c]
             ELSE Answers(w)
    /\ UNCHANGED <<kycVars, fails, ttl, trail, reviewed, tries, deaths>>

(* The review commits, then its audit row is written, then it is answered.   *)
Review(w) ==
    /\ \/ In(w, Approval) /\ ApproveCase(request[w].of)
       \/ In(w, Rejection) /\ RejectCase(request[w].of)
    /\ Moves(w, "audit")
    /\ reviewed' = reviewed \cup {request[w].of}
    /\ UNCHANGED <<fails, ttl, trail, tries, deaths>>

AuditedOnChange(w) ==                     \* mutant: only approvals are recorded
    IF case[request[w].of] = "VERIFIED" THEN trail \cup {request[w].of} ELSE trail
Audited(w) == trail \cup {request[w].of}
Audit(w) ==
    /\ In(w, "audit") /\ Answers(w)
    /\ trail' = Audited(w)
    /\ UNCHANGED <<kycVars, fails, ttl, reviewed, tries, deaths>>

Handle(w) == CheckLock(w) \/ RightCode(w) \/ ClearCounter(w) \/ WrongCode(w)
             \/ ReadTtl(w) \/ Increment(w) \/ ExpireKey(w)
             \/ CheckPermission(w) \/ ReadCase(w) \/ Review(w) \/ Audit(w)

(* A request fails or its process dies between two calls.                    *)
ReviewerDies(w) ==
    /\ ~In(w, "idle") /\ deaths < MaxDeaths
    /\ deaths' = deaths + 1
    /\ Answers(w)
    /\ UNCHANGED <<kycVars, fails, ttl, trail, reviewed, tries>>

(* Redis drops the counter when its time is over.                            *)
WindowEnds ==
    /\ ttl /\ ttl' = FALSE /\ fails' = 0 /\ tries' = 0
    /\ UNCHANGED <<kycVars, request, trail, reviewed, deaths>>

InitConsole ==
    /\ InitVerification
    /\ fails = 0 /\ ttl = FALSE
    /\ request = [w \in Workers |-> NoRequest]
    /\ trail = {} /\ reviewed = {} /\ tries = 0 /\ deaths = 0

NextConsole ==
    \/ \E s \in Attempts : StartVerification(s) /\ UNCHANGED gate
    \/ \E w \in Workers : Handle(w) \/ ReviewerDies(w)
    \/ WindowEnds

ConsoleSpec == InitConsole /\ [][NextConsole]_consoleVars

-----------------------------------------------------------------------------
(* Types; a check belongs to a case, a time to live to a key that exists.    *)
ConsoleTypeOK ==
    /\ kyc \in {"REQUIRED", "VERIFIED", "PENDING"}
    /\ case \in [Cases -> {"NONE", "STARTED", "VERIFIED", "REJECTED"}]
    /\ check \in [Cases -> {"NONE", "PENDING", "PASSED", "FAILED"}]
    /\ \A c \in Cases : check[c] # "NONE" => case[c] # "NONE"
    /\ \A s \in Attempts : attempt[s].of \in Cases \cup {NoCase}
    /\ fails \in Nat /\ ttl \in BOOLEAN /\ (ttl => fails > 0)
    /\ \A w \in Workers : request[w].of \in Cases \cup {NoCase} /\ request[w].saw \in BOOLEAN
    /\ \A w \in Workers : request[w].pc \in Verdicts \cup {"audit"} => request[w].of \in Cases
    /\ trail \subseteq Cases /\ reviewed \subseteq Cases /\ overtaken \subseteq Cases
    /\ tries \in Nat /\ deaths \in 0 .. MaxDeaths

(* The lock is looked at before a code is tried and counted after: requests  *)
(* in parallel slip past it, but no more of them than there are requests, or *)
(* deaths between the trial and the count.                                   *)
WrongCodesAreBounded == tries <= (MFA_FAIL_LIMIT - 1) + Cardinality(Workers) + deaths

(* Every committed review is in the audit trail or is about to be, but for   *)
(* those of requests that died in between (audit/service.js: "Every           *)
(* privileged mutation ... is written").                                     *)
Untraced == {c \in reviewed \ trail : \A w \in Workers : ~(In(w, "audit") /\ request[w].of = c)}
ReviewsAreTraced == Cardinality(Untraced) <= deaths

(* A counter that nobody is about to give its time to live was counted up    *)
(* only by requests that ran at the same time, or died in between: it does   *)
(* not go on growing.                                                        *)
CountersGetAnEnd ==
    ~ttl /\ (\A w \in Workers : ~In(w, "expire")) => fails <= Cardinality(Workers) + deaths

(* mfa/service.js:127 says that the lock lasts for the remainder of the       *)
(* window: then its key has a time to live, or a request is about to give it *)
(* one.  False once as many requests run at a time, or die, as it takes to   *)
(* lock: the key expires between their TTL and their INCR, they count it up  *)
(* again, none of them sets EXPIRE, and nobody gets past the lock to do it.  *)
LocksAreTemporary ==
    Locked => ttl \/ \E w \in Workers : In(w, "expire") \/ (In(w, "incr") /\ ~request[w].saw)

(* The state is typed, wrong codes are counted, and so are endless counts.   *)
MfaInv == ConsoleTypeOK /\ WrongCodesAreBounded /\ CountersGetAnEnd
=============================================================================

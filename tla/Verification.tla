---------------------------- MODULE Verification ----------------------------
(***************************************************************************)
(* Identity verification of one player (modules/verification/service.js).   *)
(* startVerification is a sequence of independent writes around a call to   *)
(* the provider: no transaction, every write a step, and the handler may    *)
(* stop after each.  An operator's approval or rejection reads the case and  *)
(* then writes it, in one transaction at READ COMMITTED and without looking  *)
(* again; nothing keeps it from a case whose attempt is still at work.       *)
(***************************************************************************)
EXTENDS Naturals

CONSTANTS Attempts,          \* slots of concurrent POST /verification/start
          Cases,             \* bound: verification cases opened in a behaviour
          NoCase,
          OverrideVerified   \* ADMIN_KYC_OVERRIDE_VERIFIED: a verified case may be rejected

ASSUME VerificationAssumption == NoCase \notin Cases /\ OverrideVerified \in BOOLEAN

VARIABLES
    kyc,        \* User.kycStatus
    case,       \* VerificationCase.status
    check,      \* VerificationCheck.status of the case's check
    attempt,    \* what each startVerification is doing, for which case
    overtaken   \* history: cases reviewed while their attempt was at work

kycVars == <<kyc, case, check, attempt, overtaken>>

InFlight == {"STARTED", "PENDING", "UNDER_REVIEW"}
Reviewable == InFlight \cup {"REJECTED", "EXPIRED"}     \* REVIEWABLE_CASE_STATUSES

Approval == "VERIFIED"       \* an operator's verdict is the status it gives the case
Rejection == "REJECTED"

Resting == [pc |-> "idle", of |-> NoCase]
Doing(s, pc) == attempt[s].pc = pc
Proceeds(s, pc) == attempt' = [attempt EXCEPT ![s].pc = pc]
Stops(s) == attempt' = [attempt EXCEPT ![s] = Resting]

(* The user is read, then the open cases: two queries.                       *)
ReadUser(s) ==
    /\ Doing(s, "idle") /\ kyc # "VERIFIED"
    /\ Proceeds(s, "look") /\ UNCHANGED <<kyc, case, check>>

NoneInFlight == \A c \in Cases : case[c] \notin InFlight
LookForCase(s) ==
    /\ Doing(s, "look")
    /\ IF NoneInFlight THEN Proceeds(s, "open") ELSE Stops(s)
    /\ UNCHANGED <<kyc, case, check>>

OpenCase(s) ==
    /\ Doing(s, "open")
    /\ \E c \in Cases :
          /\ case[c] = "NONE"
          /\ case' = [case EXCEPT ![c] = "STARTED"]
          /\ attempt' = [attempt EXCEPT ![s] = [pc |-> "check", of |-> c]]
    /\ UNCHANGED <<kyc, check>>

OpenCheck(s) ==
    /\ Doing(s, "check")
    /\ check' = [check EXCEPT ![attempt[s].of] = "PENDING"]
    /\ Proceeds(s, "provider") /\ UNCHANGED <<kyc, case>>

(* provider.start and provider.getResult: a verdict, or a KycProviderError,  *)
(* which counts as a failed check; any other error leaves the case as it is. *)
ProviderAnswers(s) ==
    /\ Doing(s, "provider")
    /\ \E verdict \in {"PASSED", "FAILED"} : Proceeds(s, verdict)
    /\ UNCHANGED <<kyc, case, check>>

WriteCheck(s) ==
    /\ attempt[s].pc \in {"PASSED", "FAILED"}
    /\ check' = [check EXCEPT ![attempt[s].of] = attempt[s].pc]
    /\ Proceeds(s, IF Doing(s, "PASSED") THEN "verify" ELSE "refuse")
    /\ UNCHANGED <<kyc, case>>

WriteVerifiedFirst(s) ==     \* mutant: the user's column before the case
    \/ /\ Doing(s, "verify") /\ kyc' = "VERIFIED"
       /\ Proceeds(s, "project") /\ UNCHANGED <<case, check>>
    \/ /\ Doing(s, "project") /\ case' = [case EXCEPT ![attempt[s].of] = "VERIFIED"]
       /\ Stops(s) /\ UNCHANGED <<kyc, check>>
WriteVerified(s) ==
    \/ /\ Doing(s, "verify") /\ case' = [case EXCEPT ![attempt[s].of] = "VERIFIED"]
       /\ Proceeds(s, "project") /\ UNCHANGED <<kyc, check>>
    \/ /\ Doing(s, "project") /\ kyc' = "VERIFIED"
       /\ Stops(s) /\ UNCHANGED <<case, check>>

WriteRejected(s) ==
    /\ Doing(s, "refuse") /\ case' = [case EXCEPT ![attempt[s].of] = "REJECTED"]
    /\ Stops(s) /\ UNCHANGED <<kyc, check>>

(* An error that is not the provider's, or the end of the process.           *)
AttemptStops(s) == ~Doing(s, "idle") /\ Stops(s) /\ UNCHANGED <<kyc, case, check>>

StartVerification(s) ==
    /\ UNCHANGED overtaken
    /\ \/ ReadUser(s) \/ LookForCase(s) \/ OpenCase(s) \/ OpenCheck(s) \/ ProviderAnswers(s)
       \/ WriteCheck(s) \/ WriteVerified(s) \/ WriteRejected(s) \/ AttemptStops(s)

-----------------------------------------------------------------------------
(* The operator's transactions.  The status is read first.  A case already   *)
(* in the wanted state is a replay that changes nothing.                     *)
Replays(c, verdict) == case[c] = verdict

ReviewableBy(verdict) ==
    IF verdict = Rejection /\ OverrideVerified THEN Reviewable \cup {"VERIFIED"} ELSE Reviewable

MayReview(c, verdict) == case[c] \in ReviewableBy(verdict) \ {verdict}

Overtakes(c) == overtaken' = overtaken \cup {d \in {c} : \E s \in Attempts : attempt[s].of = d}

(* Then it is written, whatever it has become; the row locks of the case and  *)
(* of the user put two reviews one after the other.                          *)
ApproveCase(c) ==
    /\ check' = [check EXCEPT ![c] = IF @ \in {"PENDING", "FAILED"} THEN "PASSED" ELSE @]
    /\ case' = [case EXCEPT ![c] = "VERIFIED"]
    /\ kyc' = "VERIFIED"
    /\ Overtakes(c) /\ UNCHANGED attempt

RejectCase(c) ==
    /\ check' = [check EXCEPT ![c] = IF @ = "PENDING" THEN "FAILED" ELSE @]
    /\ case' = [case EXCEPT ![c] = "REJECTED"]
    /\ kyc' = "PENDING"
    /\ Overtakes(c) /\ UNCHANGED attempt

InitVerification ==
    /\ kyc = "REQUIRED"
    /\ case = [c \in Cases |-> "NONE"] /\ check = [c \in Cases |-> "NONE"]
    /\ attempt = [s \in Attempts |-> Resting] /\ overtaken = {}

-----------------------------------------------------------------------------
(* A player who counts as verified has a verified case to show for it,       *)
(* whichever write an attempt stopped after and whoever reviews meanwhile;    *)
(* if none is left, it is because one was reviewed while its attempt was     *)
(* still at work, and the attempt wrote over the review or was overwritten.  *)
VerifiedRestsOnACase ==
    kyc = "VERIFIED" => \E c \in Cases : case[c] = "VERIFIED" \/ c \in overtaken

(* The same without the exception: false, because an attempt whose case was  *)
(* approved while it waited for the provider still writes the provider's     *)
(* refusal into the case, and leaves the player verified.                    *)
VerifiedHasItsCase == kyc = "VERIFIED" => \E c \in Cases : case[c] = "VERIFIED"

(* Stated by service.js:266 ("VERIFIED is terminal and can never be           *)
(* re-reviewed"); false for the same reason, because two operators who have  *)
(* both read the open case may write one after the other, and because of     *)
(* ADMIN_KYC_OVERRIDE_VERIFIED.                                              *)
VerifiedIsTerminal == [][\A c \in Cases : case[c] = "VERIFIED" => case'[c] = "VERIFIED"]_kycVars
=============================================================================

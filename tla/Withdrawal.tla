----------------------------- MODULE Withdrawal -----------------------------
(***************************************************************************)
(* Withdrawals: a player asks, an operator approves and begins the payout, *)
(* the provider transfers or refuses, and callbacks, the follow-up sweep   *)
(* or an operator report the outcome; or an operator releases the money.   *)
(*                                                                         *)
(* A transaction whose writes are conditional on what it read is one       *)
(* action.  beginPayout is five: it reads, claims, calls the provider and  *)
(* stores its reference or records a failure, in statements of their own.  *)
(* releaseWithdrawal is two: its update does not repeat the condition it   *)
(* read.  A run of the follow-up sweep fetches a few rows, then asks the   *)
(* provider about one after the other.                                     *)
(***************************************************************************)
EXTENDS WithdrawalMoney, Functions

CONSTANTS
    Operators,  \* admins acting at the same time
    ByRef,      \* withdrawals whose gateway is asked by the provider's reference (Flutterwave)
    MaxPerRun   \* rows one run of the follow-up sweep fetches (MAX_PER_RUN)

ASSUME MaxPerRunAssumption == MaxPerRun \in Nat \ {0}

VARIABLES
    status,     \* Withdrawal.status, "NONE" before the row exists
    bank,       \* does the row still have a payout destination?
    posted,     \* the ledger transactions of a withdrawal, by idempotency key
    told,       \* the notification enqueued under notify:withdrawal:<id>
    operator,   \* what each operator's request is doing, for which withdrawal
    transfer,   \* the provider's transfer for the withdrawal's reference
    stored,     \* withdrawals of ByRef whose providerRef is stored
    older,      \* <<v, w>>: v was claimed before w (processedAt, while both are PROCESSING)
    resting,    \* claimed or asked about too recently for the follow-up sweep
    batch,      \* what a run of the sweep has fetched and not yet asked about
    slips       \* history: withdrawals one of the two unconditional updates hit wrongly

rows == <<status, bank, posted, told>>
sweep == <<stored, older, resting, batch>>
vars == <<request, spendable, pending, paidOut, status, bank, posted, told, operator, transfer,
          stored, older, resting, batch, slips>>
-----------------------------------------------------------------------------
(* Mutant: a payout in progress can be released. *)
ReleasableInProgress == {"PENDING_REVIEW", "APPROVED", "FAILED", "PROCESSING"}

(* RELEASABLE_STATUSES *)
Releasable == {"PENDING_REVIEW", "APPROVED", "FAILED"}

Payable == {"APPROVED", "FAILED"}

Final == {"COMPLETED", "RELEASED"}

Idle == [pc |-> "idle", for |-> "none", seen |-> "NONE"]

Busy(pc, w, s) == [pc |-> pc, for |-> w, seen |-> s]

(* Mutant: the idempotency key of a posting is not looked up. *)
PostAgain(w, key, posting) ==
    posting /\ posted' = [posted EXCEPT ![w] = @ \cup {key}]

(* A posting is made once under its key; a replay changes nothing. *)
PostOnce(w, key, posting) ==
    IF key \in posted[w]
    THEN UNCHANGED <<spendable, pending, paidOut, posted>>
    ELSE posting /\ posted' = [posted EXCEPT ![w] = @ \cup {key}]

(* enqueueNotificationDelivery: the first event under a dedupe key stays. *)
Tell(w, what) == told' = [told EXCEPT ![w] = IF @ = "NOTHING" THEN what ELSE @]
-----------------------------------------------------------------------------
Init ==
    /\ MoneyInit
    /\ status = [w \in Withdrawals |-> "NONE"]
    /\ bank = [w \in Withdrawals |-> FALSE]
    /\ posted = [w \in Withdrawals |-> {}]
    /\ told = [w \in Withdrawals |-> "NOTHING"]
    /\ operator = [a \in Operators |-> Idle]
    /\ transfer = [w \in Withdrawals |-> "none"]
    /\ stored = {}
    /\ older = {}
    /\ resting = {}
    /\ batch = {}
    /\ slips = {}
-----------------------------------------------------------------------------
(* requestWithdrawal: one transaction under the user's wallet lock.  (A     *)
(* replay of an idempotency key returns the first row and changes nothing.) *)
RequestWithdrawal(w, r) ==
    /\ status[w] = "NONE"
    /\ spendable[r.owner] >= r.amount
    /\ request' = [request EXCEPT ![w] = r]
    /\ status' = [status EXCEPT ![w] = "PENDING_REVIEW"]
    /\ bank' = [bank EXCEPT ![w] = TRUE]
    /\ PostOnce(w, "reserve", Reserve(r))
    /\ UNCHANGED <<told, operator, transfer, sweep, slips>>

ApproveWithdrawal(w) ==
    /\ status[w] = "PENDING_REVIEW"
    /\ status' = [status EXCEPT ![w] = "APPROVED"]
    /\ UNCHANGED <<request, balances, bank, posted, told, operator, transfer, sweep, slips>>

(* deleteBankAccount: the foreign key of the user's withdrawals is nulled. *)
DeleteBankAccount(u) ==
    /\ \E w \in Withdrawals : bank[w] /\ request[w].owner = u
    /\ bank' = [w \in Withdrawals |-> bank[w] /\ request[w].owner # u]
    /\ UNCHANGED <<request, balances, status, posted, told, operator, transfer, sweep, slips>>
-----------------------------------------------------------------------------
(* beginPayout: read the row and its destination ... *)
BeginPayout(a, w) ==
    /\ operator[a] = Idle
    /\ status[w] \in Payable /\ bank[w]
    /\ operator' = [operator EXCEPT ![a] = Busy("claim", w, status[w])]
    /\ UNCHANGED <<request, balances, rows, transfer, sweep, slips>>

(* ... claim it for PROCESSING if its status is still the one read ...      *)
ClaimPayout(a) ==
    LET w == operator[a].for IN
    /\ operator[a].pc = "claim"
    /\ IF status[w] = operator[a].seen
       THEN /\ status' = [status EXCEPT ![w] = "PROCESSING"]
            /\ operator' = [operator EXCEPT ![a] = Busy("initiate", w, "NONE")]
            /\ older' = {p \in older : p[1] # w} \cup ((Withdrawals \ {w}) \X {w})
            /\ resting' = resting \cup {w}
       ELSE /\ operator' = [operator EXCEPT ![a] = Idle]
            /\ UNCHANGED <<status, older, resting>>
    /\ UNCHANGED <<request, balances, bank, posted, told, transfer, stored, batch, slips>>

(* ... call the provider, which starts at most one transfer per reference   *)
(* and may answer with the transfer it already has ...                      *)
ProviderAccepts(a) ==
    LET w == operator[a].for IN
    /\ operator[a].pc = "initiate"
    /\ transfer' = [transfer EXCEPT ![w] = IF @ = "none" THEN "pending" ELSE @]
    /\ operator' = [operator EXCEPT ![a] = Busy("record", w, "NONE")]
    /\ UNCHANGED <<request, balances, rows, sweep, slips>>

(* ... store the provider's reference, which may throw as well (what is     *)
(* stored for the other gateway is never read) ...                          *)
RecordRef(a) ==
    /\ operator[a].pc = "record"
    /\ \/ /\ stored' = stored \cup ({operator[a].for} \cap ByRef)
          /\ operator' = [operator EXCEPT ![a] = Idle]
       \/ /\ operator' = [operator EXCEPT ![a] = Busy("fail", operator[a].for, "NONE")]
          /\ UNCHANGED stored
    /\ UNCHANGED <<request, balances, rows, transfer, older, resting, batch, slips>>

(* ... or the call throws: the provider refused, or its answer was lost ... *)
ProviderFails(a) ==
    LET w == operator[a].for IN
    /\ operator[a].pc = "initiate"
    /\ \/ UNCHANGED transfer
       \/ transfer[w] = "none" /\ transfer' = [transfer EXCEPT ![w] = "pending"]
    /\ operator' = [operator EXCEPT ![a] = Busy("fail", w, "NONE")]
    /\ UNCHANGED <<request, balances, rows, sweep, slips>>

(* ... and when one of the two threw, write FAILED, whatever the status and *)
(* the transfer are now.                                                    *)
RecordFailure(a) ==
    LET w == operator[a].for IN
    /\ operator[a].pc = "fail"
    /\ status' = [status EXCEPT ![w] = "FAILED"]
    /\ operator' = [operator EXCEPT ![a] = Idle]
    /\ slips' = IF status[w] \in Final \/ transfer[w] \in {"pending", "success"}
                THEN slips \cup {w} ELSE slips
    /\ UNCHANGED <<request, balances, bank, posted, told, transfer, sweep>>
-----------------------------------------------------------------------------
(* The provider ends a transfer it started. *)
TransferEnds(w, outcome) ==
    /\ transfer[w] = "pending"
    /\ outcome \in {"success", "failed"}
    /\ transfer' = [transfer EXCEPT ![w] = outcome]
    /\ UNCHANGED <<request, balances, rows, operator, sweep, slips>>

(* Mutant: a failure is recorded whatever the status is. *)
ReportAnyway(w, success) ==
    /\ status[w] = "PROCESSING" \/ (status[w] # "NONE" /\ ~success)
    /\ status' = [status EXCEPT ![w] = IF success THEN "COMPLETED" ELSE "FAILED"]
    /\ IF success
       THEN PostOnce(w, "complete", Complete(request[w])) /\ Tell(w, "CONFIRMED")
       ELSE UNCHANGED <<spendable, pending, paidOut, posted, told>>
    /\ UNCHANGED <<request, bank, operator, transfer, stored, older, resting, slips>>

(* reportPayoutResult: a conditional update PROCESSING -> outcome with the  *)
(* posting and the notification in the same transaction.                    *)
ReportPayoutResult(w, success) ==
    /\ status[w] = "PROCESSING"
    /\ status' = [status EXCEPT ![w] = IF success THEN "COMPLETED" ELSE "FAILED"]
    /\ IF success
       THEN /\ PostOnce(w, "complete", Complete(request[w]))
            /\ Tell(w, "CONFIRMED")
       ELSE UNCHANGED <<spendable, pending, paidOut, posted, told>>
    /\ UNCHANGED <<request, bank, operator, transfer, stored, older, resting, slips>>

(* Mutant: any final event of the provider counts as a success. *)
CallbackUnread(w) ==
    /\ transfer[w] \in {"success", "failed"}
    /\ ReportPayoutResult(w, TRUE)
    /\ UNCHANGED batch

(* handlePayoutCallback: the provider's event, late or repeated. *)
Callback(w) ==
    /\ transfer[w] \in {"success", "failed"}
    /\ ReportPayoutResult(w, transfer[w] = "success")
    /\ UNCHANGED batch
-----------------------------------------------------------------------------
(* processProviderFollowUp: fetch the MaxPerRun oldest of the PROCESSING    *)
(* rows that are due ...                                                    *)
Due == {w \in Withdrawals : status[w] = "PROCESSING" /\ w \notin resting}

Oldest(S) == {w \in S : Cardinality({v \in S : <<v, w>> \in older}) < MaxPerRun}

SweepReads ==
    /\ batch = {} /\ Due # {}
    /\ batch' = Oldest(Due)
    /\ UNCHANGED <<request, balances, rows, operator, transfer, stored, older, resting, slips>>

(* The provider cannot be asked about a payout it never heard of, nor       *)
(* Flutterwave about one whose reference was not stored.                    *)
Answerable(w) == transfer[w] # "none" /\ (w \in ByRef => w \in stored)

(* Mutant: the sweep only acts on successful transfers. *)
SweepProbesSuccess(w) ==
    /\ w \in batch /\ Answerable(w)
    /\ batch' = batch \ {w}
    /\ IF transfer[w] = "success" /\ status[w] = "PROCESSING"
       THEN ReportPayoutResult(w, TRUE)
       ELSE /\ resting' = IF status[w] = "PROCESSING" THEN resting \cup {w} ELSE resting
            /\ UNCHANGED <<request, balances, rows, operator, transfer, stored, older, slips>>

(* ... ask the provider about each, and report an outcome or note the check *)
SweepProbes(w) ==
    /\ w \in batch /\ Answerable(w)
    /\ batch' = batch \ {w}
    /\ IF transfer[w] \in {"success", "failed"} /\ status[w] = "PROCESSING"
       THEN ReportPayoutResult(w, transfer[w] = "success")
       ELSE /\ resting' = IF transfer[w] = "pending" /\ status[w] = "PROCESSING"
                          THEN resting \cup {w} ELSE resting
            /\ UNCHANGED <<request, balances, rows, operator, transfer, stored, older, slips>>

(* ... and when the question throws, go on and leave the row as it was.     *)
ProbeThrows(w) ==
    /\ w \in batch
    /\ batch' = batch \ {w}
    /\ UNCHANGED <<request, balances, rows, operator, transfer, stored, older, resting, slips>>

(* Six hours after the claim, half an hour after an answer.                 *)
ComesDue(w) ==
    /\ w \in resting
    /\ resting' = resting \ {w}
    /\ UNCHANGED <<request, balances, rows, operator, transfer, stored, older, batch, slips>>
-----------------------------------------------------------------------------
(* An operator reports what the provider's dashboard shows: a payout that   *)
(* ended, or one that never started and that nobody is starting.            *)
OperatorReports(a, w) ==
    /\ operator[a] = Idle
    /\ \/ transfer[w] = "success" /\ ReportPayoutResult(w, TRUE)
       \/ transfer[w] = "failed" /\ ReportPayoutResult(w, FALSE)
       \/ /\ transfer[w] = "none"
          /\ \A b \in Operators : operator[b].for # w
          /\ ReportPayoutResult(w, FALSE)
    /\ UNCHANGED batch
-----------------------------------------------------------------------------
(* releaseWithdrawal (and rejectWithdrawal): the transaction reads a        *)
(* releasable status ...                                                    *)
BeginRelease(a, w) ==
    /\ operator[a] = Idle
    /\ status[w] \in Releasable
    /\ operator' = [operator EXCEPT ![a] = Busy("release", w, "NONE")]
    /\ UNCHANGED <<request, balances, rows, transfer, sweep, slips>>

(* ... and updates it without the condition, refunds and notifies.          *)
ReleaseWithdrawal(a) ==
    LET w == operator[a].for IN
    /\ operator[a].pc = "release"
    /\ status' = [status EXCEPT ![w] = "RELEASED"]
    /\ PostOnce(w, "release", Refund(request[w]))
    /\ Tell(w, "REFUNDED")
    /\ operator' = [operator EXCEPT ![a] = Idle]
    /\ slips' = IF status[w] \in Releasable \cup {"RELEASED"} THEN slips ELSE slips \cup {w}
    /\ UNCHANGED <<request, bank, transfer, sweep>>

(* An operator's request dies with its process. *)
OperatorCrashes(a) ==
    /\ operator[a] # Idle
    /\ operator' = [operator EXCEPT ![a] = Idle]
    /\ UNCHANGED <<request, balances, rows, transfer, sweep, slips>>
-----------------------------------------------------------------------------
OperatorStep(a) ==
    \/ ClaimPayout(a)
    \/ ProviderAccepts(a)
    \/ RecordRef(a)
    \/ ProviderFails(a)
    \/ RecordFailure(a)
    \/ ReleaseWithdrawal(a)
    \/ OperatorCrashes(a)

(* A player asks, or an operator begins to work on a withdrawal.            *)
Begin ==
    \/ \E w \in Withdrawals, r \in Requests : RequestWithdrawal(w, r)
    \/ \E a \in Operators, w \in Withdrawals : BeginPayout(a, w) \/ BeginRelease(a, w)

GoOn ==
    \/ \E w \in Withdrawals : ApproveWithdrawal(w)
    \/ \E u \in Users : DeleteBankAccount(u)
    \/ \E a \in Operators, w \in Withdrawals : OperatorReports(a, w)
    \/ \E a \in Operators : OperatorStep(a)
    \/ \E w \in Withdrawals, o \in {"success", "failed"} : TransferEnds(w, o)
    \/ \E w \in Withdrawals : Callback(w)
    \/ SweepReads
    \/ \E w \in Withdrawals : SweepProbes(w) \/ ProbeThrows(w) \/ ComesDue(w)

Next == Begin \/ GoOn

Spec == Init /\ [][Next]_vars

(* The sweep runs on a timer and goes through what it fetched; a question   *)
(* the provider can answer is not lost every time; time passes, and the     *)
(* provider ends the transfers it started.  Nobody has to approve, pay or   *)
(* release, and no callback has to arrive.                                  *)
Fairness ==
    /\ WF_vars(SweepReads)
    /\ \A w \in Withdrawals :
          /\ WF_vars(SweepProbes(w) \/ ProbeThrows(w))
          /\ SF_vars(SweepProbes(w))
          /\ WF_vars(ComesDue(w))
          /\ WF_vars(\E o \in {"success", "failed"} : TransferEnds(w, o))

FairSpec == Spec /\ Fairness
-----------------------------------------------------------------------------
Statuses == {"NONE", "PENDING_REVIEW", "APPROVED", "PROCESSING", "COMPLETED", "FAILED", "RELEASED"}

TypeOK ==
    /\ MoneyTypeOK
    /\ status \in [Withdrawals -> Statuses]
    /\ bank \in [Withdrawals -> BOOLEAN]
    /\ posted \in [Withdrawals -> SUBSET {"reserve", "complete", "release"}]
    /\ told \in [Withdrawals -> {"NOTHING", "CONFIRMED", "REFUNDED"}]
    /\ operator \in [Operators -> [pc : {"claim", "initiate", "record", "fail", "release"},
                                   for : Withdrawals, seen : Statuses] \cup {Idle}]
    /\ transfer \in [Withdrawals -> {"none", "pending", "success", "failed"}]
    /\ stored \in SUBSET Withdrawals
    /\ older \in SUBSET (Withdrawals \X Withdrawals)
    /\ resting \in SUBSET Withdrawals
    /\ batch \in SUBSET Withdrawals
    /\ slips \in SUBSET Withdrawals

(* "Money never double-moves": what was given back to the player is not,    *)
(* and will not be, paid out by the provider as well.  The code does not    *)
(* keep this: a payout whose answer is lost is FAILED, hence releasable.    *)
NeverPaidAndReturned ==
    \A w \in Withdrawals : status[w] = "RELEASED" => transfer[w] \in {"none", "failed"}

(* The two ways in which it does not are all there are: money given back is *)
(* paid out as well only after beginPayout's catch has written FAILED over a *)
(* transfer that is under way or a withdrawal that is over, or a release has *)
(* overwritten a payout claimed since it looked.  Operators race, answers   *)
(* are lost, payouts are retried, events come late and repeatedly.          *)
ReturnedIsNotPaid ==
    \A w \in Withdrawals \ slips : status[w] = "RELEASED" => transfer[w] \in {"none", "failed"}

(* A completed withdrawal really reached the player's bank.                 *)
CompletedWasPaid ==
    \A w \in Withdrawals : status[w] = "COMPLETED" => transfer[w] = "success"

(* What is pending for a user is exactly what the user's open withdrawals   *)
(* have set aside: nothing is stuck and nothing is taken back twice, but    *)
(* for users one of whose withdrawals was overwritten.                      *)
Outstanding(u) == {w \in Withdrawals : request[w].owner = u /\ status[w] \notin Final}
Asked == [w \in Withdrawals |-> request[w].amount]

PendingIsReserved ==
    \A u \in Users :
        (\A w \in slips : request[w].owner # u) => pending[u] = SumFunctionOnSet(Asked, Outstanding(u))

(* The books agree with the provider: completed is paid, open is pending.   *)
BooksAgree == CompletedWasPaid /\ PendingIsReserved

(* The one notification the player gets about a withdrawal says what became *)
(* of it, unless one of the two unconditional updates overwrote it: two     *)
(* operators, late events and the follow-up sweep never announce a payout   *)
(* that came back, or a refund that was paid.                               *)
PlayersAreToldTheTruth ==
    \A w \in Withdrawals \ slips :
        /\ told[w] = "CONFIRMED" <=> status[w] = "COMPLETED"
        /\ told[w] = "REFUNDED" <=> status[w] = "RELEASED"

(* "PROCESSING is deliberately NOT releasable": only a releasable status is *)
(* ever replaced by RELEASED.  A release that has looked before a payout is *)
(* claimed breaks this (not run).                                           *)
OnlyReleasableIsReleased ==
    [][\A w \in Withdrawals :
          status'[w] = "RELEASED" => status[w] \in Releasable \cup {"RELEASED"}]_vars

(* "Every status move is a conditional, idempotent update": a completed or  *)
(* released withdrawal stays what it is.  The catch of beginPayout breaks   *)
(* this (not run).                                                          *)
FinalIsFinal ==
    [][\A w \in Withdrawals : status[w] \in Final => status'[w] = status[w]]_vars

(* Payouts in progress the sweep can learn nothing about.                   *)
Unanswerable == {w \in Withdrawals : status[w] = "PROCESSING" /\ ~Answerable(w)}

(* A payout the provider accepted and can be asked about does not stay      *)
(* PROCESSING for ever, even if no callback ever arrives, unless so many    *)
(* payouts that cannot be asked about have been claimed that they fill the  *)
(* batch of every run: rows the sweep learns nothing about are never        *)
(* advanced, and the sweep fetches the oldest first.                        *)
AcceptedPayoutsAreResolved ==
    \A w \in Withdrawals :
        (status[w] = "PROCESSING" /\ transfer[w] = "pending" /\ Answerable(w))
            ~> (status[w] # "PROCESSING" \/ Cardinality(Unanswerable) >= MaxPerRun)
-----------------------------------------------------------------------------
(* What has become of the money, by the ledger. *)
Promise == INSTANCE WithdrawalPromise
              WITH done <- [w \in Withdrawals |-> posted[w] \ {"reserve"}], astray <- slips

(* Whatever the status machine does, the money is set aside once and then   *)
(* leaves or comes back once; both, each once, only when an unconditional   *)
(* update has overwritten the withdrawal.                                   *)
ImplementsPromise == Promise!PromiseSpec
=============================================================================

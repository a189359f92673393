----------------------------- MODULE PlayerFunds -----------------------------
(***************************************************************************)
(* One player's spendable balance, PLAYER_AVAILABLE: deposits a provider   *)
(* confirms by webhook, stakes and withdrawals taken under the wallet's    *)
(* row lock, administrative adjustments that take no lock, and the two     *)
(* reconciliation jobs that watch the books without touching them.         *)
(*                                                                         *)
(* The gates of a deposit or a stake (SaferPlay, Account) only refuse; a   *)
(* refusal changes nothing here and is left out.                           *)
(***************************************************************************)
EXTENDS Integers, FiniteSets, Functions

CONSTANTS
    Intents,        \* deposit intents
    References,     \* references of administrative adjustments
    Matches,        \* matches the player may fund
    Withdrawals,    \* withdrawals the player may ask for
    Amounts,        \* amounts of money
    MaxPasses       \* bound: passes of each reconciliation job

ASSUME FundsAssumption ==
    /\ IsFiniteSet(Intents) /\ IsFiniteSet(References)
    /\ IsFiniteSet(Matches) /\ IsFiniteSet(Withdrawals) /\ Withdrawals \cap Matches = {}
    /\ Amounts \subseteq Nat \ {0} /\ MaxPasses \in Nat

VARIABLES
    intent,         \* DepositIntent rows, with the state of their checkout
    paid,           \* what the provider has taken for an intent, 0 for nothing
    webhooks,       \* intents with a charge.success event under way
    credits,        \* deposit:credit postings, what each booked
    spend,          \* what each spender that holds the wallet lock is about to take
    match,          \* the player's part in a match and what its postings book
    adjustment,     \* administrative adjustments, by reference
    withdrawal,     \* Withdrawal rows: what they reserve and how they ended
    available,      \* the balance of PLAYER_AVAILABLE
    job,            \* what each reconciliation job has read and not yet checked
    alarms          \* what the jobs have reported

vars == <<intent, paid, webhooks, credits, spend, match, adjustment, withdrawal, available, job,
          alarms>>
-----------------------------------------------------------------------------
Jobs == {"deposits", "books"}
Spenders == Withdrawals \cup Matches
NoIntent == [status |-> "none", amount |-> 0, stale |-> FALSE, checkout |-> "none"]
NoMatch == [status |-> "none", stake |-> 0, net |-> 0, entries |-> {}]
NoWithdrawal == [status |-> "none", amount |-> 0]
NoAdjustment == [status |-> "none", amount |-> 0]
Posted == {i \in Intents : credits[i] # 0}
Idle == [pc |-> "idle", rows |-> {}, passes |-> 0]

Init ==
    /\ intent = [i \in Intents |-> NoIntent]
    /\ paid = [i \in Intents |-> 0]
    /\ webhooks = {}
    /\ credits = [i \in Intents |-> 0]
    /\ spend = [s \in Spenders |-> 0]
    /\ match = [m \in Matches |-> NoMatch]
    /\ adjustment = [r \in References |-> NoAdjustment]
    /\ withdrawal = [w \in Withdrawals |-> NoWithdrawal] /\ available = 0
    /\ job = [j \in Jobs |-> Idle]
    /\ alarms = {}
-----------------------------------------------------------------------------
(***************************************************************************)
(* Deposits.                                                               *)
(***************************************************************************)
DepositFrame == UNCHANGED <<spend, match, adjustment, withdrawal, job, alarms>>

(* The intent is stored before the provider is asked for a checkout. *)
CreateIntent(i, amount) ==
    /\ intent[i].status = "none"
    /\ intent' = [intent EXCEPT ![i] = [NoIntent EXCEPT !.status = "PENDING", !.amount = amount,
                                                        !.checkout = "asked"]]
    /\ UNCHANGED <<paid, webhooks, credits, available>> /\ DepositFrame

(* initiatePayment answers and the player gets the checkout's URL ... *)
OpenCheckout(i) ==
    /\ intent[i].checkout = "asked"
    /\ intent' = [intent EXCEPT ![i].checkout = "open"]
    /\ UNCHANGED <<paid, webhooks, credits, available>> /\ DepositFrame

(* ... or it throws: the handler marks the intent, whatever it says by now. *)
InitiationFails(i) ==
    /\ intent[i].checkout = "asked"
    /\ intent' = [intent EXCEPT ![i].checkout = "refused", ![i].status = "FAILED"]
    /\ UNCHANGED <<paid, webhooks, credits, available>> /\ DepositFrame

(* The player pays at the provider, once, possibly another amount. *)
Pay(i, value) ==
    /\ intent[i].checkout = "open" /\ paid[i] = 0
    /\ paid' = [paid EXCEPT ![i] = value]
    /\ UNCHANGED <<intent, webhooks, credits, available>> /\ DepositFrame

(* The provider announces a payment, and announces it again. *)
SendWebhook(i) ==
    /\ paid[i] # 0 /\ i \notin webhooks
    /\ webhooks' = webhooks \cup {i}
    /\ UNCHANGED <<intent, paid, credits, available>> /\ DepositFrame

(* Whatever the handler does with an event, the provider gets its 200.     *)
Acknowledge(i) == webhooks' = webhooks \ {i}

LoseWebhook(i) ==
    /\ i \in webhooks /\ Acknowledge(i)
    /\ UNCHANGED <<intent, paid, credits, available>> /\ DepositFrame

(* postLedgerTransaction: a key that is already posted is replayed. *)
CreditOnce(i) ==
    IF credits[i] # 0 THEN UNCHANGED <<credits, available>>
    ELSE /\ credits' = [credits EXCEPT ![i] = intent[i].amount]
         /\ available' = available + intent[i].amount

(* What processDepositWebhook demands before it credits: the stored amount *)
(* to the last unit, and an intent nobody has completed.                   *)
CreditablePendingOnly(i) == paid[i] = intent[i].amount /\ intent[i].status = "PENDING"
CreditableAnyAmount(i) == intent[i].status \in {"PENDING", "FAILED"}
Creditable(i) == paid[i] = intent[i].amount /\ intent[i].status \in {"PENDING", "FAILED"}

(* One transaction: completion, posting, outbox rows. Every other event is *)
(* acknowledged and changes nothing.                                       *)
Webhook(i) ==
    /\ i \in webhooks /\ Acknowledge(i)
    /\ IF Creditable(i)
       THEN intent' = [intent EXCEPT ![i].status = "COMPLETED"] /\ CreditOnce(i)
       ELSE UNCHANGED <<intent, credits, available>>
    /\ UNCHANGED paid /\ DepositFrame

(* STALE_DEPOSIT_HOURS pass. *)
GrowStale(i) ==
    /\ intent[i].status = "PENDING" /\ ~intent[i].stale
    /\ intent' = [intent EXCEPT ![i].stale = TRUE]
    /\ UNCHANGED <<paid, webhooks, credits, available>> /\ DepositFrame
-----------------------------------------------------------------------------
(***************************************************************************)
(* Spending. A stake (createMatchWithStakes) and a withdrawal request lock *)
(* the wallet's row, read the balance, and post before they let go.        *)
(***************************************************************************)
MoneyFrame == UNCHANGED <<intent, paid, webhooks, credits, job, alarms>>

WalletIsFreeUnlocked(s) == spend[s] = 0
WalletIsFree(s) == \A t \in Spenders : spend[t] = 0

LockAndRead(s, value) ==
    /\ WalletIsFree(s)
    /\ available >= value
    /\ IF s \in Matches THEN match[s] = NoMatch ELSE withdrawal[s] = NoWithdrawal
    /\ spend' = [spend EXCEPT ![s] = value]
    /\ UNCHANGED <<match, adjustment, withdrawal, available>> /\ MoneyFrame

(* stake-lock, or withdrawal:reserve. *)
PostSpend(s) ==
    /\ spend[s] # 0
    /\ available' = available - spend[s]
    /\ IF s \in Matches
       THEN /\ match' = [match EXCEPT ![s] = [NoMatch EXCEPT !.status = "LIVE", !.stake = spend[s]]]
            /\ UNCHANGED withdrawal
       ELSE /\ withdrawal' = [withdrawal EXCEPT ![s] = [status |-> "OPEN", amount |-> spend[s]]]
            /\ UNCHANGED match
    /\ spend' = [spend EXCEPT ![s] = 0]
    /\ UNCHANGED adjustment /\ MoneyFrame

(* The withdrawal is paid out; or it is rejected, or its payout fails, and *)
(* the reserve is released. Status and posting commit together.            *)
EndWithdrawal(w, status) ==
    /\ withdrawal[w].status = "OPEN"
    /\ withdrawal' = [withdrawal EXCEPT ![w].status = status]
    /\ available' = IF status = "RELEASED" THEN available + withdrawal[w].amount ELSE available
    /\ UNCHANGED <<spend, match, adjustment>> /\ MoneyFrame

(* settleMatch stores the settlement and the MATCH_SETTLEMENT posting. The *)
(* commission is one unit of the pot.                                      *)
Settle(m, net, entries, back) ==
    /\ match[m].status = "LIVE"
    /\ match' = [match EXCEPT ![m].status = "SETTLED", ![m].net = net, ![m].entries = entries]
    /\ available' = available + back
    /\ UNCHANGED <<spend, adjustment, withdrawal>> /\ MoneyFrame

SettleWin(m) == LET s == match[m].stake IN Settle(m, 2 * s - 1, {-s, 2 * s - 1, 1}, 2 * s - 1)
SettleLoss(m) == LET s == match[m].stake IN Settle(m, 2 * s - 1, {-s, 2 * s - 1, 1}, 0)
SettleDraw(m) == LET s == match[m].stake IN Settle(m, 2 * s, {-s, s}, s)
-----------------------------------------------------------------------------
(***************************************************************************)
(* Administrative adjustments, keyed by their reference. A debit reads the *)
(* balance in its transaction, without the wallet's lock.                  *)
(***************************************************************************)
CreditAdjustment(r, value) ==
    /\ adjustment[r] = NoAdjustment
    /\ adjustment' = [adjustment EXCEPT ![r] = [status |-> "CREDIT", amount |-> value]]
    /\ available' = available + value
    /\ UNCHANGED <<spend, match, withdrawal>> /\ MoneyFrame

DebitReads(r, value) ==
    /\ adjustment[r] = NoAdjustment
    /\ available >= value
    /\ adjustment' = [adjustment EXCEPT ![r] = [status |-> "reading", amount |-> value]]
    /\ UNCHANGED <<spend, match, withdrawal, available>> /\ MoneyFrame

DebitPosts(r) ==
    /\ adjustment[r].status = "reading"
    /\ adjustment' = [adjustment EXCEPT ![r].status = "DEBIT"]
    /\ available' = available - adjustment[r].amount
    /\ UNCHANGED <<spend, match, withdrawal>> /\ MoneyFrame
-----------------------------------------------------------------------------
(***************************************************************************)
(* The reconciliation jobs: each reads rows and then looks every row's      *)
(* posting up, while everything else goes on. Bound: a table is one page of *)
(* the query that reads it.                                                *)
(***************************************************************************)
JobFrame == UNCHANGED <<paid, webhooks, credits, spend, match, adjustment, withdrawal,
                       available>>

DepositRows(statuses) ==
    {[kind |-> "deposit", of |-> i, status |-> intent[i].status] :
        i \in {k \in Intents : intent[k].status \in statuses}}
WithdrawalRows ==
    {[kind |-> "withdrawal", of |-> w, status |-> withdrawal[w].status] :
        w \in {k \in Withdrawals : withdrawal[k].status # "none"}}
SettlementRows ==
    {[kind |-> "settlement", of |-> m, status |-> match[m].status] :
        m \in {k \in Matches : match[k].status = "SETTLED"}}

ParkableAny(i) == intent[i].stale
Parkable(i) == intent[i].status = "PENDING" /\ intent[i].stale
ParkedAs == "FAILED"

Reads(j, pc, rows) ==
    /\ job[j].rows = {}
    /\ job' = [job EXCEPT ![j].pc = pc, ![j].rows = rows]
    /\ UNCHANGED <<intent, alarms>> /\ JobFrame

(* reconcileDeposits parks the stale intents first ... *)
ParkStale ==
    /\ job["deposits"].pc = "idle" /\ job["deposits"].passes < MaxPasses
    /\ intent' = [i \in Intents |->
                    [intent[i] EXCEPT !.status = IF Parkable(i) THEN ParkedAs ELSE @]]
    /\ job' = [job EXCEPT !["deposits"].pc = "parked"]
    /\ UNCHANGED alarms /\ JobFrame

(* ... and then reads what is terminal. *)
ReadDeposits ==
    /\ job["deposits"].pc = "parked"
    /\ Reads("deposits", "terminal", DepositRows({"COMPLETED", "FAILED"}))

(* runFinancialReconciliation reads a table when it is done with the one    *)
(* before: withdrawals, intents, settlements.                              *)
ReadBooks ==
    \/ /\ job["books"].pc = "idle" /\ job["books"].passes < MaxPasses
       /\ Reads("books", "withdrawals", WithdrawalRows)
    \/ /\ job["books"].pc = "withdrawals"
       /\ Reads("books", "intents", DepositRows({"PENDING", "COMPLETED", "FAILED"}))
    \/ /\ job["books"].pc = "intents"
       /\ Reads("books", "settlements", SettlementRows)

(* What the job has against a row, given the postings it looks up now.      *)
Complaint(row) ==
    CASE row.kind = "settlement" ->
            IF match[row.of].net \in match[row.of].entries THEN "none" ELSE "payout not covered"
      [] row.kind = "withdrawal" ->
            IF row.status = withdrawal[row.of].status THEN "none"
            ELSE IF row.status = "OPEN" THEN "ended already" ELSE "ended otherwise"
      [] row.kind = "deposit" /\ row.status = "COMPLETED" ->
            IF row.of \notin Posted THEN "credit missing"
            ELSE IF credits[row.of] = intent[row.of].amount THEN "none" ELSE "credit differs"
      [] OTHER -> IF row.of \in Posted THEN "unexpected credit" ELSE "none"

CheckRow(j, row) ==
    /\ row \in job[j].rows
    /\ job' = [job EXCEPT ![j].rows = @ \ {row}]
    /\ alarms' = IF Complaint(row) = "none" THEN alarms
                 ELSE alarms \cup {[row |-> row, complaint |-> Complaint(row)]}
    /\ UNCHANGED intent /\ JobFrame

EndPass(j) ==
    /\ job[j].pc \in {"terminal", "settlements"} /\ job[j].rows = {}
    /\ job' = [job EXCEPT ![j].pc = "idle", ![j].passes = @ + 1]
    /\ UNCHANGED <<intent, alarms>> /\ JobFrame
-----------------------------------------------------------------------------
Deposits ==
    \E i \in Intents :
        \/ \E v \in Amounts : CreateIntent(i, v) \/ Pay(i, v)
        \/ OpenCheckout(i) \/ InitiationFails(i) \/ SendWebhook(i)
        \/ LoseWebhook(i) \/ Webhook(i) \/ GrowStale(i)
Spending ==
    \/ \E s \in Spenders : PostSpend(s) \/ \E v \in Amounts : LockAndRead(s, v)
    \/ \E w \in Withdrawals, status \in {"COMPLETED", "RELEASED"} : EndWithdrawal(w, status)
    \/ \E m \in Matches : SettleWin(m) \/ SettleLoss(m) \/ SettleDraw(m)
Adjusting ==
    \E r \in References :
        DebitPosts(r) \/ \E v \in Amounts : CreditAdjustment(r, v) \/ DebitReads(r, v)
Reconciling ==
    \/ ParkStale \/ ReadDeposits \/ ReadBooks
    \/ \E j \in Jobs : EndPass(j) \/ \E row \in job[j].rows : CheckRow(j, row)

Next == Deposits \/ Spending \/ Adjusting \/ Reconciling

(* A provider announces a payment until it is acknowledged, and an event  *)
(* it keeps sending is not lost every time.                                *)
Fairness ==
    \A i \in Intents : WF_vars(SendWebhook(i)) /\ SF_vars(Webhook(i))

Spec == Init /\ [][Next]_vars /\ Fairness
-----------------------------------------------------------------------------
Total(f) == SumFunction(f)
Debited == [r \in References |->
               IF adjustment[r].status = "DEBIT" THEN adjustment[r].amount ELSE 0]

(* The types of the state. *)
TypeOK ==
    /\ intent \in [Intents -> [status : {"none", "PENDING", "COMPLETED", "FAILED"},
                               amount : Amounts \cup {0}, stale : BOOLEAN,
                               checkout : {"none", "asked", "open", "refused"}]]
    /\ paid \in [Intents -> Amounts \cup {0}]
    /\ credits \in [Intents -> Amounts \cup {0}]
    /\ webhooks \subseteq {i \in Intents : paid[i] # 0}
    /\ spend \in [Spenders -> Amounts \cup {0}]
    /\ \A m \in Matches :
          /\ match[m].status \in {"none", "LIVE", "SETTLED"}
          /\ match[m].stake \in Amounts \cup {0} /\ match[m].net \in Nat
    /\ adjustment \in [References -> [status : {"none", "CREDIT", "reading", "DEBIT"},
                                      amount : Amounts \cup {0}]]
    /\ withdrawal \in [Withdrawals -> [status : {"none", "OPEN", "COMPLETED", "RELEASED"},
                                       amount : Amounts \cup {0}]]
    /\ available \in Int
    /\ \A j \in Jobs : job[j].pc \in {"idle", "parked", "terminal", "withdrawals", "intents", "settlements"}

(* Whatever order, loss and repetition the webhooks come in, and whatever *)
(* the sweep or the handler's error path has written meanwhile: an intent *)
(* is COMPLETED exactly when its credit is posted, and the credit is what *)
(* the provider took for it.                                              *)
CreditsArePayments ==
    \A i \in Intents :
        /\ i \in Posted <=> intent[i].status = "COMPLETED"
        /\ i \in Posted => credits[i] = paid[i]

(* The state is typed, and credits and payments agree. *)
FundsInv == TypeOK /\ CreditsArePayments

(* Stakes and withdrawals that run at the same time never spend money that *)
(* is not there: what they hold is covered, but for what administrative    *)
(* debits have taken since.                                                *)
SpendersAreCovered == available + Total(Debited) >= Total(spend)

(* The jobs compare rows they read earlier with postings they look up      *)
(* later. They never report a lost or a wrong credit, nor a withdrawal that*)
(* ended in two ways; an unexpected credit or ending they report was       *)
(* completed in between; and a settlement they complain of is a draw,      *)
(* whose entries never contain the pot.                                    *)
AlarmsAreExplained ==
    \A a \in alarms :
        /\ a.complaint \notin {"credit missing", "credit differs", "ended otherwise"}
        /\ a.complaint = "unexpected credit" => intent[a.row.of].status = "COMPLETED"
        /\ a.complaint = "ended already" => withdrawal[a.row.of].status \in {"COMPLETED", "RELEASED"}
        /\ a.complaint = "payout not covered" => match[a.row.of].net = 2 * match[a.row.of].stake

(* What ledgerService.js:454 promises: a debit never overdraws the balance. *)
NeverOverdrawn == available >= 0

(* A settlement as the code writes it passes the check made for it. *)
SettlementsPass == \A a \in alarms : a.row.kind # "settlement"

(* A payment of the right amount is credited in the end, also after the    *)
(* sweep has given the intent up.                                          *)
PaidIsCredited ==
    \A i \in Intents :
        intent[i].status # "none" /\ paid[i] = intent[i].amount ~> i \in Posted
=============================================================================

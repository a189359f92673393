-------------------------- MODULE Withdrawal_proofs --------------------------
(* Theorems about withdrawals, for every number of users, withdrawals and   *)
(* operators and every amount, whichever answers of the provider are lost:  *)
(* first what the ledger guarantees whatever is overwritten, then what the  *)
(* withdrawals that nothing overwrote keep to.                              *)
EXTENDS Withdrawal, SumLemmas

CoreTyped ==
    /\ MoneyTypeOK
    /\ status \in [Withdrawals -> Statuses]
    /\ bank \in [Withdrawals -> BOOLEAN]
    /\ posted \in [Withdrawals -> SUBSET {"reserve", "complete", "release"}]
    /\ told \in [Withdrawals -> {"NOTHING", "CONFIRMED", "REFUNDED"}]
    /\ operator \in [Operators -> [pc : {"claim", "initiate", "record", "fail", "release"},
                                   for : Withdrawals, seen : Statuses] \cup {Idle}]
    /\ transfer \in [Withdrawals -> {"none", "pending", "success", "failed"}]

SideTyped ==
    /\ stored \in SUBSET Withdrawals
    /\ older \in SUBSET (Withdrawals \X Withdrawals)
    /\ resting \in SUBSET Withdrawals
    /\ batch \in SUBSET Withdrawals
    /\ slips \in SUBSET Withdrawals
-----------------------------------------------------------------------------
LEMMA RequestsAreTyped ==
    ASSUME NEW r \in Requests
    PROVE  r.owner \in Users /\ r.amount \in Nat
<1>1. r.owner \in Users /\ r.amount \in Amounts
  BY DEF Requests
<1>2. QED
  BY <1>1, AmountsAssumption

LEMMA BusyOperator ==
    ASSUME CoreTyped, NEW a \in Operators, operator[a].pc # "idle"
    PROVE  operator[a].for \in Withdrawals /\ operator[a].seen \in Statuses
  BY DEF CoreTyped, Idle

-----------------------------------------------------------------------------
(* What holds whatever is overwritten.  A row that a request is working on exists, and a payout is booked *)
(* and announced only after the provider has made it.                       *)
RowsExist ==
    /\ \A w \in Withdrawals :
          /\ status[w] # "NONE" => request[w] \in Requests
          /\ status[w] = "NONE" => posted[w] = {} /\ request[w] = NoRequest
    /\ \A a \in Operators : operator[a].pc # "idle" => status[operator[a].for] # "NONE"

PaymentsWereMade ==
    \A w \in Withdrawals :
        status[w] = "COMPLETED" \/ "complete" \in posted[w] \/ told[w] = "CONFIRMED"
            => transfer[w] = "success"

RowsInv == CoreTyped /\ RowsExist /\ PaymentsWereMade

(* A step that books nothing and changes at most the status of one row.     *)
LEMMA StatusKeepsRows ==
    ASSUME RowsInv, NEW w \in Withdrawals, NEW s \in Statuses,
           status[w] # "NONE", s \notin {"NONE", "COMPLETED"} \/ s = status[w],
           status' = [status EXCEPT ![w] = s],
           UNCHANGED <<request, balances, bank, posted, told, transfer>>,
           \/ UNCHANGED operator
           \/ \E a \in Operators : operator' = [operator EXCEPT ![a] = Idle]
           \/ \E a \in Operators, pc \in {"claim", "initiate", "record", "fail", "release"}, t \in Statuses :
                 operator' = [operator EXCEPT ![a] = Busy(pc, w, t)]
    PROVE  RowsInv'
<1> USE DEF RowsInv, balances
<1>1. /\ operator' \in [Operators -> [pc : {"claim", "initiate", "record", "fail", "release"},
                                      for : Withdrawals, seen : Statuses] \cup {Idle}]
      /\ \A a \in Operators : operator'[a] = operator[a] \/ operator'[a] = Idle \/ operator'[a].for = w
  BY DEF CoreTyped, Busy
<1>2. CoreTyped'
  BY <1>1 DEF CoreTyped, MoneyTypeOK
<1>3. \A n \in Withdrawals : status'[n] = IF n = w THEN s ELSE status[n]
  BY DEF CoreTyped
<1>4. \A n \in Withdrawals : status'[n] = "NONE" <=> status[n] = "NONE"
  BY <1>3
<1>5. ASSUME NEW a \in Operators, operator'[a].pc # "idle"
      PROVE  status'[operator'[a].for] # "NONE"
  <2>1. operator'[a] = operator[a] \/ operator'[a].for = w
    BY <1>1, <1>5 DEF Idle
  <2>2. operator'[a].for \in Withdrawals
    BY <1>1, <1>5 DEF Idle
  <2>3. QED
    BY <1>4, <1>5, <2>1, <2>2 DEF RowsExist
<1>6. RowsExist'
  BY <1>4, <1>5 DEF RowsExist
<1>7. PaymentsWereMade'
  BY <1>3 DEF PaymentsWereMade
<1>8. QED
  BY <1>2, <1>6, <1>7

LEMMA RequestKeepsRows ==
    ASSUME RowsInv, NEW w \in Withdrawals, NEW r \in Requests, RequestWithdrawal(w, r)
    PROVE  /\ RowsInv' /\ Reserve(r) /\ status[w] = "NONE" /\ "complete" \notin posted'[w]
           /\ request' = [request EXCEPT ![w] = r]
           /\ posted' = [posted EXCEPT ![w] = @ \cup {"reserve"}]
<1> USE DEF RowsInv
<1>1. r.owner \in Users /\ r.amount \in Int
  BY RequestsAreTyped
<1>2. /\ Reserve(r) /\ posted' = [posted EXCEPT ![w] = @ \cup {"reserve"}]
      /\ status[w] = "NONE" /\ status' = [status EXCEPT ![w] = "PENDING_REVIEW"]
      /\ request' = [request EXCEPT ![w] = r] /\ bank' = [bank EXCEPT ![w] = TRUE]
      /\ UNCHANGED <<told, operator, transfer>>
  BY DEF RequestWithdrawal, RowsExist, PostOnce
<1>3. posted[w] = {} /\ "complete" \notin posted'[w]
  BY <1>2 DEF RowsExist, CoreTyped
<1>4. CoreTyped'
  <2>1. MoneyTypeOK'
    BY <1>1, <1>2 DEF Reserve, CoreTyped, MoneyTypeOK
  <2>2. QED
    BY <1>2, <2>1 DEF CoreTyped, Statuses
<1>5. RowsExist'
  BY <1>2, BusyOperator DEF RowsExist, CoreTyped, MoneyTypeOK
<1>6. PaymentsWereMade'
  BY <1>2 DEF PaymentsWereMade, CoreTyped
<1>7. QED
  BY <1>2, <1>3, <1>4, <1>5, <1>6

LEMMA DeleteKeepsRows ==
    ASSUME RowsInv, NEW u \in Users, DeleteBankAccount(u)
    PROVE  RowsInv'
  BY DEF DeleteBankAccount, RowsInv, CoreTyped, MoneyTypeOK, RowsExist, PaymentsWereMade, balances

LEMMA TransfersKeepRows ==
    ASSUME RowsInv, NEW w \in Withdrawals, transfer[w] # "success",
           \E t \in {"none", "pending", "success", "failed"} : transfer' = [transfer EXCEPT ![w] = t],
           UNCHANGED <<request, balances, rows>>,
           \/ UNCHANGED operator
           \/ \E a \in Operators : operator' = [operator EXCEPT ![a] = Idle]
           \/ \E a \in Operators, pc \in {"record", "fail"} :
                 /\ operator[a].for = w /\ operator[a].pc # "idle"
                 /\ operator' = [operator EXCEPT ![a] = Busy(pc, w, "NONE")]
    PROVE  RowsInv'
<1> USE DEF RowsInv, balances, rows
<1>1. CoreTyped'
  <2>1. transfer' \in [Withdrawals -> {"none", "pending", "success", "failed"}]
    BY DEF CoreTyped
  <2>2. operator' \in [Operators -> [pc : {"claim", "initiate", "record", "fail", "release"},
                                     for : Withdrawals, seen : Statuses] \cup {Idle}]
    BY DEF CoreTyped, Busy, Statuses
  <2>3. QED
    BY <2>1, <2>2 DEF CoreTyped, MoneyTypeOK
<1>2. RowsExist'
  BY DEF RowsExist, CoreTyped, Busy, Idle
<1>3. PaymentsWereMade'
  BY DEF PaymentsWereMade, CoreTyped
<1>4. QED
  BY <1>1, <1>2, <1>3

LEMMA CompletionKeepsRows ==
    ASSUME RowsInv, NEW w \in Withdrawals, transfer[w] = "success", ReportPayoutResult(w, TRUE)
    PROVE  RowsInv'
<1> USE DEF RowsInv, balances
<1>1. /\ status[w] = "PROCESSING" /\ status' = [status EXCEPT ![w] = "COMPLETED"]
      /\ UNCHANGED <<request, bank, operator, transfer>>
  BY DEF ReportPayoutResult
<1>2. request[w].owner \in Users /\ request[w].amount \in Int
  BY <1>1, RequestsAreTyped DEF RowsExist
<1>3. MoneyTypeOK' /\ \/ UNCHANGED posted
                      \/ posted' = [posted EXCEPT ![w] = @ \cup {"complete"}]
  BY <1>1, <1>2 DEF ReportPayoutResult, PostOnce, Complete, CoreTyped, MoneyTypeOK
<1>4. told' = [told EXCEPT ![w] = IF @ = "NOTHING" THEN "CONFIRMED" ELSE @]
  BY DEF ReportPayoutResult, Tell
<1>5. CoreTyped'
  BY <1>1, <1>3, <1>4 DEF CoreTyped, Statuses
<1>6. RowsExist'
  BY <1>1, <1>3, BusyOperator DEF RowsExist, CoreTyped
<1>7. PaymentsWereMade'
  BY <1>1, <1>3, <1>4 DEF PaymentsWereMade, CoreTyped
<1>8. QED
  BY <1>5, <1>6, <1>7

LEMMA ReleaseKeepsRows ==
    ASSUME RowsInv, NEW a \in Operators, ReleaseWithdrawal(a)
    PROVE  RowsInv'
<1> USE DEF RowsInv, balances
<1> DEFINE w == operator[a].for
<1>1. /\ status' = [status EXCEPT ![w] = "RELEASED"]
      /\ operator' = [operator EXCEPT ![a] = Idle]
      /\ told' = [told EXCEPT ![w] = IF @ = "NOTHING" THEN "REFUNDED" ELSE @]
      /\ UNCHANGED <<request, bank, transfer>>
  BY DEF ReleaseWithdrawal, Tell
<1>2. w \in Withdrawals /\ status[w] # "NONE"
  BY BusyOperator DEF ReleaseWithdrawal, RowsExist
<1>3. request[w].owner \in Users /\ request[w].amount \in Int
  BY <1>2, RequestsAreTyped DEF RowsExist
<1>4. MoneyTypeOK' /\ \/ UNCHANGED posted
                      \/ posted' = [posted EXCEPT ![w] = @ \cup {"release"}]
  BY <1>1, <1>3 DEF ReleaseWithdrawal, PostOnce, Refund, CoreTyped, MoneyTypeOK
<1> HIDE DEF w
<1>5. CoreTyped'
  BY <1>1, <1>2, <1>4 DEF CoreTyped, Statuses
<1>6. RowsExist'
  BY <1>1, <1>2, <1>4, BusyOperator DEF RowsExist, CoreTyped, Idle
<1>7. PaymentsWereMade'
  BY <1>1, <1>2, <1>4 DEF PaymentsWereMade, CoreTyped
<1>8. QED
  BY <1>5, <1>6, <1>7

(* A success is reported only of a transfer that succeeded, a failure of one *)
(* that failed or that nobody is starting, whether by a callback, the       *)
(* follow-up sweep or an operator.                                          *)
LEMMA ReportKinds ==
    ASSUME NEW w \in Withdrawals,
           Callback(w) \/ SweepProbes(w) \/ \E a \in Operators : OperatorReports(a, w)
    PROVE  \/ transfer[w] = "success" /\ ReportPayoutResult(w, TRUE)
           \/ /\ ReportPayoutResult(w, FALSE)
              /\ \/ transfer[w] = "failed"
                 \/ transfer[w] = "none" /\ \A b \in Operators : operator[b].for # w
           \/ UNCHANGED <<request, balances, rows, operator, transfer, slips>>
<1>1. CASE \E a \in Operators : OperatorReports(a, w)
  BY <1>1 DEF OperatorReports
<1>2. CASE (Callback(w) \/ SweepProbes(w)) /\ transfer[w] = "success"
  BY <1>2 DEF Callback, SweepProbes
<1>3. CASE (Callback(w) \/ SweepProbes(w)) /\ transfer[w] = "failed"
  <2>1. (transfer[w] = "success") = FALSE
    BY <1>3
  <2>2. QED
    BY <1>3, <2>1 DEF Callback, SweepProbes, ReportPayoutResult
<1>4. CASE SweepProbes(w) /\ transfer[w] \notin {"success", "failed"}
  BY <1>4 DEF SweepProbes
<1>5. QED
  BY <1>1, <1>2, <1>3, <1>4 DEF Callback

LEMMA FailureKeepsRows ==
    ASSUME RowsInv, NEW w \in Withdrawals, ReportPayoutResult(w, FALSE)
    PROVE  RowsInv' /\ UNCHANGED <<request, balances, posted>>
<1>1. /\ status[w] = "PROCESSING" /\ status' = [status EXCEPT ![w] = "FAILED"]
      /\ UNCHANGED <<request, balances, bank, posted, told, operator, transfer>>
  BY DEF ReportPayoutResult, balances
<1>2. QED
  BY <1>1, StatusKeepsRows DEF Statuses

(* A request of an operator goes on, and nothing is booked.                 *)
LEMMA PayoutKeepsRows ==
    ASSUME RowsInv, NEW a \in Operators,
           \/ ClaimPayout(a) \/ ProviderAccepts(a) \/ ProviderFails(a)
           \/ RecordRef(a) \/ RecordFailure(a) \/ OperatorCrashes(a)
    PROVE  RowsInv' /\ UNCHANGED <<request, balances, posted>>
<1> DEFINE w == operator[a].for
<1>1. operator[a].pc # "idle" /\ w \in Withdrawals /\ status[w] # "NONE" /\ status[w] \in Statuses
  <2>1. operator[a].pc # "idle"
    BY DEF ClaimPayout, ProviderAccepts, ProviderFails, RecordRef, RecordFailure, OperatorCrashes,
           RowsInv, CoreTyped, Idle
  <2>2. QED
    BY <2>1, BusyOperator DEF RowsInv, RowsExist, CoreTyped
<1>2. CASE ClaimPayout(a)
  <2>1. CASE status[w] = operator[a].seen
    <3>1. /\ status' = [status EXCEPT ![w] = "PROCESSING"]
          /\ operator' = [operator EXCEPT ![a] = Busy("initiate", w, "NONE")]
          /\ UNCHANGED <<request, balances, bank, posted, told, transfer>>
      BY <1>2, <2>1 DEF ClaimPayout
    <3> HIDE DEF w
    <3>2. QED
      BY <1>1, <3>1, StatusKeepsRows DEF Statuses
  <2>2. CASE status[w] # operator[a].seen
    <3>1. /\ status' = [status EXCEPT ![w] = status[w]]
          /\ operator' = [operator EXCEPT ![a] = Idle]
          /\ UNCHANGED <<request, balances, bank, posted, told, transfer>>
      BY <1>1, <1>2, <2>2 DEF ClaimPayout, RowsInv, CoreTyped
    <3> HIDE DEF w
    <3>2. QED
      BY <1>1, <3>1, StatusKeepsRows
  <2>3. QED
    BY <2>1, <2>2
<1>3. CASE RecordFailure(a)
  <2>1. /\ status' = [status EXCEPT ![w] = "FAILED"]
        /\ operator' = [operator EXCEPT ![a] = Idle]
        /\ UNCHANGED <<request, balances, bank, posted, told, transfer>>
    BY <1>3 DEF RecordFailure
  <2> HIDE DEF w
  <2>2. QED
    BY <1>1, <2>1, StatusKeepsRows DEF Statuses
<1>4. CASE OperatorCrashes(a) \/ RecordRef(a) \/ ((ProviderAccepts(a) \/ ProviderFails(a)) /\ UNCHANGED transfer)
  <2>1. /\ status' = [status EXCEPT ![w] = status[w]]
        /\ \/ operator' = [operator EXCEPT ![a] = Idle]
           \/ operator' = [operator EXCEPT ![a] = Busy("fail", w, "NONE")]
           \/ operator' = [operator EXCEPT ![a] = Busy("record", w, "NONE")]
        /\ UNCHANGED <<request, balances, bank, posted, told, transfer>>
    BY <1>1, <1>4 DEF OperatorCrashes, RecordRef, ProviderAccepts, ProviderFails, rows, RowsInv, CoreTyped
  <2> HIDE DEF w
  <2>2. QED
    BY <1>1, <2>1, StatusKeepsRows DEF Statuses
<1>5. CASE (ProviderAccepts(a) \/ ProviderFails(a)) /\ ~UNCHANGED transfer
  <2>1. transfer[w] = "none"
    BY <1>1, <1>5 DEF ProviderAccepts, ProviderFails, RowsInv, CoreTyped
  <2>2. transfer' = [transfer EXCEPT ![w] = "pending"]
    BY <1>5, <2>1 DEF ProviderAccepts, ProviderFails
  <2>3. /\ \/ operator' = [operator EXCEPT ![a] = Busy("record", w, "NONE")]
           \/ operator' = [operator EXCEPT ![a] = Busy("fail", w, "NONE")]
        /\ UNCHANGED <<request, balances, rows>>
    BY <1>5 DEF ProviderAccepts, ProviderFails
  <2>4. QED
    BY <1>1, <2>1, <2>2, <2>3, TransfersKeepRows DEF rows
<1>6. QED
  BY <1>2, <1>3, <1>4, <1>5

(* The steps by what they book: a reservation, a payout, a refund, nothing. *)
LEMMA RowStepKinds ==
    ASSUME RowsInv, [Next]_vars
    PROVE  \/ \E w \in Withdrawals, r \in Requests : RequestWithdrawal(w, r)
           \/ \E w \in Withdrawals : (transfer[w] = "success" /\ ReportPayoutResult(w, TRUE))
           \/ \E a \in Operators : ReleaseWithdrawal(a)
           \/ RowsInv' /\ UNCHANGED <<request, balances, posted>>
<1>1. ASSUME NEW w \in Withdrawals, ApproveWithdrawal(w)
      PROVE  RowsInv' /\ UNCHANGED <<request, balances, posted>>
  BY <1>1, StatusKeepsRows DEF ApproveWithdrawal, Statuses
<1>2. ASSUME NEW u \in Users, DeleteBankAccount(u)
      PROVE  RowsInv' /\ UNCHANGED <<request, balances, posted>>
  BY <1>2, DeleteKeepsRows DEF DeleteBankAccount
<1>3. ASSUME NEW a \in Operators, NEW w \in Withdrawals, BeginPayout(a, w) \/ BeginRelease(a, w)
      PROVE  RowsInv' /\ UNCHANGED <<request, balances, posted>>
  <2>1. status[w] # "NONE" /\ status[w] \in Statuses /\ status' = [status EXCEPT ![w] = status[w]]
    BY <1>3 DEF BeginPayout, BeginRelease, Payable, Releasable, rows, RowsInv, CoreTyped
  <2>2. /\ UNCHANGED <<request, balances, bank, posted, told, transfer>>
        /\ \/ operator' = [operator EXCEPT ![a] = Busy("claim", w, status[w])]
           \/ operator' = [operator EXCEPT ![a] = Busy("release", w, "NONE")]
    BY <1>3 DEF BeginPayout, BeginRelease, rows
  <2>3. QED
    BY <2>1, <2>2, StatusKeepsRows DEF Statuses
<1>4. ASSUME NEW w \in Withdrawals, NEW o \in {"success", "failed"}, TransferEnds(w, o)
      PROVE  RowsInv' /\ UNCHANGED <<request, balances, posted>>
  BY <1>4, TransfersKeepRows DEF TransferEnds, rows
<1>5. ASSUME UNCHANGED <<request, balances, rows, operator, transfer>>
      PROVE  RowsInv' /\ UNCHANGED <<request, balances, posted>>
  BY <1>5 DEF rows, RowsInv, CoreTyped, MoneyTypeOK, RowsExist, PaymentsWereMade, balances
<1>6. CASE UNCHANGED vars \/ SweepReads \/ \E w \in Withdrawals : ProbeThrows(w) \/ ComesDue(w)
  BY <1>5, <1>6 DEF vars, rows, balances, SweepReads, ProbeThrows, ComesDue
<1>7. CASE \E w \in Withdrawals :
              Callback(w) \/ SweepProbes(w) \/ \E a \in Operators : OperatorReports(a, w)
  BY <1>5, <1>7, ReportKinds, FailureKeepsRows
<1>8. CASE \E a \in Operators : OperatorStep(a)
  BY <1>8, PayoutKeepsRows DEF OperatorStep
<1>9. CASE Begin
  BY <1>3, <1>9 DEF Begin
<1>10. CASE GoOn
  BY <1>1, <1>2, <1>4, <1>6, <1>7, <1>8, <1>10 DEF GoOn
<1>11. QED
  BY <1>6, <1>9, <1>10 DEF Next

LEMMA RowsAreKept == Spec => []RowsInv
<1>1. Init => RowsInv
  BY FundsAssumption
  DEF Init, MoneyInit, MoneyTypeOK, CoreTyped, RowsInv, RowsExist, PaymentsWereMade, Idle, Statuses
<1>2. RowsInv /\ [Next]_vars => RowsInv'
  BY RowStepKinds, RequestKeepsRows, CompletionKeepsRows, ReleaseKeepsRows
<1>3. QED
  BY <1>1, <1>2, PTL DEF Spec

(* What only the follow-up sweep reads, and what is written down of slips.  *)
LEMMA SideIsTyped ==
    ASSUME CoreTyped, SideTyped, [Next]_vars
    PROVE  SideTyped' /\ slips \subseteq slips'
<1> USE DEF SideTyped
<1>1. ASSUME NEW w \in Withdrawals, NEW s, ReportPayoutResult(w, s), batch' \in SUBSET Withdrawals
      PROVE  SideTyped' /\ slips \subseteq slips'
  BY <1>1 DEF ReportPayoutResult
<1>2. ASSUME UNCHANGED <<sweep, slips>>
      PROVE  SideTyped' /\ slips \subseteq slips'
  BY <1>2 DEF sweep
<1>3. ASSUME NEW a \in Operators, OperatorStep(a)
      PROVE  SideTyped' /\ slips \subseteq slips'
  <2> DEFINE w == operator[a].for
  <2>1. CASE OperatorCrashes(a) \/ ProviderAccepts(a) \/ ProviderFails(a)
    BY <1>2, <2>1 DEF OperatorCrashes, ProviderAccepts, ProviderFails
  <2>2. w \in Withdrawals \/ OperatorCrashes(a)
    BY <1>3, BusyOperator DEF OperatorStep, ClaimPayout, ProviderAccepts, RecordRef, ProviderFails,
                              RecordFailure, ReleaseWithdrawal
  <2>3. CASE RecordRef(a)
    BY <2>3, BusyOperator DEF RecordRef
  <2>4. CASE RecordFailure(a) \/ ReleaseWithdrawal(a)
    BY <2>1, <2>2, <2>4 DEF RecordFailure, ReleaseWithdrawal, sweep
  <2>5. CASE ClaimPayout(a)
    BY <2>1, <2>2, <2>5 DEF ClaimPayout
  <2>6. QED
    BY <1>3, <2>1, <2>3, <2>4, <2>5 DEF OperatorStep
<1>4. CASE Begin
  BY <1>2, <1>4 DEF Begin, RequestWithdrawal, BeginPayout, BeginRelease
<1>5. CASE SweepReads
  BY <1>5 DEF SweepReads, Oldest, Due
<1>6. ASSUME NEW w \in Withdrawals, SweepProbes(w) \/ ProbeThrows(w) \/ ComesDue(w)
      PROVE  SideTyped' /\ slips \subseteq slips'
  BY <1>1, <1>6 DEF SweepProbes, ProbeThrows, ComesDue
<1>7. ASSUME NEW w \in Withdrawals, Callback(w) \/ \E a \in Operators : OperatorReports(a, w)
      PROVE  SideTyped' /\ slips \subseteq slips'
  BY <1>1, <1>7 DEF Callback, OperatorReports
<1>8. CASE UNCHANGED vars
  BY <1>2, <1>8 DEF vars, sweep
<1>9. CASE GoOn
  BY <1>2, <1>3, <1>5, <1>6, <1>7, <1>9 DEF GoOn, ApproveWithdrawal, DeleteBankAccount, TransferEnds
<1>10. QED
  BY <1>4, <1>8, <1>9 DEF Next

(* Statuses, rows, the requests of operators and the state of the sweep     *)
(* keep their types.                                                        *)
THEOREM WithdrawalIsTyped == Spec => []TypeOK
<1>1. Init => SideTyped
  BY DEF Init, SideTyped
<1>2. RowsInv /\ SideTyped /\ [Next]_vars => SideTyped'
  BY SideIsTyped DEF RowsInv
<1>3. RowsInv /\ SideTyped => TypeOK
  BY DEF RowsInv, CoreTyped, SideTyped, TypeOK
<1>4. QED
  BY <1>1, <1>2, <1>3, RowsAreKept, PTL DEF Spec

(* A withdrawal is completed, its payout booked and the player told of it   *)
(* only after the provider has paid it, also when it was overwritten.       *)
THEOREM CompletionsWerePaid == Spec => [](CompletedWasPaid /\ PaymentsWereMade)
<1>1. RowsInv => CompletedWasPaid /\ PaymentsWereMade
  BY DEF RowsInv, PaymentsWereMade, CompletedWasPaid
<1>2. QED
  BY <1>1, RowsAreKept, PTL

(* The withdrawals of a set of users whose payout is booked.                *)
Booked(O) == {w \in Withdrawals : request[w].owner \in O /\ "complete" \in posted[w]}

(* What a player had is spendable, pending, or booked as paid out, once per *)
(* withdrawal; and what left the platform is what was booked as paid out.   *)
MoneyIsAccountedFor ==
    /\ \A u \in Users :
          spendable[u] + pending[u] + SumFunctionOnSet(Asked, Booked({u})) = Funds[u]
    /\ paidOut = SumFunctionOnSet(Asked, Booked(Users))

LEMMA BookedAreFinite ==
    ASSUME RowsInv, NEW O
    PROVE  /\ IsFiniteSet(Booked(O)) /\ Booked(O) \subseteq Withdrawals
           /\ \A w \in Withdrawals : Asked[w] = request[w].amount /\ Asked[w] \in Int
           /\ SumFunctionOnSet(Asked, Booked(O)) \in Int
<1>1. \A w \in Withdrawals : request[w].amount \in Int
  BY RequestsAreTyped DEF RowsInv, CoreTyped, MoneyTypeOK, NoRequest
<1>2. \A w \in Withdrawals : Asked[w] = request[w].amount /\ Asked[w] \in Int
  BY <1>1 DEF Asked
<1>3. Booked(O) \subseteq Withdrawals
  BY DEF Booked
<1>4. IsFiniteSet(Booked(O))
  BY <1>3, FS_Subset, WithdrawalsAssumption
<1>5. SumFunctionOnSet(Asked, Booked(O)) \in Int
  BY <1>2, <1>3, <1>4, SumIsInt
<1>6. QED
  BY <1>2, <1>3, <1>4, <1>5

(* A payout that is booked adds its amount to the sum of its owner's set.   *)
LEMMA BookingAdds ==
    ASSUME RowsInv, NEW w \in Withdrawals, NEW O, "complete" \notin posted[w], UNCHANGED request,
           posted' = [posted EXCEPT ![w] = @ \cup {"complete"}]
    PROVE  SumFunctionOnSet(Asked', Booked(O)') =
              SumFunctionOnSet(Asked, Booked(O)) + (IF request[w].owner \in O THEN request[w].amount ELSE 0)
<1>1. Asked' = Asked
  BY DEF Asked
<1>2. \A n \in Withdrawals : posted'[n] = IF n = w THEN posted[n] \cup {"complete"} ELSE posted[n]
  BY DEF RowsInv, CoreTyped
<1>3. Booked(O)' = IF request[w].owner \in O THEN Booked(O) \cup {w} ELSE Booked(O)
  BY <1>2 DEF Booked
<1>4. w \notin Booked(O)
  BY DEF Booked
<1>5. /\ IsFiniteSet(Booked(O)) /\ Booked(O) \subseteq Withdrawals
      /\ \A n \in Withdrawals : Asked[n] = request[n].amount /\ Asked[n] \in Int
      /\ SumFunctionOnSet(Asked, Booked(O)) \in Int
  BY BookedAreFinite
<1>6. CASE request[w].owner \notin O
  BY <1>1, <1>3, <1>5, <1>6
<1>7. CASE request[w].owner \in O
  <2> DEFINE S == Booked(O)
             T == S \cup {w}
  <2>1. IsFiniteSet(T) /\ \A n \in T : Asked[n] \in Int
    BY <1>5, FS_AddElement
  <2>2. SumFunctionOnSet(Asked, T) = Asked[w] + SumFunctionOnSet(Asked, T \ {w})
    BY <2>1, SumTakes
  <2>3. T \ {w} = S
    BY <1>4
  <2>4. Booked(O)' = T
    BY <1>3, <1>7
  <2> HIDE DEF S, T
  <2>5. SumFunctionOnSet(Asked, S) \in Int
    BY <1>5 DEF S
  <2>6. SumFunctionOnSet(Asked, T) = SumFunctionOnSet(Asked, S) + request[w].amount
    <3>1. Asked[w] = request[w].amount /\ request[w].amount \in Int
      BY <1>5
    <3>2. SumFunctionOnSet(Asked, T) = request[w].amount + SumFunctionOnSet(Asked, S)
      BY <2>2, <2>3, <3>1
    <3>3. QED
      BY <2>5, <3>1, <3>2
  <2>7. QED
    BY <1>1, <1>7, <2>4, <2>6 DEF S
<1>8. QED
  BY <1>6, <1>7

(* A step that books no payout leaves the sums alone.                       *)
LEMMA OthersAddNothing ==
    ASSUME RowsInv, NEW O,
           \A w \in Withdrawals : "complete" \in posted'[w] <=> "complete" \in posted[w],
           \A w \in Withdrawals : "complete" \in posted[w] => request'[w] = request[w]
    PROVE  SumFunctionOnSet(Asked', Booked(O)') = SumFunctionOnSet(Asked, Booked(O))
<1>1. Booked(O)' = Booked(O)
  BY DEF Booked
<1>2. \A w \in Booked(O) : Asked'[w] = Asked[w]
  BY DEF Asked, Booked
<1>3. IsFiniteSet(Booked(O))
  BY BookedAreFinite
<1>4. QED
  BY <1>1, <1>2, <1>3, SumAgrees

LEMMA RequestKeepsAccounts ==
    ASSUME RowsInv, MoneyIsAccountedFor,
           NEW w \in Withdrawals, NEW r \in Requests, RequestWithdrawal(w, r)
    PROVE  MoneyIsAccountedFor'
<1>1. /\ Reserve(r) /\ status[w] = "NONE" /\ "complete" \notin posted'[w]
      /\ request' = [request EXCEPT ![w] = r]
      /\ posted' = [posted EXCEPT ![w] = @ \cup {"reserve"}]
  BY RequestKeepsRows
<1>2. "complete" \notin posted[w]
  BY <1>1 DEF RowsInv, RowsExist
<1>3. \A n \in Withdrawals : "complete" \in posted'[n] <=> "complete" \in posted[n]
  BY <1>1, <1>2 DEF RowsInv, CoreTyped
<1>4. \A n \in Withdrawals : "complete" \in posted[n] => request'[n] = request[n]
  BY <1>1, <1>2 DEF RowsInv, CoreTyped, MoneyTypeOK
<1>5. \A O : SumFunctionOnSet(Asked', Booked(O)') = SumFunctionOnSet(Asked, Booked(O))
  BY <1>3, <1>4, OthersAddNothing
<1>6. r.owner \in Users /\ r.amount \in Int
  BY RequestsAreTyped
<1>7. ASSUME NEW u \in Users
      PROVE  spendable'[u] + pending'[u] = spendable[u] + pending[u]
  BY <1>1, <1>6 DEF Reserve, RowsInv, CoreTyped, MoneyTypeOK
<1>8. paidOut' = paidOut
  BY <1>1 DEF Reserve
<1>9. QED
  BY <1>5, <1>7, <1>8 DEF MoneyIsAccountedFor

LEMMA CompletionKeepsAccounts ==
    ASSUME RowsInv, MoneyIsAccountedFor, NEW w \in Withdrawals, ReportPayoutResult(w, TRUE)
    PROVE  MoneyIsAccountedFor'
<1>1. status[w] = "PROCESSING" /\ UNCHANGED request
  BY DEF ReportPayoutResult
<1>2. request[w].owner \in Users /\ request[w].amount \in Int
  BY <1>1, RequestsAreTyped DEF RowsInv, RowsExist
<1>3. CASE "complete" \in posted[w]
  <2>1. UNCHANGED <<spendable, pending, paidOut, posted>>
    BY <1>3 DEF ReportPayoutResult, PostOnce
  <2>2. Asked' = Asked /\ \A O : Booked(O)' = Booked(O)
    BY <1>1, <2>1 DEF Asked, Booked
  <2>3. QED
    BY <2>1, <2>2 DEF MoneyIsAccountedFor
<1>4. CASE "complete" \notin posted[w]
  <2>1. Complete(request[w]) /\ posted' = [posted EXCEPT ![w] = @ \cup {"complete"}]
    BY <1>4 DEF ReportPayoutResult, PostOnce
  <2>2. \A O : SumFunctionOnSet(Asked', Booked(O)') =
            SumFunctionOnSet(Asked, Booked(O)) + (IF request[w].owner \in O THEN request[w].amount ELSE 0)
    BY <1>1, <1>4, <2>1, BookingAdds
  <2>3. ASSUME NEW u \in Users
        PROVE  spendable'[u] + pending'[u] + SumFunctionOnSet(Asked', Booked({u})') = Funds[u]
    <3>1. /\ spendable[u] \in Int /\ pending[u] \in Int /\ spendable'[u] = spendable[u]
          /\ pending'[u] = IF request[w].owner = u THEN pending[u] - request[w].amount ELSE pending[u]
      BY <1>2, <2>1 DEF Complete, RowsInv, CoreTyped, MoneyTypeOK
    <3>2. SumFunctionOnSet(Asked, Booked({u})) \in Int
      BY BookedAreFinite
    <3>3. SumFunctionOnSet(Asked', Booked({u})') =
             SumFunctionOnSet(Asked, Booked({u})) + (IF request[w].owner = u THEN request[w].amount ELSE 0)
      BY <2>2
    <3>4. spendable[u] + pending[u] + SumFunctionOnSet(Asked, Booked({u})) = Funds[u]
      BY DEF MoneyIsAccountedFor
    <3>5. QED
      BY <1>2, <3>1, <3>2, <3>3, <3>4
  <2>4. paidOut' = SumFunctionOnSet(Asked', Booked(Users)')
    <3>1. paidOut' = paidOut + request[w].amount
      BY <2>1 DEF Complete
    <3>2. QED
      BY <1>2, <2>2, <3>1 DEF MoneyIsAccountedFor
  <2>5. QED
    BY <2>3, <2>4 DEF MoneyIsAccountedFor
<1>5. QED
  BY <1>3, <1>4

LEMMA ReleaseKeepsAccounts ==
    ASSUME RowsInv, MoneyIsAccountedFor, NEW a \in Operators, ReleaseWithdrawal(a)
    PROVE  MoneyIsAccountedFor'
<1> DEFINE w == operator[a].for
<1>1. UNCHANGED request /\ w \in Withdrawals /\ status[w] # "NONE"
  BY BusyOperator DEF ReleaseWithdrawal, RowsInv, RowsExist
<1>2. request[w].owner \in Users /\ request[w].amount \in Int
  BY <1>1, RequestsAreTyped DEF RowsInv, RowsExist
<1>3. \/ UNCHANGED <<spendable, pending, paidOut, posted>>
      \/ Refund(request[w]) /\ posted' = [posted EXCEPT ![w] = @ \cup {"release"}]
  BY DEF ReleaseWithdrawal, PostOnce
<1> HIDE DEF w
<1>4. \A n \in Withdrawals : "complete" \in posted'[n] <=> "complete" \in posted[n]
  BY <1>3 DEF RowsInv, CoreTyped
<1>5. \A O : SumFunctionOnSet(Asked', Booked(O)') = SumFunctionOnSet(Asked, Booked(O))
  BY <1>1, <1>4, OthersAddNothing
<1>6. ASSUME NEW u \in Users
      PROVE  spendable'[u] + pending'[u] = spendable[u] + pending[u]
  BY <1>2, <1>3 DEF Refund, RowsInv, CoreTyped, MoneyTypeOK
<1>7. paidOut' = paidOut
  BY <1>3 DEF Refund
<1>8. QED
  BY <1>5, <1>6, <1>7 DEF MoneyIsAccountedFor

(* Whatever operators and lost answers do to the statuses, the ledger books *)
(* every payout once: a player's money is where this says, and nowhere else. *)
THEOREM PayoutsAreBookedOnce == Spec => []MoneyIsAccountedFor
<1>1. Init => MoneyIsAccountedFor
  <2> SUFFICES ASSUME Init PROVE MoneyIsAccountedFor
    OBVIOUS
  <2>1. \A O : SumFunctionOnSet(Asked, Booked(O)) = 0
    <3>1. \A O : Booked(O) = {}
      BY DEF Init, Booked
    <3>2. QED
      BY <3>1, SumOfNothing
  <2>2. \A u \in Users : spendable[u] = Funds[u] /\ pending[u] = 0 /\ Funds[u] \in Nat
    BY FundsAssumption DEF Init, MoneyInit
  <2>3. QED
    BY <2>1, <2>2 DEF MoneyIsAccountedFor, Init, MoneyInit
<1>2. RowsInv /\ MoneyIsAccountedFor /\ [Next]_vars => MoneyIsAccountedFor'
  <2> SUFFICES ASSUME RowsInv, MoneyIsAccountedFor, [Next]_vars PROVE MoneyIsAccountedFor'
    OBVIOUS
  <2>1. CASE UNCHANGED <<request, balances, posted>>
    BY <2>1 DEF MoneyIsAccountedFor, balances, Asked, Booked
  <2>2. QED
    BY <2>1, RowStepKinds, RequestKeepsAccounts, CompletionKeepsAccounts, ReleaseKeepsAccounts
<1>3. QED
  BY <1>1, <1>2, RowsAreKept, PTL DEF Spec
-----------------------------------------------------------------------------
(* What holds of a withdrawal nothing has overwritten: rows, notification   *)
(* and transfer tell the same story ...                                     *)
Agreed(w) ==
    /\ "complete" \in posted[w] <=> status[w] = "COMPLETED"
    /\ "release" \in posted[w] <=> status[w] = "RELEASED"
    /\ told[w] = "CONFIRMED" <=> status[w] = "COMPLETED"
    /\ told[w] = "REFUNDED" <=> status[w] = "RELEASED"
    /\ transfer[w] = "none" => status[w] # "COMPLETED"
    /\ transfer[w] = "pending" => status[w] = "PROCESSING"
    /\ transfer[w] = "success" => status[w] \in {"PROCESSING", "COMPLETED"}
    /\ transfer[w] = "failed" => status[w] \in {"PROCESSING", "FAILED", "RELEASED"}

(* ... and as long as the provider has not heard of it, at most one request *)
(* is starting the payout or finding out that it failed.                    *)
Starting(a, w) == operator[a].for = w /\ operator[a].pc \in {"initiate", "fail"}

StartedByOne(w) ==
    transfer[w] = "none" =>
        \A a \in Operators : Starting(a, w) =>
            /\ status[w] = "PROCESSING"
            /\ \A b \in Operators : Starting(b, w) => b = a

OperatorsKnow ==
    \A a \in Operators :
        /\ operator[a].pc = "claim" => operator[a].seen \in Payable
        /\ operator[a].pc = "record" => transfer[operator[a].for] # "none"

AllAgree == \A w \in Withdrawals \ slips : Agreed(w) /\ StartedByOne(w)

WInv == RowsInv /\ SideTyped /\ OperatorsKnow /\ AllAgree

(* A withdrawal whose rows and transfer a step leaves alone, and that nobody *)
(* else starts by it.                                                       *)
LEMMA UntouchedAgree ==
    ASSUME NEW w \in Withdrawals, Agreed(w), StartedByOne(w),
           status'[w] = status[w], posted'[w] = posted[w], told'[w] = told[w],
           transfer'[w] = transfer[w],
           \A a \in Operators : Starting(a, w)' => Starting(a, w)
    PROVE  Agreed(w)' /\ StartedByOne(w)'
  BY DEF Agreed, StartedByOne

LEMMA BeginKeepsAgreement ==
    ASSUME WInv, Begin
    PROVE  OperatorsKnow' /\ AllAgree'
<1> USE DEF WInv, RowsInv
<1>1. CASE \E w \in Withdrawals, r \in Requests : RequestWithdrawal(w, r)
  <2> PICK w \in Withdrawals, r \in Requests : RequestWithdrawal(w, r)
    BY <1>1
  <2>1. /\ status[w] = "NONE" /\ status' = [status EXCEPT ![w] = "PENDING_REVIEW"]
        /\ posted' = [posted EXCEPT ![w] = @ \cup {"reserve"}]
        /\ UNCHANGED <<told, operator, transfer, slips>>
    BY RequestKeepsRows DEF RequestWithdrawal
  <2>2. OperatorsKnow'
    BY <2>1 DEF OperatorsKnow
  <2>3. ASSUME NEW n \in Withdrawals \ slips
        PROVE  Agreed(n)' /\ StartedByOne(n)'
    <3>1. Agreed(n) /\ StartedByOne(n)
      BY DEF AllAgree
    <3>2. CASE n # w
      BY <2>1, <3>1, <3>2, UntouchedAgree DEF CoreTyped, Starting
    <3>3. CASE n = w
      <4>1. status'[w] = "PENDING_REVIEW" /\ posted'[w] = posted[w] \cup {"reserve"}
        BY <2>1 DEF CoreTyped
      <4>2. transfer[w] = "none" /\ \A a \in Operators : ~Starting(a, w)
        BY <2>1, <3>1, <3>3 DEF Agreed, StartedByOne, CoreTyped
      <4>3. QED
        BY <2>1, <3>1, <3>3, <4>1, <4>2 DEF Agreed, StartedByOne, Starting
    <3>4. QED
      BY <3>2, <3>3
  <2>4. QED
    BY <2>1, <2>2, <2>3 DEF AllAgree
<1>2. CASE \E a \in Operators, w \in Withdrawals : BeginPayout(a, w) \/ BeginRelease(a, w)
  <2> PICK a \in Operators, w \in Withdrawals : BeginPayout(a, w) \/ BeginRelease(a, w)
    BY <1>2
  <2>1. /\ UNCHANGED <<status, posted, told, transfer, slips>>
        /\ \/ operator' = [operator EXCEPT ![a] = Busy("claim", w, status[w])] /\ status[w] \in Payable
           \/ operator' = [operator EXCEPT ![a] = Busy("release", w, "NONE")]
    BY DEF BeginPayout, BeginRelease, rows
  <2>2. OperatorsKnow'
    BY <2>1 DEF OperatorsKnow, CoreTyped, Busy
  <2>3. \A b \in Operators, n \in Withdrawals : Starting(b, n)' => Starting(b, n)
    BY <2>1 DEF Starting, CoreTyped, Busy
  <2>4. QED
    BY <2>1, <2>2, <2>3, UntouchedAgree DEF AllAgree
<1>3. QED
  BY <1>1, <1>2 DEF Begin

(* A claim, a release that comes to nothing, an answer, a request that dies. *)
LEMMA PayoutKeepsAgreement ==
    ASSUME WInv, NEW a \in Operators,
           \/ ClaimPayout(a) \/ ProviderAccepts(a) \/ ProviderFails(a) \/ RecordRef(a)
           \/ OperatorCrashes(a)
    PROVE  OperatorsKnow' /\ AllAgree'
<1> USE DEF WInv, RowsInv
<1> DEFINE w == operator[a].for
<1>0. UNCHANGED <<posted, told, slips>>
  BY DEF ClaimPayout, ProviderAccepts, ProviderFails, RecordRef, OperatorCrashes, rows
<1>1. CASE OperatorCrashes(a) \/ (ClaimPayout(a) /\ status[w] # operator[a].seen)
  <2>1. operator' = [operator EXCEPT ![a] = Idle] /\ UNCHANGED <<status, transfer>>
    BY <1>1 DEF OperatorCrashes, ClaimPayout, rows
  <2>2. OperatorsKnow'
    BY <2>1 DEF OperatorsKnow, CoreTyped, Idle
  <2>3. \A b \in Operators, n \in Withdrawals : Starting(b, n)' => Starting(b, n)
    BY <2>1 DEF Starting, CoreTyped, Idle
  <2>4. QED
    BY <1>0, <2>1, <2>2, <2>3, UntouchedAgree DEF AllAgree
<1>2. CASE ClaimPayout(a) /\ status[w] = operator[a].seen
  <2>1. /\ status' = [status EXCEPT ![w] = "PROCESSING"]
        /\ operator' = [operator EXCEPT ![a] = Busy("initiate", w, "NONE")]
        /\ UNCHANGED transfer /\ w \in Withdrawals /\ status[w] \in Payable
    BY <1>2, BusyOperator DEF ClaimPayout, OperatorsKnow
  <2>2. OperatorsKnow'
    BY <2>1 DEF OperatorsKnow, CoreTyped, Busy
  <2>3. \A b \in Operators, n \in Withdrawals :
            Starting(b, n)' => Starting(b, n) \/ (b = a /\ n = w)
    BY <2>1 DEF Starting, CoreTyped, Busy
  <2>4. ASSUME NEW n \in Withdrawals \ slips
        PROVE  Agreed(n)' /\ StartedByOne(n)'
    <3>1. Agreed(n) /\ StartedByOne(n)
      BY DEF AllAgree
    <3>2. CASE n # w
      BY <1>0, <2>1, <2>3, <3>1, <3>2, UntouchedAgree DEF CoreTyped
    <3>3. CASE n = w
      <4>1. status'[n] = "PROCESSING"
        BY <2>1, <3>3 DEF CoreTyped
      <4>2. status[n] \in Payable
        BY <2>1, <3>3
      <4>3. Agreed(n)'
        BY <1>0, <2>1, <3>1, <4>1, <4>2 DEF Agreed, Payable
      <4>4. transfer[n] = "none" => \A b \in Operators : ~Starting(b, n)
        BY <3>1, <4>2 DEF StartedByOne, Payable
      <4>5. StartedByOne(n)'
        BY <2>1, <2>3, <4>1, <4>4 DEF StartedByOne
      <4>6. QED
        BY <4>3, <4>5
    <3>4. QED
      BY <3>2, <3>3
  <2>5. QED
    BY <1>0, <2>2, <2>4 DEF AllAgree
<1>3. CASE ProviderAccepts(a) \/ ProviderFails(a)
  <2>1. /\ \/ UNCHANGED transfer /\ (ProviderAccepts(a) => transfer[w] # "none")
           \/ transfer[w] = "none" /\ transfer' = [transfer EXCEPT ![w] = "pending"]
        /\ \/ operator' = [operator EXCEPT ![a] = Busy("record", w, "NONE")] /\ ProviderAccepts(a)
           \/ operator' = [operator EXCEPT ![a] = Busy("fail", w, "NONE")]
        /\ UNCHANGED status /\ operator[a].pc = "initiate" /\ w \in Withdrawals
    <3>1. w \in Withdrawals
      BY <1>3, BusyOperator DEF ProviderAccepts, ProviderFails
    <3>2. QED
      BY <1>3, <3>1 DEF ProviderAccepts, ProviderFails, CoreTyped, rows
  <2>2. \A b \in Operators, n \in Withdrawals : Starting(b, n)' => Starting(b, n)
    BY <2>1 DEF Starting, CoreTyped, Busy
  <2>3. \A n \in Withdrawals : transfer[n] # "none" => transfer'[n] # "none"
    BY <2>1 DEF CoreTyped
  <2>4. transfer'[w] = "none" => ~ProviderAccepts(a)
    BY <2>1 DEF CoreTyped
  <2>5. OperatorsKnow'
    <3>1. SUFFICES ASSUME NEW b \in Operators
                   PROVE  /\ operator'[b].pc = "claim" => operator'[b].seen \in Payable
                          /\ operator'[b].pc = "record" => transfer'[operator'[b].for] # "none"
      BY DEF OperatorsKnow
    <3>2. CASE b = a
      BY <2>1, <2>4, <3>2 DEF CoreTyped, Busy
    <3>3. CASE b # a
      <4>1. operator'[b] = operator[b]
        BY <2>1, <3>3 DEF CoreTyped
      <4>2. operator[b].pc = "record" => operator[b].for \in Withdrawals
        BY BusyOperator
      <4>3. QED
        BY <2>3, <4>1, <4>2 DEF OperatorsKnow
    <3>4. QED
      BY <3>2, <3>3
  <2>6. ASSUME NEW n \in Withdrawals \ slips
        PROVE  Agreed(n)' /\ StartedByOne(n)'
    <3>1. Agreed(n) /\ StartedByOne(n)
      BY DEF AllAgree
    <3>2. CASE transfer'[n] = transfer[n]
      BY <1>0, <2>1, <2>2, <3>1, <3>2, UntouchedAgree
    <3>3. CASE transfer'[n] # transfer[n]
      <4>1. n = w /\ transfer[n] = "none" /\ transfer'[n] = "pending"
        BY <2>1, <3>3 DEF CoreTyped
      <4>2. status[n] = "PROCESSING"
        BY <2>1, <3>1, <4>1 DEF StartedByOne, Starting
      <4>3. QED
        BY <1>0, <2>1, <3>1, <4>1, <4>2 DEF Agreed, StartedByOne
    <3>4. QED
      BY <3>2, <3>3
  <2>7. QED
    BY <1>0, <2>5, <2>6 DEF AllAgree
<1>4. CASE RecordRef(a)
  <2>1. /\ \/ operator' = [operator EXCEPT ![a] = Idle]
           \/ operator' = [operator EXCEPT ![a] = Busy("fail", w, "NONE")]
        /\ UNCHANGED <<status, transfer>> /\ transfer[w] # "none"
    BY <1>4 DEF RecordRef, OperatorsKnow, rows
  <2>2. OperatorsKnow'
    BY <2>1 DEF OperatorsKnow, CoreTyped, Busy, Idle
  <2>3. \A b \in Operators, n \in Withdrawals :
            Starting(b, n)' => Starting(b, n) \/ transfer[n] # "none"
    BY <2>1 DEF Starting, CoreTyped, Busy, Idle
  <2>4. ASSUME NEW n \in Withdrawals \ slips
        PROVE  Agreed(n)' /\ StartedByOne(n)'
    BY <1>0, <2>1, <2>3 DEF AllAgree, Agreed, StartedByOne
  <2>5. QED
    BY <1>0, <2>2, <2>4 DEF AllAgree
<1>5. QED
  BY <1>1, <1>2, <1>3, <1>4

(* The two updates without a condition: whatever they hit wrongly is in     *)
(* slips from then on.                                                      *)
LEMMA OverwritingKeepsAgreement ==
    ASSUME WInv, NEW a \in Operators, RecordFailure(a) \/ ReleaseWithdrawal(a)
    PROVE  OperatorsKnow' /\ AllAgree'
<1> USE DEF WInv, RowsInv
<1> DEFINE w == operator[a].for
<1>1. /\ w \in Withdrawals /\ operator' = [operator EXCEPT ![a] = Idle]
      /\ UNCHANGED transfer /\ slips \subseteq slips'
  BY BusyOperator DEF RecordFailure, ReleaseWithdrawal
<1>2. OperatorsKnow'
  BY <1>1 DEF OperatorsKnow, CoreTyped, Idle
<1>3. \A b \in Operators, n \in Withdrawals : Starting(b, n)' => Starting(b, n) /\ b # a
  BY <1>1 DEF Starting, CoreTyped, Idle
<1>4. \A n \in Withdrawals \ {w} : status'[n] = status[n] /\ posted'[n] = posted[n] /\ told'[n] = told[n]
  BY <1>1 DEF RecordFailure, ReleaseWithdrawal, Tell, PostOnce, CoreTyped
<1>5. ASSUME NEW n \in Withdrawals \ slips'
      PROVE  Agreed(n)' /\ StartedByOne(n)'
  <2>1. Agreed(n) /\ StartedByOne(n)
    BY <1>1 DEF AllAgree
  <2>2. CASE n # w
    BY <1>1, <1>3, <1>4, <2>1, <2>2, UntouchedAgree
  <2>3. CASE n = w /\ RecordFailure(a)
    <3>1. /\ status'[n] = "FAILED" /\ posted'[n] = posted[n] /\ told'[n] = told[n]
          /\ status[n] \notin Final /\ transfer[n] \in {"none", "failed"}
      BY <1>1, <2>3 DEF RecordFailure, CoreTyped
    <3>2. transfer[n] = "none" => \A b \in Operators : Starting(b, n) => b = a
      BY <2>1, <2>3 DEF RecordFailure, StartedByOne, Starting
    <3>3. QED
      BY <1>1, <1>3, <2>1, <3>1, <3>2 DEF Agreed, StartedByOne, Final
  <2>4. CASE n = w /\ ReleaseWithdrawal(a)
    <3>1. /\ status'[n] = "RELEASED" /\ told'[n] = IF told[n] = "NOTHING" THEN "REFUNDED" ELSE told[n]
          /\ posted'[n] = posted[n] \cup {"release"}
          /\ status[n] \in Releasable \cup {"RELEASED"}
      BY <1>1, <2>4 DEF ReleaseWithdrawal, Tell, PostOnce, CoreTyped
    <3>2. transfer[n] \in {"none", "failed"} /\ status[n] # "PROCESSING"
      BY <2>1, <3>1 DEF Agreed, Releasable, CoreTyped
    <3>3. transfer[n] = "none" => \A b \in Operators : ~Starting(b, n)
      BY <2>1, <3>2 DEF StartedByOne
    <3>4. told[n] \in {"NOTHING", "CONFIRMED", "REFUNDED"}
      BY DEF CoreTyped
    <3>5. QED
      BY <1>1, <1>3, <2>1, <3>1, <3>2, <3>3, <3>4 DEF Agreed, StartedByOne, Releasable
  <2>5. QED
    BY <2>2, <2>3, <2>4
<1>6. QED
  BY <1>2, <1>5 DEF AllAgree

LEMMA ReportKeepsAgreement ==
    ASSUME WInv, NEW w \in Withdrawals, NEW success \in BOOLEAN, ReportPayoutResult(w, success),
           \/ success /\ transfer[w] = "success"
           \/ ~success /\ transfer[w] = "failed"
           \/ ~success /\ transfer[w] = "none" /\ \A b \in Operators : operator[b].for # w
    PROVE  OperatorsKnow' /\ AllAgree'
<1> USE DEF WInv, RowsInv
<1>1. status[w] = "PROCESSING" /\ UNCHANGED <<operator, transfer, slips>>
  BY DEF ReportPayoutResult
<1>2. OperatorsKnow'
  BY <1>1 DEF OperatorsKnow
<1>3. \A b \in Operators, n \in Withdrawals : Starting(b, n)' <=> Starting(b, n)
  BY <1>1 DEF Starting
<1>4. \A n \in Withdrawals \ {w} : status'[n] = status[n] /\ posted'[n] = posted[n] /\ told'[n] = told[n]
  BY DEF ReportPayoutResult, Tell, PostOnce, CoreTyped
<1>5. ASSUME NEW n \in Withdrawals \ slips
      PROVE  Agreed(n)' /\ StartedByOne(n)'
  <2>1. Agreed(n) /\ StartedByOne(n)
    BY DEF AllAgree
  <2>2. CASE n # w
    BY <1>1, <1>3, <1>4, <2>1, <2>2, UntouchedAgree
  <2>3. CASE n = w /\ success
    <3>1. /\ status'[n] = "COMPLETED" /\ posted'[n] = posted[n] \cup {"complete"}
          /\ told'[n] = IF told[n] = "NOTHING" THEN "CONFIRMED" ELSE told[n]
      BY <1>1, <2>3 DEF ReportPayoutResult, Tell, PostOnce, CoreTyped
    <3>2. told[n] \in {"NOTHING", "CONFIRMED", "REFUNDED"} /\ transfer[n] = "success"
      BY <2>3 DEF CoreTyped
    <3>3. QED
      BY <1>1, <2>1, <2>3, <3>1, <3>2 DEF Agreed, StartedByOne
  <2>4. CASE n = w /\ ~success
    <3>1. status'[n] = "FAILED" /\ posted'[n] = posted[n] /\ told'[n] = told[n]
      BY <1>1, <2>4 DEF ReportPayoutResult, CoreTyped
    <3>2. \/ transfer[n] = "failed"
          \/ transfer[n] = "none" /\ \A b \in Operators : ~Starting(b, n)
      BY <2>4 DEF Starting
    <3>3. QED
      BY <1>1, <1>3, <2>1, <2>4, <3>1, <3>2 DEF Agreed, StartedByOne
  <2>5. QED
    BY <2>2, <2>3, <2>4
<1>6. QED
  BY <1>1, <1>2, <1>5 DEF AllAgree

LEMMA GoingOnKeepsAgreement ==
    ASSUME WInv, GoOn \/ UNCHANGED vars
    PROVE  OperatorsKnow' /\ AllAgree'
<1> USE DEF WInv, RowsInv
<1>1. ASSUME UNCHANGED <<rows, operator, transfer, slips>>
      PROVE  OperatorsKnow' /\ AllAgree'
  BY <1>1 DEF rows, OperatorsKnow, AllAgree, Agreed, StartedByOne, Starting
<1>2. ASSUME NEW w \in Withdrawals, ApproveWithdrawal(w)
      PROVE  OperatorsKnow' /\ AllAgree'
  <2>1. /\ status[w] = "PENDING_REVIEW" /\ status' = [status EXCEPT ![w] = "APPROVED"]
        /\ UNCHANGED <<posted, told, operator, transfer, slips>>
    BY <1>2 DEF ApproveWithdrawal
  <2>2. ASSUME NEW n \in Withdrawals \ slips
        PROVE  Agreed(n)' /\ StartedByOne(n)'
    <3>1. status'[n] = IF n = w THEN "APPROVED" ELSE status[n]
      BY <2>1 DEF CoreTyped
    <3>2. QED
      BY <2>1, <3>1 DEF AllAgree, Agreed, StartedByOne, Starting
  <2>3. QED
    BY <2>1, <2>2 DEF AllAgree, OperatorsKnow
<1>3. ASSUME NEW w \in Withdrawals, NEW o \in {"success", "failed"}, TransferEnds(w, o)
      PROVE  OperatorsKnow' /\ AllAgree'
  <2>1. /\ transfer[w] = "pending" /\ transfer' = [transfer EXCEPT ![w] = o]
        /\ UNCHANGED <<rows, operator, slips>>
    BY <1>3 DEF TransferEnds
  <2>2. \A n \in Withdrawals : transfer'[n] = IF n = w THEN o ELSE transfer[n]
    BY <2>1 DEF CoreTyped
  <2>3. ASSUME NEW n \in Withdrawals \ slips
        PROVE  Agreed(n)' /\ StartedByOne(n)'
    BY <2>1, <2>2 DEF AllAgree, Agreed, StartedByOne, Starting, rows
  <2>4. \A b \in Operators : operator[b].pc = "record" => operator[b].for \in Withdrawals
    BY BusyOperator
  <2>5. OperatorsKnow'
    BY <2>1, <2>2, <2>4 DEF OperatorsKnow
  <2>6. QED
    BY <2>1, <2>3, <2>5 DEF AllAgree
<1>4. CASE \E w \in Withdrawals :
              Callback(w) \/ SweepProbes(w) \/ \E a \in Operators : OperatorReports(a, w)
  BY <1>1, <1>4, ReportKinds, ReportKeepsAgreement
<1>5. CASE \E a \in Operators : OperatorStep(a)
  BY <1>5, PayoutKeepsAgreement, OverwritingKeepsAgreement DEF OperatorStep
<1>6. CASE \E u \in Users : DeleteBankAccount(u)
  <2>1. UNCHANGED <<status, posted, told, operator, transfer, slips>>
    BY <1>6 DEF DeleteBankAccount
  <2>2. QED
    BY <2>1 DEF OperatorsKnow, AllAgree, Agreed, StartedByOne, Starting
<1>7. CASE UNCHANGED vars \/ SweepReads \/ \E w \in Withdrawals : ProbeThrows(w) \/ ComesDue(w)
  BY <1>1, <1>7 DEF vars, rows, SweepReads, ProbeThrows, ComesDue
<1>8. QED
  BY <1>2, <1>3, <1>4, <1>5, <1>6, <1>7 DEF GoOn

LEMMA RowsInvStep ==
    ASSUME RowsInv, [Next]_vars
    PROVE  RowsInv'
  BY RowStepKinds, RequestKeepsRows, CompletionKeepsRows, ReleaseKeepsRows

LEMMA WInvStep ==
    ASSUME WInv, [Next]_vars
    PROVE  WInv' /\ slips \subseteq slips'
<1>1. RowsInv'
  BY RowsInvStep DEF WInv
<1>2. SideTyped' /\ slips \subseteq slips'
  BY SideIsTyped DEF WInv, RowsInv
<1>3. OperatorsKnow' /\ AllAgree'
  BY BeginKeepsAgreement, GoingOnKeepsAgreement DEF Next
<1>4. QED
  BY <1>1, <1>2, <1>3 DEF WInv

(* The inductive invariant: no assumption on operators or answers.          *)
LEMMA WithdrawalIsSafe == Spec => []WInv
<1>1. Init => SideTyped /\ OperatorsKnow /\ AllAgree
  BY DEF Init, SideTyped, OperatorsKnow, AllAgree, Agreed, StartedByOne, Starting, Idle
<1>2. RowsInv /\ SideTyped /\ OperatorsKnow /\ AllAgree => WInv
  BY DEF WInv
<1>3. WInv /\ [Next]_vars => WInv'
  BY WInvStep
<1>4. Init /\ RowsInv => WInv
  BY <1>1, <1>2
<1>5. QED
  BY <1>3, <1>4, RowsAreKept, PTL DEF Spec

(* Money given back is not, and will not be, transferred as well, unless    *)
(* one of the two unconditional updates hit the withdrawal wrongly: however *)
(* many operators race, whichever answers are lost.                         *)
THEOREM ReturnedMoneyIsNotPaid == Spec => []ReturnedIsNotPaid
<1>1. WInv => ReturnedIsNotPaid
  BY DEF WInv, RowsInv, CoreTyped, AllAgree, Agreed, ReturnedIsNotPaid
<1>2. QED
  BY <1>1, WithdrawalIsSafe, PTL

(* The one notification about a withdrawal says what became of it, with the *)
(* same exception.                                                          *)
THEOREM NotificationsAreTrue == Spec => []PlayersAreToldTheTruth
<1>1. WInv => PlayersAreToldTheTruth
  BY DEF WInv, AllAgree, Agreed, PlayersAreToldTheTruth
<1>2. QED
  BY <1>1, WithdrawalIsSafe, PTL
-----------------------------------------------------------------------------
(* A payout or a refund that is booked is the first booking of its          *)
(* withdrawal, or the withdrawal has been overwritten.                      *)
LEMMA CompletionIsFirst ==
    ASSUME WInv, NEW w \in Withdrawals, ReportPayoutResult(w, TRUE)
    PROVE  /\ request[w] \in Requests /\ request[w] # NoRequest /\ UNCHANGED <<request, slips>>
           /\ \/ "complete" \in posted[w] /\ UNCHANGED <<spendable, pending, paidOut, posted>>
              \/ /\ "complete" \notin posted[w] /\ Complete(request[w])
                 /\ posted' = [posted EXCEPT ![w] = @ \cup {"complete"}]
           /\ w \notin slips => status[w] \notin Final /\ posted[w] \cap {"complete", "release"} = {}
<1>1. status[w] = "PROCESSING" /\ UNCHANGED <<request, slips>>
  BY DEF ReportPayoutResult
<1>2. request[w] \in Requests /\ request[w] # NoRequest
  BY <1>1, UsersAssumption DEF WInv, RowsInv, RowsExist, Requests, NoRequest
<1>3. w \notin slips => status[w] \notin Final /\ posted[w] \cap {"complete", "release"} = {}
  BY <1>1 DEF WInv, AllAgree, Agreed, Final
<1>4. QED
  BY <1>1, <1>2, <1>3 DEF ReportPayoutResult, PostOnce

LEMMA RefundIsFirst ==
    ASSUME WInv, NEW a \in Operators, ReleaseWithdrawal(a), NEW w, w = operator[a].for
    PROVE  /\ w \in Withdrawals /\ request[w] \in Requests /\ request[w] # NoRequest /\ UNCHANGED request
           /\ \/ "release" \in posted[w] /\ UNCHANGED <<spendable, pending, paidOut, posted>>
              \/ /\ "release" \notin posted[w] /\ Refund(request[w])
                 /\ posted' = [posted EXCEPT ![w] = @ \cup {"release"}]
           /\ w \notin slips' =>
                 \/ "release" \in posted[w]
                 \/ status[w] \notin Final /\ posted[w] \cap {"complete", "release"} = {}
<1>1. w \in Withdrawals /\ status[w] # "NONE"
  BY BusyOperator DEF ReleaseWithdrawal, WInv, RowsInv, RowsExist
<1>2. request[w] \in Requests /\ request[w] # NoRequest
  BY <1>1, UsersAssumption DEF WInv, RowsInv, RowsExist, Requests, NoRequest
<1>3. w \notin slips' => w \notin slips /\ status[w] \in Releasable \cup {"RELEASED"}
  BY DEF ReleaseWithdrawal
<1>4. w \notin slips' =>
         \/ "release" \in posted[w]
         \/ status[w] \notin Final /\ posted[w] \cap {"complete", "release"} = {}
  BY <1>1, <1>3 DEF WInv, AllAgree, Agreed, Final, Releasable
<1>5. QED
  BY <1>1, <1>2, <1>4 DEF ReleaseWithdrawal, PostOnce

(* What is booked of the withdrawals, as the promise sees it.               *)
Done == [n \in Withdrawals |-> posted[n] \ {"reserve"}]

LEMMA DoneChanges ==
    ASSUME CoreTyped, NEW w \in Withdrawals, NEW key \in {"complete", "release"},
           posted' = [posted EXCEPT ![w] = @ \cup {key}]
    PROVE  Done' = [Done EXCEPT ![w] = @ \cup {key}]
<1>1. \A n \in Withdrawals : posted'[n] = IF n = w THEN posted[n] \cup {key} ELSE posted[n]
  BY DEF CoreTyped
<1>2. \A n \in Withdrawals :
         posted'[n] \ {"reserve"} = IF n = w THEN (posted[n] \ {"reserve"}) \cup {key} ELSE posted[n] \ {"reserve"}
  BY <1>1
<1>3. QED
  BY <1>2 DEF Done

LEMMA PromiseSteps ==
    ASSUME WInv, [Next]_vars
    PROVE  [Promise!PromiseNext]_(Promise!pvars)
<1> USE DEF WInv, RowsInv
<1>0. slips \subseteq slips' /\ slips' \subseteq Withdrawals
  BY WInvStep DEF SideTyped
<1>1. ASSUME NEW w \in Withdrawals, NEW r \in Requests, RequestWithdrawal(w, r)
      PROVE  Promise!PromiseNext
  <2>1. /\ Reserve(r) /\ status[w] = "NONE" /\ request' = [request EXCEPT ![w] = r]
        /\ posted' = [posted EXCEPT ![w] = @ \cup {"reserve"}]
    BY <1>1, RequestKeepsRows
  <2>2. \A n \in Withdrawals : posted'[n] \ {"reserve"} = posted[n] \ {"reserve"}
    BY <2>1 DEF CoreTyped
  <2>3. Done' = Done
    BY <2>2 DEF Done
  <2>4. request[w] = NoRequest /\ spendable[r.owner] >= r.amount
    BY <1>1, <2>1 DEF RowsExist, RequestWithdrawal
  <2>5. Promise!SetAside(w, r) /\ r \in Promise!Requests
    BY <2>1, <2>3, <2>4
    DEF Done, Promise!SetAside, Promise!Reserve, Reserve, Promise!Requests, Requests,
        Promise!NoRequest, NoRequest
  <2>6. QED
    BY <1>0, <2>5 DEF Promise!PromiseNext
<1>2. ASSUME UNCHANGED <<request, balances, posted>>
      PROVE  Promise!PromiseNext
  <2>1. Done' = Done
    BY <1>2 DEF Done
  <2>2. QED
    BY <1>0, <1>2, <2>1 DEF Promise!PromiseNext, Done, balances
<1>3. ASSUME NEW w \in Withdrawals, ReportPayoutResult(w, TRUE)
      PROVE  Promise!PromiseNext
  <2>1. CASE UNCHANGED <<spendable, pending, paidOut, posted>>
    BY <1>2, <1>3, <2>1, CompletionIsFirst DEF balances
  <2>2. CASE ~UNCHANGED <<spendable, pending, paidOut, posted>>
    <3>1. /\ "complete" \notin posted[w] /\ Complete(request[w])
          /\ posted' = [posted EXCEPT ![w] = @ \cup {"complete"}]
          /\ request[w] # NoRequest /\ UNCHANGED <<request, slips>>
          /\ w \notin slips => posted[w] \cap {"complete", "release"} = {}
      BY <1>3, <2>2, CompletionIsFirst
    <3>2. Done' = [Done EXCEPT ![w] = @ \cup {"complete"}]
      BY <3>1, DoneChanges
    <3>3. posted[w] \subseteq {"reserve", "complete", "release"}
      BY DEF CoreTyped
    <3>4. "complete" \notin Done[w] /\ (Done[w] = {} \/ w \in slips')
      BY <3>1, <3>3 DEF Done
    <3>5. Promise!Pay(w)
      BY <3>1, <3>2, <3>4
      DEF Done, Promise!Pay, Promise!MayBook, Promise!Complete, Complete, Promise!NoRequest, NoRequest
    <3>6. QED
      BY <1>0, <3>5 DEF Promise!PromiseNext
  <2>3. QED
    BY <2>1, <2>2
<1>4. ASSUME NEW a \in Operators, ReleaseWithdrawal(a)
      PROVE  Promise!PromiseNext
  <2> PICK w : w = operator[a].for
    OBVIOUS
  <2>1. CASE UNCHANGED <<spendable, pending, paidOut, posted>>
    BY <1>2, <1>4, <2>1 DEF ReleaseWithdrawal, balances
  <2>2. CASE ~UNCHANGED <<spendable, pending, paidOut, posted>>
    <3>1. /\ w \in Withdrawals /\ "release" \notin posted[w] /\ Refund(request[w])
          /\ posted' = [posted EXCEPT ![w] = @ \cup {"release"}]
          /\ request[w] # NoRequest /\ UNCHANGED request
          /\ w \notin slips' => posted[w] \cap {"complete", "release"} = {}
      BY <1>4, <2>2, RefundIsFirst
    <3>2. Done' = [Done EXCEPT ![w] = @ \cup {"release"}]
      BY <3>1, DoneChanges
    <3>3. posted[w] \subseteq {"reserve", "complete", "release"}
      BY <3>1 DEF CoreTyped
    <3>4. "release" \notin Done[w] /\ (Done[w] = {} \/ w \in slips')
      BY <3>1, <3>3 DEF Done
    <3>5. Promise!GiveBack(w)
      BY <3>1, <3>2, <3>4
      DEF Done, Promise!GiveBack, Promise!MayBook, Promise!Refund, Refund, Promise!NoRequest, NoRequest
    <3>6. QED
      BY <1>0, <3>1, <3>5 DEF Promise!PromiseNext
  <2>3. QED
    BY <2>1, <2>2
<1>5. QED
  BY <1>1, <1>2, <1>3, <1>4, RowStepKinds

(* Whatever the status machine, racing operators, the provider and its      *)
(* callbacks do, money is set aside once and then leaves or comes back, each *)
(* once, and both only for a withdrawal that was overwritten.               *)
THEOREM WithdrawalImplementsPromise == Spec => ImplementsPromise
<1>1. Init => Promise!PromiseInit
  BY DEF Init, MoneyInit, Promise!PromiseInit, Promise!MoneyInit, Promise!NoRequest, NoRequest
<1>2. WInv /\ [Next]_vars => [Promise!PromiseNext]_(Promise!pvars)
  BY PromiseSteps
<1>3. QED
  BY <1>1, <1>2, WithdrawalIsSafe, PTL DEF Spec, ImplementsPromise, Promise!PromiseSpec
-----------------------------------------------------------------------------
(* What is pending for a user none of whose withdrawals was overwritten.    *)
Spared(u) == \A w \in slips : request[w].owner # u

LEMMA OutstandingIsFinite ==
    ASSUME CoreTyped
    PROVE  /\ \A w \in Withdrawals : Asked[w] = request[w].amount /\ Asked[w] \in Int
           /\ \A u : Outstanding(u) \subseteq Withdrawals /\ IsFiniteSet(Outstanding(u))
<1>1. \A w \in Withdrawals : request[w].amount \in Int
  BY RequestsAreTyped DEF CoreTyped, MoneyTypeOK, NoRequest
<1>2. \A w \in Withdrawals : Asked[w] = request[w].amount
  BY DEF Asked
<1>3. \A u : Outstanding(u) \subseteq Withdrawals
  BY DEF Outstanding
<1> QED
  BY <1>1, <1>2, <1>3, FS_Subset, WithdrawalsAssumption

(* What is booked says which withdrawals are over, so that a step that books *)
(* nothing ends none of a spared user's.                                    *)
LEMMA NothingBookedKeepsPending ==
    ASSUME WInv, WInv', slips \subseteq slips', UNCHANGED <<request, balances, posted>>,
           PendingIsReserved
    PROVE  PendingIsReserved'
<1>1. Asked' = Asked /\ pending' = pending
  BY DEF Asked, balances
<1>2. ASSUME NEW u \in Users, Spared(u)'
      PROVE  pending'[u] = SumFunctionOnSet(Asked', Outstanding(u)')
  <2>1. Spared(u)
    BY <1>2 DEF Spared
  <2>2. \A w \in Withdrawals : request[w].owner = u => (status'[w] \in Final <=> status[w] \in Final)
    BY <1>2, <2>1 DEF Spared, WInv, AllAgree, Agreed, Final
  <2>3. Outstanding(u)' = Outstanding(u)
    BY <2>2 DEF Outstanding
  <2>4. QED
    BY <1>1, <2>1, <2>3 DEF PendingIsReserved, Spared
<1>3. QED
  BY <1>2 DEF PendingIsReserved, Spared

(* A new request joins its owner's, and is pending from the same moment.    *)
LEMMA RequestKeepsPending ==
    ASSUME WInv, PendingIsReserved, NEW w \in Withdrawals, NEW r \in Requests, RequestWithdrawal(w, r)
    PROVE  PendingIsReserved'
<1>1. CoreTyped /\ CoreTyped'
  BY RequestKeepsRows DEF WInv, RowsInv
<1>2. /\ status[w] = "NONE" /\ Reserve(r)
      /\ status' = [status EXCEPT ![w] = "PENDING_REVIEW"]
      /\ request' = [request EXCEPT ![w] = r] /\ UNCHANGED slips
  BY RequestKeepsRows DEF RequestWithdrawal, WInv
<1>3. r.owner \in Users /\ r.amount \in Int
  BY RequestsAreTyped
<1>4. request[w] = NoRequest
  BY <1>2 DEF WInv, RowsInv, RowsExist
<1>5. ASSUME NEW u \in Users, Spared(u)'
      PROVE  pending'[u] = SumFunctionOnSet(Asked', Outstanding(u)')
  <2> DEFINE R == Outstanding(u)
  <2>1. w \notin R
    BY <1>4, UsersAssumption DEF Outstanding, NoRequest
  <2>2. Outstanding(u)' = IF r.owner = u THEN R \cup {w} ELSE R
    BY <1>1, <1>2, <2>1 DEF Outstanding, CoreTyped, MoneyTypeOK, Final
  <2>3. Asked'[w] = r.amount /\ \A n \in Withdrawals \ {w} : Asked'[n] = Asked[n]
    BY <1>1, <1>2 DEF Asked, CoreTyped, MoneyTypeOK
  <2>4. /\ IsFiniteSet(R) /\ R \subseteq Withdrawals
        /\ \A n \in R : Asked'[n] = Asked[n] /\ Asked[n] \in Int
    BY <1>1, <2>1, <2>3, OutstandingIsFinite
  <2>5. Spared(u)
    BY <1>1, <1>2, <1>4, <1>5, UsersAssumption DEF Spared, NoRequest, CoreTyped, MoneyTypeOK, WInv, SideTyped
  <2>6. pending[u] = SumFunctionOnSet(Asked, R) /\ pending[u] \in Int
    BY <1>1, <2>5 DEF PendingIsReserved, Spared, CoreTyped, MoneyTypeOK
  <2>7. pending'[u] = IF r.owner = u THEN pending[u] + r.amount ELSE pending[u]
    BY <1>1, <1>2, <1>3 DEF Reserve, CoreTyped, MoneyTypeOK
  <2>8. SumFunctionOnSet(Asked', R) = SumFunctionOnSet(Asked, R)
    BY <2>4, SumAgrees
  <2>9. CASE r.owner # u
    BY <2>2, <2>6, <2>7, <2>8, <2>9
  <2>10. CASE r.owner = u
    <3> DEFINE T == R \cup {w}
    <3>1. IsFiniteSet(T) /\ \A n \in T : Asked'[n] \in Int
      BY <1>3, <2>3, <2>4, FS_AddElement
    <3>2. SumFunctionOnSet(Asked', T) = Asked'[w] + SumFunctionOnSet(Asked', T \ {w})
      BY <3>1, SumTakes
    <3>3. T \ {w} = R
      BY <2>1
    <3>4. Outstanding(u)' = T
      BY <2>2, <2>10
    <3> HIDE DEF T, R
    <3>5. SumFunctionOnSet(Asked', T) = r.amount + pending[u]
      BY <2>3, <2>6, <2>8, <3>2, <3>3
    <3> QED
      BY <1>3, <2>6, <2>7, <2>10, <3>4, <3>5
  <2> QED
    BY <2>9, <2>10
<1> QED
  BY <1>5 DEF PendingIsReserved, Spared

(* A withdrawal that is over takes its amount with it.                      *)
LEMMA EndingKeepsPending ==
    ASSUME WInv, slips \subseteq slips', PendingIsReserved, NEW w \in Withdrawals, NEW s \in Final,
           status' = [status EXCEPT ![w] = s], UNCHANGED request, request[w] \in Requests,
           \/ w \notin slips' => status[w] \in Final /\ UNCHANGED pending
           \/ /\ w \notin slips' => status[w] \notin Final
              /\ pending' = [pending EXCEPT ![request[w].owner] = @ - request[w].amount],
           w \in slips' => \A u \in Users : u # request[w].owner => pending'[u] = pending[u]
    PROVE  PendingIsReserved'
<1>1. CoreTyped
  BY DEF WInv, RowsInv
<1>2. request[w].owner \in Users /\ request[w].amount \in Int
  BY RequestsAreTyped
<1>3. Asked' = Asked
  BY DEF Asked
<1>4. ASSUME NEW u \in Users, Spared(u)'
      PROVE  pending'[u] = SumFunctionOnSet(Asked, Outstanding(u)')
  <2> DEFINE R == Outstanding(u)
  <2>1. Spared(u)
    BY <1>4 DEF Spared
  <2>2. Outstanding(u)' = R \ {w}
    BY <1>1 DEF Outstanding, CoreTyped
  <2>3. pending[u] = SumFunctionOnSet(Asked, R)
    BY <2>1 DEF PendingIsReserved, Spared
  <2>4. /\ IsFiniteSet(R) /\ R \subseteq Withdrawals
        /\ \A n \in R : Asked[n] \in Int
        /\ Asked[w] = request[w].amount
    BY <1>1, OutstandingIsFinite
  <2>5. CASE request[w].owner # u
    <3>1. w \notin R /\ pending'[u] = pending[u]
      BY <1>1, <1>2, <2>5 DEF Outstanding, CoreTyped, MoneyTypeOK
    <3>2. R \ {w} = R
      BY <3>1
    <3> QED
      BY <2>2, <2>3, <3>1, <3>2
  <2>6. CASE request[w].owner = u /\ status[w] \in Final
    <3>1. w \notin slips'
      BY <1>4, <2>6 DEF Spared
    <3>2. w \notin R /\ UNCHANGED pending
      BY <2>6, <3>1 DEF Outstanding
    <3>3. R \ {w} = R
      BY <3>2
    <3> QED
      BY <2>2, <2>3, <3>2, <3>3
  <2>7. CASE request[w].owner = u /\ status[w] \notin Final
    <3>1. w \notin slips' /\ w \in R
      BY <1>4, <2>7 DEF Spared, Outstanding
    <3>2. pending'[u] = pending[u] - request[w].amount /\ pending[u] \in Int
      BY <1>1, <1>2, <2>7, <3>1 DEF CoreTyped, MoneyTypeOK
    <3>3. SumFunctionOnSet(Asked, R) = Asked[w] + SumFunctionOnSet(Asked, R \ {w})
      BY <2>4, <3>1, SumTakes
    <3>4. IsFiniteSet(R \ {w})
      BY <2>4, FS_RemoveElement
    <3>5. SumFunctionOnSet(Asked, R \ {w}) \in Int
      BY <2>4, <3>4, SumIsInt
    <3> QED
      BY <1>2, <2>2, <2>3, <2>4, <3>2, <3>3, <3>5
  <2> QED
    BY <2>5, <2>6, <2>7
<1> QED
  BY <1>3, <1>4 DEF PendingIsReserved, Spared

(* The books agree with the provider, and with the requests that are open.  *)
THEOREM BooksAgreeWithTheProvider == Spec => []BooksAgree
<1>1. Init => PendingIsReserved
  <2> SUFFICES ASSUME Init PROVE PendingIsReserved
    OBVIOUS
  <2>1. \A u \in Users : Outstanding(u) = {} /\ pending[u] = 0
    BY UsersAssumption DEF Init, MoneyInit, Outstanding, NoRequest
  <2> QED
    BY <2>1, SumOfNothing DEF PendingIsReserved
<1>2. WInv /\ PendingIsReserved /\ [Next]_vars => PendingIsReserved'
  <2> SUFFICES ASSUME WInv, PendingIsReserved, [Next]_vars PROVE PendingIsReserved'
    OBVIOUS
  <2>0. WInv' /\ slips \subseteq slips'
    BY WInvStep
  <2>1. ASSUME NEW w \in Withdrawals, ReportPayoutResult(w, TRUE) PROVE PendingIsReserved'
    <3>1. /\ status' = [status EXCEPT ![w] = "COMPLETED"]
          /\ request[w] \in Requests /\ UNCHANGED <<request, slips>>
          /\ \/ "complete" \in posted[w] /\ UNCHANGED <<spendable, pending, paidOut, posted>>
             \/ "complete" \notin posted[w] /\ Complete(request[w])
          /\ w \notin slips => status[w] \notin Final /\ posted[w] \cap {"complete", "release"} = {}
      BY <2>1, CompletionIsFirst DEF ReportPayoutResult
    <3>2. \/ w \in slips /\ UNCHANGED pending
          \/ pending' = [pending EXCEPT ![request[w].owner] = @ - request[w].amount]
      BY <3>1 DEF Complete
    <3>3. \A u \in Users : u # request[w].owner => pending'[u] = pending[u]
      BY <3>2 DEF WInv, RowsInv, CoreTyped, MoneyTypeOK
    <3> QED
      BY <2>0, <3>1, <3>2, <3>3, EndingKeepsPending DEF Final
  <2>2. ASSUME NEW a \in Operators, ReleaseWithdrawal(a) PROVE PendingIsReserved'
    <3> DEFINE w == operator[a].for
    <3>1. /\ w \in Withdrawals /\ status' = [status EXCEPT ![w] = "RELEASED"]
          /\ request[w] \in Requests /\ UNCHANGED request
          /\ \/ "release" \in posted[w] /\ UNCHANGED <<spendable, pending, paidOut, posted>>
             \/ "release" \notin posted[w] /\ Refund(request[w])
          /\ w \notin slips' =>
                 \/ "release" \in posted[w]
                 \/ status[w] \notin Final /\ posted[w] \cap {"complete", "release"} = {}
      BY <2>2, RefundIsFirst DEF ReleaseWithdrawal
    <3> HIDE DEF w
    <3>2. w \notin slips' => ("release" \in posted[w] => status[w] \in Final)
      BY <2>0, <3>1 DEF WInv, AllAgree, Agreed, Final
    <3>3. \/ "release" \in posted[w] /\ UNCHANGED pending
          \/ /\ "release" \notin posted[w]
             /\ pending' = [pending EXCEPT ![request[w].owner] = @ - request[w].amount]
      BY <3>1 DEF Refund
    <3>4. \/ w \notin slips' => status[w] \in Final /\ UNCHANGED pending
          \/ /\ w \notin slips' => status[w] \notin Final
             /\ pending' = [pending EXCEPT ![request[w].owner] = @ - request[w].amount]
      BY <3>1, <3>2, <3>3
    <3>5. \A u \in Users : u # request[w].owner => pending'[u] = pending[u]
      BY <3>3 DEF WInv, RowsInv, CoreTyped, MoneyTypeOK
    <3> QED
      BY <2>0, <3>1, <3>4, <3>5, EndingKeepsPending DEF Final
  <2> QED
    BY <2>0, <2>1, <2>2, RequestKeepsPending, NothingBookedKeepsPending, RowStepKinds DEF WInv
<1>3. WInv /\ PendingIsReserved => BooksAgree
  BY DEF WInv, RowsInv, PaymentsWereMade, CompletedWasPaid, BooksAgree
<1> QED
  BY <1>1, <1>2, <1>3, WithdrawalIsSafe, PTL DEF Spec
=============================================================================

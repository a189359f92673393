--------------------------- MODULE Funding_proofs ---------------------------
(***************************************************************************)
(* Proofs about how a match comes to be funded, and about the money it is  *)
(* funded with: the players who are paired (Pairing, with the limits and   *)
(* breaks of SaferPlay) and the balance they spend (PlayerFunds).          *)
(***************************************************************************)
EXTENDS PlayerFunds, Pairing, SumLemmas, SequenceTheorems

(***************************************************************************)
(* PlayerFunds, for any number of deposits, spenders and adjustments.      *)
(***************************************************************************)
Intent == [status : {"none", "PENDING", "COMPLETED", "FAILED"}, amount : Amounts \cup {0},
           stale : BOOLEAN, checkout : {"none", "asked", "open", "refused"}]
Match == [status : {"none", "LIVE", "SETTLED"}, stake : Amounts \cup {0}, net : Nat, entries : SUBSET Int]
Row == [kind : {"deposit"}, of : Intents, status : {"PENDING", "COMPLETED", "FAILED"}]
         \cup [kind : {"settlement"}, of : Matches, status : {"SETTLED"}]
         \cup [kind : {"withdrawal"}, of : Withdrawals, status : {"OPEN", "COMPLETED", "RELEASED"}]
JobState == [pc : {"idle", "parked", "terminal", "withdrawals", "intents", "settlements"},
             rows : SUBSET Row, passes : Nat]

DepositsTyped ==
    /\ intent \in [Intents -> Intent]
    /\ paid \in [Intents -> Amounts \cup {0}]
    /\ credits \in [Intents -> Amounts \cup {0}]
    /\ webhooks \subseteq {i \in Intents : paid[i] # 0}

MoneyTyped ==
    /\ spend \in [Spenders -> Amounts \cup {0}]
    /\ match \in [Matches -> Match]
    /\ adjustment \in [References -> [status : {"none", "CREDIT", "reading", "DEBIT"},
                                      amount : Amounts \cup {0}]]
    /\ withdrawal \in [Withdrawals -> [status : {"none", "OPEN", "COMPLETED", "RELEASED"},
                                       amount : Amounts \cup {0}]]
    /\ available \in Int

JobsTyped == job \in [Jobs -> JobState]

(* Money comes through an open checkout, and that is never opened twice;     *)
(* what was credited is what the intent asks for.                            *)
PaymentsAreExpected ==
    \A i \in Intents :
        /\ paid[i] # 0 => intent[i].checkout = "open"
        /\ intent[i].status = "none" => intent[i].checkout = "none"
        /\ credits[i] # 0 => credits[i] = intent[i].amount

(* A match is funded once, a withdrawal reserved once; a settlement books    *)
(* what it nets, or is a draw.                                               *)
SpendingHappensOnce ==
    /\ \A m \in Matches :
          /\ spend[m] # 0 => match[m].status = "none"
          /\ match[m].status = "LIVE" => match[m].stake # 0
          /\ match[m].status = "SETTLED" =>
                match[m].net \in match[m].entries \/ match[m].net = 2 * match[m].stake
    /\ \A w \in Withdrawals : spend[w] # 0 => withdrawal[w].status = "none"

(* What a row a job has read says of the books still holds of them.          *)
Explained(row) ==
    /\ row.kind = "deposit" /\ row.status = "COMPLETED" => intent[row.of].status = "COMPLETED"
    /\ row.kind = "settlement" => match[row.of].status = "SETTLED"
    /\ row.kind = "withdrawal" =>
          \/ withdrawal[row.of].status = row.status
          \/ row.status = "OPEN" /\ withdrawal[row.of].status \in {"COMPLETED", "RELEASED"}
RowsStillHold == \A j \in Jobs : \A row \in job[j].rows : Explained(row)

AlarmHolds(a) ==
    /\ a.row \in Row
    /\ a.complaint \notin {"credit missing", "credit differs", "ended otherwise"}
    /\ a.complaint = "ended already" =>
          a.row.kind = "withdrawal" /\ withdrawal[a.row.of].status \in {"COMPLETED", "RELEASED"}
    /\ a.complaint = "unexpected credit" => a.row.kind = "deposit" /\ intent[a.row.of].status = "COMPLETED"
    /\ a.complaint = "payout not covered" =>
          /\ a.row.kind = "settlement" /\ match[a.row.of].status = "SETTLED"
          /\ match[a.row.of].net = 2 * match[a.row.of].stake
AlarmsHold == \A a \in alarms : AlarmHolds(a)

FInv ==
    /\ DepositsTyped /\ MoneyTyped /\ JobsTyped
    /\ CreditsArePayments
    /\ PaymentsAreExpected
    /\ SpendingHappensOnce
    /\ RowsStillHold
    /\ AlarmsHold

-----------------------------------------------------------------------------
LEMMA AmountsAreTyped ==
    /\ Amounts \subseteq Nat /\ 0 \notin Amounts
    /\ Matches \subseteq Spenders /\ Withdrawals \subseteq Spenders /\ Withdrawals \cap Matches = {}
  BY FundsAssumption DEF Spenders

LEMMA AmountsAreNatural == \A n \in Amounts \cup {0} : n \in Nat
<1>1. Amounts \subseteq Nat
  BY FundsAssumption
<1>2. QED
  BY <1>1

LEMMA InitiallyFInv == Init => FInv
<1> SUFFICES ASSUME Init PROVE FInv
  OBVIOUS
<1> USE DEF Init
<1>1. DepositsTyped
  <2>1. NoIntent \in Intent
    BY DEF NoIntent, Intent
  <2>2. QED
    BY <2>1 DEF DepositsTyped
<1>2. MoneyTyped
  <2>1. NoMatch \in Match
    BY DEF NoMatch, Match
  <2>2. NoAdjustment \in [status : {"none", "CREDIT", "reading", "DEBIT"}, amount : Amounts \cup {0}]
    BY DEF NoAdjustment
  <2>3. NoWithdrawal \in [status : {"none", "OPEN", "COMPLETED", "RELEASED"}, amount : Amounts \cup {0}]
    BY DEF NoWithdrawal
  <2>4. QED
    BY <2>1, <2>2, <2>3 DEF MoneyTyped
<1>3. JobsTyped
  <2>1. Idle \in JobState
    BY DEF Idle, JobState
  <2>2. QED
    BY <2>1 DEF JobsTyped
<1>4. CreditsArePayments /\ PaymentsAreExpected
  BY DEF CreditsArePayments, PaymentsAreExpected, Posted, NoIntent
<1>5. SpendingHappensOnce
  BY AmountsAreTyped DEF SpendingHappensOnce, NoMatch
<1>6. RowsStillHold /\ AlarmsHold
  BY DEF RowsStillHold, AlarmsHold, Idle
<1>7. QED
  BY <1>1, <1>2, <1>3, <1>4, <1>5, <1>6 DEF FInv

-----------------------------------------------------------------------------
(* A step that changes one intent, and completes none but to credit it.      *)
LEMMA DepositStep ==
    ASSUME FInv, DepositFrame, NEW i \in Intents, NEW x \in Intent, intent' = [intent EXCEPT ![i] = x],
           DepositsTyped', available' \in Int,
           \A k \in Intents \ {i} : paid'[k] = paid[k] /\ credits'[k] = credits[k],
           intent[i].status = "COMPLETED" => x.status = "COMPLETED",
           credits'[i] # 0 <=> x.status = "COMPLETED",
           credits'[i] # 0 => credits'[i] = paid'[i],
           credits'[i] # 0 => credits'[i] = x.amount,
           paid'[i] # 0 => x.checkout = "open",
           x.status = "none" => x.checkout = "none"
    PROVE  FInv'
<1>1. \A k \in Intents : intent'[k] = IF k = i THEN x ELSE intent[k]
  BY DEF FInv, DepositsTyped
<1>2. UNCHANGED <<spend, match, adjustment, withdrawal, job, alarms>>
  BY DEF DepositFrame
<1>3. MoneyTyped' /\ JobsTyped' /\ SpendingHappensOnce'
  BY <1>2 DEF FInv, MoneyTyped, JobsTyped, SpendingHappensOnce
<1>4. CreditsArePayments'
  BY <1>1 DEF FInv, CreditsArePayments, Posted
<1>5. PaymentsAreExpected'
  BY <1>1 DEF FInv, PaymentsAreExpected
<1>6. \A k \in Intents : intent[k].status = "COMPLETED" => intent'[k].status = "COMPLETED"
  BY <1>1
<1>7. \A row \in Row : row.kind = "deposit" => row.of \in Intents
  BY DEF Row
<1>8. RowsStillHold'
  <2>1. SUFFICES ASSUME NEW j \in Jobs, NEW row \in job[j].rows PROVE Explained(row)'
    BY <1>2 DEF RowsStillHold
  <2>2. row \in Row /\ Explained(row)
    BY DEF FInv, JobsTyped, JobState, RowsStillHold
  <2>3. QED
    BY <1>2, <1>6, <1>7, <2>2 DEF Explained
<1>9. AlarmsHold'
  BY <1>2, <1>6, <1>7 DEF FInv, AlarmsHold, AlarmHolds
<1>10. QED
  BY <1>3, <1>4, <1>5, <1>8, <1>9 DEF FInv

LEMMA DepositsKeepFInv ==
    ASSUME FInv, Deposits
    PROVE  FInv'
<1>0. PICK i \in Intents :
         \/ \E v \in Amounts : CreateIntent(i, v) \/ Pay(i, v)
         \/ OpenCheckout(i) \/ InitiationFails(i) \/ SendWebhook(i)
         \/ LoseWebhook(i) \/ Webhook(i) \/ GrowStale(i)
  BY DEF Deposits
<1>1. /\ intent[i] \in Intent /\ intent \in [Intents -> Intent] /\ intent = [intent EXCEPT ![i] = intent[i]]
      /\ paid \in [Intents -> Amounts \cup {0}] /\ credits \in [Intents -> Amounts \cup {0}]
      /\ webhooks \subseteq {k \in Intents : paid[k] # 0} /\ available \in Int
      /\ (credits[i] # 0 <=> intent[i].status = "COMPLETED") /\ (credits[i] # 0 => credits[i] = paid[i])
      /\ (paid[i] # 0 => intent[i].checkout = "open")
      /\ (intent[i].status = "none" => intent[i].checkout = "none")
      /\ (credits[i] # 0 => credits[i] = intent[i].amount)
  BY DEF FInv, DepositsTyped, MoneyTyped, CreditsArePayments, Posted, PaymentsAreExpected
<1>2. ASSUME NEW v \in Amounts, CreateIntent(i, v) PROVE FInv'
  <2> DEFINE x == [NoIntent EXCEPT !.status = "PENDING", !.amount = v, !.checkout = "asked"]
  <2>1. x \in Intent /\ x.status = "PENDING" /\ x.checkout = "asked"
    BY DEF NoIntent, Intent
  <2>2. /\ intent[i].status = "none" /\ intent' = [intent EXCEPT ![i] = x]
        /\ UNCHANGED <<paid, webhooks, credits, available>> /\ DepositFrame
    BY <1>2 DEF CreateIntent
  <2> HIDE DEF x
  <2>3. DepositsTyped'
    BY <1>1, <2>1, <2>2 DEF DepositsTyped
  <2>4. paid[i] = 0 /\ credits[i] = 0
    BY <1>1, <2>2
  <2>5. QED
    BY <1>1, <2>1, <2>2, <2>3, <2>4, DepositStep
<1>3. ASSUME NEW v \in Amounts, Pay(i, v) PROVE FInv'
  <2>1. /\ intent[i].checkout = "open" /\ paid[i] = 0 /\ paid' = [paid EXCEPT ![i] = v]
        /\ UNCHANGED <<intent, webhooks, credits, available>> /\ DepositFrame
    BY <1>3 DEF Pay
  <2>2. v # 0
    BY AmountsAreTyped
  <2>3. DepositsTyped'
    BY <1>1, <2>1, <2>2 DEF DepositsTyped
  <2>4. credits[i] = 0
    BY <1>1, <2>1, AmountsAreTyped
  <2>5. intent' = [intent EXCEPT ![i] = intent[i]]
    BY <1>1, <2>1
  <2>6. QED
    BY <1>1, <2>1, <2>3, <2>4, <2>5, DepositStep
<1>4. CASE OpenCheckout(i)
  <2> DEFINE x == [intent[i] EXCEPT !.checkout = "open"]
  <2>1. x \in Intent /\ x.status = intent[i].status /\ x.checkout = "open" /\ x.amount = intent[i].amount
    BY <1>1 DEF Intent
  <2>2. /\ intent[i].checkout = "asked" /\ intent' = [intent EXCEPT ![i] = x]
        /\ UNCHANGED <<paid, webhooks, credits, available>> /\ DepositFrame
    BY <1>4 DEF OpenCheckout
  <2> HIDE DEF x
  <2>3. DepositsTyped'
    BY <1>1, <2>1, <2>2 DEF DepositsTyped
  <2>4. QED
    BY <1>1, <2>1, <2>2, <2>3, DepositStep
<1>5. CASE InitiationFails(i)
  <2> DEFINE x == [intent[i] EXCEPT !.checkout = "refused", !.status = "FAILED"]
  <2>1. x \in Intent /\ x.status = "FAILED"
    BY <1>1 DEF Intent
  <2>2. /\ intent[i].checkout = "asked" /\ intent' = [intent EXCEPT ![i] = x]
        /\ UNCHANGED <<paid, webhooks, credits, available>> /\ DepositFrame
    BY <1>5 DEF InitiationFails
  <2> HIDE DEF x
  <2>3. DepositsTyped'
    BY <1>1, <2>1, <2>2 DEF DepositsTyped
  <2>4. paid[i] = 0 /\ credits[i] = 0
    BY <1>1, <2>2
  <2>5. QED
    BY <1>1, <2>1, <2>2, <2>3, <2>4, DepositStep
<1>6. CASE SendWebhook(i) \/ LoseWebhook(i)
  <2>1. webhooks' \subseteq {k \in Intents : paid[k] # 0} /\ UNCHANGED <<intent, paid, credits, available>>
        /\ DepositFrame
    BY <1>1, <1>6 DEF SendWebhook, LoseWebhook, Acknowledge
  <2>2. DepositsTyped'
    BY <1>1, <2>1 DEF DepositsTyped
  <2>3. intent' = [intent EXCEPT ![i] = intent[i]]
    BY <1>1, <2>1
  <2>4. QED
    BY <1>1, <2>1, <2>2, <2>3, DepositStep
<1>7. CASE Webhook(i) /\ Creditable(i)
  <2> DEFINE x == [intent[i] EXCEPT !.status = "COMPLETED"]
  <2>1. x \in Intent /\ x.status = "COMPLETED" /\ x.checkout = intent[i].checkout /\ x.amount = intent[i].amount
    BY <1>1 DEF Intent
  <2>2. /\ i \in webhooks /\ intent' = [intent EXCEPT ![i] = x] /\ paid' = paid
        /\ webhooks' \subseteq webhooks /\ CreditOnce(i) /\ DepositFrame
    BY <1>7 DEF Webhook, Acknowledge
  <2>3. paid[i] # 0 /\ paid[i] = intent[i].amount /\ intent[i].status # "COMPLETED"
    BY <1>1, <1>7, <2>2 DEF Creditable
  <2>4. credits[i] = 0 /\ credits' = [credits EXCEPT ![i] = paid[i]] /\ available' = available + paid[i]
    BY <1>1, <2>2, <2>3 DEF CreditOnce
  <2> HIDE DEF x
  <2>5. DepositsTyped' /\ available' \in Int
    BY <1>1, <2>1, <2>2, <2>4, AmountsAreTyped DEF DepositsTyped
  <2>6. QED
    BY <1>1, <2>1, <2>2, <2>3, <2>4, <2>5, DepositStep
<1>8. CASE Webhook(i) /\ ~Creditable(i)
  <2>1. webhooks' \subseteq {k \in Intents : paid[k] # 0} /\ UNCHANGED <<intent, paid, credits, available>>
        /\ DepositFrame
    BY <1>1, <1>8 DEF Webhook, Acknowledge
  <2>2. DepositsTyped'
    BY <1>1, <2>1 DEF DepositsTyped
  <2>3. intent' = [intent EXCEPT ![i] = intent[i]]
    BY <1>1, <2>1
  <2>4. QED
    BY <1>1, <2>1, <2>2, <2>3, DepositStep
<1>9. CASE GrowStale(i)
  <2> DEFINE x == [intent[i] EXCEPT !.stale = TRUE]
  <2>1. x \in Intent /\ x.status = intent[i].status /\ x.checkout = intent[i].checkout /\ x.amount = intent[i].amount
    BY <1>1 DEF Intent
  <2>2. /\ intent' = [intent EXCEPT ![i] = x]
        /\ UNCHANGED <<paid, webhooks, credits, available>> /\ DepositFrame
    BY <1>9 DEF GrowStale
  <2> HIDE DEF x
  <2>3. DepositsTyped'
    BY <1>1, <2>1, <2>2 DEF DepositsTyped
  <2>4. QED
    BY <1>1, <2>1, <2>2, <2>3, DepositStep
<1>10. QED
  BY <1>0, <1>2, <1>3, <1>4, <1>5, <1>6, <1>7, <1>8, <1>9

-----------------------------------------------------------------------------
(* A step that only moves the player's money.                                *)
LEMMA MoneyStep ==
    ASSUME FInv, MoneyFrame, MoneyTyped', SpendingHappensOnce',
           \A m \in Matches : match[m].status = "SETTLED" => match'[m] = match[m],
           \A w \in Withdrawals :
              \/ withdrawal'[w] = withdrawal[w]
              \/ withdrawal[w].status = "none"
              \/ withdrawal[w].status = "OPEN" /\ withdrawal'[w].status \in {"COMPLETED", "RELEASED"}
    PROVE  FInv'
<1>1. UNCHANGED <<intent, paid, webhooks, credits, job, alarms>>
  BY DEF MoneyFrame
<1>2. DepositsTyped' /\ JobsTyped' /\ CreditsArePayments' /\ PaymentsAreExpected'
  BY <1>1 DEF FInv, DepositsTyped, JobsTyped, CreditsArePayments, PaymentsAreExpected, Posted
<1>3. \A row \in Row : /\ row.kind = "settlement" => row.of \in Matches
                       /\ row.kind = "withdrawal" => row.of \in Withdrawals /\ row.status # "none"
  BY DEF Row
<1>4. RowsStillHold'
  <2>1. SUFFICES ASSUME NEW j \in Jobs, NEW row \in job[j].rows PROVE Explained(row)'
    BY <1>1 DEF RowsStillHold
  <2>2. row \in Row /\ Explained(row)
    BY DEF FInv, JobsTyped, JobState, RowsStillHold
  <2>3. QED
    BY <1>1, <1>3, <2>2 DEF Explained
<1>5. AlarmsHold'
  BY <1>1, <1>3 DEF FInv, AlarmsHold, AlarmHolds
<1>6. QED
  BY <1>2, <1>4, <1>5 DEF FInv

LEMMA SpendingKeepsFInv ==
    ASSUME FInv, Spending
    PROVE  FInv'
<1>1. /\ spend \in [Spenders -> Amounts \cup {0}] /\ match \in [Matches -> Match]
      /\ withdrawal \in [Withdrawals -> [status : {"none", "OPEN", "COMPLETED", "RELEASED"}, amount : Amounts \cup {0}]]
      /\ available \in Int /\ SpendingHappensOnce /\ MoneyTyped
  BY DEF FInv, MoneyTyped
<1>2. ASSUME NEW s \in Spenders, NEW v \in Amounts, LockAndRead(s, v) PROVE FInv'
  <2>1. /\ spend' = [spend EXCEPT ![s] = v] /\ UNCHANGED <<match, adjustment, withdrawal, available>> /\ MoneyFrame
        /\ s \in Matches => match[s] = NoMatch
        /\ s \in Withdrawals => withdrawal[s] = NoWithdrawal
    BY <1>2, AmountsAreTyped DEF LockAndRead
  <2>2. MoneyTyped'
    BY <1>1, <2>1 DEF MoneyTyped
  <2>3. SpendingHappensOnce'
    BY <1>1, <2>1, AmountsAreTyped DEF SpendingHappensOnce, NoMatch, NoWithdrawal
  <2>4. QED
    BY <2>1, <2>2, <2>3, MoneyStep
<1>3. ASSUME NEW s \in Spenders, PostSpend(s) PROVE FInv'
  <2>1. /\ spend[s] # 0 /\ spend[s] \in Amounts /\ spend[s] \in Nat
        /\ spend' = [spend EXCEPT ![s] = 0] /\ UNCHANGED adjustment /\ MoneyFrame
        /\ available' \in Int
    BY <1>1, <1>3, AmountsAreTyped DEF PostSpend
  <2>2. CASE s \in Matches
    <3> DEFINE x == [NoMatch EXCEPT !.status = "LIVE", !.stake = spend[s]]
    <3>1. x \in Match /\ x.status = "LIVE" /\ x.stake = spend[s]
      BY <2>1 DEF NoMatch, Match
    <3>2. match' = [match EXCEPT ![s] = x] /\ UNCHANGED withdrawal /\ match[s].status = "none"
      BY <1>1, <1>3, <2>1, <2>2 DEF PostSpend, SpendingHappensOnce
    <3> HIDE DEF x
    <3>3. MoneyTyped'
      BY <1>1, <2>1, <3>1, <3>2 DEF MoneyTyped
    <3>4. SpendingHappensOnce'
      BY <1>1, <2>1, <2>2, <3>1, <3>2, AmountsAreTyped DEF SpendingHappensOnce
    <3>5. QED
      BY <1>1, <2>1, <3>2, <3>3, <3>4, MoneyStep
  <2>3. CASE s \notin Matches
    <3>1. /\ withdrawal' = [withdrawal EXCEPT ![s] = [status |-> "OPEN", amount |-> spend[s]]]
          /\ UNCHANGED match
      BY <1>3, <2>3 DEF PostSpend
    <3>2. MoneyTyped'
      BY <1>1, <2>1, <3>1 DEF MoneyTyped
    <3>3. s \in Withdrawals /\ withdrawal[s].status = "none"
      BY <1>1, <2>1, <2>3 DEF SpendingHappensOnce, Spenders
    <3>4. SpendingHappensOnce'
      BY <1>1, <2>1, <3>1, AmountsAreTyped DEF SpendingHappensOnce
    <3>5. \A w \in Withdrawals : withdrawal'[w] = withdrawal[w] \/ withdrawal[w].status = "none"
      BY <1>1, <3>1, <3>3
    <3>6. QED
      BY <2>1, <3>1, <3>2, <3>4, <3>5, MoneyStep
  <2>4. QED
    BY <2>2, <2>3
<1>4. ASSUME NEW w \in Withdrawals, NEW st \in {"COMPLETED", "RELEASED"}, EndWithdrawal(w, st) PROVE FInv'
  <2>1. /\ withdrawal[w].status = "OPEN" /\ withdrawal' = [withdrawal EXCEPT ![w].status = st]
        /\ available' \in {available, available + withdrawal[w].amount}
        /\ UNCHANGED <<spend, match, adjustment>> /\ MoneyFrame
    BY <1>4 DEF EndWithdrawal
  <2>2. available' \in Int
    BY <1>1, <2>1, AmountsAreTyped
  <2>3. MoneyTyped' /\ SpendingHappensOnce'
    BY <1>1, <2>1, <2>2 DEF MoneyTyped, SpendingHappensOnce
  <2>4. ASSUME NEW x \in Withdrawals
        PROVE  \/ withdrawal'[x] = withdrawal[x]
               \/ withdrawal[x].status = "OPEN" /\ withdrawal'[x].status \in {"COMPLETED", "RELEASED"}
    <3>1. withdrawal \in [Withdrawals -> [status : {"none", "OPEN", "COMPLETED", "RELEASED"},
                                          amount : Amounts \cup {0}]]
      BY <1>1 DEF MoneyTyped
    <3>2. CASE x = w
      BY <2>1, <3>1, <3>2
    <3>3. CASE x # w
      BY <2>1, <3>1, <3>3
    <3>4. QED
      BY <3>2, <3>3
  <2>5. QED
    BY <2>1, <2>3, <2>4, MoneyStep
<1>5. ASSUME NEW m \in Matches, NEW net \in Nat, NEW entries \in SUBSET Int, NEW back \in Nat,
             net \in entries \/ net = 2 * match[m].stake, Settle(m, net, entries, back)
      PROVE  FInv'
  <2> DEFINE x == [match[m] EXCEPT !.status = "SETTLED", !.net = net, !.entries = entries]
  <2>1. /\ match[m].status = "LIVE" /\ match' = [match EXCEPT ![m] = x]
        /\ available' = available + back
        /\ UNCHANGED <<spend, adjustment, withdrawal>> /\ MoneyFrame
    BY <1>5 DEF Settle
  <2>2. /\ x \in Match /\ x.status = "SETTLED" /\ x.stake = match[m].stake
        /\ x.net \in x.entries \/ x.net = 2 * x.stake
    BY <1>1, <1>5 DEF Match
  <2> HIDE DEF x
  <2>3. MoneyTyped'
    BY <1>1, <2>1, <2>2 DEF MoneyTyped
  <2>4. SpendingHappensOnce'
    BY <1>1, <2>1, <2>2 DEF SpendingHappensOnce
  <2>5. QED
    BY <1>1, <2>1, <2>3, <2>4, MoneyStep
<1>6. ASSUME NEW m \in Matches, SettleWin(m) \/ SettleLoss(m) \/ SettleDraw(m) PROVE FInv'
  <2> DEFINE s == match[m].stake
  <2>1. s \in Nat \ {0}
    BY <1>1, <1>6, AmountsAreTyped DEF SettleWin, SettleLoss, SettleDraw, Settle, SpendingHappensOnce, Match
  <2>2. /\ 2 * s - 1 \in Nat /\ 2 * s \in Nat
        /\ {-s, 2 * s - 1, 1} \in SUBSET Int /\ {-s, s} \in SUBSET Int
    BY <2>1
  <2>3. CASE SettleWin(m)
    BY <1>5, <2>2, <2>3 DEF SettleWin
  <2>4. CASE SettleLoss(m)
    BY <1>5, <2>2, <2>4 DEF SettleLoss
  <2>5. CASE SettleDraw(m)
    BY <1>5, <2>1, <2>2, <2>5 DEF SettleDraw
  <2>6. QED
    BY <1>6, <2>3, <2>4, <2>5
<1>7. QED
  BY <1>1, <1>2, <1>3, <1>4, <1>6 DEF Spending

LEMMA AdjustingKeepsFInv ==
    ASSUME FInv, Adjusting
    PROVE  FInv'
<1>1. PICK r \in References :
         DebitPosts(r) \/ \E v \in Amounts : CreditAdjustment(r, v) \/ DebitReads(r, v)
  BY DEF Adjusting
<1>2. MoneyFrame /\ UNCHANGED <<spend, match, withdrawal>>
  BY <1>1 DEF DebitPosts, CreditAdjustment, DebitReads
<1>3. adjustment[r].amount \in Nat /\ available \in Int
  <2>1. adjustment[r].amount \in Amounts \cup {0} /\ available \in Int
    BY DEF FInv, MoneyTyped
  <2>2. \A x \in Amounts \cup {0} : x \in Nat
    BY AmountsAreTyped
  <2>3. QED
    BY <2>1, <2>2
<1>4. available' \in Int
  BY <1>1, <1>3, AmountsAreTyped DEF DebitPosts, CreditAdjustment, DebitReads
<1>5. adjustment' \in [References -> [status : {"none", "CREDIT", "reading", "DEBIT"}, amount : Amounts \cup {0}]]
  BY <1>1 DEF DebitPosts, CreditAdjustment, DebitReads, FInv, MoneyTyped
<1>6. MoneyTyped' /\ SpendingHappensOnce'
  BY <1>2, <1>4, <1>5 DEF FInv, MoneyTyped, SpendingHappensOnce
<1>7. QED
  BY <1>2, <1>6, MoneyStep

-----------------------------------------------------------------------------
LEMMA ParkStaleKeepsFInv ==
    ASSUME FInv, ParkStale
    PROVE  FInv'
<1>1. /\ UNCHANGED <<paid, webhooks, credits, spend, match, adjustment, withdrawal, available, alarms>>
      /\ intent' = [i \in Intents |-> [intent[i] EXCEPT !.status = IF Parkable(i) THEN ParkedAs ELSE @]]
      /\ job' = [job EXCEPT !["deposits"].pc = "parked"]
  BY DEF ParkStale, JobFrame
<1>2. ASSUME NEW i \in Intents
      PROVE  /\ intent'[i] \in Intent /\ intent'[i].checkout = intent[i].checkout
             /\ intent'[i].status = "COMPLETED" <=> intent[i].status = "COMPLETED"
             /\ intent'[i].status = "none" <=> intent[i].status = "none"
             /\ intent'[i].amount = intent[i].amount
  <2>1. intent[i] \in Intent
    BY DEF FInv, DepositsTyped
  <2>2. QED
    BY <1>1, <2>1 DEF Intent, Parkable, ParkedAs
<1>3. DepositsTyped'
  BY <1>1, <1>2 DEF FInv, DepositsTyped
<1>4. CreditsArePayments' /\ PaymentsAreExpected'
  BY <1>1, <1>2 DEF FInv, CreditsArePayments, PaymentsAreExpected, Posted
<1>5. MoneyTyped' /\ SpendingHappensOnce'
  BY <1>1 DEF FInv, MoneyTyped, SpendingHappensOnce
<1>6. JobsTyped' /\ \A j \in Jobs : job'[j].rows = job[j].rows
  BY <1>1 DEF FInv, JobsTyped, JobState, Jobs
<1>7. \A row \in Row : row.kind = "deposit" => row.of \in Intents
  BY DEF Row
<1>8. RowsStillHold'
  <2>1. SUFFICES ASSUME NEW j \in Jobs, NEW row \in job[j].rows PROVE Explained(row)'
    BY <1>6 DEF RowsStillHold
  <2>2. row \in Row /\ Explained(row)
    BY DEF FInv, JobsTyped, JobState, RowsStillHold
  <2>3. QED
    BY <1>1, <1>2, <1>7, <2>2 DEF Explained
<1>9. AlarmsHold'
  BY <1>1, <1>2, <1>7 DEF FInv, AlarmsHold, AlarmHolds
<1>10. QED
  BY <1>3, <1>4, <1>5, <1>6, <1>8, <1>9 DEF FInv

(* A step of a job that only changes what it has read. *)
LEMMA ReadingStep ==
    ASSUME FInv, JobFrame, UNCHANGED intent, JobsTyped', RowsStillHold', AlarmsHold'
    PROVE  FInv'
  BY DEF JobFrame, FInv, DepositsTyped, MoneyTyped, CreditsArePayments, PaymentsAreExpected, SpendingHappensOnce,
         Posted

LEMMA ReadsKeepFInv ==
    ASSUME FInv, ReadDeposits \/ ReadBooks \/ \E j \in Jobs : EndPass(j)
    PROVE  FInv'
<1>1. UNCHANGED <<intent, alarms, match, withdrawal>> /\ JobFrame
  BY DEF ReadDeposits, ReadBooks, Reads, EndPass, JobFrame
<1>2. ASSUME NEW st \in SUBSET {"PENDING", "COMPLETED", "FAILED"}, NEW row \in DepositRows(st)
      PROVE  row \in Row /\ Explained(row)
  <2>1. PICK k \in Intents : intent[k].status \in st
                           /\ row = [kind |-> "deposit", of |-> k, status |-> intent[k].status]
    BY <1>2 DEF DepositRows
  <2>2. row.kind = "deposit" /\ row.of = k /\ row.status = intent[k].status
    BY <2>1
  <2>3. row \in Row
    BY <1>2, <2>1 DEF Row
  <2>4. QED
    BY <2>2, <2>3 DEF Explained
<1>3. ASSUME NEW row \in SettlementRows PROVE row \in Row /\ Explained(row)
  BY <1>3 DEF SettlementRows, Row, Explained
<1>4. ASSUME NEW row \in WithdrawalRows PROVE row \in Row /\ Explained(row)
  <2>1. PICK w \in Withdrawals : withdrawal[w].status # "none"
                               /\ row = [kind |-> "withdrawal", of |-> w, status |-> withdrawal[w].status]
    BY <1>4 DEF WithdrawalRows
  <2>2. withdrawal[w].status \in {"OPEN", "COMPLETED", "RELEASED"}
    BY <2>1 DEF FInv, MoneyTyped
  <2>3. QED
    BY <2>1, <2>2 DEF Row, Explained
<1>5. ASSUME NEW j \in Jobs, NEW y \in JobState, job' = [job EXCEPT ![j] = y], \A row \in y.rows : Explained(row)
      PROVE  JobsTyped' /\ RowsStillHold'
  BY <1>1, <1>5 DEF FInv, JobsTyped, RowsStillHold, Explained
<1>6. \A j \in Jobs : job[j] \in JobState
  BY DEF FInv, JobsTyped
<1>7. ASSUME ReadDeposits \/ ReadBooks PROVE JobsTyped' /\ RowsStillHold'
  <2>1. PICK j \in Jobs, pc \in {"terminal", "withdrawals", "intents", "settlements"},
             R \in {DepositRows({"COMPLETED", "FAILED"}), DepositRows({"PENDING", "COMPLETED", "FAILED"}),
                    WithdrawalRows, SettlementRows} : Reads(j, pc, R)
    BY <1>7 DEF ReadDeposits, ReadBooks, Jobs
  <2> DEFINE y == [job[j] EXCEPT !.pc = pc, !.rows = R]
  <2>2. \A row \in R : row \in Row /\ Explained(row)
    BY <1>2, <1>3, <1>4, <2>1
  <2>3. y \in JobState /\ y.rows = R
    BY <1>6, <2>2 DEF JobState
  <2>4. job' = [job EXCEPT ![j] = y]
    BY <2>1 DEF Reads
  <2> HIDE DEF y
  <2>5. QED
    BY <1>5, <2>2, <2>3, <2>4
<1>8. ASSUME NEW j \in Jobs, EndPass(j) PROVE JobsTyped' /\ RowsStillHold'
  <2> DEFINE y == [job[j] EXCEPT !.pc = "idle", !.passes = @ + 1]
  <2>1. y \in JobState /\ y.rows = job[j].rows
    <3>1. job[j].passes + 1 \in Nat
      BY <1>6 DEF JobState
    <3>2. QED
      BY <1>6, <3>1 DEF JobState
  <2>2. job' = [job EXCEPT ![j] = y]
    BY <1>8 DEF EndPass
  <2> HIDE DEF y
  <2>3. QED
    BY <1>5, <2>1, <2>2 DEF FInv, RowsStillHold
<1>9. AlarmsHold'
  BY <1>1 DEF FInv, AlarmsHold, AlarmHolds
<1>10. QED
  BY <1>1, <1>7, <1>8, <1>9, ReadingStep

LEMMA ChecksKeepFInv ==
    ASSUME FInv, NEW j \in Jobs, NEW row \in job[j].rows, CheckRow(j, row)
    PROVE  FInv'
<1>1. UNCHANGED <<intent, match, withdrawal>> /\ JobFrame
  BY DEF CheckRow, JobFrame
<1>2. job[j] \in JobState /\ row \in Row /\ Explained(row)
  BY DEF FInv, JobsTyped, JobState, RowsStillHold
<1>3. JobsTyped' /\ RowsStillHold'
  <2> DEFINE y == [job[j] EXCEPT !.rows = @ \ {row}]
  <2>1. y \in JobState /\ y.rows \subseteq job[j].rows
    BY <1>2 DEF JobState
  <2>2. job' = [job EXCEPT ![j] = y]
    BY DEF CheckRow
  <2> HIDE DEF y
  <2>3. QED
    BY <1>1, <2>1, <2>2 DEF FInv, JobsTyped, RowsStillHold, Explained
<1>4. ASSUME Complaint(row) # "none" PROVE AlarmHolds([row |-> row, complaint |-> Complaint(row)])
  <2>1. CASE row.kind = "settlement"
    <3>1. row.of \in Matches /\ match[row.of].status = "SETTLED"
      BY <1>2, <2>1 DEF Row, Explained
    <3>2. Complaint(row) = "payout not covered" /\ match[row.of].net \notin match[row.of].entries
      BY <1>2, <1>4, <2>1 DEF Complaint, Row
    <3>3. match[row.of].net = 2 * match[row.of].stake
      BY <3>1, <3>2 DEF FInv, SpendingHappensOnce
    <3>4. QED
      BY <1>2, <2>1, <3>1, <3>2, <3>3 DEF AlarmHolds
  <2>2. CASE row.kind = "withdrawal"
    <3>1. row.status = "OPEN" /\ withdrawal[row.of].status \in {"COMPLETED", "RELEASED"}
      BY <1>2, <1>4, <2>2 DEF Row, Explained, Complaint
    <3>2. Complaint(row) = "ended already"
      BY <1>2, <2>2, <3>1 DEF Complaint, Row
    <3>3. QED
      BY <1>2, <2>2, <3>1, <3>2 DEF AlarmHolds
  <2>3. CASE row.kind = "deposit"
    <3>1. row.kind = "deposit" /\ row.of \in Intents
      BY <1>2, <2>3 DEF Row
    <3>2. /\ row.of \in Posted <=> intent[row.of].status = "COMPLETED"
          /\ row.of \in Posted => credits[row.of] = intent[row.of].amount
      BY <3>1 DEF FInv, CreditsArePayments, PaymentsAreExpected, Posted
    <3>3. row.status # "COMPLETED" /\ Complaint(row) = "unexpected credit" /\ row.of \in Posted
      BY <1>2, <1>4, <2>3, <3>1, <3>2 DEF Complaint, Explained
    <3>4. QED
      BY <1>2, <3>1, <3>2, <3>3 DEF AlarmHolds
  <2>4. QED
    BY <1>2, <2>1, <2>2, <2>3 DEF Row
<1>5. AlarmsHold'
  <2>1. ASSUME NEW a \in alarms' PROVE AlarmHolds(a)
    BY <1>4 DEF CheckRow, FInv, AlarmsHold
  <2>2. QED
    BY <1>1, <2>1 DEF AlarmsHold, AlarmHolds
<1>6. QED
  BY <1>1, <1>3, <1>5, ReadingStep

LEMMA FInvIsInductive == FInv /\ [Next]_vars => FInv'
<1> SUFFICES ASSUME FInv, [Next]_vars PROVE FInv'
  OBVIOUS
<1>1. CASE UNCHANGED vars
  <2>1. DepositsTyped' /\ MoneyTyped' /\ JobsTyped'
    BY <1>1 DEF vars, FInv, DepositsTyped, MoneyTyped, JobsTyped
  <2>2. CreditsArePayments' /\ PaymentsAreExpected' /\ SpendingHappensOnce'
    BY <1>1 DEF vars, FInv, CreditsArePayments, Posted, PaymentsAreExpected, SpendingHappensOnce
  <2>3. RowsStillHold'
    <3>1. job' = job /\ UNCHANGED <<intent, match, withdrawal>>
      BY <1>1 DEF vars
    <3>2. \A j \in Jobs : \A row \in job[j].rows : Explained(row)
      BY DEF FInv, RowsStillHold
    <3>3. QED
      BY <3>1, <3>2 DEF RowsStillHold, Explained
  <2>4. AlarmsHold'
    <3>1. alarms' = alarms /\ UNCHANGED <<intent, match, withdrawal>>
      BY <1>1 DEF vars
    <3>2. \A a \in alarms : AlarmHolds(a)
      BY DEF FInv, AlarmsHold
    <3>3. QED
      BY <3>1, <3>2 DEF AlarmsHold, AlarmHolds
  <2>5. QED
    BY <2>1, <2>2, <2>3, <2>4 DEF FInv
<1>2. CASE Reconciling
  BY <1>2, ParkStaleKeepsFInv, ReadsKeepFInv, ChecksKeepFInv DEF Reconciling
<1>3. QED
  BY <1>1, <1>2, DepositsKeepFInv, SpendingKeepsFInv, AdjustingKeepsFInv DEF Next

(* A deposit is COMPLETED exactly when its credit is posted, and the credit  *)
(* is what the provider took (processDepositWebhook, wallet/service.js).     *)
THEOREM CreditsMatchPayments == Spec => []FundsInv
<1>1. FInv => FundsInv
  BY DEF FInv, FundsInv, TypeOK, DepositsTyped, MoneyTyped, JobsTyped, Intent, Match, JobState
<1>2. FInv /\ [Next]_vars => FInv'
  BY FInvIsInductive
<1>3. QED
  BY <1>1, <1>2, InitiallyFInv, PTL DEF Spec

(* The reconciliation jobs report no lost credit, and what else they report  *)
(* has its reason (depositReconciliation.js, financialReconciliation).       *)
THEOREM AlarmsHaveReasons == Spec => []AlarmsAreExplained
<1>1. FInv => AlarmsAreExplained
  BY DEF FInv, AlarmsAreExplained, AlarmsHold, AlarmHolds
<1>2. FInv /\ [Next]_vars => FInv'
  BY FInvIsInductive
<1>3. QED
  BY <1>1, <1>2, InitiallyFInv, PTL DEF Spec
-----------------------------------------------------------------------------
(* The sums over spenders and adjustments. *)
LEMMA SumsAreTyped ==
    ASSUME FInv
    PROVE  /\ IsFiniteSet(Spenders) /\ IsFiniteSet(References)
           /\ DOMAIN spend = Spenders /\ DOMAIN Debited = References
           /\ \A s \in Spenders : spend[s] \in Nat
           /\ \A r \in References : /\ adjustment[r].amount \in Nat
                                    /\ Debited[r] \in Nat
                                    /\ Debited[r] = IF adjustment[r].status = "DEBIT"
                                                    THEN adjustment[r].amount ELSE 0
           /\ available \in Int
           /\ Total(spend) \in Nat /\ Total(Debited) \in Nat
<1>1. IsFiniteSet(Spenders) /\ IsFiniteSet(References)
  BY FundsAssumption, FS_Union DEF Spenders
<1>2. /\ DOMAIN spend = Spenders /\ \A s \in Spenders : spend[s] \in Amounts \cup {0}
      /\ available \in Int
  BY DEF FInv, MoneyTyped
<1>c. \A n \in Amounts \cup {0} : n \in Nat
  BY AmountsAreTyped
<1> HIDE DEF Spenders
<1>a. \A s \in Spenders : spend[s] \in Nat
  BY <1>2, <1>c
<1>3. /\ DOMAIN Debited = References
      /\ \A r \in References : Debited[r] = IF adjustment[r].status = "DEBIT"
                                            THEN adjustment[r].amount ELSE 0
  BY DEF Debited
<1>b. \A r \in References : adjustment[r].amount \in Amounts \cup {0}
  BY DEF FInv, MoneyTyped
<1>4. \A r \in References : adjustment[r].amount \in Nat
  BY <1>b, <1>c
<1>5. \A r \in References : Debited[r] \in Nat
  BY <1>3, <1>4
<1>6. Total(spend) \in Nat
  BY <1>1, <1>2, <1>a, SumIsNat DEF Total, SumFunction
<1>7. Total(Debited) \in Nat
  BY <1>1, <1>3, <1>5, SumIsNat DEF Total, SumFunction
<1> QED
  BY <1>1, <1>2, <1>a, <1>3, <1>4, <1>5, <1>6, <1>7

(* Money that comes in takes no cover away. *)
LEMMA IncomeKeepsCover ==
    ASSUME FInv, SpendersAreCovered, FInv', spend' = spend, Debited' = Debited,
           available' >= available
    PROVE  SpendersAreCovered'
<1>1. Total(spend)' = Total(spend) /\ Total(Debited)' = Total(Debited)
  BY DEF Total
<1>2. available' \in Int
  BY DEF FInv, MoneyTyped
<1> QED
  BY <1>1, <1>2, SumsAreTyped DEF SpendersAreCovered

(* The spender that has the wallet to itself has read what it takes.        *)
LEMMA LockKeepsCover ==
    ASSUME FInv, SpendersAreCovered, NEW s \in Spenders, NEW v \in Amounts, LockAndRead(s, v)
    PROVE  SpendersAreCovered'
<1>1. v \in Nat
  BY AmountsAreTyped
<1>2. /\ \A t \in Spenders : spend[t] = 0
      /\ available >= v
      /\ spend' = [spend EXCEPT ![s] = v]
      /\ UNCHANGED <<adjustment, available>>
  BY DEF LockAndRead, WalletIsFree
<1>3. SumFunctionOnSet(spend, Spenders) = 0
  BY <1>2, SumsAreTyped, SumIsNat
<1>4. /\ DOMAIN spend' = Spenders /\ spend'[s] = v
      /\ \A t \in Spenders \ {s} : spend'[t] = spend[t]
  BY <1>2, SumsAreTyped
<1>5. SumFunctionOnSet(spend', Spenders) = SumFunctionOnSet(spend, Spenders) + v - spend[s]
  BY <1>1, <1>4, SumsAreTyped, SumMoves
<1>6. SumFunctionOnSet(spend', Spenders) = v
  BY <1>1, <1>2, <1>3, <1>5
<1>7. Total(spend)' = v
  BY <1>4, <1>6 DEF Total, SumFunction
<1>8. Debited' = Debited /\ Total(Debited)' = Total(Debited)
  BY <1>2 DEF Debited, Total
<1> QED
  BY <1>1, <1>2, <1>7, <1>8, SumsAreTyped DEF SpendersAreCovered

(* What a spender posts, it no longer holds. *)
LEMMA PostKeepsCover ==
    ASSUME FInv, SpendersAreCovered, NEW s \in Spenders, PostSpend(s)
    PROVE  SpendersAreCovered'
<1>1. /\ available' = available - spend[s]
      /\ spend' = [spend EXCEPT ![s] = 0]
      /\ UNCHANGED adjustment
  BY DEF PostSpend
<1>2. /\ DOMAIN spend' = Spenders /\ spend'[s] = 0
      /\ \A t \in Spenders \ {s} : spend'[t] = spend[t]
  BY <1>1, SumsAreTyped
<1>3. SumFunctionOnSet(spend', Spenders) = SumFunctionOnSet(spend, Spenders) + 0 - spend[s]
  BY <1>2, SumsAreTyped, SumMoves
<1>4. Total(spend)' = Total(spend) - spend[s]
  BY <1>2, <1>3, SumsAreTyped DEF Total, SumFunction
<1>5. Debited' = Debited /\ Total(Debited)' = Total(Debited)
  BY <1>1 DEF Debited, Total
<1> QED
  BY <1>1, <1>4, <1>5, SumsAreTyped DEF SpendersAreCovered

(* What a debit takes is written down as debited. *)
LEMMA DebitKeepsCover ==
    ASSUME FInv, SpendersAreCovered, NEW r \in References, DebitPosts(r)
    PROVE  SpendersAreCovered'
<1>1. /\ adjustment[r].status = "reading"
      /\ adjustment' = [adjustment EXCEPT ![r].status = "DEBIT"]
      /\ available' = available - adjustment[r].amount
      /\ spend' = spend
  BY DEF DebitPosts
<1> DEFINE n == adjustment[r].amount
<1>2. /\ adjustment'[r].status = "DEBIT" /\ adjustment'[r].amount = n
      /\ \A q \in References \ {r} : adjustment'[q] = adjustment[q]
  BY <1>1 DEF FInv, MoneyTyped
<1>3. /\ DOMAIN Debited' = References /\ Debited'[r] = n /\ Debited[r] = 0
      /\ \A q \in References \ {r} : Debited'[q] = Debited[q]
  BY <1>1, <1>2 DEF Debited
<1>4. n \in Nat
  BY SumsAreTyped
<1>5. SumFunctionOnSet(Debited', References) = SumFunctionOnSet(Debited, References) + n - 0
  BY <1>3, <1>4, SumsAreTyped, SumMoves
<1>6. Total(Debited)' = Total(Debited) + n
  BY <1>3, <1>4, <1>5, SumsAreTyped DEF Total, SumFunction
<1>7. Total(spend)' = Total(spend)
  BY <1>1 DEF Total
<1> QED
  BY <1>1, <1>4, <1>6, <1>7, SumsAreTyped DEF SpendersAreCovered

(* A debit that only reads, and an adjustment that credits, debit nothing.  *)
LEMMA AdjustingKeepsCover ==
    ASSUME FInv, SpendersAreCovered, Adjusting
    PROVE  SpendersAreCovered'
<1>1. FInv'
  BY AdjustingKeepsFInv
<1>2. ASSUME NEW r \in References, NEW v \in Amounts, CreditAdjustment(r, v) \/ DebitReads(r, v)
      PROVE  SpendersAreCovered'
  <2>1. v \in Nat
    BY AmountsAreTyped
  <2>2. /\ adjustment[r] = NoAdjustment
        /\ adjustment'[r].status \in {"CREDIT", "reading"}
        /\ \A q \in References \ {r} : adjustment'[q] = adjustment[q]
        /\ spend' = spend
        /\ available' \in {available, available + v}
    BY <1>2 DEF CreditAdjustment, DebitReads, FInv, MoneyTyped
  <2>3. \A q \in References : (IF adjustment'[q].status = "DEBIT" THEN adjustment'[q].amount ELSE 0)
                                = (IF adjustment[q].status = "DEBIT" THEN adjustment[q].amount ELSE 0)
    BY <2>2 DEF NoAdjustment
  <2>4. Debited' = Debited
    BY <2>3 DEF Debited
  <2> QED
    BY <1>1, <2>1, <2>2, <2>4, IncomeKeepsCover, SumsAreTyped
<1> QED
  BY <1>2, DebitKeepsCover DEF Adjusting

LEMMA SpendingKeepsCover ==
    ASSUME FInv, SpendersAreCovered, Spending
    PROVE  SpendersAreCovered'
<1>1. FInv'
  BY SpendingKeepsFInv
<1>2. ASSUME spend' = spend, adjustment' = adjustment, NEW n \in Nat, available' = available + n
      PROVE  SpendersAreCovered'
  <2>1. Debited' = Debited
    BY <1>2 DEF Debited
  <2> QED
    BY <1>1, <1>2, <2>1, IncomeKeepsCover, SumsAreTyped
<1>3. \A m \in Matches : match[m].status = "LIVE" => match[m].stake \in Nat \ {0}
  BY AmountsAreTyped DEF FInv, MoneyTyped, Match, SpendingHappensOnce
<1>4. ASSUME NEW m \in Matches, SettleWin(m) \/ SettleLoss(m) \/ SettleDraw(m)
      PROVE  SpendersAreCovered'
  <2> DEFINE k == match[m].stake
  <2>1. k \in Nat \ {0}
    BY <1>3, <1>4 DEF SettleWin, SettleLoss, SettleDraw, Settle
  <2>2. PICK n \in {2 * k - 1, 0, k} :
           spend' = spend /\ adjustment' = adjustment /\ available' = available + n
    BY <1>4 DEF SettleWin, SettleLoss, SettleDraw, Settle
  <2> HIDE DEF k
  <2>3. n \in Nat
    BY <2>1, <2>2
  <2> QED
    BY <1>2, <2>2, <2>3
<1>5. ASSUME NEW w \in Withdrawals, NEW st \in {"COMPLETED", "RELEASED"}, EndWithdrawal(w, st)
      PROVE  SpendersAreCovered'
  <2>1. withdrawal[w].amount \in Nat
    <3>1. withdrawal[w].amount \in Amounts \cup {0}
      BY DEF FInv, MoneyTyped
    <3>2. QED
      BY <3>1, AmountsAreNatural
  <2>2. PICK n \in {0, withdrawal[w].amount} :
           spend' = spend /\ adjustment' = adjustment /\ available' = available + n
    BY <1>5, SumsAreTyped DEF EndWithdrawal
  <2> QED
    BY <1>2, <2>1, <2>2
<1> QED
  BY <1>4, <1>5, LockKeepsCover, PostKeepsCover DEF Spending

LEMMA DepositsKeepCover ==
    ASSUME FInv, SpendersAreCovered, Deposits
    PROVE  SpendersAreCovered'
<1>1. FInv'
  BY DepositsKeepFInv
<1>2. spend' = spend /\ adjustment' = adjustment
  BY DEF Deposits, CreateIntent, Pay, OpenCheckout, InitiationFails, SendWebhook, LoseWebhook,
         Webhook, GrowStale, DepositFrame
<1>a. \A i \in Intents : intent[i].amount \in Amounts \cup {0}
  BY DEF FInv, DepositsTyped, Intent
<1>3. \A i \in Intents : intent[i].amount \in Nat
  BY <1>a, AmountsAreNatural
<1>4. available' = available \/ \E i \in Intents : available' = available + intent[i].amount
  BY DEF Deposits, CreateIntent, Pay, OpenCheckout, InitiationFails, SendWebhook, LoseWebhook,
         Webhook, GrowStale, CreditOnce
<1>5. available' >= available
  BY <1>3, <1>4, SumsAreTyped
<1>6. Debited' = Debited
  BY <1>2 DEF Debited
<1> QED
  BY <1>1, <1>2, <1>5, <1>6, IncomeKeepsCover

(* However stakes, withdrawals, deposits and adjustments interleave, nobody *)
(* who holds the wallet's lock spends money that is not there, but for what *)
(* debits have taken without it.                                            *)
THEOREM LockedSpendingIsCovered == Spec => []SpendersAreCovered
<1>1. Init => SpendersAreCovered
  <2> SUFFICES ASSUME Init PROVE SpendersAreCovered
    OBVIOUS
  <2>1. FInv
    BY InitiallyFInv
  <2>2. (\A s \in Spenders : spend[s] = 0) /\ available = 0
    BY DEF Init
  <2>3. Total(spend) = 0
    BY <2>1, <2>2, SumsAreTyped, SumIsNat DEF Total, SumFunction
  <2> QED
    BY <2>1, <2>2, <2>3, SumsAreTyped DEF SpendersAreCovered
<1>2. FInv /\ SpendersAreCovered /\ [Next]_vars => SpendersAreCovered'
  <2> SUFFICES ASSUME FInv, SpendersAreCovered, [Next]_vars PROVE SpendersAreCovered'
    OBVIOUS
  <2>1. CASE Reconciling \/ UNCHANGED vars
    <3>1. UNCHANGED <<spend, adjustment, available>>
      BY <2>1 DEF Reconciling, ParkStale, ReadDeposits, ReadBooks, Reads, EndPass, CheckRow, JobFrame, vars
    <3>2. Debited' = Debited
      BY <3>1 DEF Debited
    <3>3. Total(spend)' = Total(spend) /\ Total(Debited)' = Total(Debited)
      BY <3>1, <3>2 DEF Total
    <3> QED
      BY <3>1, <3>3 DEF SpendersAreCovered
  <2> QED
    BY <2>1, DepositsKeepCover, SpendingKeepsCover, AdjustingKeepsCover DEF Next
<1>3. FInv /\ [Next]_vars => FInv'
  BY FInvIsInductive
<1> QED
  BY <1>1, <1>2, <1>3, InitiallyFInv, PTL DEF Spec

-----------------------------------------------------------------------------
(***************************************************************************)
(* Pairing, for any number of players, queues, workers and call-outs.      *)
(***************************************************************************)
(* Taking one element out of a sequence. *)
LEMMA OneIsRemoved ==
    ASSUME NEW S, NEW line \in Seq(S), NEW i \in 1..Len(line)
    PROVE  /\ RemoveAt(line, i) \in Seq(S)
           /\ Len(RemoveAt(line, i)) = Len(line) - 1
           /\ \A j \in 1..(Len(line) - 1) :
                 RemoveAt(line, i)[j] = IF j < i THEN line[j] ELSE line[j + 1]
<1> DEFINE left == SubSeq(line, 1, i - 1)
           right == SubSeq(line, i + 1, Len(line))
<1>1. /\ left \in Seq(S) /\ Len(left) = i - 1
      /\ \A j \in 1..(i - 1) : left[j] = line[j]
  <2>1. \A j \in 1..(i - 1) : line[j] \in S
    BY ElementOfSeq
  <2> QED
    BY <2>1, SubSeqProperties
<1>2. /\ right \in Seq(S) /\ Len(right) = Len(line) - i
      /\ \A j \in 1..(Len(line) - i) : right[j] = line[i + j]
  <2>1. \A j \in (i + 1)..Len(line) : line[j] \in S
    BY ElementOfSeq
  <2> QED
    BY <2>1, SubSeqProperties
<1>3. RemoveAt(line, i) = left \o right
  BY DEF RemoveAt
<1> HIDE DEF left, right
<1>4. /\ left \o right \in Seq(S) /\ Len(left \o right) = Len(line) - 1
      /\ \A j \in 1..(Len(line) - 1) :
            (left \o right)[j] = IF j <= i - 1 THEN left[j] ELSE right[j - (i - 1)]
  <2>1. /\ left \o right \in Seq(S) /\ Len(left \o right) = Len(left) + Len(right)
        /\ \A j \in 1..(Len(left) + Len(right)) :
              (left \o right)[j] = IF j <= Len(left) THEN left[j] ELSE right[j - Len(left)]
    BY <1>1, <1>2, ConcatProperties
  <2>2. Len(left) + Len(right) = Len(line) - 1
    BY <1>1, <1>2
  <2> QED
    BY <1>1, <2>1, <2>2
<1>5. ASSUME NEW j \in 1..(Len(line) - 1)
      PROVE  RemoveAt(line, i)[j] = IF j < i THEN line[j] ELSE line[j + 1]
  <2>1. CASE j < i
    BY <1>1, <1>3, <1>4, <2>1
  <2>2. CASE ~(j < i)
    <3>1. j - (i - 1) \in 1..(Len(line) - i) /\ i + (j - (i - 1)) = j + 1
      BY <2>2
    <3>2. right[j - (i - 1)] = line[j + 1]
      BY <1>2, <3>1
    <3>3. (left \o right)[j] = right[j - (i - 1)]
      BY <1>4, <2>2
    <3> QED
      BY <1>3, <2>2, <3>2, <3>3
  <2> QED
    BY <2>1, <2>2
<1> QED
  BY <1>3, <1>4, <1>5

(* A player who is taken out of a queue is not in it, and the others keep   *)
(* their one place each.                                                    *)
LEMMA QueueWithout ==
    ASSUME NEW line \in Seq(Players), IsInjective(line), NEW p
    PROVE  /\ Without(line, p) \in Seq(Players)
           /\ IsInjective(Without(line, p))
           /\ ~Contains(Without(line, p), p)
<1>1. CASE ~Contains(line, p)
  BY <1>1 DEF Without
<1>2. CASE Contains(line, p)
  <2> DEFINE i == CHOOSE k \in DOMAIN line : line[k] = p
             n == Len(line)
             rest == RemoveAt(line, i)
  <2>1. i \in 1..n /\ line[i] = p
    BY <1>2 DEF Contains
  <2>2. Without(line, p) = rest
    BY <1>2 DEF Without
  <2> HIDE DEF i
  <2>3. /\ rest \in Seq(Players) /\ Len(rest) = n - 1
        /\ \A j \in 1..(n - 1) : rest[j] = IF j < i THEN line[j] ELSE line[j + 1]
    BY <2>1, OneIsRemoved
  <2> HIDE DEF rest
  <2>4. \A j, k \in 1..n : line[j] = line[k] => j = k
    BY DEF IsInjective
  <2>5. n \in Nat /\ DOMAIN rest = 1..(n - 1)
    BY <2>3
  <2> HIDE DEF n
  <2>6. \A j \in 1..(n - 1) : rest[j] # p
    BY <2>1, <2>3, <2>4, <2>5
  <2>7. \A j, k \in 1..(n - 1) : rest[j] = rest[k] => j = k
    <3> SUFFICES ASSUME NEW j \in 1..(n - 1), NEW k \in 1..(n - 1), rest[j] = rest[k]
                 PROVE  j = k
      OBVIOUS
    <3> DEFINE up(x) == IF x < i THEN x ELSE x + 1
    <3>1. up(j) \in 1..n /\ up(k) \in 1..n
      BY <2>1, <2>5
    <3>2. rest[j] = line[up(j)] /\ rest[k] = line[up(k)]
      BY <2>3
    <3>3. up(j) = up(k)
      BY <2>4, <3>1, <3>2
    <3> QED
      BY <2>1, <2>5, <3>3
  <2> QED
    BY <2>2, <2>3, <2>5, <2>6, <2>7 DEF IsInjective, Contains
<1> QED
  BY <1>1, <1>2

LEMMA QueueWith ==
    ASSUME NEW line \in Seq(Players), IsInjective(line), NEW p \in Players, ~Contains(line, p)
    PROVE  Append(line, p) \in Seq(Players) /\ IsInjective(Append(line, p))
<1> DEFINE n == Len(line)
           more == Append(line, p)
<1>1. /\ more \in Seq(Players) /\ DOMAIN more = 1..(n + 1) /\ n \in Nat
      /\ more[n + 1] = p /\ \A j \in 1..n : more[j] = line[j]
  BY AppendProperties
<1>2. /\ \A j, k \in 1..n : line[j] = line[k] => j = k
      /\ \A j \in 1..n : line[j] # p
  BY DEF IsInjective, Contains
<1> HIDE DEF n, more
<1>3. \A j, k \in 1..(n + 1) : more[j] = more[k] => j = k
  BY <1>1, <1>2
<1> QED
  BY <1>1, <1>3 DEF IsInjective, more
-----------------------------------------------------------------------------
(* Limits and breaks are typed, each edit for the column it is about. *)
SelfOK ==
    /\ now \in 0..MaxTime
    /\ limits \in [Players -> [Fields -> Limits]]
    /\ until \in [Players -> [Breaks -> Times]]
    /\ \A e \in edits :
          /\ e \in [player : Players, what : Fields \cup Breaks,
                    seen : Sums \cup {None} \cup Times, stage : BOOLEAN,
                    value : Sums \cup {None} \cup Times]
          /\ e.what \in Fields => e.value \in Sums \cup {None} /\ e.seen \in Sums \cup {None}
          /\ e.what \in Breaks => e.value \in Times /\ e.seen \in Times /\ ~e.stage
    /\ overtaken \subseteq Players \X (Fields \cup Breaks)

QueuesOK == queue \in [Stakes -> Seq(Players)] /\ \A s \in Stakes : IsInjective(queue[s])

(* A funding that has locked a call-out is of the one who called out, and of *)
(* somebody else; the call-out stays open until it ends.                     *)
FundingsOK ==
    /\ funding \in [Fundings -> [stake : Stakes \cup {0}, players : Seq(Players), asked : 0..2]]
    /\ \A f \in Fundings : funding[f] # Resting => funding[f].stake \in Stakes
                                                    /\ Len(funding[f].players) = 2
    /\ \A k \in Callouts : funding[k] # Resting => /\ callout[k].status = "OPEN"
                                                   /\ funding[k].players[1] = callout[k].by
                                                   /\ funding[k].players[2] # callout[k].by

CalloutsOK ==
    /\ callout \in [Callouts -> [status : Fates, by : Players \cup {None}, to : Players \cup {None},
                                 stake : Stakes \cup {0}, lapsed : BOOLEAN]]
    /\ \A k \in Callouts : callout[k].status # "none" => callout[k].by \in Players
                                                        /\ callout[k].stake \in Stakes

MatchRows == [players : SUBSET Players, stake : Stakes, from : Fundings]
MatchesOK == matches \in Seq(MatchRows) /\ OneMatchAtATime

MeetInv == SelfOK /\ QueuesOK /\ FundingsOK /\ CalloutsOK /\ MatchesOK

LEMMA InitiallyMeet == PairingInit => MeetInv
<1> SUFFICES ASSUME PairingInit PROVE MeetInv
  OBVIOUS
<1> USE DEF PairingInit, SaferInit
<1>1. SelfOK
  <2>1. NoLimit \in Limits /\ 0 \in Times /\ 0 \in 0..MaxTime
    BY HoursAssumption DEF NoLimit, Limits, Times
  <2> QED
    BY <2>1 DEF SelfOK
<1>2. QueuesOK
  BY DEF QueuesOK, IsInjective
<1>3. FundingsOK
  BY DEF FundingsOK, Resting, Fundings
<1>4. CalloutsOK
  BY DEF CalloutsOK, NoCallout, Fates
<1>5. MatchesOK
  BY DEF MatchesOK, OneMatchAtATime
<1> QED
  BY <1>1, <1>2, <1>3, <1>4, <1>5 DEF MeetInv

LEMMA EffectiveIsTyped ==
    ASSUME NEW x \in Limits
    PROVE  Effective(x) \in Sums \cup {None}
  BY DEF Effective, Limits

(* The player's own tools. *)
LEMMA EditsKeepSelfOK ==
    ASSUME SelfOK, SaferNext
    PROVE  SelfOK'
<1>1. Fields \cap Breaks = {} /\ Editors \subseteq Players
  BY LimitsAssumption
<1>2. ASSUME NEW p \in Editors, NEW f \in Fields, NEW amount \in Sums \cup {None},
             SetLimit(p, f, amount)
      PROVE  SelfOK'
  <2> DEFINE inForce == Effective(limits[p][f])
             e == Edit(p, f, inForce, IsRaise(limits[p][f], amount), amount)
  <2>a. inForce \in Sums \cup {None}
    BY <1>1, EffectiveIsTyped DEF SelfOK
  <2> HIDE DEF inForce
  <2>1. /\ e \in [player : Players, what : Fields \cup Breaks,
                  seen : Sums \cup {None} \cup Times, stage : BOOLEAN,
                  value : Sums \cup {None} \cup Times]
        /\ e.what = f /\ e.value = amount /\ e.seen = inForce
    BY <1>1, <2>a DEF Edit, IsRaise, SelfOK
  <2> USE DEF inForce
  <2> HIDE DEF e
  <2>2. edits' = edits \cup {e} /\ UNCHANGED <<now, limits, until, overtaken>>
    BY <1>2 DEF SetLimit, e
  <2> QED
    BY <1>1, <2>a, <2>1, <2>2 DEF SelfOK
<1>3. ASSUME NEW p \in Editors, NEW b \in Breaks, NEW t \in Times, StartBreak(p, b, t)
      PROVE  SelfOK'
  <2> DEFINE e == Edit(p, b, until[p][b], FALSE, t)
  <2>1. /\ e \in [player : Players, what : Fields \cup Breaks,
                  seen : Sums \cup {None} \cup Times, stage : BOOLEAN,
                  value : Sums \cup {None} \cup Times]
        /\ e.what = b /\ e.value = t /\ e.seen \in Times /\ ~e.stage
    BY <1>1 DEF Edit, SelfOK
  <2> HIDE DEF e
  <2>2. edits' = edits \cup {e} /\ UNCHANGED <<now, limits, until, overtaken>>
    BY <1>3 DEF StartBreak, e
  <2> QED
    BY <1>1, <2>1, <2>2 DEF SelfOK
<1>4. ASSUME NEW p \in Editors, NEW b \in Breaks, LiftBreak(p, b)
      PROVE  SelfOK'
  <2>1. 0 \in Times
    BY HoursAssumption DEF Times
  <2>2. until' = [until EXCEPT ![p][b] = 0] /\ UNCHANGED <<now, limits, edits, overtaken>>
    BY <1>4 DEF LiftBreak
  <2> QED
    BY <1>1, <2>1, <2>2 DEF SelfOK
<1>5. ASSUME NEW e \in edits, WriteLimit(e)
      PROVE  SelfOK'
  <2> DEFINE p == e.player
             f == e.what
             old == limits[p][f]
             new == IF e.stage THEN [old EXCEPT !.pending = e.value, !.raisedAt = now]
                    ELSE [NoLimit EXCEPT !.base = e.value]
  <2>1. p \in Players /\ f \in Fields /\ e.value \in Sums \cup {None} /\ now \in 0..MaxTime
    BY <1>5 DEF SelfOK, WriteLimit
  <2>a. ASSUME NEW inForce
        PROVE  Overtaken(e, inForce) \subseteq Players \X (Fields \cup Breaks)
    BY <1>5 DEF Overtaken, SelfOK
  <2>2. old \in Limits
    BY <2>1 DEF SelfOK
  <2>3. new \in Limits
    <3>1. [old EXCEPT !.pending = e.value, !.raisedAt = now] \in Limits
      BY <2>1, <2>2 DEF Limits
    <3>2. [NoLimit EXCEPT !.base = e.value] \in Limits
      BY <2>1, HoursAssumption DEF Limits, NoLimit
    <3> QED
      BY <3>1, <3>2
  <2>4. limits' = [limits EXCEPT ![p][f] = new]
    BY <1>5 DEF WriteLimit
  <2> HIDE DEF p, f, new
  <2>5. limits' \in [Players -> [Fields -> Limits]]
    BY <2>1, <2>3, <2>4 DEF SelfOK
  <2>6. edits' \subseteq edits /\ now' = now /\ until' = until
    BY <1>5 DEF WriteLimit
  <2>7. overtaken' \subseteq Players \X (Fields \cup Breaks)
    BY <1>5, <2>a DEF WriteLimit
  <2> QED
    BY <2>5, <2>6, <2>7 DEF SelfOK
<1>6. ASSUME NEW e \in edits, WriteBreak(e)
      PROVE  SelfOK'
  <2> DEFINE p == e.player
             b == e.what
             t == e.value
  <2>1. p \in Players /\ b \in Breaks /\ t \in Times
    BY <1>6 DEF SelfOK, WriteBreak
  <2>2. /\ until' = [until EXCEPT ![p][b] = t]
        /\ edits' \subseteq edits /\ now' = now /\ limits' = limits
    BY <1>6 DEF WriteBreak
  <2>a. ASSUME NEW inForce
        PROVE  Overtaken(e, inForce) \subseteq Players \X (Fields \cup Breaks)
    BY <1>6 DEF Overtaken, SelfOK
  <2>b. overtaken' \subseteq Players \X (Fields \cup Breaks)
    BY <1>6, <2>a DEF WriteBreak
  <2> HIDE DEF p, b, t
  <2>3. until' \in [Players -> [Breaks -> Times]]
    BY <2>1, <2>2 DEF SelfOK
  <2> QED
    BY <2>2, <2>3, <2>b DEF SelfOK
<1>7. ASSUME Tick
      PROVE  SelfOK'
  <2>1. now' \in 0..MaxTime
    BY <1>7, HoursAssumption DEF Tick, SelfOK
  <2> QED
    BY <1>7, <2>1 DEF Tick, SelfOK
<1> QED
  BY <1>2, <1>3, <1>4, <1>5, <1>6, <1>7 DEF SaferNext, EditOf

(* A match is made of two players who are in none. *)
LEMMA NewMatchIsApart ==
    ASSUME MeetInv, NEW f \in Fundings, MakeMatch(f)
    PROVE  /\ MatchesOK'
           /\ Len(matches') = Len(matches) + 1 /\ Len(matches) \in Nat
           /\ \A i \in 1..Len(matches) : matches'[i] = matches[i]
           /\ matches'[Len(matches) + 1] = MatchOf(f)
<1> DEFINE p == funding[f].players[1]
           q == funding[f].players[2]
           m == MatchOf(f)
           n == Len(matches)
<1>b. funding[f].stake \in Stakes /\ p \in Players /\ q \in Players
  <2>1. funding[f] # Resting
    BY DEF MakeMatch, Resting
  <2> QED
    BY <2>1, ElementOfSeq DEF MeetInv, FundingsOK
<1>1. m \in MatchRows /\ m.players = {p, q}
  BY <1>b DEF MatchRows, MatchOf
<1>2. matches' = Append(matches, m)
  BY DEF MakeMatch
<1>a. matches \in Seq(MatchRows)
  BY DEF MatchesOK, MeetInv
<1>3. \A i \in 1..n : p \notin matches[i].players /\ q \notin matches[i].players
  BY DEF MakeMatch, InMatch
<1>4. \A i, j \in 1..n : i # j => matches[i].players \cap matches[j].players = {}
  BY DEF MatchesOK, OneMatchAtATime, MeetInv
<1> HIDE DEF m, p, q
<1>5. /\ matches' \in Seq(MatchRows) /\ Len(matches') = n + 1 /\ n \in Nat
      /\ \A i \in 1..n : matches'[i] = matches[i]
      /\ matches'[n + 1] = m
  BY <1>1, <1>2, <1>a, AppendProperties
<1> HIDE DEF n
<1>6. \A i, j \in 1..(n + 1) : i # j => matches'[i].players \cap matches'[j].players = {}
  <2> SUFFICES ASSUME NEW i \in 1..(n + 1), NEW j \in 1..(n + 1), i # j
               PROVE  matches'[i].players \cap matches'[j].players = {}
    OBVIOUS
  <2>1. CASE i \in 1..n /\ j \in 1..n
    BY <1>4, <1>5, <2>1
  <2>2. CASE i \in 1..n /\ j = n + 1
    BY <1>1, <1>3, <1>5, <2>2
  <2>3. CASE i = n + 1 /\ j \in 1..n
    BY <1>1, <1>3, <1>5, <2>3
  <2> QED
    BY <1>5, <2>1, <2>2, <2>3
<1>7. MatchesOK'
  BY <1>5, <1>6 DEF MatchesOK, OneMatchAtATime
<1> QED
  BY <1>5, <1>7 DEF n, m

LEMMA MatchesEndKeepsOK ==
    ASSUME MatchesOK, NEW i \in 1..Len(matches), MatchEnds(i)
    PROVE  MatchesOK' /\ Len(matches') < Len(matches) /\ Len(matches) \in Nat /\ Len(matches') \in Nat
<1> DEFINE n == Len(matches)
<1>1. /\ matches' \in Seq(MatchRows) /\ Len(matches') = n - 1
      /\ \A j \in 1..(n - 1) : matches'[j] = IF j < i THEN matches[j] ELSE matches[j + 1]
  BY OneIsRemoved DEF MatchesOK, MatchEnds
<1>2. \A j, k \in 1..n : j # k => matches[j].players \cap matches[k].players = {}
  BY DEF MatchesOK, OneMatchAtATime
<1>3. n \in Nat /\ i \in 1..n
  BY DEF MatchesOK
<1> HIDE DEF n
<1>4. ASSUME NEW j \in 1..(n - 1), NEW k \in 1..(n - 1), j # k
      PROVE  matches'[j].players \cap matches'[k].players = {}
  <2> DEFINE up(x) == IF x < i THEN x ELSE x + 1
  <2>1. up(j) \in 1..n /\ up(k) \in 1..n /\ up(j) # up(k)
    BY <1>3, <1>4
  <2>2. matches'[j] = matches[up(j)] /\ matches'[k] = matches[up(k)]
    BY <1>1
  <2> QED
    BY <1>2, <2>1, <2>2
<1> QED
  BY <1>1, <1>3, <1>4 DEF MatchesOK, OneMatchAtATime, n

LEMMA QueueingKeepsMeet ==
    ASSUME MeetInv, NEW p \in Players, NEW s \in Stakes, Join(p, s) \/ Leave(p, s)
    PROVE  MeetInv'
<1> DEFINE line == queue[s]
<1>1. line \in Seq(Players) /\ IsInjective(line)
  BY DEF MeetInv, QueuesOK
<1>2. /\ Without(line, p) \in Seq(Players) /\ IsInjective(Without(line, p))
      /\ ~Contains(Without(line, p), p)
  BY <1>1, QueueWithout
<1>3. /\ Append(Without(line, p), p) \in Seq(Players)
      /\ IsInjective(Append(Without(line, p), p))
  BY <1>2, QueueWith
<1>4. PICK new \in {Without(line, p), Append(Without(line, p), p)} :
         queue' = [queue EXCEPT ![s] = new]
  BY DEF Join, Leave
<1>5. QueuesOK'
  BY <1>2, <1>3, <1>4 DEF MeetInv, QueuesOK
<1>6. UNCHANGED <<saferVars, funding, callout, matches>>
  BY DEF Join, Leave
<1> QED
  BY <1>5, <1>6 DEF MeetInv, SelfOK, FundingsOK, CalloutsOK, MatchesOK, OneMatchAtATime, saferVars

(* A worker's pair are the two who were first in a queue. *)
LEMMA PopsKeepMeet ==
    ASSUME MeetInv, NEW w \in Workers, NEW s \in Stakes, Pop(w, s)
    PROVE  MeetInv'
<1> DEFINE line == queue[s]
           n == Len(line)
           first == SubSeq(line, 1, 2)
           rest == SubSeq(line, 3, n)
<1>1. line \in Seq(Players) /\ IsInjective(line) /\ n \in Nat /\ n >= 2
  BY DEF MeetInv, QueuesOK, Pop
<1>2. \A j \in 1..n : line[j] \in Players
  BY <1>1, ElementOfSeq
<1>3. first \in Seq(Players) /\ Len(first) = 2
  BY <1>1, <1>2, SubSeqProperties
<1>4. /\ rest \in Seq(Players) /\ Len(rest) = n - 2
      /\ \A j \in 1..(n - 2) : rest[j] = line[j + 2]
  <2>1. /\ rest \in Seq(Players) /\ Len(rest) = IF 3 <= n THEN n - 3 + 1 ELSE 0
        /\ \A j \in 1..(n - 3 + 1) : rest[j] = line[3 + j - 1]
    BY <1>1, <1>2, SubSeqProperties
  <2> QED
    BY <1>1, <2>1
<1>5. /\ funding' = [funding EXCEPT ![w] = Begun(s, first)]
      /\ queue' = [queue EXCEPT ![s] = rest]
      /\ UNCHANGED <<saferVars, callout, matches>>
  BY DEF Pop
<1>6. \A j, k \in 1..n : line[j] = line[k] => j = k
  BY <1>1 DEF IsInjective
<1> HIDE DEF first, rest, n
<1>7. \A j, k \in 1..(n - 2) : rest[j] = rest[k] => j = k
  <2> SUFFICES ASSUME NEW j \in 1..(n - 2), NEW k \in 1..(n - 2), rest[j] = rest[k]
               PROVE  j = k
    OBVIOUS
  <2>1. j + 2 \in 1..n /\ k + 2 \in 1..n /\ line[j + 2] = line[k + 2]
    BY <1>1, <1>4
  <2>2. j + 2 = k + 2
    BY <1>6, <2>1
  <2> QED
    BY <2>2
<1>8. IsInjective(rest)
  BY <1>4, <1>7 DEF IsInjective
<1>9. QueuesOK'
  BY <1>4, <1>5, <1>8 DEF MeetInv, QueuesOK
<1>10. FundingsOK'
  <2>1. /\ Begun(s, first) \in [stake : Stakes \cup {0}, players : Seq(Players), asked : 0..2]
        /\ Begun(s, first).stake = s /\ Begun(s, first).players = first
    BY <1>3 DEF Begun
  <2>2. w \in Fundings /\ w \notin Callouts /\ Callouts \subseteq Fundings
    BY StakesAssumption DEF Fundings
  <2> QED
    BY <1>3, <1>5, <2>1, <2>2 DEF MeetInv, FundingsOK
<1> QED
  BY <1>5, <1>9, <1>10 DEF MeetInv, SelfOK, CalloutsOK, MatchesOK, OneMatchAtATime, saferVars
(* A funding goes on, and ends with or without a match. *)
LEMMA FundingKeepsMeet ==
    ASSUME MeetInv, NEW f \in Fundings, AskPlayer(f) \/ GiveUp(f)
    PROVE  MeetInv'
<1> DEFINE more == [funding[f] EXCEPT !.asked = @ + 1]
           Places == [stake : Stakes \cup {0}, players : Seq(Players), asked : 0..2]
<1>1. funding \in [Fundings -> Places] /\ Callouts \subseteq Fundings
  BY DEF MeetInv, FundingsOK, Fundings
<1>2. PICK new : /\ funding' = [funding EXCEPT ![f] = new]
                 /\ new = Resting \/ (AskPlayer(f) /\ new = more)
  BY <1>1 DEF AskPlayer, GiveUp
<1>3. UNCHANGED <<saferVars, queue, callout, matches>>
  BY DEF AskPlayer, GiveUp
<1>4. CASE new = Resting
  <2>1. Resting \in Places
    BY DEF Resting
  <2> HIDE DEF Resting
  <2>2. FundingsOK'
    BY <1>1, <1>2, <1>3, <1>4, <2>1 DEF MeetInv, FundingsOK
  <2> QED
    BY <1>3, <2>2 DEF MeetInv, SelfOK, QueuesOK, CalloutsOK, MatchesOK, OneMatchAtATime, saferVars
<1>5. CASE AskPlayer(f) /\ new = more
  <2>1. /\ more \in Places /\ more.stake = funding[f].stake /\ more.players = funding[f].players
        /\ funding[f] # Resting
    BY <1>1, <1>5 DEF AskPlayer
  <2> HIDE DEF more, Resting
  <2>2. FundingsOK'
    BY <1>1, <1>2, <1>3, <1>5, <2>1 DEF MeetInv, FundingsOK
  <2> QED
    BY <1>3, <2>2 DEF MeetInv, SelfOK, QueuesOK, CalloutsOK, MatchesOK, OneMatchAtATime, saferVars
<1> QED
  BY <1>2, <1>4, <1>5

LEMMA MakingKeepsFundings ==
    ASSUME MeetInv, NEW f \in Fundings, MakeMatch(f),
           \A k \in Callouts : k # f => callout'[k] = callout[k]
    PROVE  FundingsOK'
<1>1. Resting \in [stake : Stakes \cup {0}, players : Seq(Players), asked : 0..2]
  BY DEF Resting
<1>2. funding' = [funding EXCEPT ![f] = Resting] /\ Callouts \subseteq Fundings
  BY DEF MakeMatch, Fundings
<1> HIDE DEF Resting
<1>3. QED
  BY <1>1, <1>2 DEF MeetInv, FundingsOK

LEMMA WorkersKeepMeet ==
    ASSUME MeetInv, NEW w \in Workers, WorkerStep(w)
    PROVE  MeetInv'
<1>1. w \in Fundings
  BY DEF Fundings
<1>2. CASE FundPair(w)
  <2>1. MakeMatch(w) /\ UNCHANGED <<saferVars, queue, callout>>
    BY <1>2 DEF FundPair
  <2>2. MatchesOK' /\ FundingsOK'
    BY <1>1, <2>1, NewMatchIsApart, MakingKeepsFundings
  <2> QED
    BY <2>1, <2>2 DEF MeetInv, SelfOK, QueuesOK, CalloutsOK, saferVars
<1> QED
  BY <1>1, <1>2, PopsKeepMeet, FundingKeepsMeet DEF WorkerStep

LEMMA CalloutsKeepMeet ==
    ASSUME MeetInv,
           NEW k \in Callouts,
           \/ \E p \in Players, s \in Stakes : CreateCallout(p, k, s)
           \/ \E p \in Players : ClaimCallout(p, k)
           \/ AcceptCallout(k)
           \/ CalloutLapses(k)
           \/ ExpireCallouts
    PROVE  MeetInv'
<1> DEFINE Columns == [status : Fates, by : Players \cup {None}, to : Players \cup {None},
                       stake : Stakes \cup {0}, lapsed : BOOLEAN]
<1>a. callout \in [Callouts -> Columns]
  BY DEF MeetInv, CalloutsOK
<1>b. k \in Fundings
  BY DEF Fundings
<1>1. ASSUME NEW p \in Players, NEW s \in Stakes, CreateCallout(p, k, s)
      PROVE  MeetInv'
  <2> DEFINE new == [NoCallout EXCEPT !.status = "OPEN", !.by = p, !.stake = s]
  <2>1. new \in Columns /\ new.by = p /\ new.stake = s
    BY DEF NoCallout, Fates
  <2>2. callout' = [callout EXCEPT ![k] = new] /\ UNCHANGED <<saferVars, queue, funding, matches>>
    BY <1>1 DEF CreateCallout
  <2> HIDE DEF new
  <2>3. CalloutsOK'
    BY <2>1, <2>2 DEF MeetInv, CalloutsOK
  <2>4. FundingsOK'
    <3>1. callout[k].status # "OPEN"
      BY <1>1 DEF CreateCallout
    <3> QED
      BY <1>a, <2>2, <3>1 DEF MeetInv, FundingsOK
  <2> QED
    BY <2>2, <2>3, <2>4 DEF MeetInv, SelfOK, QueuesOK, MatchesOK, OneMatchAtATime, saferVars
<1>c. ASSUME NEW p \in Players, ClaimCallout(p, k)
      PROVE  MeetInv'
  <2> DEFINE new == Begun(callout[k].stake, <<callout[k].by, p>>)
  <2>1. /\ callout[k].by \in Players /\ callout[k].stake \in Stakes
        /\ callout[k].status = "OPEN" /\ p # callout[k].by
    BY <1>c DEF ClaimCallout, Open, MeetInv, CalloutsOK
  <2>2. /\ new \in [stake : Stakes \cup {0}, players : Seq(Players), asked : 0..2]
        /\ new.stake \in Stakes /\ Len(new.players) = 2
        /\ new.players[1] = callout[k].by /\ new.players[2] = p
    BY <2>1 DEF Begun
  <2>3. funding' = [funding EXCEPT ![k] = new] /\ UNCHANGED <<saferVars, queue, callout, matches>>
    BY <1>c DEF ClaimCallout
  <2> HIDE DEF new, Resting
  <2>4. FundingsOK'
    BY <1>b, <2>1, <2>2, <2>3 DEF MeetInv, FundingsOK
  <2> QED
    BY <2>3, <2>4 DEF MeetInv, SelfOK, QueuesOK, CalloutsOK, MatchesOK, OneMatchAtATime, saferVars
<1>2. ASSUME AcceptCallout(k)
      PROVE  MeetInv'
  <2> DEFINE p == funding[k].players[2]
             new == [callout[k] EXCEPT !.status = "ACCEPTED", !.to = p]
  <2>1. /\ callout[k].by \in Players /\ callout[k].stake \in Stakes /\ p \in Players
        /\ callout' = [callout EXCEPT ![k] = new] /\ UNCHANGED <<saferVars, queue>>
        /\ MakeMatch(k)
    <3>1. MakeMatch(k) /\ funding[k] # Resting
      BY <1>2 DEF AcceptCallout, MakeMatch, Resting
    <3>2. callout[k].status = "OPEN" /\ p \in Players
      BY <1>b, <3>1, ElementOfSeq DEF MeetInv, FundingsOK
    <3> QED
      BY <1>2, <1>a, <3>1, <3>2 DEF AcceptCallout, MeetInv, CalloutsOK
  <2> HIDE DEF p
  <2>2. new \in Columns /\ new.by = callout[k].by /\ new.stake = callout[k].stake
    BY <1>a, <2>1 DEF Fates
  <2> HIDE DEF new
  <2>3. CalloutsOK'
    BY <2>1, <2>2 DEF MeetInv, CalloutsOK
  <2>4. MatchesOK' /\ FundingsOK'
    <3>1. \A c \in Callouts : c # k => callout'[c] = callout[c]
      BY <1>a, <2>1
    <3> QED
      BY <1>b, <2>1, <3>1, NewMatchIsApart, MakingKeepsFundings
  <2> QED
    BY <2>1, <2>3, <2>4 DEF MeetInv, SelfOK, QueuesOK, saferVars
<1>3. ASSUME CalloutLapses(k)
      PROVE  MeetInv'
  <2> DEFINE new == [callout[k] EXCEPT !.lapsed = TRUE]
  <2>1. /\ new \in Columns /\ new.by = callout[k].by /\ new.stake = callout[k].stake
        /\ new.status = callout[k].status
    BY <1>a
  <2>2. callout' = [callout EXCEPT ![k] = new] /\ UNCHANGED <<saferVars, queue, funding, matches>>
    BY <1>3, <1>a DEF CalloutLapses
  <2> HIDE DEF new
  <2>3. CalloutsOK'
    BY <2>1, <2>2 DEF MeetInv, CalloutsOK
  <2>4. FundingsOK'
    BY <1>a, <2>1, <2>2 DEF MeetInv, FundingsOK
  <2> QED
    BY <2>2, <2>3, <2>4 DEF MeetInv, SelfOK, QueuesOK, MatchesOK, OneMatchAtATime, saferVars
<1>4. ASSUME ExpireCallouts
      PROVE  MeetInv'
  <2>1. /\ DOMAIN callout' = Callouts
        /\ \A c \in Callouts :
              \/ callout'[c] = callout[c]
              \/ /\ callout[c].status = "OPEN"
                 /\ callout'[c] = [callout[c] EXCEPT !.status = "EXPIRED"]
        /\ callout' = [c \in Callouts |-> callout'[c]]
    BY <1>4 DEF ExpireCallouts
  <2>2. \A c \in Callouts : /\ callout'[c] \in Columns
                            /\ callout'[c].by = callout[c].by /\ callout'[c].stake = callout[c].stake
                            /\ callout'[c].status # "none" => callout[c].status # "none"
    BY <1>a, <2>1 DEF Fates
  <2>3. callout' \in [Callouts -> Columns]
    BY <2>1, <2>2
  <2>4. CalloutsOK'
    BY <2>2, <2>3 DEF MeetInv, CalloutsOK
  <2>5. FundingsOK'
    <3>1. \A c \in Callouts : /\ callout'[c].by = callout[c].by
                              /\ funding[c] # Resting => callout'[c] = callout[c]
      BY <1>4, <2>2 DEF ExpireCallouts
    <3>2. funding' = funding
      BY <1>4 DEF ExpireCallouts
    <3> QED
      BY <3>1, <3>2 DEF MeetInv, FundingsOK
  <2> QED
    BY <1>4, <2>4, <2>5 DEF ExpireCallouts, MeetInv, SelfOK, QueuesOK, MatchesOK, OneMatchAtATime,
                            saferVars
<1> QED
  BY <1>1, <1>c, <1>2, <1>3, <1>4

LEMMA MeetIsInductive == MeetInv /\ [PairingNext]_pairingVars => MeetInv'
<1> SUFFICES ASSUME MeetInv, [PairingNext]_pairingVars PROVE MeetInv'
  OBVIOUS
<1>1. CASE SaferNext /\ UNCHANGED <<queue, funding, callout, matches>>
  <2>1. SelfOK'
    BY <1>1, EditsKeepSelfOK DEF MeetInv
  <2> QED
    BY <1>1, <2>1 DEF MeetInv, QueuesOK, FundingsOK, CalloutsOK, MatchesOK, OneMatchAtATime
<1>2. CASE ExpireCallouts
  <2>1. PICK k \in Callouts : TRUE
    BY <1>2 DEF ExpireCallouts
  <2> QED
    BY <1>2, CalloutsKeepMeet
<1>3. ASSUME NEW i \in 1..Len(matches), MatchEnds(i)
      PROVE  MeetInv'
  <2>1. MatchesOK'
    BY <1>3, MatchesEndKeepsOK DEF MeetInv
  <2> QED
    BY <1>3, <2>1 DEF MatchEnds, MeetInv, SelfOK, QueuesOK, FundingsOK, CalloutsOK, saferVars
<1>4. CASE UNCHANGED pairingVars
  BY <1>4 DEF pairingVars, matchmakingVars, saferVars, MeetInv, SelfOK, QueuesOK, FundingsOK,
              CalloutsOK, MatchesOK, OneMatchAtATime
<1>5. ASSUME NEW k \in Callouts, CalloutStep(k)
      PROVE  MeetInv'
  <2>1. k \in Fundings
    BY DEF Fundings
  <2> QED
    BY <1>5, <2>1, CalloutsKeepMeet, FundingKeepsMeet DEF CalloutStep
<1> QED
  BY <1>1, <1>2, <1>3, <1>4, <1>5, QueueingKeepsMeet, WorkersKeepMeet DEF PairingNext

(* Nobody who has been asked is among those who might not play all along.   *)
AskedOK ==
    \A f \in Fundings :
        /\ barred[f] \subseteq ToSet(funding[f].players)
        /\ \A i \in 1..funding[f].asked : funding[f].players[i] \notin barred[f]

LEMMA InitiallyAsked == PairingInit => AskedOK
  BY DEF PairingInit, AskedOK, Resting

(* While a funding goes on, its players stay and are asked one after the     *)
(* other.                                                                    *)
LEMMA FundingsGoOn ==
    ASSUME MeetInv, PairingNext, NEW f \in Fundings, funding'[f] # Resting, funding[f] # Resting
    PROVE  /\ funding'[f].players = funding[f].players /\ funding'[f].stake = funding[f].stake
           /\ \/ funding'[f].asked = funding[f].asked
              \/ /\ funding'[f].asked = funding[f].asked + 1
                 /\ \E p : /\ p = funding[f].players[funding[f].asked + 1]
                           /\ Eligible(p, funding[f].stake)'
<1>1. funding \in [Fundings -> [stake : Stakes \cup {0}, players : Seq(Players), asked : 0..2]]
  BY DEF MeetInv, FundingsOK
<1>2. ASSUME NEW g \in Fundings, AskPlayer(g), g = f
      PROVE  /\ funding'[f].players = funding[f].players /\ funding'[f].stake = funding[f].stake
             /\ funding'[f].asked = funding[f].asked + 1
             /\ \E p : /\ p = funding[f].players[funding[f].asked + 1]
                       /\ Eligible(p, funding[f].stake)'
  <2>1. /\ funding' = [funding EXCEPT ![f].asked = @ + 1]
        /\ Eligible(funding[f].players[funding[f].asked + 1], funding[f].stake)
        /\ UNCHANGED <<now, limits, until>>
    BY <1>2 DEF AskPlayer, saferVars
  <2>2. /\ funding'[f].players = funding[f].players /\ funding'[f].stake = funding[f].stake
        /\ funding'[f].asked = funding[f].asked + 1
    BY <1>1, <2>1
  <2>3. ASSUME NEW p
        PROVE  Eligible(p, funding[f].stake)' <=> Eligible(p, funding[f].stake)
    BY <2>1, <2>2 DEF Eligible, OnBreak, StakeAllowed
  <2> QED
    BY <2>1, <2>2, <2>3
<1>3. ASSUME NEW g \in Fundings, AskPlayer(g), g # f
      PROVE  funding'[f] = funding[f]
  <2>1. \E new : funding' = [funding EXCEPT ![g] = new]
    BY <1>1, <1>3 DEF AskPlayer
  <2> QED
    BY <1>3, <2>1
<1>4. ASSUME NEW w \in Workers, NEW s \in Stakes, Pop(w, s)
      PROVE  funding'[f] = funding[f]
  <2>1. funding[w] = Resting /\ \E new : funding' = [funding EXCEPT ![w] = new]
    BY <1>4 DEF Pop
  <2> QED
    BY <2>1
<1>5. ASSUME NEW p \in Players, NEW k \in Callouts, ClaimCallout(p, k)
      PROVE  funding'[f] = funding[f]
  <2>1. funding[k] = Resting /\ \E new : funding' = [funding EXCEPT ![k] = new]
    BY <1>5 DEF ClaimCallout
  <2> QED
    BY <2>1
<1>6. ASSUME NEW g \in Fundings, GiveUp(g) \/ MakeMatch(g)
      PROVE  funding'[f] = funding[f]
  BY <1>1, <1>6 DEF GiveUp, MakeMatch
<1>7. \/ funding' = funding
      \/ \E g \in Fundings : AskPlayer(g) \/ GiveUp(g) \/ MakeMatch(g)
      \/ \E w \in Workers, s \in Stakes : Pop(w, s)
      \/ \E p \in Players, k \in Callouts : ClaimCallout(p, k)
  BY DEF PairingNext, WorkerStep, CalloutStep, Fundings, Join, Leave, FundPair, AcceptCallout,
         CreateCallout, CalloutLapses, ExpireCallouts, MatchEnds
<1> QED
  BY <1>2, <1>3, <1>4, <1>5, <1>6, <1>7

(* A funding begins with nobody asked. *)
LEMMA FundingsBegin ==
    ASSUME MeetInv, PairingNext, NEW f \in Fundings, funding[f] = Resting, funding'[f] # Resting
    PROVE  funding'[f].asked = 0
<1>1. funding \in [Fundings -> [stake : Stakes \cup {0}, players : Seq(Players), asked : 0..2]]
  BY DEF MeetInv, FundingsOK
<1>2. ASSUME NEW g \in Fundings, AskPlayer(g) \/ GiveUp(g) \/ MakeMatch(g)
      PROVE  funding'[f] = funding[f] \/ funding'[f] = Resting
  <2>1. g # f => \E new : funding' = [funding EXCEPT ![g] = new]
    BY <1>1, <1>2 DEF AskPlayer, GiveUp, MakeMatch
  <2>2. g = f => funding'[f] = Resting
    BY <1>1, <1>2 DEF AskPlayer, GiveUp, MakeMatch
  <2>3. g # f => funding'[f] = funding[f]
    BY <1>1, <2>1
  <2> QED
    BY <2>2, <2>3
<1>3. ASSUME NEW w \in Workers, NEW s \in Stakes, Pop(w, s)
      PROVE  funding'[f] = funding[f] \/ funding'[f].asked = 0
  BY <1>1, <1>3 DEF Pop, Begun
<1>4. ASSUME NEW p \in Players, NEW k \in Callouts, ClaimCallout(p, k)
      PROVE  funding'[f] = funding[f] \/ funding'[f].asked = 0
  BY <1>1, <1>4 DEF ClaimCallout, Begun
<1>5. \/ funding' = funding
      \/ \E g \in Fundings : AskPlayer(g) \/ GiveUp(g) \/ MakeMatch(g)
      \/ \E w \in Workers, s \in Stakes : Pop(w, s)
      \/ \E p \in Players, k \in Callouts : ClaimCallout(p, k)
  BY DEF PairingNext, WorkerStep, CalloutStep, Fundings, Join, Leave, FundPair, AcceptCallout,
         CreateCallout, CalloutLapses, ExpireCallouts, MatchEnds
<1> QED
  BY <1>2, <1>3, <1>4, <1>5

LEMMA AskedIsInductive == MeetInv /\ AskedOK /\ [PairingNext]_pairingVars => AskedOK'
<1> SUFFICES ASSUME MeetInv, AskedOK, [PairingNext]_pairingVars PROVE AskedOK'
  OBVIOUS
<1>1. CASE UNCHANGED pairingVars
  BY <1>1 DEF AskedOK, pairingVars, matchmakingVars
<1>2. CASE PairingNext
  <2> DEFINE Barred(f) ==
                {p \in IF funding[f] = Resting THEN ToSet(funding'[f].players) ELSE barred[f] :
                    ~Eligible(p, funding[f].stake)'}
  <2>1. \A f \in Fundings : barred'[f] = IF funding'[f] = Resting THEN {} ELSE Barred(f)
    BY <1>2 DEF PairingNext, Watch
  <2> SUFFICES ASSUME NEW f \in Fundings
               PROVE  /\ barred'[f] \subseteq ToSet(funding'[f].players)
                      /\ \A i \in 1..funding'[f].asked : funding'[f].players[i] \notin barred'[f]
    BY DEF AskedOK
  <2>2. CASE funding'[f] = Resting
    BY <2>1, <2>2
  <2>3. CASE funding'[f] # Resting /\ funding[f] = Resting
    <3>1. funding'[f].asked = 0
      BY <1>2, <2>3, FundingsBegin
    <3>2. barred'[f] = {p \in ToSet(funding'[f].players) : ~Eligible(p, funding[f].stake)'}
      BY <2>1, <2>3
    <3>3. 1..funding'[f].asked = {}
      BY <3>1
    <3> QED
      BY <3>2, <3>3
  <2>4. CASE funding'[f] # Resting /\ funding[f] # Resting
    <3>1. /\ funding'[f].players = funding[f].players
          /\ \/ funding'[f].asked = funding[f].asked
             \/ /\ funding'[f].asked = funding[f].asked + 1
                /\ \E p : /\ p = funding[f].players[funding[f].asked + 1]
                          /\ Eligible(p, funding[f].stake)'
      BY <1>2, <2>4, FundingsGoOn
    <3>2. barred'[f] = {p \in barred[f] : ~Eligible(p, funding[f].stake)'}
      BY <2>1, <2>4
    <3>3. barred'[f] \subseteq ToSet(funding'[f].players)
      BY <3>1, <3>2 DEF AskedOK
    <3>4. ASSUME NEW i \in 1..funding'[f].asked
          PROVE  funding'[f].players[i] \notin barred'[f]
      <4>1. funding[f].asked \in Nat
        BY DEF MeetInv, FundingsOK
      <4>2. i \in 1..funding[f].asked \/ i = funding[f].asked + 1
        BY <3>1, <4>1
      <4>3. CASE i \in 1..funding[f].asked
        BY <3>1, <3>2, <4>3 DEF AskedOK
      <4>4. CASE i = funding[f].asked + 1 /\ i \notin 1..funding[f].asked
        <5>1. \E p : p = funding[f].players[i] /\ Eligible(p, funding[f].stake)'
          BY <3>1, <4>1, <4>4
        <5>2. funding'[f].players[i] = funding[f].players[i]
          BY <3>1
        <5> QED
          BY <3>2, <5>1, <5>2
      <4> QED
        BY <4>2, <4>3, <4>4
    <3> QED
      BY <3>3, <3>4
  <2> QED
    BY <2>2, <2>3, <2>4
<1> QED
  BY <1>1, <1>2

(* "A player may only be in one game at a time", whatever mixture of queues, *)
(* workers and call-outs a player takes part in.                             *)
THEOREM NobodyIsInTwoMatches == PairingSpec => []PairingInv
<1>1. MeetInv /\ AskedOK => PairingInv
  <2> SUFFICES ASSUME MeetInv, AskedOK PROVE PairingInv
    OBVIOUS
  <2>1. SaferTypeOK
    BY DEF MeetInv, SelfOK, SaferTypeOK
  <2>2. \A s \in Stakes : IsInjective(queue[s]) /\ ToSet(queue[s]) \subseteq Players
    BY ElementOfSeq DEF MeetInv, QueuesOK, ToSet
  <2>3. /\ \A f \in Fundings :
              funding[f] # Resting => /\ funding[f].stake \in Stakes /\ funding[f].asked \in 0..2
                                      /\ Len(funding[f].players) = 2
                                      /\ ToSet(funding[f].players) \subseteq Players
        /\ \A f \in Fundings : barred[f] \subseteq ToSet(funding[f].players)
    <3>1. \A f \in Fundings : ToSet(funding[f].players) \subseteq Players
      BY ElementOfSeq DEF MeetInv, FundingsOK, ToSet
    <3> QED
      BY <3>1 DEF MeetInv, FundingsOK, AskedOK
  <2>4. \A i \in 1..Len(matches) : matches[i] \in MatchRows
    BY ElementOfSeq DEF MeetInv, MatchesOK
  <2>5. \A i \in 1..Len(matches) : matches[i].players \subseteq Players /\ matches[i].stake \in Stakes
    BY <2>4 DEF MatchRows
  <2>6. \A k \in Callouts : callout[k].status \in Fates
    BY DEF MeetInv, CalloutsOK
  <2>7. OneMatchAtATime
    BY DEF MeetInv, MatchesOK
  <2> QED
    BY <2>1, <2>2, <2>3, <2>5, <2>6, <2>7 DEF PairingInv, PairingTypeOK
<1>2. QED
  BY <1>1, InitiallyMeet, MeetIsInductive, InitiallyAsked, AskedIsInductive, PTL DEF PairingSpec
-----------------------------------------------------------------------------
(* What a step does to the matches, to the call-outs and to the limits.     *)
LEMMA OthersMakeNoMatch ==
    ASSUME MeetInv, [PairingNext]_pairingVars,
           ~\E w \in Workers : FundPair(w), ~\E k \in Callouts : AcceptCallout(k)
    PROVE  (1..Len(matches')) \ (1..Len(matches)) = {}
<1>1. ASSUME NEW i \in 1..Len(matches), MatchEnds(i)
      PROVE  (1..Len(matches')) \ (1..Len(matches)) = {}
  BY <1>1, MatchesEndKeepsOK DEF MeetInv
<1>2. CASE matches' = matches
  BY <1>2
<1>3. \/ matches' = matches
      \/ \E i \in 1..Len(matches) : MatchEnds(i)
  BY DEF PairingNext, WorkerStep, CalloutStep, Join, Leave, Pop, AskPlayer, GiveUp, CreateCallout,
         ClaimCallout, CalloutLapses, ExpireCallouts, matchmakingVars, pairingVars
<1> QED
  BY <1>1, <1>2, <1>3

(* A match that is made, by whatever way. *)
LEMMA MadeMatch ==
    ASSUME MeetInv, NEW f \in Fundings, MakeMatch(f)
    PROVE  /\ (1..Len(matches')) \ (1..Len(matches)) = {Len(matches) + 1}
           /\ matches'[Len(matches) + 1] = MatchOf(f)
  BY NewMatchIsApart

(* A call-out leads to one match, between the player who made it and the    *)
(* one who is written down as having accepted it, and an expired one to     *)
(* none (acceptCallout, processCalloutExpiry).                              *)
THEOREM CalloutsLeadToOneMatch == PairingSpec => CalloutsAreHonouredOnce
<1> DEFINE Made(k) == {i \in (1..Len(matches')) \ (1..Len(matches)) : matches'[i].from = k}
           Taken(k) == callout[k].status = "OPEN" /\ callout'[k].status = "ACCEPTED"
           Honoured(k) ==
               /\ Taken(k) <=> Made(k) # {}
               /\ callout[k].status \in {"ACCEPTED", "EXPIRED"}
                     => callout'[k].status = callout[k].status
               /\ \A i \in Made(k) : /\ matches'[i].players = {callout'[k].by, callout'[k].to}
                                     /\ callout'[k].by # callout'[k].to
<1>1. MeetInv /\ [PairingNext]_pairingVars => [\A k \in Callouts : Honoured(k)]_pairingVars
  <2> SUFFICES ASSUME MeetInv, PairingNext, NEW k \in Callouts
               PROVE  Honoured(k)
    OBVIOUS
  <2>1. ASSUME AcceptCallout(k)
        PROVE  Honoured(k)
    <3>1. MakeMatch(k) /\ k \in Fundings /\ funding[k] # Resting
      BY <2>1 DEF AcceptCallout, MakeMatch, Fundings, Resting
    <3>2. /\ callout[k].status = "OPEN"
          /\ funding[k].players[1] = callout[k].by /\ funding[k].players[2] # callout[k].by
      BY <3>1 DEF MeetInv, FundingsOK
    <3>3. /\ (1..Len(matches')) \ (1..Len(matches)) = {Len(matches) + 1}
          /\ matches'[Len(matches) + 1].from = k
          /\ matches'[Len(matches) + 1].players = {callout[k].by, funding[k].players[2]}
      <4>1. /\ (1..Len(matches')) \ (1..Len(matches)) = {Len(matches) + 1}
            /\ matches'[Len(matches) + 1] = MatchOf(k)
        BY <3>1, MadeMatch
      <4>2. MatchOf(k).from = k /\ MatchOf(k).players = {callout[k].by, funding[k].players[2]}
        BY <3>2 DEF MatchOf
      <4> QED
        BY <4>1, <4>2
    <3>4. /\ callout'[k].status = "ACCEPTED" /\ callout'[k].to = funding[k].players[2]
          /\ callout'[k].by = callout[k].by
      BY <2>1 DEF AcceptCallout, MeetInv, CalloutsOK
    <3> QED
      BY <3>2, <3>3, <3>4
  <2>2. ASSUME NEW c \in Callouts \ {k}, AcceptCallout(c)
        PROVE  Honoured(k)
    <3>1. /\ (1..Len(matches')) \ (1..Len(matches)) = {Len(matches) + 1}
          /\ matches'[Len(matches) + 1].from = c
      <4>1. MakeMatch(c) /\ c \in Fundings
        BY <2>2 DEF AcceptCallout, Fundings
      <4>2. /\ (1..Len(matches')) \ (1..Len(matches)) = {Len(matches) + 1}
            /\ matches'[Len(matches) + 1] = MatchOf(c)
        BY <4>1, MadeMatch
      <4>3. MatchOf(c).from = c
        BY DEF MatchOf
      <4> QED
        BY <4>2, <4>3
    <3>2. callout'[k] = callout[k]
      BY <2>2 DEF AcceptCallout, MeetInv, CalloutsOK
    <3> QED
      BY <3>1, <3>2
  <2>3. ASSUME NEW w \in Workers, FundPair(w)
        PROVE  Honoured(k)
    <3>1. /\ (1..Len(matches')) \ (1..Len(matches)) = {Len(matches) + 1}
          /\ matches'[Len(matches) + 1].from = w
      <4>1. MakeMatch(w) /\ w \in Fundings
        BY <2>3 DEF FundPair, Fundings
      <4>2. /\ (1..Len(matches')) \ (1..Len(matches)) = {Len(matches) + 1}
            /\ matches'[Len(matches) + 1] = MatchOf(w)
        BY <4>1, MadeMatch
      <4>3. MatchOf(w).from = w
        BY DEF MatchOf
      <4> QED
        BY <4>2, <4>3
    <3>2. callout' = callout /\ k # w
      BY <2>3, StakesAssumption DEF FundPair
    <3> QED
      BY <3>1, <3>2
  <2>4. CASE /\ ~\E w \in Workers : FundPair(w)
             /\ ~\E c \in Callouts : AcceptCallout(c)
    <3>1. (1..Len(matches')) \ (1..Len(matches)) = {}
      BY <2>4, OthersMakeNoMatch
    <3>2. \/ callout'[k] = callout[k]
          \/ callout[k].status = "none" /\ callout'[k].status = "OPEN"
          \/ callout[k].status = "OPEN" /\ callout'[k].status \in {"OPEN", "EXPIRED"}
      <4>1. ASSUME NEW c \in Callouts, NEW p \in Players, NEW s \in Stakes, CreateCallout(p, c, s)
            PROVE  callout'[k] = callout[k] \/ (callout[k].status = "none" /\ callout'[k].status = "OPEN")
        <5>1. DOMAIN callout = Callouts
          BY DEF MeetInv, CalloutsOK
        <5>2. CASE c = k
          BY <4>1, <5>1, <5>2 DEF CreateCallout, NoCallout
        <5>3. CASE c # k
          <6>1. \E new : callout' = [callout EXCEPT ![c] = new]
            BY <4>1 DEF CreateCallout
          <6> QED
            BY <5>3, <6>1
        <5> QED
          BY <5>2, <5>3
      <4>2. ASSUME NEW c \in Callouts, CalloutLapses(c)
            PROVE  callout'[k] = callout[k] \/ (callout[k].status = "OPEN" /\ callout'[k].status = "OPEN")
        <5>1. callout \in [Callouts -> [status : Fates, by : Players \cup {None},
                            to : Players \cup {None}, stake : Stakes \cup {0}, lapsed : BOOLEAN]]
          BY DEF MeetInv, CalloutsOK
        <5>2. CASE c = k
          BY <4>2, <5>1, <5>2 DEF CalloutLapses
        <5>3. CASE c # k
          <6>1. \E new : callout' = [callout EXCEPT ![c] = new]
            BY <4>2 DEF CalloutLapses
          <6> QED
            BY <5>3, <6>1
        <5> QED
          BY <5>2, <5>3
      <4>3. ASSUME ExpireCallouts
            PROVE  callout'[k] = callout[k] \/ (callout[k].status = "OPEN" /\ callout'[k].status = "EXPIRED")
        <5>1. callout \in [Callouts -> [status : Fates, by : Players \cup {None},
                            to : Players \cup {None}, stake : Stakes \cup {0}, lapsed : BOOLEAN]]
          BY DEF MeetInv, CalloutsOK
        <5>2. callout'[k] = IF callout[k].status = "OPEN" /\ callout[k].lapsed
                            THEN [callout[k] EXCEPT !.status = "EXPIRED"] ELSE callout[k]
          BY <4>3 DEF ExpireCallouts
        <5>3. CASE callout[k].status = "OPEN" /\ callout[k].lapsed
          BY <5>1, <5>2, <5>3
        <5>4. CASE ~(callout[k].status = "OPEN" /\ callout[k].lapsed)
          BY <5>2, <5>4
        <5> QED
          BY <5>3, <5>4
      <4>4. \/ callout' = callout
            \/ \E c \in Callouts, p \in Players, s \in Stakes : CreateCallout(p, c, s)
            \/ \E c \in Callouts : CalloutLapses(c)
            \/ ExpireCallouts
        BY <2>4 DEF PairingNext, WorkerStep, CalloutStep, Join, Leave, Pop, AskPlayer, GiveUp, ClaimCallout,
                    MatchEnds
      <4> QED
        BY <4>1, <4>2, <4>3, <4>4
    <3> QED
      BY <3>1, <3>2
  <2> QED
    BY <2>1, <2>2, <2>3, <2>4
<1>2. QED
  BY <1>1, InitiallyMeet, MeetIsInductive, PTL DEF PairingSpec, CalloutsAreHonouredOnce

(* Eligibility is asked again when a match is funded: whoever has been on   *)
(* a break, or under a limit below the stake, since before the funding      *)
(* began is not matched, however long ago they queued or called out         *)
(* (createMatchWithStakes).                                                 *)
THEOREM FundingLooksAtThePlayerAgain == PairingSpec => FundingAsksAgain
<1> DEFINE Allowed(i) == matches'[i].players \cap barred[matches'[i].from] = {}
<1>1. MeetInv /\ AskedOK /\ [PairingNext]_pairingVars
        => [\A i \in (1..Len(matches')) \ (1..Len(matches)) : Allowed(i)]_pairingVars
  <2> SUFFICES ASSUME MeetInv, AskedOK, PairingNext, NEW i \in (1..Len(matches')) \ (1..Len(matches))
               PROVE  Allowed(i)
    OBVIOUS
  <2>1. ASSUME NEW f \in Fundings, MakeMatch(f)
        PROVE  Allowed(i)
    <3>1. /\ matches'[i].from = f
          /\ matches'[i].players = {funding[f].players[1], funding[f].players[2]}
      <4>1. matches'[i] = MatchOf(f)
        BY <2>1, MadeMatch
      <4> QED
        BY <4>1 DEF MatchOf
    <3>2. funding[f].asked = 2
      BY <2>1 DEF MakeMatch
    <3>3. funding[f].players[1] \notin barred[f] /\ funding[f].players[2] \notin barred[f]
      BY <3>2 DEF AskedOK
    <3> QED
      BY <3>1, <3>3
  <2>2. \/ \E w \in Workers : FundPair(w)
        \/ \E k \in Callouts : AcceptCallout(k)
    BY OthersMakeNoMatch
  <2> QED
    BY <2>1, <2>2 DEF FundPair, AcceptCallout, Fundings
<1>2. QED
  BY <1>1, InitiallyMeet, MeetIsInductive, InitiallyAsked, AskedIsInductive, PTL
     DEF PairingSpec, FundingAsksAgain
-----------------------------------------------------------------------------
(* What a request of the player decides follows from what it has seen.      *)
EditsAreDecided ==
    \A e \in edits :
        /\ e.what \in Fields =>
              (e.stage <=> e.seen # None /\ e.value # None /\ e.value > e.seen)
        /\ e.what \in Breaks => e.value > now /\ e.value > e.seen

(* A pending limit is above the base it waits to replace, unless a request  *)
(* that was overtaken put it there.                                         *)
PendingIsHigher ==
    \A p \in Players, f \in Fields :
        limits[p][f].pending # None /\ <<p, f>> \notin overtaken
            => limits[p][f].base # None /\ limits[p][f].pending > limits[p][f].base

ToolsInv == SelfOK /\ EditsAreDecided /\ PendingIsHigher

(* A limit is written by a request that nothing overtook: it is decided as  *)
(* it would be now, and a raise goes into a row that nothing overtook.      *)
LEMMA WrittenLimit ==
    ASSUME ToolsInv, NEW e \in edits, WriteLimit(e), <<e.player, e.what>> \notin overtaken'
    PROVE  LET row == limits[e.player][e.what] IN
           /\ e.stage <=> IsRaise(row, e.value)
           /\ e.stage => <<e.player, e.what>> \notin overtaken
<1>1. overtaken' = Overtaken(e, Effective(limits[e.player][e.what])) /\ e.what \in Fields
  BY DEF WriteLimit
<1>2. e.seen = Effective(limits[e.player][e.what])
  BY <1>1 DEF Overtaken
<1>3. e.stage => <<e.player, e.what>> \notin overtaken
  BY <1>1, <1>2 DEF Overtaken
<1>4. e.stage <=> e.seen # None /\ e.value # None /\ e.value > e.seen
  BY <1>1 DEF ToolsInv, EditsAreDecided
<1> QED
  BY <1>2, <1>3, <1>4 DEF IsRaise

LEMMA ToolsAreInductive == ToolsInv /\ [SaferNext]_saferVars => ToolsInv'
<1> SUFFICES ASSUME ToolsInv, [SaferNext]_saferVars PROVE ToolsInv'
  OBVIOUS
<1>a. Fields \cap Breaks = {} /\ Editors \subseteq Players /\ Sums \subseteq Nat /\ None \notin Sums
  BY LimitsAssumption
<1>b. SelfOK'
  <2>1. CASE SaferNext
    BY <2>1, EditsKeepSelfOK DEF ToolsInv
  <2>2. CASE UNCHANGED saferVars
    BY <2>2 DEF saferVars, ToolsInv, SelfOK
  <2> QED
    BY <2>1, <2>2
<1>1. ASSUME NEW p \in Editors, NEW f \in Fields, NEW amount \in Sums \cup {None},
             SetLimit(p, f, amount)
      PROVE  ToolsInv'
  <2> DEFINE inForce == Effective(limits[p][f])
             e == Edit(p, f, inForce, IsRaise(limits[p][f], amount), amount)
  <2>1. /\ e.what = f /\ e.value = amount /\ e.seen = inForce
        /\ e.stage <=> inForce # None /\ amount # None /\ amount > inForce
    BY DEF Edit, IsRaise
  <2> HIDE DEF inForce
  <2>2. edits' = edits \cup {e} /\ UNCHANGED <<now, limits, until, overtaken>>
    BY <1>1 DEF SetLimit, inForce
  <2> HIDE DEF e
  <2>3. EditsAreDecided'
    BY <1>a, <2>1, <2>2 DEF ToolsInv, EditsAreDecided
  <2> QED
    BY <1>b, <2>2, <2>3 DEF ToolsInv, PendingIsHigher
<1>2. ASSUME NEW p \in Editors, NEW b \in Breaks, NEW t \in Times, StartBreak(p, b, t)
      PROVE  ToolsInv'
  <2> DEFINE e == Edit(p, b, until[p][b], FALSE, t)
  <2>1. e.what = b /\ e.value = t /\ e.seen = until[p][b]
    BY DEF Edit
  <2>2. /\ edits' = edits \cup {e} /\ UNCHANGED <<now, limits, until, overtaken>>
        /\ t > now /\ t > until[p][b]
    BY <1>2 DEF StartBreak, Extends
  <2> HIDE DEF e
  <2>3. EditsAreDecided'
    BY <1>a, <2>1, <2>2 DEF ToolsInv, EditsAreDecided
  <2> QED
    BY <1>b, <2>2, <2>3 DEF ToolsInv, PendingIsHigher
<1>3. ASSUME NEW p \in Editors, NEW b \in Breaks, LiftBreak(p, b)
      PROVE  ToolsInv'
  BY <1>3, <1>b DEF LiftBreak, ToolsInv, EditsAreDecided, PendingIsHigher
<1>4. ASSUME NEW e \in edits, WriteLimit(e)
      PROVE  ToolsInv'
  <2> DEFINE p == e.player
             f == e.what
             old == limits[p][f]
             new == IF e.stage THEN [old EXCEPT !.pending = e.value, !.raisedAt = now]
                    ELSE [NoLimit EXCEPT !.base = e.value]
  <2>1. /\ p \in Players /\ f \in Fields /\ e.value \in Sums \cup {None} /\ old \in Limits
    BY <1>4 DEF ToolsInv, SelfOK, WriteLimit
  <2>2. /\ limits' = [limits EXCEPT ![p][f] = new]
        /\ edits' = edits \ {e} /\ UNCHANGED <<now, until>>
        /\ \A column : column # <<p, f>> => (column \in overtaken' <=> column \in overtaken)
    BY <1>4 DEF WriteLimit, Overtaken
  <2>3. new.pending # None /\ <<p, f>> \notin overtaken'
           => new.base # None /\ new.pending > new.base
    <3>1. CASE e.stage /\ <<p, f>> \notin overtaken'
      <4>1. IsRaise(old, e.value) /\ <<p, f>> \notin overtaken
        BY <1>4, <3>1, WrittenLimit
      <4>2. /\ new.pending = e.value /\ new.base = old.base
            /\ Effective(old) # None /\ e.value # None /\ e.value > Effective(old)
        BY <2>1, <3>1, <4>1 DEF IsRaise, Limits
      <4>3. Effective(old) = old.base \/ (old.pending # None /\ Effective(old) = old.pending)
        BY DEF Effective
      <4>4. old.pending # None => old.base # None /\ old.pending > old.base
        BY <2>1, <4>1 DEF ToolsInv, PendingIsHigher
      <4>5. old.base \in Nat \cup {None} /\ old.pending \in Nat \cup {None} /\ e.value \in Nat \cup {None}
        BY <1>a, <2>1 DEF Limits
      <4> QED
        BY <4>2, <4>3, <4>4, <4>5
    <3>2. CASE ~e.stage
      BY <3>2 DEF NoLimit
    <3> QED
      BY <3>1, <3>2
  <2> HIDE DEF new
  <2>4. /\ limits'[p][f] = new
        /\ \A q \in Players, g \in Fields : (q # p \/ g # f) => limits'[q][g] = limits[q][g]
    BY <2>1, <2>2 DEF ToolsInv, SelfOK
  <2>5. PendingIsHigher'
    <3> SUFFICES ASSUME NEW q \in Players, NEW g \in Fields,
                        limits'[q][g].pending # None, <<q, g>> \notin overtaken'
                 PROVE  limits'[q][g].base # None /\ limits'[q][g].pending > limits'[q][g].base
      BY DEF PendingIsHigher
    <3>1. CASE q = p /\ g = f
      BY <2>3, <2>4, <3>1
    <3>2. CASE q # p \/ g # f
      BY <2>2, <2>4, <3>2 DEF ToolsInv, PendingIsHigher
    <3> QED
      BY <3>1, <3>2
  <2>6. EditsAreDecided'
    BY <2>2 DEF ToolsInv, EditsAreDecided
  <2> QED
    BY <1>b, <2>5, <2>6 DEF ToolsInv
<1>5. ASSUME NEW e \in edits, WriteBreak(e)
      PROVE  ToolsInv'
  <2>1. /\ edits' = edits \ {e} /\ UNCHANGED <<now, limits>> /\ e.what \notin Fields
        /\ \A column : column # <<e.player, e.what>> => (column \in overtaken' <=> column \in overtaken)
    BY <1>5, <1>a DEF WriteBreak, Overtaken
  <2>2. EditsAreDecided'
    BY <2>1 DEF ToolsInv, EditsAreDecided
  <2>3. \A q \in Players, g \in Fields : <<q, g>> \in overtaken' <=> <<q, g>> \in overtaken
    BY <2>1
  <2>4. PendingIsHigher'
    BY <2>1, <2>3 DEF ToolsInv, PendingIsHigher
  <2> QED
    BY <1>b, <2>2, <2>4 DEF ToolsInv
<1>6. CASE Tick
  BY <1>6, <1>b DEF Tick, ToolsInv, EditsAreDecided, PendingIsHigher
<1>7. CASE UNCHANGED saferVars
  BY <1>7, <1>b DEF saferVars, ToolsInv, EditsAreDecided, PendingIsHigher
<1> QED
  BY <1>1, <1>2, <1>3, <1>4, <1>5, <1>6, <1>7 DEF SaferNext, EditOf

LEMMA InitiallyTools == PairingInit => ToolsInv
<1> SUFFICES ASSUME PairingInit PROVE ToolsInv
  OBVIOUS
<1>1. SelfOK
  BY InitiallyMeet DEF MeetInv
<1>2. EditsAreDecided /\ PendingIsHigher
  BY DEF PairingInit, SaferInit, EditsAreDecided, PendingIsHigher, NoLimit
<1> QED
  BY <1>1, <1>2 DEF ToolsInv

(* Everything in Pairing that is not one of the player's tools leaves them   *)
(* alone.                                                                    *)
LEMMA ToolsChangeByToolsOnly == [PairingNext]_pairingVars => [SaferNext]_saferVars
  BY DEF PairingNext, WorkerStep, CalloutStep, Join, Leave, Pop, AskPlayer, FundPair, GiveUp,
         CreateCallout, ClaimCallout, AcceptCallout, CalloutLapses, ExpireCallouts, MatchEnds, pairingVars

LEMMA LimitsDoNotGrow ==
    ASSUME Cooling > 0, ToolsInv, [SaferNext]_saferVars,
           NEW p \in Players, NEW f \in Fields
    PROVE  LET old == Effective(limits[p][f])  new == Effective(limits[p][f])'
           IN  old # None /\ new # None /\ new > old => now' > now \/ <<p, f>> \in overtaken'
<1> DEFINE old == Effective(limits[p][f])
           new == Effective(limits[p][f])'
<1>a. Sums \subseteq Nat /\ None \notin Sums /\ Fields \cap Breaks = {}
  BY LimitsAssumption
<1>b. limits[p][f] \in Limits
  BY DEF ToolsInv, SelfOK
<1>c. old \in Nat \cup {None}
  BY <1>a, <1>b, EffectiveIsTyped
<1>1. CASE limits'[p][f] = limits[p][f] /\ now' = now
  <2>1. new = old
    BY <1>1 DEF Effective
  <2> QED
    BY <1>c, <2>1
<1>2. CASE Tick
  BY <1>2 DEF Tick, ToolsInv, SelfOK
<1>3. ASSUME NEW e \in edits, WriteLimit(e), e.player = p, e.what = f, <<p, f>> \notin overtaken'
      PROVE  ~(old # None /\ new # None /\ new > old)
  <2> DEFINE row == limits[p][f]
  <2>1. /\ e.value \in Sums \cup {None} /\ now \in Nat
        /\ e.stage <=> IsRaise(row, e.value)
        /\ e.stage => <<p, f>> \notin overtaken
    BY <1>3, WrittenLimit DEF ToolsInv, SelfOK
  <2>2. /\ now' = now
        /\ limits'[p][f] = IF e.stage THEN [row EXCEPT !.pending = e.value, !.raisedAt = now]
                           ELSE [NoLimit EXCEPT !.base = e.value]
    BY <1>3 DEF WriteLimit, ToolsInv, SelfOK
  <2>3. CASE e.stage
    <3>1. limits'[p][f].base = row.base /\ limits'[p][f].raisedAt = now
      BY <1>b, <2>1, <2>2, <2>3 DEF Limits
    <3>2. new = row.base
      BY <2>1, <2>2, <3>1, HoursAssumption DEF Effective
    <3>3. old = row.base \/ (row.pending # None /\ old = row.pending)
      BY DEF Effective
    <3>4. row.pending # None => row.base # None /\ row.pending > row.base
      BY <2>1, <2>3 DEF ToolsInv, PendingIsHigher
    <3>5. row.base \in Nat \cup {None} /\ row.pending \in Nat \cup {None}
      BY <1>a, <1>b DEF Limits
    <3> QED
      BY <3>2, <3>3, <3>4, <3>5
  <2>4. CASE ~e.stage
    <3>1. limits'[p][f].base = e.value /\ limits'[p][f].pending = None
      BY <2>2, <2>4 DEF NoLimit
    <3>2. new = e.value
      BY <3>1 DEF Effective
    <3>3. ~(old # None /\ e.value # None /\ e.value > old)
      BY <2>1, <2>4 DEF IsRaise
    <3> QED
      BY <3>2, <3>3
  <2> QED
    BY <2>3, <2>4
<1>4. ASSUME NEW e \in edits, WriteLimit(e), e.player # p \/ e.what # f
      PROVE  limits'[p][f] = limits[p][f] /\ now' = now
  BY <1>4 DEF WriteLimit, ToolsInv, SelfOK
<1>5. \/ Tick
      \/ \E e \in edits : WriteLimit(e)
      \/ limits'[p][f] = limits[p][f] /\ now' = now
  BY DEF SaferNext, EditOf, SetLimit, StartBreak, LiftBreak, WriteBreak, saferVars
<1> QED
  BY <1>1, <1>2, <1>3, <1>4, <1>5

LEMMA BreaksDoNotShrink ==
    ASSUME ToolsInv, [SaferNext]_saferVars, NEW p \in Players, NEW b \in Breaks
    PROVE  until'[p][b] < until[p][b] => until'[p][b] = 0 \/ <<p, b>> \in overtaken'
<1>1. until[p][b] \in Nat /\ Editors \subseteq Players
  BY HoursAssumption, LimitsAssumption DEF ToolsInv, SelfOK, Times
<1>2. CASE until' = until
  BY <1>1, <1>2
<1>3. ASSUME NEW q \in Editors, NEW c \in Breaks, LiftBreak(q, c)
      PROVE  until'[p][b] = until[p][b] \/ until'[p][b] = 0
  BY <1>1, <1>3 DEF LiftBreak, ToolsInv, SelfOK
<1>4. ASSUME NEW e \in edits, WriteBreak(e), <<p, b>> \notin overtaken'
      PROVE  until'[p][b] = until[p][b] \/ until'[p][b] > until[p][b]
  <2>1. /\ e.what \in Breaks /\ e.player \in Players /\ e.value > e.seen
        /\ until' = [until EXCEPT ![e.player][e.what] = e.value]
        /\ overtaken' = Overtaken(e, until[e.player][e.what])
    BY <1>4 DEF WriteBreak, ToolsInv, SelfOK, EditsAreDecided
  <2>2. CASE e.player = p /\ e.what = b
    <3>1. e.seen = until[p][b]
      BY <1>4, <2>1, <2>2 DEF Overtaken
    <3> QED
      BY <2>1, <2>2, <3>1 DEF ToolsInv, SelfOK
  <2>3. CASE e.player # p \/ e.what # b
    BY <2>1, <2>3 DEF ToolsInv, SelfOK
  <2> QED
    BY <2>2, <2>3
<1>5. ASSUME NEW e \in edits, WriteBreak(e)
      PROVE  until'[p][b] \in Nat
  <2>1. /\ e.what \in Breaks /\ e.player \in Players /\ e.value \in Nat
        /\ until' = [until EXCEPT ![e.player][e.what] = e.value]
    BY <1>5, HoursAssumption DEF WriteBreak, ToolsInv, SelfOK, Times
  <2> QED
    BY <1>1, <2>1 DEF ToolsInv, SelfOK
<1>6. \/ until' = until
      \/ \E q \in Editors, c \in Breaks : LiftBreak(q, c)
      \/ \E e \in edits : WriteBreak(e)
  BY DEF SaferNext, EditOf, SetLimit, StartBreak, WriteLimit, Tick, saferVars
<1> QED
  BY <1>1, <1>2, <1>3, <1>4, <1>5, <1>6

(* What a player set against themselves, the player cannot undo at once: no  *)
(* request lets a limit in force grow, and none shortens a break, unless     *)
(* another request of the player overtook it (saferPlay/service.js).         *)
THEOREM SelfProtection ==
    ASSUME Cooling > 0
    PROVE  PairingSpec => SelfProtectionHolds
<1>1. ToolsInv /\ [PairingNext]_pairingVars => ToolsInv'
  BY ToolsChangeByToolsOnly, ToolsAreInductive
<1>2. ToolsInv /\ [PairingNext]_pairingVars =>
         [\A p \in Players, f \in Fields :
             LET old == Effective(limits[p][f])  new == Effective(limits[p][f])'
             IN  old # None /\ new # None /\ new > old
                    => now' > now \/ <<p, f>> \in overtaken']_saferVars
  BY ToolsChangeByToolsOnly, LimitsDoNotGrow
<1>3. ToolsInv /\ [PairingNext]_pairingVars =>
         [\A p \in Players, b \in Breaks :
             until'[p][b] < until[p][b] => until'[p][b] = 0 \/ <<p, b>> \in overtaken']_saferVars
  BY ToolsChangeByToolsOnly, BreaksDoNotShrink
<1>4. QED
  BY <1>1, <1>2, <1>3, InitiallyTools, PTL DEF PairingSpec, SelfProtectionHolds, LimitsGrowByWaiting,
     BreaksAreExtendOnly
=============================================================================

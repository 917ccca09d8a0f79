--------------------------- MODULE ContractServicing ---------------------------
(* The life of one instalment contract from delivery to closure: payments and *)
(* their reversal, late fees and their waiver, the collections case and the   *)
(* promise to pay on it, early settlement, return and cancellation.  Every    *)
(* handler is one database transaction, and one action here; what two of them *)
(* do to each other when they overlap is left to a model of its own.  Written *)
(* off amounts are part of the balances; module WriteOff is what changes them.*)
(*                                                                            *)
(* Amounts are in minor units.  There is no clock: the day an overdue job     *)
(* assesses is an argument of the request, and may go backwards.              *)
EXTENDS Allocation

CONSTANTS Schedule,          \* the installments: principal, profit, due day, late fee
          GraceDays,         \* late_fee_grace_period_days
          MaxFees,           \* late_fee_max_per_contract, 0 for no cap
          DefaultRebatePct,  \* early_settlement_profit_rebate_pct
          StaffReferences,   \* external_reference values of staff payments
          GatewayReferences, \* payment_reference of intents that will settle
          SettleReferences,  \* external_reference values of settlements
          Amounts,           \* amounts of payments
          PromiseAmounts,    \* amounts customers promise
          Days,              \* days an overdue job may assess, and promises name
          RebateAsks,        \* rebates staff may ask for
          StaffVerdicts,     \* statuses staff may set a promise to
          MaxCharges         \* bound: late fees assessed on the contract

ASSUME ServicingAssumption ==
  /\ Schedule \in Seq([principal: Nat, profit: Nat, due: Nat, late_fee: Nat \ {0}])
  /\ \A i, j \in DOMAIN Schedule : i < j => Schedule[i].due < Schedule[j].due
  /\ GraceDays \in Nat /\ MaxFees \in Nat /\ DefaultRebatePct \in 0..100
  /\ Amounts \cup PromiseAmounts \subseteq Nat \ {0} /\ Days \subseteq Nat /\ MaxCharges \in Nat
  /\ RebateAsks \subseteq [kind: {"pct"}, value: 0..100] \cup [kind: {"amount"}, value: Nat]
  /\ StaffVerdicts \subseteq {"pending", "kept", "broken"}

VARIABLES contract,  \* status, and the reason of the one ContractClosure
          unearned,  \* contract.unearned_profit_balance
          inst,      \* the Installment rows
          fees,      \* the LateFeeCharge rows in order of assessed_at
          payments,  \* the Payment rows, with their allocations, in order
          ledger,    \* for each LedgerEntryType the sum of its entries
          case,      \* the latest CollectionCase
          promise,   \* one promise_to_pay activity
          waivers,   \* charges with a pending late_fee.waive request
          rebate     \* the pending settlement.rebate request

money == <<unearned, inst, fees, payments, ledger>>
cvars == <<contract, money, case, promise, waivers, rebate>>

Installments == DOMAIN Schedule
EntryTypes == {"principal_paid", "profit_recognized", "late_fee_paid", "late_fee_waived",
               "profit_rebated", "return_principal_cleared", "return_late_fee_cleared",
               "return_profit_retained", "return_profit_waived",
               "principal_written_off", "profit_written_off", "late_fee_written_off"}
NoRebate == [kind |-> "none", value |-> 0]
NoPromise == [status |-> "none", amount |-> 0, date |-> 0, since |-> 0]

-------------------------------------------------------------------------------
\* The properties of Installment and LateFeeCharge, for any row x.
principal_outstanding(x) == x.principal - x.principal_paid - x.principal_written_off

\* Mutant of profit_outstanding: profit written off is still outstanding.
profit_outstandingUnlessPaid(x) == x.profit - x.profit_paid

profit_outstanding(x) == x.profit - x.profit_paid - x.profit_written_off
is_fully_paid(x) == principal_outstanding(x) <= 0 /\ profit_outstanding(x) <= 0
has_any_payment(x) == x.principal_paid > 0 \/ x.profit_paid > 0
fee_outstanding(c) == IF c.status = "waived" THEN 0
                      ELSE c.amount - c.amount_paid - c.amount_written_off

\* The charges that were not waived, and those of them of installment i.
NotWaived(c) == c.status # "waived"
Live(charges) == {k \in DOMAIN charges : NotWaived(charges[k])}
LiveOf(charges, i) == {k \in Live(charges) : charges[k].installment = i}

late_fee_outstanding(i) ==
  SumFunction([k \in DOMAIN fees |->
                 IF fees[k].installment = i THEN fee_outstanding(fees[k]) ELSE 0])

\* build_receivable: what the contract owes, installment by installment.
Receivable == [i \in Installments |-> [late_fee  |-> late_fee_outstanding(i),
                                       profit    |-> profit_outstanding(inst[i]),
                                       principal |-> principal_outstanding(inst[i])]]

Post(entries) == ledger' = [t \in EntryTypes |->
                              ledger[t] + IF t \in DOMAIN entries THEN entries[t] ELSE 0]

\* _paid_since: every Payment row received since, whatever became of it.
PaidSince(rows, since) ==
  SumFunction([n \in DOMAIN rows |-> IF n > since THEN rows[n].amount ELSE 0])

Unused(reference) == \A n \in DOMAIN payments : payments[n].reference # reference
HasOverdue == \E i \in Installments : inst[i].status = "overdue"
open_case_if_needed == case' = "open"
-------------------------------------------------------------------------------
Init ==
  /\ contract = [status |-> "created", closure |-> "none"]
  /\ inst = [i \in Installments |->
               [principal |-> Schedule[i].principal, profit |-> Schedule[i].profit,
                principal_paid |-> 0, profit_paid |-> 0,
                principal_written_off |-> 0, profit_written_off |-> 0,
                status |-> "pending"]]
  /\ unearned = SumFunction([i \in Installments |-> Schedule[i].profit])
  /\ fees = <<>> /\ payments = <<>>
  /\ ledger = [t \in EntryTypes |-> 0]
  /\ case = "none" /\ promise = NoPromise
  /\ waivers = {} /\ rebate = NoRebate

\* confirm_delivery.
ConfirmDelivery ==
  /\ contract.status = "created"
  /\ contract' = [contract EXCEPT !.status = "active"]
  /\ UNCHANGED <<money, case, promise, waivers, rebate>>

\* cancel_contract: before delivery; the schedule is left as it is.
CancelContract ==
  /\ contract.status = "created"
  /\ contract' = [status |-> "closed", closure |-> "cancellation"]
  /\ unearned' = 0
  /\ UNCHANGED <<inst, fees, payments, ledger, case, promise, waivers, rebate>>
-------------------------------------------------------------------------------
\* A payment and what it sets off.

\* _apply_late_fee: what each charge gets from the line of installment i, the
\* oldest first; charges of others, and waived ones, are passed over.
FeeParts(plan) ==
  [i \in Installments |->
     Spread(plan[i].late_fee,
            [k \in DOMAIN fees |-> IF k \in LiveOf(fees, i)
                                   THEN fees[k].amount - fees[k].amount_paid ELSE 0])]

PaidFee(c, part) ==
  IF part = 0 THEN c
  ELSE [c EXCEPT !.amount_paid = @ + part,
                 !.status = IF c.amount_paid + part >= c.amount THEN "paid" ELSE @]

PayFees(plan) ==
  LET parts == FeeParts(plan)
  IN fees' = [k \in DOMAIN fees |-> PaidFee(fees[k], parts[fees[k].installment][k])]

\* _update_installment_status.
StatusAfterPayment(x) ==
  IF is_fully_paid(x) THEN "paid"
  ELSE IF x.status = "overdue" \/ ~has_any_payment(x) THEN x.status ELSE "partially_paid"

PayInstallments(plan) ==
  inst' = [i \in Installments |->
             IF LineTotal(plan[i]) = 0 THEN inst[i]
             ELSE LET x == [inst[i] EXCEPT !.profit_paid = @ + plan[i].profit,
                                           !.principal_paid = @ + plan[i].principal]
                  IN [x EXCEPT !.status = StatusAfterPayment(x)]]

\* Mutant of KeepPromise: the new row is not yet flushed when the sum is read.
KeepPromiseBeforeFlush ==
  promise' = IF /\ promise.status = "pending"
                /\ PaidSince(payments, promise.since) >= promise.amount
             THEN [promise EXCEPT !.status = "kept"] ELSE promise

\* evaluate_promises_after_payment.
KeepPromise ==
  promise' = IF /\ promise.status = "pending"
                /\ PaidSince(payments', promise.since) >= promise.amount
             THEN [promise EXCEPT !.status = "kept"] ELSE promise

\* close_case_if_cleared.
CloseCaseIfCleared == case' = IF case = "open" /\ ~HasOverdue' THEN "cleared" ELSE case

\* What close_if_fully_repaid asks of the installments and the receivable.
Repaid ==
  /\ \A i \in Installments : inst[i].status = "paid"
  /\ Column(Receivable, "principal") + Column(Receivable, "profit") <= 0
  /\ Column(Receivable, "late_fee") <= 0

\* record_payment of a new reference: a replay of one returns the old payment,
\* and an amount above the total outstanding is refused.
RecordPayment(source, reference, amount) ==
  LET plan == allocate(amount, Receivable)
  IN /\ contract.status = "active"
     /\ Unused(reference)
     /\ amount <= Total(Receivable)
     /\ payments' = Append(payments, [reference |-> reference, source |-> source,
                                      amount |-> amount, status |-> "applied", lines |-> plan])
     /\ PayFees(plan)
     /\ PayInstallments(plan)
     /\ unearned' = unearned - Column(plan, "profit")
     /\ Post([late_fee_paid |-> Column(plan, "late_fee"),
              profit_recognized |-> Column(plan, "profit"),
              principal_paid |-> Column(plan, "principal")])
     /\ KeepPromise
     /\ CloseCaseIfCleared
     /\ contract' = IF Repaid' THEN [status |-> "closed", closure |-> "normal"] ELSE contract
     /\ UNCHANGED <<waivers, rebate>>
-------------------------------------------------------------------------------
\* Money taken back.

\* _reverse_late_fee: the charges of installment i give back what they got, the
\* latest first, whichever of them the payment had reached.
Latest(k) == Len(fees) + 1 - k
FeesBack(lines) ==
  [i \in Installments |->
     Spread(lines[i].late_fee,
            [k \in DOMAIN fees |-> IF fees[Latest(k)].installment = i
                                   THEN fees[Latest(k)].amount_paid ELSE 0])]

UnpaidFee(c, part) ==
  [c EXCEPT !.amount_paid = @ - part,
            !.status = IF @ = "paid" /\ c.amount_paid - part < c.amount
                       THEN "assessed" ELSE @]

ReverseFees(lines) ==
  LET parts == FeesBack(lines)
  IN fees' = [k \in DOMAIN fees |->
                UnpaidFee(fees[k], parts[fees[k].installment][Latest(k)])]

\* _update_status_after_reversal.
StatusAfterReversal(x) ==
  IF is_fully_paid(x) THEN "paid"
  ELSE IF has_any_payment(x) THEN "partially_paid" ELSE "pending"

\* Mutant of ReverseInstallments: the status is left for the overdue job.
ReverseInstallmentsKeepStatus(lines) ==
  inst' = [i \in Installments |->
             [inst[i] EXCEPT !.profit_paid = @ - lines[i].profit,
                             !.principal_paid = @ - lines[i].principal]]

ReverseInstallments(lines) ==
  inst' = [i \in Installments |->
             IF LineTotal(lines[i]) = 0 THEN inst[i]
             ELSE LET x == [inst[i] EXCEPT !.profit_paid = @ - lines[i].profit,
                                           !.principal_paid = @ - lines[i].principal]
                  IN [x EXCEPT !.status = StatusAfterReversal(x)]]

\* Mutant of UnearnProfit: profit stays recognised.
UnearnProfitNever(lines) == UNCHANGED unearned

UnearnProfit(lines) == unearned' = unearned + Column(lines, "profit")

\* Mutant of PostReversal: late fees are not taken back.
PostReversalWithoutFees(lines) ==
  Post([profit_recognized |-> -Column(lines, "profit"),
        principal_paid |-> -Column(lines, "principal")])

PostReversal(lines) ==
  Post([late_fee_paid |-> -Column(lines, "late_fee"),
        profit_recognized |-> -Column(lines, "profit"),
        principal_paid |-> -Column(lines, "principal")])

\* reverse_settled_payment of payments[n], whatever has become of the contract.
\* The compensating row repeats the amount and the status; only its allocations
\* are negative.
ReverseSettledPayment(n) ==
  LET original == payments[n]
      lines == original.lines
  IN /\ original.source = "gateway" /\ original.status # "reversed"
     /\ payments' = Append([payments EXCEPT ![n].status = "reversed"],
                           [original EXCEPT !.reference = <<@, "REV">>, !.status = "reversed"])
     /\ ReverseFees(lines)
     /\ ReverseInstallments(lines)
     /\ UnearnProfit(lines)
     /\ PostReversal(lines)
     /\ open_case_if_needed
     /\ UNCHANGED <<contract, promise, waivers, rebate>>
-------------------------------------------------------------------------------
\* The overdue job.

\* The installments assess_overdue selects, as of a day.
PastDue(day) ==
  IF contract.status # "active" THEN {}
  ELSE {i \in Installments : Schedule[i].due < day /\ inst[i].status # "paid"}

NewlyOverdue(day) ==
  {i \in PastDue(day) : ~is_fully_paid(inst[i]) /\ inst[i].status # "overdue"}

MarkOverdue(day) ==
  inst' = [i \in Installments |-> IF i \in NewlyOverdue(day)
                                  THEN [inst[i] EXCEPT !.status = "overdue"] ELSE inst[i]]

\* Mutant of Chargeable: a late fee that is paid does not count as charged.
ChargeableAgain(i, day) ==
  /\ day - Schedule[i].due > GraceDays
  /\ \A k \in LiveOf(fees, i) : fees[k].status # "assessed"

\* An installment has at most one charge that was not waived.
Chargeable(i, day) == day - Schedule[i].due > GraceDays /\ LiveOf(fees, i) = {}

FeeTotal(charges) ==
  SumFunction([k \in DOMAIN charges |->
                 IF NotWaived(charges[k]) THEN charges[k].amount ELSE 0])

\* Mutant of WithinCap: only what earlier runs charged is compared with the cap.
WithinCapBeforeThisRun(charges, fee) == MaxFees = 0 \/ FeeTotal(fees) + fee <= MaxFees

WithinCap(charges, fee) == MaxFees = 0 \/ FeeTotal(charges) + fee <= MaxFees

\* The charges after one installment of the job's loop.
Assess(charges, i, day) ==
  IF i \in PastDue(day) /\ Chargeable(i, day) /\ WithinCap(charges, Schedule[i].late_fee)
  THEN Append(charges, [installment |-> i, amount |-> Schedule[i].late_fee,
                        amount_paid |-> 0, amount_written_off |-> 0,
                        status |-> "assessed"])
  ELSE charges

AssessFees(day) ==
  LET charges[i \in {0} \cup Installments] ==
        IF i = 0 THEN fees ELSE LET before == charges[i - 1] IN Assess(before, i, day)
  IN fees' = charges[Len(Schedule)]

\* Mutant of OpenCase: a contract that had a case before gets no second one.
OpenFirstCase(day) ==
  IF NewlyOverdue(day) # {} /\ case = "none" THEN open_case_if_needed ELSE UNCHANGED case

OpenCase(day) ==
  IF NewlyOverdue(day) # {} THEN open_case_if_needed ELSE UNCHANGED case

\* evaluate_overdue_promises, which asks nothing of the contract.
BreakPromise(day) ==
  promise' = IF /\ promise.status = "pending" /\ promise.date < day
                /\ PaidSince(payments, promise.since) < promise.amount
             THEN [promise EXCEPT !.status = "broken"] ELSE promise

AssessOverdue(day) ==
  /\ MarkOverdue(day)
  /\ AssessFees(day)
  /\ Len(fees') <= MaxCharges
  /\ OpenCase(day)
  /\ BreakPromise(day)
  /\ UNCHANGED <<contract, unearned, payments, ledger, waivers, rebate>>
-------------------------------------------------------------------------------
\* Waivers and promises.

\* request_waiver: of a charge, whatever the status of its contract.
RequestWaiver(k) ==
  /\ fees[k].status = "assessed" /\ k \notin waivers
  /\ waivers' = waivers \cup {k}
  /\ UNCHANGED <<contract, money, case, promise, rebate>>

\* decide on a late_fee.waive request, by another user than its maker.  The
\* charge may have been paid since.
ApproveWaiver(k) ==
  LET waived == fees[k].amount - fees[k].amount_paid
  IN /\ k \in waivers
     /\ waivers' = waivers \ {k}
     /\ fees' = [fees EXCEPT ![k].status = "waived"]
     /\ Post([late_fee_waived |-> Max({0, waived})])
     /\ UNCHANGED <<contract, unearned, inst, payments, case, promise, rebate>>

RejectWaiver(k) ==
  /\ k \in waivers
  /\ waivers' = waivers \ {k}
  /\ UNCHANGED <<contract, money, case, promise, rebate>>

\* log_activity of a promise_to_pay, on an open or a closed case.
LogPromise(amount, day) ==
  /\ case # "none" /\ promise.status = "none"
  /\ promise' = [status |-> "pending", amount |-> amount, date |-> day,
                 since |-> Len(payments)]
  /\ UNCHANGED <<contract, money, case, waivers, rebate>>

\* set_promise_status: the manual override.
SetPromiseStatus(verdict) ==
  /\ promise.status # "none"
  /\ promise' = [promise EXCEPT !.status = verdict]
  /\ UNCHANGED <<contract, money, case, waivers, rebate>>
-------------------------------------------------------------------------------
\* Early settlement and return.

Percent(pct) == (unearned * pct + 50) \div 100
RebateOf(ask) == IF ask.kind = "pct" THEN Percent(ask.value) ELSE ask.value
is_deviation(ask) == RebateOf(ask) # Percent(DefaultRebatePct)
Default == [kind |-> "pct", value |-> DefaultRebatePct]

\* build_settlement_quote with a rebate: what it asks, and its parts.
Quotable(ask) == contract.status = "active" /\ (ask.kind = "amount" => ask.value <= unearned)
Quote(ask) == [principal |-> Column(Receivable, "principal"),
               late_fees |-> Column(Receivable, "late_fee"),
               charged |-> unearned - RebateOf(ask),
               rebate |-> RebateOf(ask)]
Payoff(quote) == quote.principal + quote.late_fees + quote.charged

\* Mutant of CloseOutFees: charges are left as they are.
CloseOutFeesNever == UNCHANGED fees

CloseOutFees ==
  fees' = [k \in DOMAIN fees |->
             IF fees[k].status = "waived" THEN fees[k]
             ELSE [fees[k] EXCEPT !.amount_paid = fees[k].amount, !.status = "paid"]]

\* _close_out_schedule.
CloseOutSchedule ==
  /\ inst' = [i \in Installments |->
                [inst[i] EXCEPT !.principal_paid = inst[i].principal,
                                !.profit_paid = inst[i].profit, !.status = "paid"]]
  /\ CloseOutFees
  /\ unearned' = 0

\* settle_contract for exactly the payoff.  The open case and the promise are
\* not told.
SettleContract(ask, reference) ==
  LET quote == Quote(ask)
  IN /\ Quotable(ask) /\ Unused(reference)
     /\ payments' = Append(payments,
                      [reference |-> reference, source |-> "staff", amount |-> Payoff(quote),
                       status |-> "applied",
                       lines |-> [i \in Installments |->
                                    [late_fee |-> 0, profit |-> 0, principal |-> 0]]])
     /\ CloseOutSchedule
     /\ contract' = [status |-> "closed", closure |-> "early_settlement"]
     /\ Post([principal_paid |-> Max({0, quote.principal}),
              late_fee_paid |-> Max({0, quote.late_fees}),
              profit_recognized |-> Max({0, quote.charged}),
              profit_rebated |-> Max({0, quote.rebate})])
     /\ UNCHANGED <<case, promise, waivers>>

\* POST /settle with the default rebate, for an amount that must be positive.
Settle(reference) ==
  /\ Payoff(Quote(Default)) > 0
  /\ SettleContract(Default, reference)
  /\ UNCHANGED rebate

\* POST /settle with another rebate makes a request instead.
RequestRebate(ask) ==
  /\ Quotable(ask) /\ is_deviation(ask) /\ rebate = NoRebate
  /\ rebate' = ask
  /\ UNCHANGED <<contract, money, case, promise, waivers>>

\* decide on it: the quote is built again from the balances of that moment.
ApproveRebate(reference) ==
  /\ rebate # NoRebate
  /\ SettleContract(rebate, reference)
  /\ rebate' = NoRebate

RejectRebate ==
  /\ rebate # NoRebate
  /\ rebate' = NoRebate
  /\ UNCHANGED <<contract, money, case, promise, waivers>>

\* return_contract: cleared as a settlement clears, and nothing is received.
ReturnContract ==
  LET quote == Quote(Default)
  IN /\ contract.status = "active"
     /\ CloseOutSchedule
     /\ contract' = [status |-> "closed", closure |-> "return"]
     /\ Post([return_principal_cleared |-> Max({0, quote.principal}),
              return_late_fee_cleared |-> Max({0, quote.late_fees}),
              return_profit_retained |-> Max({0, quote.charged}),
              return_profit_waived |-> Max({0, quote.rebate})])
     /\ UNCHANGED <<payments, case, promise, waivers, rebate>>
-------------------------------------------------------------------------------
ServicingNext ==
  \/ ConfirmDelivery
  \/ CancelContract
  \/ \E a \in Amounts : \E r \in StaffReferences : RecordPayment("staff", r, a)
  \/ \E a \in Amounts : \E r \in GatewayReferences : RecordPayment("gateway", r, a)
  \/ \E n \in DOMAIN payments : ReverseSettledPayment(n)
  \/ \E day \in Days : AssessOverdue(day)
  \/ \E k \in DOMAIN fees : RequestWaiver(k) \/ ApproveWaiver(k) \/ RejectWaiver(k)
  \/ \E a \in PromiseAmounts, day \in Days : LogPromise(a, day)
  \/ \E verdict \in StaffVerdicts : SetPromiseStatus(verdict)
  \/ \E r \in SettleReferences : Settle(r) \/ ApproveRebate(r)
  \/ \E ask \in RebateAsks : RequestRebate(ask)
  \/ RejectRebate
  \/ ReturnContract

ServicingSpec == Init /\ [][ServicingNext]_cvars
-------------------------------------------------------------------------------
Line == [late_fee: Int, profit: Int, principal: Int]

TypeOK ==
  /\ contract \in [status: {"created", "active", "closed"},
                   closure: {"none", "normal", "early_settlement", "cancellation", "return",
                             "write_off"}]
  /\ unearned \in Nat
  /\ DOMAIN inst = Installments
  /\ \A i \in Installments :
       inst[i].status \in {"pending", "partially_paid", "overdue", "paid", "written_off"}
  /\ \A k \in DOMAIN fees :
       fees[k].status \in {"assessed", "waived", "paid", "written_off"}
  /\ \A n \in DOMAIN payments :
       /\ payments[n].status \in {"applied", "reversed"}
       /\ payments[n].lines \in [Installments -> Line]
  /\ ledger \in [EntryTypes -> Int]
  /\ case \in {"none", "open", "cleared", "written_off"}
  /\ promise.status \in {"none", "pending", "kept", "broken"}
  /\ waivers \subseteq DOMAIN fees
  /\ rebate \in RebateAsks \cup {NoRebate}

\* Unearned profit is exactly the profit no payment has recognised: payments,
\* reversals of old payments, settlement and return, in any order, keep the
\* column on the contract and the columns on its installments in step
\* (models/contract.py, "Total profit not yet recognised").
UnearnedAddsUp ==
  contract.closure # "cancellation" =>
    unearned = SumFunction([i \in Installments |-> inst[i].profit - inst[i].profit_paid])

\* Every receipt is in the ledger once: the sum of its cash entries is the sum
\* of the Payment rows whose money was not taken back, though a reversal adds a
\* row with the same positive amount and a settlement has no allocations.
CashEntries == ledger.principal_paid + ledger.profit_recognized + ledger.late_fee_paid
CashIsReceived ==
  CashEntries = SumFunction([n \in DOMAIN payments |->
                               IF payments[n].status = "applied" THEN payments[n].amount ELSE 0])

\* The dual-written ledger rebuilds principal and profit outstanding at any
\* moment, also after a reversal of a payment older than the closure.
LedgerExplainsTheSchedule ==
  /\ Column(Receivable, "principal") =
       SumFunction([i \in Installments |-> inst[i].principal]) - ledger.principal_paid
         - ledger.return_principal_cleared - ledger.principal_written_off
  /\ Column(Receivable, "profit") =
       SumFunction([i \in Installments |-> inst[i].profit]) - ledger.profit_recognized
         - ledger.profit_rebated - ledger.return_profit_retained
         - ledger.return_profit_waived - ledger.profit_written_off

\* What models/ledger.py:61-65 says of the ledger, for late fees: "summing
\* entries by type still reproduces the true balance".
LedgerExplainsTheFees ==
  Column(Receivable, "late_fee") =
    SumFunction([k \in DOMAIN fees |-> fees[k].amount]) - ledger.late_fee_paid
      - ledger.late_fee_waived - ledger.return_late_fee_cleared - ledger.late_fee_written_off

\* The status column tells the balances: paid exactly when principal and profit
\* are, pending only when nothing was paid, and no balance or fee beyond its
\* range, whatever was paid, taken back, settled and charged in between.
ScheduleAgrees ==
  /\ \A i \in Installments :
       /\ inst[i].status = "paid" <=> is_fully_paid(inst[i])
       /\ inst[i].status = "pending" => ~has_any_payment(inst[i])
       /\ inst[i].principal_paid \in 0..inst[i].principal
       /\ inst[i].profit_paid \in 0..inst[i].profit
  /\ \A k \in DOMAIN fees :
       /\ fees[k].amount_paid \in 0..fees[k].amount
       /\ fees[k].status = "paid" => fees[k].amount_paid = fees[k].amount

\* While a contract is being repaid, arrears and an open case go together: a
\* payment that leaves any installment overdue keeps the case, and one that
\* was reversed or a case that was closed before never loses it.
OverdueHasCase ==
  contract.status = "active" /\ HasOverdue => case = "open"

\* However often the job runs, for whatever day, and whatever was waived, paid
\* or reversed meanwhile, an installment bears one late fee at a time.
OneLiveFee == \A i \in Installments : \A k, m \in LiveOf(fees, i) : k = m

\* Fees that were not waived stay within the configured cap, also when one run
\* of the job assesses several (overdue.py:66-71 and 139).  The code's own header,
\* overdue.py:14, and docs/business-rules-catalogue.md:245 and 481 still say that
\* the cap is read and enforced nowhere.
FeesWithinCap == MaxFees > 0 => FeeTotal(fees) <= MaxFees

ReceivedSince(rows, since) ==
  SumFunction([n \in DOMAIN rows |-> IF n > since /\ rows[n].status = "applied"
                                     THEN rows[n].amount ELSE 0])

\* A customer whose money has come is not pursued for a promise: unless staff set
\* it back to pending, a pending promise is short of what was received since and
\* not taken back, whatever was paid before it, reversed, charged or waived
\* meanwhile; and the job breaks none that is not short, not even that of a
\* settled contract, where nothing has looked at the promise since
\* (evaluate_promises_after_payment and evaluate_overdue_promises).  A settlement
\* is the payment after which no one looks.
Short == ReceivedSince(payments, promise.since) < promise.amount
PaidPromiseIsNotPursued ==
  [][/\ promise'.status = "pending" /\ contract'.closure # "early_settlement" => Short'
     /\ promise.status = "pending" /\ promise'.status = "broken"
          /\ (\E day \in Days : AssessOverdue(day)) => Short]_cvars

\* A promise turns kept only when the money received since it was made, and
\* not taken back, covers it (BRD.md:109-111 of the payment gateway, BR-7).
KeptPromiseIsPaid ==
  [][promise.status = "pending" /\ promise'.status = "kept" /\ payments' # payments =>
       ReceivedSince(payments', promise.since) >= promise.amount]_cvars

Account == INSTANCE ContractAccount
             WITH state <- contract.status, owed <- Total(Receivable), cash <- CashEntries

\* The contract is an account: every payment reduces what is owed by what it
\* brings, money taken back is owed at most once, nothing is charged or
\* settled after closing, and closing leaves nothing owed.
KeepsAccount == Account!Spec
===============================================================================

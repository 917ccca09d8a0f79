----------------------------- MODULE GeneralLedger ----------------------------
(* What WriteOff and ContractServicing do to the general ledger: every handler *)
(* emits accounting events in its transaction, and each event is journalled by *)
(* the seeded rule of its type.  The accounts are then compared with the       *)
(* business rows, which are kept by other code.                                *)
EXTENDS WriteOff, PostingRules

CONSTANTS DownPayment,   \* sales_order.down_payment_amount
          CancelRefund,  \* what cancelling pays back of it
          Provision      \* the provision of the contract's only ECL assessment

ASSUME BooksAssumption == DownPayment \in Nat /\ CancelRefund \in 0..DownPayment
                            /\ Provision \in Nat

VARIABLE books           \* debits less credits of each account

gvars == <<wvars, books>>

Event(type, amount) == [type |-> type, amounts |-> EventAmount(amount)]
EventOf(type, amount, row) == [type |-> type, amounts |-> WithRow(EventAmount(amount), row)]
If(condition, events) == IF condition THEN events ELSE <<>>

\* trial_balance_report and general_ledger_report: the lines of an event's
\* journal, account by account.
Enter(accounts, line) ==
  [accounts EXCEPT ![line.account] = @ + IF line.side = "DEBIT" THEN line.amount
                                         ELSE -line.amount]
Journalise(accounts, event) ==
  LET rule == SeededRules[event.type]
      lines == generate_journal(rule, event.amounts).lines
      after[n \in 0..Len(rule)] ==
        IF n = 0 THEN accounts
        ELSE IF n \in DOMAIN lines THEN Enter(after[n - 1], lines[n]) ELSE after[n - 1]
  IN after[Len(rule)]
Book(events) ==
  LET after[n \in 0..Len(events)] ==
        IF n = 0 THEN books ELSE Journalise(after[n - 1], events[n])
  IN books' = after[Len(events)]
-------------------------------------------------------------------------------
\* The events of each handler.

TotalOf(part) == SumFunction([i \in Installments |-> Schedule[i][part]])
Order == [sale_price |-> TotalOf("principal") + TotalOf("profit") + DownPayment,
          total_profit |-> TotalOf("profit"), down_payment |-> DownPayment]

\* confirm_delivery, with the provision of ensure_initial_assessment.
DeliveryEvents ==
  <<EventOf("contract_activated", Order.sale_price, SaleAmounts(Order)),
    Event("down_payment_received", DownPayment)>>
  \o If(Provision > 0, <<Event("ecl_provision_created", Provision)>>)

\* The allocation of the new Payment row.
Allocated(part) == Column(payments'[Len(payments')].lines, part)

\* Mutant of PaymentEvents: the profit is recognised once the payment is full.
PaymentEventsOfLast(amount) ==
  <<Event("payment_received", amount)>>
  \o If(Allocated("profit") > 0 /\ contract'.status = "closed",
        <<Event("profit_recognized", Allocated("profit"))>>)

\* record_payment; closing is a SUMMARY_ONLY event.
PaymentEvents(amount) ==
  <<EventOf("payment_received", amount,
            PaymentAmounts([b \in DOMAIN Nothing |-> Allocated(b)]))>>
  \o If(Allocated("profit") > 0, <<Event("profit_recognized", Allocated("profit"))>>)
  \o If(contract'.status = "closed", <<Event("contract_closed", 0)>>)

\* Mutant of ReversalEvents: a reversal books nothing.
ReversalEventsNone(type, n) == <<>>

ReversalEvents(type, n) == <<Event(type, payments[n].amount)>>

\* assess_overdue: one event for each new charge.
ChargeEvents ==
  [n \in 1..(Len(fees') - Len(fees)) |->
     Event("late_fee_charged", fees'[Len(fees) + n].amount)]

WaiverEvents(k) ==
  LET waived == fees[k].amount - fees[k].amount_paid
  IN If(waived > 0, <<Event("late_fee_waived", waived)>>)

\* _emit_closure_event, read back from the entries the closure has posted.
ClosureEvents(type) ==
  LET posted == [t \in EntryTypes |-> ledger'[t] - ledger[t]]
  IN <<EventOf(type, 0, ClosureAmounts(posted))>>

\* execute_write_off, with the provision of the latest assessment.
ExecutionEvents(n) ==
  LET w == writeOffs[n]
      type == IF w.type = "full" THEN "write_off_executed" ELSE "partial_write_off_executed"
  IN <<EventOf(type, LineTotal(w.asked), ExecutionAmounts(w.asked, Provision))>>
     \o If(Provision > 0, <<Event("ecl_provision_released", -Provision)>>)
-------------------------------------------------------------------------------
BooksInit == WriteOffInit /\ books = [a \in Accounts |-> 0]

\* The handlers that emit, each with its events.
BookedServicing ==
  /\ UNCHANGED writeOffs
  /\ \/ ConfirmDelivery /\ Book(DeliveryEvents)
     \/ CancelContract /\ Book(<<Event("cancellation", CancelRefund)>>)
     \/ \E a \in Amounts :
          \/ \E r \in StaffReferences : RecordPayment("staff", r, a) /\ Book(PaymentEvents(a))
          \/ \E r \in GatewayReferences : RecordPayment("gateway", r, a) /\ Book(PaymentEvents(a))
     \/ \E n \in DOMAIN payments, type \in {"payment_reversed", "refund_completed"} :
          ReverseSettledPayment(n) /\ Book(ReversalEvents(type, n))
     \/ \E day \in Days : AssessOverdue(day) /\ Book(ChargeEvents)
     \/ \E k \in DOMAIN fees : ApproveWaiver(k) /\ Book(WaiverEvents(k))
     \/ \E r \in SettleReferences :
          (Settle(r) \/ ApproveRebate(r)) /\ Book(ClosureEvents("early_settlement"))
     \/ ReturnContract /\ Book(ClosureEvents("return"))

\* The handlers that do not.
Unbooked ==
  /\ UNCHANGED <<writeOffs, books>>
  /\ \/ \E k \in DOMAIN fees : RequestWaiver(k) \/ RejectWaiver(k)
     \/ \E a \in PromiseAmounts, day \in Days : LogPromise(a, day)
     \/ \E verdict \in StaffVerdicts : SetPromiseStatus(verdict)
     \/ \E ask \in RebateAsks : RequestRebate(ask)
     \/ RejectRebate

BookedWriteOff ==
  \/ RequestWriteOff("full", Outstanding) /\ UNCHANGED books
  \/ \E ask \in PartialAsks : RequestWriteOff("partial", ask) /\ UNCHANGED books
  \/ \E n \in DOMAIN writeOffs :
       \/ (DecideWriteOff(n) \/ CancelWriteOff(n)) /\ UNCHANGED books
       \/ ExecuteWriteOff(n) /\ Book(ExecutionEvents(n))
       \/ \E a \in Amounts, order \in RecoveryOrders :
            RecordRecovery(n, a, order) /\ Book(<<Event("recovery_received", a)>>)

BooksNext == BookedServicing \/ Unbooked \/ BookedWriteOff

BooksSpec == BooksInit /\ [][BooksNext]_gvars
-------------------------------------------------------------------------------
Delivered == contract.status = "active" \/ contract.closure \notin {"none", "cancellation"}

\* The control account is the subledger: what the journals leave in the
\* receivable is the schedule and the fees ever charged, less what the ledger
\* entries explain, after any payment, reversal, waiver, settlement, return or
\* write-off (services/coa.py, "Gross customer receivable").  Profit that a
\* return retains is recognised and never leaves the receivable.
ReceivableAccountAgrees ==
  books.receivable =
    IF ~Delivered THEN 0
    ELSE TotalOf("principal") + TotalOf("profit")
           + SumFunction([k \in DOMAIN fees |-> fees[k].amount])
           - CashEntries - ledger.late_fee_waived - ledger.profit_rebated
           - ledger.return_principal_cleared - ledger.return_late_fee_cleared
           - ledger.return_profit_waived
           - ledger.principal_written_off - ledger.profit_written_off
           - ledger.late_fee_written_off

\* Cash in the journals is the money that was received and not taken back:
\* down payment, payments, settlement payments and recoveries.
CashAccountAgrees ==
  books.cash = CashEntries + (IF Delivered THEN DownPayment ELSE 0)
                 + SumFunction([n \in DOMAIN writeOffs |-> LineTotal(writeOffs[n].recovered)])

\* "Contractual profit not yet recognised" is the same amount on the contract
\* and in the journals, as long as no payment is taken back: whichever of
\* payments, rebate, settlement and return recognised or gave up the rest, of
\* which the first two are journalled by what was allocated and the last by what
\* the closure posted.
NoneTakenBack == \A n \in DOMAIN payments : payments[n].status = "applied"
UnearnedAccountAgrees == Delivered /\ NoneTakenBack => books.unearned = -unearned

\* A write-off "uses available ECL allowance first" (services/coa.py:634): the
\* allowance is never drawn below nothing.
AllowanceIsAvailable == books.allowance <= 0
===============================================================================

---------------------------- MODULE ConcurrentRequests ----------------------------
(* Requests on one contract that overlap.  A handler reads its rows, computes, and *)
(* commits; nothing is locked when it reads, and at READ COMMITTED another handler *)
(* may commit in between.  UPDATEs then write values computed from what was read,  *)
(* INSERTs add rows, and only unique keys can refuse.  One installment and one     *)
(* late fee are enough for rows that two requests change.                          *)
EXTENDS Integers, FiniteSets, FiniteSetsExt

CONSTANTS Principal, Fee,   \* what is owed
          Payments,         \* requests that pay: reference and amount
          Deciders,         \* requests that decide on the waiver: approve or not
          WrittenOff,       \* total of a write-off execution
          Recoveries        \* requests that record a recovery: reference and amount

VARIABLES row,       \* columns that are updated in place
          ledger,    \* sums of the LedgerEntry rows by entry type
          inserted,  \* unique keys of the rows inserted
          recovered, \* sum of the Recovery rows
          session    \* what each request has read, and how far it is

vars == <<row, ledger, inserted, recovered, session>>

PaymentKey(r) == <<"payment", Payments[r].reference>>
RecoveryKey(r) == <<"recovery", Recoveries[r].reference>>
WaiverEvent == <<"event", "late-fee-waived">>
ClosureKey == <<"closure">>
Requests == DOMAIN Payments \cup DOMAIN Deciders \cup DOMAIN Recoveries

FeeOutstanding(seen) == IF seen.fee = "assessed" THEN Fee - seen.fee_paid ELSE 0
Outstanding(seen) == Principal - seen.paid + FeeOutstanding(seen)
-------------------------------------------------------------------------------
Read(r) == session' = [session EXCEPT ![r] =
             [step |-> "read", seen |-> row, event |-> FALSE]]
At(r, step) == session[r].step = step
Goes(r, step) == session' = [session EXCEPT ![r].step = step]

\* record_payment up to the allocation: refusals and replays end it here.
ReadForPayment(r) ==
  /\ At(r, "new")
  /\ PaymentKey(r) \notin inserted /\ row.status = "active"
  /\ Payments[r].amount <= Outstanding(row)
  /\ Read(r)
  /\ UNCHANGED <<row, ledger, inserted, recovered>>

\* Late fee first, then principal, of what was read; the last payment closes.
CommitPayment(r) ==
  LET seen == session[r].seen
      fee == Min({Payments[r].amount, FeeOutstanding(seen)})
      principal == Payments[r].amount - fee
      closes == Payments[r].amount = Outstanding(seen)
      keys == {PaymentKey(r)} \cup IF closes THEN {ClosureKey} ELSE {}
  IN
  /\ At(r, "read") /\ keys \cap inserted = {}
  /\ row' = [row EXCEPT !.fee_paid = IF fee > 0 THEN seen.fee_paid + fee ELSE @,
                        !.fee = IF fee > 0 /\ seen.fee_paid + fee = Fee THEN "paid" ELSE @,
                        !.paid = IF principal > 0 THEN seen.paid + principal ELSE @,
                        !.status = IF closes THEN "closed" ELSE @]
  /\ ledger' = [ledger EXCEPT !.principal_paid = @ + principal, !.late_fee_paid = @ + fee]
  /\ inserted' = inserted \cup keys
  /\ Goes(r, "done")
  /\ UNCHANGED recovered

ReadForDecision(r) ==
  /\ At(r, "new") /\ row.approval = "pending"
  /\ Read(r)
  /\ UNCHANGED <<row, ledger, inserted, recovered>>

\* emit looks for the event before it inserts it.
LookForEvent(r) ==
  /\ At(r, "read") /\ Deciders[r]
  /\ session' = [session EXCEPT ![r].step = "looked", ![r].event = WaiverEvent \in inserted]
  /\ UNCHANGED <<row, ledger, inserted, recovered>>

CommitApproval(r) ==
  LET seen == session[r].seen  waived == Fee - seen.fee_paid IN
  /\ At(r, "looked") /\ (WaiverEvent \in inserted => session[r].event)
  /\ row' = [row EXCEPT !.approval = "approved", !.fee = "waived"]
  /\ ledger' = [ledger EXCEPT !.late_fee_waived = @ + waived]
  /\ inserted' = inserted \cup {WaiverEvent}
  /\ Goes(r, "done")
  /\ UNCHANGED recovered

CommitRejection(r) ==
  /\ At(r, "read") /\ ~Deciders[r]
  /\ row' = [row EXCEPT !.approval = "rejected"]
  /\ Goes(r, "done")
  /\ UNCHANGED <<ledger, inserted, recovered>>

ReadForRecovery(r) ==
  /\ At(r, "new") /\ Recoveries[r].amount <= WrittenOff - recovered
  /\ Read(r)
  /\ UNCHANGED <<row, ledger, inserted, recovered>>

CommitRecovery(r) ==
  /\ At(r, "read") /\ RecoveryKey(r) \notin inserted
  /\ recovered' = recovered + Recoveries[r].amount
  /\ inserted' = inserted \cup {RecoveryKey(r)}
  /\ Goes(r, "done")
  /\ UNCHANGED <<row, ledger>>

Init ==
  /\ row = [paid |-> 0, fee_paid |-> 0, fee |-> "assessed", status |-> "active",
            approval |-> "pending"]
  /\ ledger = [principal_paid |-> 0, late_fee_paid |-> 0, late_fee_waived |-> 0]
  /\ inserted = {} /\ recovered = 0
  /\ session = [r \in Requests |->
       [step |-> "new", seen |-> row, event |-> FALSE]]

Next ==
  \/ \E r \in DOMAIN Payments : ReadForPayment(r) \/ CommitPayment(r)
  \/ \E r \in DOMAIN Deciders :
       ReadForDecision(r) \/ LookForEvent(r) \/ CommitApproval(r) \/ CommitRejection(r)
  \/ \E r \in DOMAIN Recoveries : ReadForRecovery(r) \/ CommitRecovery(r)

Spec == Init /\ [][Next]_vars
-------------------------------------------------------------------------------
\* Summing the ledger reproduces what the schedule and the late fee report, as the
\* docstring of services/ledger.py and tests/test_ledger.py have it for requests that
\* come one after the other.
LedgerReproducesTheBalance ==
  /\ ledger.principal_paid = row.paid
  /\ ledger.late_fee_paid = row.fee_paid
  /\ ledger.late_fee_waived = IF row.fee = "waived" THEN Fee - row.fee_paid ELSE 0
===============================================================================

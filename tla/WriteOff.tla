------------------------------- MODULE WriteOff -------------------------------
(* Writing a contract off, next to everything ContractServicing does to it: a *)
(* request with a snapshot of what is outstanding, a second user's decision,  *)
(* the execution as a step of its own, and the recoveries that come in later. *)
(* A request that is not eligible is made as an exception with a reason, so   *)
(* eligibility never keeps a request from being made and is left out.         *)
EXTENDS ContractServicing

CONSTANTS PartialAsks,    \* components a partial request may ask for
          PartialAllowed, \* writeoff_partial_allowed
          RecoveryOrders, \* values recovery_allocation_order takes
          MaxWriteOffs    \* bound: write-off requests made

ASSUME WriteOffAssumption ==
  /\ PartialAsks \subseteq [late_fee: Nat, profit: Nat, principal: Nat]
  /\ PartialAllowed \in BOOLEAN
  /\ RecoveryOrders \subseteq Seq({"late_fee", "profit", "principal"})
  /\ MaxWriteOffs \in Nat

VARIABLE writeOffs   \* the WriteOffRequest rows, with execution and recoveries

wvars == <<cvars, writeOffs>>

Nothing == [late_fee |-> 0, profit |-> 0, principal |-> 0]
Outstanding == [b \in DOMAIN Nothing |-> Column(Receivable, b)]
Within(ask, limit) == \A b \in DOMAIN Nothing : ask[b] <= limit[b]
Status(status) == {n \in DOMAIN writeOffs : writeOffs[n].status = status}
Moves(n, status) == writeOffs' = [writeOffs EXCEPT ![n].status = status]
-------------------------------------------------------------------------------
\* request_write_off: the whole snapshot, or part of each component of it.
RequestWriteOff(type, ask) ==
  /\ contract.status = "active"
  /\ Status("pending") = {}
  /\ Len(writeOffs) < MaxWriteOffs
  /\ \/ type = "full" /\ ask = Outstanding
     \/ type = "partial" /\ PartialAllowed /\ Within(ask, Outstanding) /\ LineTotal(ask) > 0
  /\ writeOffs' = Append(writeOffs, [type |-> type, asked |-> ask, status |-> "pending",
                                     recovered |-> Nothing])
  /\ UNCHANGED cvars

\* decide on it, by another user than the one who asked.
DecideWriteOff(n) ==
  /\ n \in Status("pending")
  /\ \E status \in {"approved", "rejected"} : Moves(n, status)
  /\ UNCHANGED cvars

\* cancel_request, which also rejects the approval request that goes with it.
CancelWriteOff(n) ==
  /\ n \in Status("pending")
  /\ Moves(n, "cancelled")
  /\ UNCHANGED cvars

\* _write_off_installment_component for both components, oldest first.
SweepInstallments(ask) ==
  LET rows == Receivable
      part(b) == Spread(ask[b], [i \in Installments |-> rows[i][b]])
      swept(i) == [inst[i] EXCEPT !.principal_written_off = @ + part("principal")[i],
                                  !.profit_written_off = @ + part("profit")[i]]
  IN inst' = [i \in Installments |->
                IF part("principal")[i] + part("profit")[i] > 0 /\ is_fully_paid(swept(i))
                THEN [swept(i) EXCEPT !.status = "written_off"] ELSE swept(i)]

\* _write_off_late_fees: over all charges of the contract, oldest first.
SweepFees(ask) ==
  LET owed == [k \in DOMAIN fees |-> fee_outstanding(fees[k])]
      part == Spread(ask.late_fee, owed)
  IN fees' = [k \in DOMAIN fees |->
                [fees[k] EXCEPT
                   !.amount_written_off = @ + part[k],
                   !.status = IF part[k] > 0 /\ part[k] = owed[k] THEN "written_off" ELSE @]]

\* execute_write_off compares with the balances of the moment.
StillOutstanding(ask) == Within(ask, Outstanding)

\* Mutant of Executable: an executed request is executed again.
ExecutableAgain(n) ==
  contract.status = "active" /\ n \in Status("approved") \cup Status("executed")

\* Mutant of Executable: the contract may have closed since the approval.
ExecutableWhenClosed(n) == n \in Status("approved")

Executable(n) == contract.status = "active" /\ n \in Status("approved")

\* execute_write_off of an approved request; for an executed one it returns
\* what was done.
ExecuteWriteOff(n) ==
  LET ask == writeOffs[n].asked
  IN /\ Executable(n)
     /\ StillOutstanding(ask)
     /\ SweepInstallments(ask)
     /\ SweepFees(ask)
     /\ Post([principal_written_off |-> ask.principal, profit_written_off |-> ask.profit,
              late_fee_written_off |-> ask.late_fee])
     /\ \/ /\ writeOffs[n].type = "full"
           /\ contract' = [status |-> "closed", closure |-> "write_off"]
           /\ case' = IF case = "open" THEN "written_off" ELSE case
        \/ writeOffs[n].type = "partial" /\ UNCHANGED <<contract, case>>
     /\ Moves(n, "executed")
     /\ UNCHANGED <<unearned, payments, promise, waivers, rebate>>

\* Mutant of Credit: every component may take the whole of what is left.
CreditWhole(n, amount, order) ==
  [b \in DOMAIN Nothing |-> IF order # <<>> /\ b = order[1] THEN amount ELSE 0]

\* What each component of execution n gets of a recovery, in the configured
\* order.
Credit(n, amount, order) ==
  LET w == writeOffs[n]
      part == Share(amount, order, [b \in DOMAIN Nothing |-> w.asked[b] - w.recovered[b]])
  IN [b \in DOMAIN Nothing |-> IF b \in DOMAIN part THEN part[b] ELSE 0]

\* record_recovery of a new external_reference: the contract, its case and its
\* balances are not touched.
RecordRecovery(n, amount, order) ==
  LET w == writeOffs[n]
      credit == Credit(n, amount, order)
  IN /\ n \in Status("executed")
     /\ amount <= LineTotal(w.asked) - LineTotal(w.recovered)
     /\ LineTotal(credit) = amount
     /\ writeOffs' = [writeOffs EXCEPT ![n].recovered =
                        [b \in DOMAIN Nothing |-> @[b] + credit[b]]]
     /\ UNCHANGED cvars
-------------------------------------------------------------------------------
WriteOffInit == Init /\ writeOffs = <<>>

WriteOffNext ==
  \/ ServicingNext /\ UNCHANGED writeOffs
  \/ RequestWriteOff("full", Outstanding)
  \/ \E ask \in PartialAsks : RequestWriteOff("partial", ask)
  \/ \E n \in DOMAIN writeOffs : DecideWriteOff(n) \/ CancelWriteOff(n)
  \/ \E n \in DOMAIN writeOffs : ExecuteWriteOff(n)
  \/ \E n \in DOMAIN writeOffs, a \in Amounts, order \in RecoveryOrders :
       RecordRecovery(n, a, order)

WriteOffSpec == WriteOffInit /\ [][WriteOffNext]_wvars
-------------------------------------------------------------------------------
Executed(b) ==
  SumFunction([n \in DOMAIN writeOffs |->
                 IF writeOffs[n].status = "executed" THEN writeOffs[n].asked[b] ELSE 0])

\* What was written off is in three places, and they agree however payments,
\* reversals and fees fall between request, decision and execution: the
\* executed requests, the columns of installments and charges, and the ledger.
WriteOffAccounted ==
  /\ ledger.principal_written_off = Executed("principal")
  /\ ledger.profit_written_off = Executed("profit")
  /\ ledger.late_fee_written_off = Executed("late_fee")
  /\ Executed("principal") = SumFunction([i \in Installments |-> inst[i].principal_written_off])
  /\ Executed("profit") = SumFunction([i \in Installments |-> inst[i].profit_written_off])
  /\ Executed("late_fee") = SumFunction([k \in DOMAIN fees |-> fees[k].amount_written_off])

\* Nothing is both paid and written off: neither a stale snapshot, nor a second
\* approved request, nor a payment or a reversal next to a write-off takes more
\* from an installment or a charge than it is worth.  Settlement and return,
\* which overwrite the paid columns, are the exception.
ClearedEarly == contract.closure \in {"early_settlement", "return"}
PaidOrWrittenOff ==
  ~ClearedEarly =>
    /\ \A i \in Installments :
         /\ inst[i].principal_paid + inst[i].principal_written_off <= inst[i].principal
         /\ inst[i].profit_paid + inst[i].profit_written_off <= inst[i].profit
    /\ \A k \in DOMAIN fees :
         fees[k].amount_paid + fees[k].amount_written_off <= fees[k].amount

\* No component recovers more than was written off of it, whatever order the
\* configuration gave when each recovery came in.
RecoveredWithinWrittenOff ==
  \A n \in DOMAIN writeOffs :
    /\ Within(writeOffs[n].recovered, writeOffs[n].asked)
    /\ writeOffs[n].status # "executed" => writeOffs[n].recovered = Nothing

\* A contract closes once: a request approved while it was active is not
\* executed after it was repaid, settled or returned, not even when a reversal
\* has made its balances large enough again.
ClosesOnce == [][contract.status = "closed" => contract' = contract]_wvars

\* What docs/write-off-recovery/BRD.md:151 says: "A FULL execution zeroes every
\* outstanding component".
FullLeavesNothing ==
  [][\A n \in DOMAIN writeOffs :
       writeOffs[n].type = "full" /\ writeOffs[n].status = "approved"
         /\ writeOffs'[n].status = "executed" => Total(Receivable)' = 0]_wvars
===============================================================================

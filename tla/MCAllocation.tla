----------------------------- MODULE MCAllocation -----------------------------
(* One schedule, starting from every combination of small balances, that is   *)
(* paid in several amounts by Allocation's engine.                            *)
EXTENDS Allocation

CONSTANTS Length,      \* installments in the schedule
          MaxOwed,     \* bound on each balance
          MaxPayment   \* bound on one payment

ASSUME AllocationAssumption == Length \in Nat /\ MaxOwed \in Nat /\ MaxPayment \in Nat

VARIABLES owing,       \* what the installments owe now
          allocated    \* the plan of the last payment

Balances == [late_fee: 0..MaxOwed, profit: 0..MaxOwed, principal: 0..MaxOwed]

AllocationInit == /\ owing \in [1..Length -> Balances]
                  /\ allocated = allocate(0, owing)

Pay(amount) == /\ amount <= Total(owing)
               /\ allocated' = allocate(amount, owing)
               /\ owing' = Less(owing, allocated')

AllocationNext == \E amount \in 1..MaxPayment : Pay(amount)

AllocationSpec == AllocationInit /\ [][AllocationNext]_<<owing, allocated>>

-------------------------------------------------------------------------------
\* Rule 1 before rule 2: whatever the split into payments, money reaches a
\* balance of an installment only once all older installments owe nothing at
\* all, and within the installment late fees go before profit before principal.
\* Read on the plan and the balances it leaves, not on the order of the loop.
OldestFirstFeesFirst ==
  \A i \in DOMAIN allocated :
    /\ LineTotal(allocated[i]) > 0 => \A j \in 1..(i - 1) : LineTotal(owing[j]) = 0
    /\ allocated[i].profit > 0 => owing[i].late_fee = 0
    /\ allocated[i].principal > 0 => owing[i].late_fee = 0 /\ owing[i].profit = 0

\* No plan takes more than is owed anywhere, or leaves part of an accepted
\* payment unallocated (payments.py refuses what exceeds the total owed).
ExactlyTheAmount ==
  \A amount \in 0..Total(owing) :
    LET p == allocate(amount, owing)
    IN /\ Total(p) = amount
       /\ \A i \in DOMAIN p : Less(owing, p)[i] \in Balances

\* Paying in two amounts leaves the contract as paying at once does: no order
\* of partial payments moves money between balances.
SplitMakesNoDifference ==
  \A a, b \in 0..MaxPayment :
    a + b <= Total(owing) =>
      LET rest == Less(owing, allocate(a, owing))
      IN Less(rest, allocate(b, rest)) = Less(owing, allocate(a + b, owing))
===============================================================================

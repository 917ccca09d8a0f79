--------------------------- MODULE ContractAccount ----------------------------
(* What a contract promises its customer and the accountant, without its      *)
(* installments, fees and cases: how much is owed and how much cash has been  *)
(* taken in for it.  ContractServicing implements it.                         *)
EXTENDS Integers

VARIABLES state,  \* created, active or closed
          owed,   \* principal, profit and late fees outstanding
          cash    \* received and not taken back

Init == state = "created" /\ owed \in Nat /\ cash = 0

Deliver == state = "created" /\ state' = "active" /\ UNCHANGED <<owed, cash>>

Cancel == state = "created" /\ state' = "closed" /\ UNCHANGED <<owed, cash>>

\* A payment reduces what is owed by its amount, never below zero, and may
\* close the account only when nothing is left.
Pay == /\ state = "active"
       /\ owed' \in 0..(owed - 1)
       /\ cash' = cash + (owed - owed')
       /\ state' = "active" \/ (state' = "closed" /\ owed' = 0)

\* Money taken back is owed again, except the part that has been forgiven or
\* settled since; it is never owed twice and never reopens the account.
TakeBack == /\ state # "created" /\ state' = state
            /\ cash' \in 0..(cash - 1)
            /\ owed' \in owed..(owed + (cash - cash'))

\* Only an account that is being repaid can be charged for being late.
Charge == state = "active" /\ owed' > owed /\ UNCHANGED <<state, cash>>

Forgive == owed' \in 0..(owed - 1) /\ UNCHANGED <<state, cash>>

\* An early settlement clears the account for at most what is owed.
SettleEarly == /\ state = "active" /\ state' = "closed"
               /\ owed' = 0
               /\ cash' \in cash..(cash + owed)

Return == state = "active" /\ state' = "closed" /\ owed' = 0 /\ UNCHANGED cash

Next == Deliver \/ Cancel \/ Pay \/ TakeBack \/ Charge \/ Forgive \/ SettleEarly \/ Return

Spec == Init /\ [][Next]_<<state, owed, cash>>
===============================================================================

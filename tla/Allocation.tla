------------------------------ MODULE Allocation ------------------------------
(* The payment allocation engine (app/services/allocation.py): how one amount *)
(* is spread over the installments of a contract.  Its loop, which takes from *)
(* each balance in order what it owes until the money runs out, is also the   *)
(* loop of every other sweep in the program: over the late fees of an         *)
(* installment, over what a write-off takes from each installment, and over   *)
(* the components a recovery is credited to.                                  *)
EXTENDS Integers, Sequences, FiniteSetsExt, Functions, SequencesExt

\* Mutant of Spread: money that is left over is given to the next balance
\* although that balance owes less.
SpreadBeyond(amount, owed) ==
  [k \in DOMAIN owed |-> IF k = 1 THEN Min({amount, owed[1]})
                                  ELSE Max({0, amount - SumFunctionOnSet(owed, 1..(k - 1))})]

\* Mutant of Spread: a balance that cannot be paid in full is passed over.
SpreadWholeOnly(amount, owed) ==
  LET take(remaining, due) == IF remaining < due THEN 0 ELSE due
      left[k \in {0} \cup DOMAIN owed] ==
        IF k = 0 THEN amount
        ELSE LET remaining == left[k - 1] IN remaining - take(remaining, owed[k])
  IN [k \in DOMAIN owed |-> take(left[k - 1], owed[k])]

\* What one balance gets of what remains: nothing if it owes nothing or nothing
\* remains.
Take(remaining, due) ==
  IF remaining <= 0 \/ due <= 0 THEN 0 ELSE IF remaining < due THEN remaining ELSE due

\* What each of the balances owed gets from amount, in order; left[k] is what
\* remains after the first k.
Spread(amount, owed) ==
  LET left[k \in {0} \cup DOMAIN owed] ==
        IF k = 0 THEN amount
        ELSE LET remaining == left[k - 1] IN remaining - Take(remaining, owed[k])
  IN [k \in DOMAIN owed |-> Take(left[k - 1], owed[k])]

\* The same loop over rows picked from a table: order lists their keys, owed
\* gives the balance of each.
Share(amount, order, owed) ==
  LET parts == Spread(amount, [n \in DOMAIN order |-> owed[order[n]]])
  IN [k \in Range(order) |-> parts[CHOOSE n \in DOMAIN order : order[n] = k]]

\* Mutant of Buckets: principal before profit.
BucketsPrincipalFirst(rows) ==
  [n \in 1..(3 * Len(rows)) |->
     rows[(n + 2) \div 3][<<"late_fee", "principal", "profit">>[((n - 1) % 3) + 1]]]

\* The balances in the order they are paid: the oldest installment first, and
\* in each the late fee, then profit, then principal.
Buckets(rows) ==
  [n \in 1..(3 * Len(rows)) |->
     rows[(n + 2) \div 3][<<"late_fee", "profit", "principal">>[((n - 1) % 3) + 1]]]

\* The allocation plan: one line for each of rows, oldest first.
allocate(amount, rows) ==
  LET parts == Spread(amount, Buckets(rows))
  IN [i \in DOMAIN rows |-> [late_fee |-> parts[3 * i - 2], profit |-> parts[3 * i - 1],
                             principal |-> parts[3 * i]]]

\* What a plan takes from one bucket, and in all.
Column(plan, bucket) == SumFunction([i \in DOMAIN plan |-> plan[i][bucket]])
LineTotal(line) == line.late_fee + line.profit + line.principal
Total(plan) == SumFunction([i \in DOMAIN plan |-> LineTotal(plan[i])])

\* What is owed after plan has been applied.
Less(rows, plan) ==
  [i \in DOMAIN rows |-> [late_fee  |-> rows[i].late_fee - plan[i].late_fee,
                          profit    |-> rows[i].profit - plan[i].profit,
                          principal |-> rows[i].principal - plan[i].principal]]
===============================================================================

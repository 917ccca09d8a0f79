--------------------------------- MODULE Pricing ---------------------------------
(* The pricing of an installment sale.  Money is in the smallest unit that      *)
(* _money rounds to, rates are in percent.                                      *)
EXTENDS Integers, Sequences, FiniteSetsExt

\* _money of a / b: half up.  Nothing here is negative.
_money(a, b) == (2 * a + b) \div (2 * b)

Weight(n, i) == SumSet({n - k + 1 : k \in 1..i})

\* What the first i of n installments bring, rounded once.
PrincipalUpTo(principal, n, i) == _money(principal * i, n)
ProfitUpTo(profit, n, i) == _money(profit * Weight(n, i), Weight(n, n))

Priceable(cash, down, tenor) == tenor >= 1 /\ down >= 0 /\ down < cash

\* Mutant of PlanLines: every installment is rounded by itself.
PlanLinesEach(principal, profit, n) ==
  [i \in 1..n |-> [principal_component |-> _money(principal, n),
                   profit_component |-> _money(profit * (n - i + 1), Weight(n, n))]]
\* Each installment is the difference of two cumulative amounts; the last absorbs
\* what rounding has left.
PlanLines(principal, profit, n) ==
  LET principalCum == [i \in 0..n |->
        IF i = n THEN principal ELSE PrincipalUpTo(principal, n, i)]
      profitCum == [i \in 0..n |-> IF i = n THEN profit ELSE ProfitUpTo(profit, n, i)]
  IN [i \in 1..n |-> [principal_component |-> principalCum[i] - principalCum[i - 1],
                      profit_component |-> profitCum[i] - profitCum[i - 1]]]

build_plan(cash, down, tenor, rate) ==
  LET principal == cash - down  profit == _money(principal * rate, 100) IN
  [cash_price |-> cash, down_payment |-> down, total_profit |-> profit,
   installment_sale_price |-> cash + profit, amount_financed |-> principal + profit,
   schedule |-> PlanLines(principal, profit, tenor)]

total(line) == line.principal_component + line.profit_component
Peak(plan) == Max({total(plan.schedule[i]) : i \in DOMAIN plan.schedule})
Owed(plan, paid) ==
  FoldSet(LAMBDA i, sum : sum + total(plan.schedule[i]), 0,
          DOMAIN plan.schedule \ 1..paid)
===============================================================================

----------------------------- MODULE PostingRules -----------------------------
(* From an accounting event to the lines of its journal, without any state:   *)
(* the seeded posting rules, the sources a rule may take its amounts from, and *)
(* the journal that comes out.  An event is its type and the amounts that can *)
(* be read for it, by source; a source outside that domain is a missing row.  *)
(* Multipliers are always 1: approving a mapping drops what was proposed.     *)
EXTENDS Integers, SequencesExt

Sides == {"DEBIT", "CREDIT"}
MappingLine(side, account, source) ==
  [side |-> side, account |-> account, source |-> source, reverse |-> FALSE]
Pair(debit, credit, source) ==
  <<MappingLine("DEBIT", debit, source), MappingLine("CREDIT", credit, source)>>

\* A pair whose sides change places when the amount is negative.
SignedPair(debit, credit) ==
  LET swaps(line) == [line EXCEPT !.reverse = TRUE]
      pair == Pair(debit, credit, "event_amount")
  IN <<swaps(pair[1]), swaps(pair[2])>>

-------------------------------------------------------------------------------
\* _SEED_MAPPINGS, by account name: a type with no lines is SUMMARY_ONLY or
\* RESERVED and has no journal.
ActivationRule ==
  <<MappingLine("DEBIT", "deposit", "down_payment"),
    MappingLine("DEBIT", "receivable", "gross_installment_receivable"),
    MappingLine("CREDIT", "sales", "cash_price"),
    MappingLine("CREDIT", "unearned", "total_contractual_profit")>>

\* Mutant of SettlementRule: the rebated profit stays in the receivable.
SettlementRuleWithoutRebate ==
  Pair("cash", "receivable", "closure_ledger_payoff_total")
    \o Pair("unearned", "profit", "closure_ledger_profit_recognized")

SettlementRule ==
  Pair("cash", "receivable", "closure_ledger_payoff_total")
    \o Pair("unearned", "profit", "closure_ledger_profit_recognized")
    \o Pair("unearned", "receivable", "closure_ledger_profit_rebated")

ReturnRule ==
  Pair("unearned", "profit", "closure_ledger_return_profit_retained")
    \o Pair("unearned", "receivable", "closure_ledger_return_profit_waived")
    \o Pair("suspense", "receivable", "closure_ledger_return_principal")
    \o Pair("suspense", "receivable", "closure_ledger_return_late_fee")

WriteOffRule ==
  <<MappingLine("DEBIT", "allowance", "provision_used"),
    MappingLine("DEBIT", "write_off", "write_off_expense_excess"),
    MappingLine("CREDIT", "receivable", "written_off_principal"),
    MappingLine("CREDIT", "receivable", "written_off_profit"),
    MappingLine("CREDIT", "receivable", "written_off_late_fee")>>

RuleOf ==
  [contract_activated    |-> ActivationRule,
   early_settlement      |-> SettlementRule,
   return                |-> ReturnRule,
   write_off_executed    |-> WriteOffRule,
   partial_write_off_executed |-> WriteOffRule,
   settlement_difference |-> SignedPair("gateway", "suspense"),
   down_payment_received |-> Pair("cash", "deposit", "event_amount"),
   payment_received      |-> Pair("cash", "receivable", "event_amount"),
   profit_recognized     |-> Pair("unearned", "profit", "event_amount"),
   late_fee_charged      |-> Pair("receivable", "late_fee", "event_amount"),
   late_fee_waived       |-> Pair("late_fee", "receivable", "event_amount"),
   cancellation          |-> Pair("deposit", "refund", "event_amount"),
   payment_reversed      |-> Pair("receivable", "cash", "event_amount"),
   refund_completed      |-> Pair("receivable", "cash", "event_amount"),
   gateway_fee_recognized |-> Pair("gateway_fee", "gateway", "event_amount"),
   recovery_received     |-> Pair("cash", "recovery", "event_amount")]

ProvisionEvents == {"ecl_provision_created", "ecl_provision_increased",
                    "ecl_provision_released", "ecl_provision_override_adjustment"}
SummaryEvents == {"contract_closed", "ecl_provision_movement", "recovery_adjustment"}

SeededRules ==
  [type \in DOMAIN RuleOf \cup ProvisionEvents \cup SummaryEvents |->
     IF type \in ProvisionEvents THEN SignedPair("impairment", "allowance")
     ELSE IF type \in SummaryEvents THEN <<>> ELSE RuleOf[type]]

\* _SEED_ACCOUNTS, of which inventory, cogs and rounding no rule uses.
Accounts == {"cash", "gateway", "receivable", "inventory", "deposit", "unearned", "refund",
             "allowance", "suspense", "rounding", "sales", "profit", "late_fee", "recovery",
             "cogs", "impairment", "write_off", "gateway_fee"}
-------------------------------------------------------------------------------
\* The amount sources: what can be read of the row an event points at.

EventAmount(a) == [event_amount |-> a, absolute_event_amount |-> IF a < 0 THEN -a ELSE a]

\* What can be read of the event and of a row it points at.
WithRow(amounts, row) ==
  [source \in DOMAIN amounts \cup DOMAIN row |->
     IF source \in DOMAIN row THEN row[source] ELSE amounts[source]]

\* A sales order with its contract.
SaleAmounts(order) ==
  LET cash == order.sale_price - order.total_profit
      principal == cash - order.down_payment
  IN [cash_price |-> cash, down_payment |-> order.down_payment,
      financed_principal |-> principal, total_contractual_profit |-> order.total_profit,
      gross_installment_receivable |-> principal + order.total_profit]

\* The lines of a payment's allocation, in total.
PaymentAmounts(part) == [payment_principal |-> part.principal, payment_profit |-> part.profit,
                         payment_late_fee |-> part.late_fee]

\* The ledger entries of a closure, by type; a type without an entry sums to 0.
ClosureAmounts(entries) ==
  LET posted(type) == IF type \in DOMAIN entries THEN entries[type] ELSE 0
  IN [closure_ledger_principal |-> posted("principal_paid"),
      closure_ledger_late_fee |-> posted("late_fee_paid"),
      closure_ledger_profit_recognized |-> posted("profit_recognized"),
      closure_ledger_profit_rebated |-> posted("profit_rebated"),
      closure_ledger_payoff_total |->
        posted("principal_paid") + posted("late_fee_paid") + posted("profit_recognized"),
      closure_ledger_return_principal |-> posted("return_principal_cleared"),
      closure_ledger_return_late_fee |-> posted("return_late_fee_cleared"),
      closure_ledger_return_profit_retained |-> posted("return_profit_retained"),
      closure_ledger_return_profit_waived |-> posted("return_profit_waived")]

\* A write-off execution with the provision it found.
ExecutionAmounts(ask, provision) ==
  LET total == ask.principal + ask.profit + ask.late_fee
  IN [written_off_principal |-> ask.principal, written_off_profit |-> ask.profit,
      written_off_late_fee |-> ask.late_fee,
      provision_used |-> Min({provision, total}),
      write_off_expense_excess |-> Max({0, total - provision})]
-------------------------------------------------------------------------------
\* _build_lines and generate_journal.

Opposite(side) == IF side = "DEBIT" THEN "CREDIT" ELSE "DEBIT"

Resolvable(rule, amounts) ==
  \A n \in DOMAIN rule : /\ rule[n].source \in DOMAIN amounts
                         /\ amounts[rule[n].source] < 0 => rule[n].reverse

ResolvedLine(line, amounts) ==
  LET a == amounts[line.source]
  IN IF a < 0 THEN [account |-> line.account, side |-> Opposite(line.side), amount |-> -a]
              ELSE [account |-> line.account, side |-> line.side, amount |-> a]

\* The lines of a journal, by their number in the rule; a line of zero is dropped.
_build_lines(rule, amounts) ==
  [n \in {n \in DOMAIN rule : amounts[rule[n].source] # 0} |-> ResolvedLine(rule[n], amounts)]

SideTotal(lines, side) ==
  SumFunctionOnSet([n \in DOMAIN lines |-> lines[n].amount],
                   {n \in DOMAIN lines : lines[n].side = side})

IsBalanced(lines) ==
  /\ \A side \in Sides : \E n \in DOMAIN lines : lines[n].side = side
  /\ SideTotal(lines, "DEBIT") = SideTotal(lines, "CREDIT")

\* The journal an event gets by a rule: its lines, or none if it has failed.
generate_journal(rule, amounts) ==
  IF Resolvable(rule, amounts) /\ IsBalanced(_build_lines(rule, amounts))
  THEN [status |-> "READY", lines |-> _build_lines(rule, amounts)]
  ELSE [status |-> "FAILED", lines |-> <<>>]
===============================================================================

-------------------------- MODULE MCContractServicing -------------------------
(* Small contracts for TLC.                                                   *)
EXTENDS ContractServicing

\* Two installments that differ in every component.
TwoInstallments == <<[principal |-> 2, profit |-> 1, due |-> 1, late_fee |-> 1],
                     [principal |-> 1, profit |-> 1, due |-> 2, late_fee |-> 2]>>
ByPct == {[kind |-> "pct", value |-> 100]}
ByBoth == {[kind |-> "pct", value |-> 50], [kind |-> "amount", value |-> 2]}
===============================================================================

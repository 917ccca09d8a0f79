------------------------------ MODULE MCOrigination ------------------------------
(* Two customers: one passes every rule until the exposure counts, the other    *)
(* has no score and little income, so that it is referred and may be blocked.   *)
EXTENDS Origination

TheAdjustments == {-1, 1}
TheCustomers == [solid  |-> [income |-> 100, obligations |-> 10, score |-> 800],
                 unsure |-> [income |-> 20, obligations |-> 2, score |-> NoScore]]
TheApplications == {[amount |-> 10, tenor |-> 3], [amount |-> 40, tenor |-> 5]}
TheConfig == [min_income |-> 15, max_dbr |-> 40, factor_pct |-> 110,
              auto_approve_min |-> 700, refer_min |-> 600, max_exposure |-> 20,
              min_down_pct |-> 20, rates |-> (2 :> 10 @@ 3 :> 17), gate |-> "block",
              validity |-> 1]
===============================================================================

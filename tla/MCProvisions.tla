------------------------------ MODULE MCProvisions ------------------------------
(* One contract that falls behind, is cured and falls behind again, for TLC.    *)
EXTENDS Provisions

Sound == Read(2, 0, 720, FALSE, FALSE)
Fresh == {Sound}
Some == {Sound, Read(2, 40, 720, TRUE, FALSE), Read(2, 95, 720, TRUE, FALSE)}
Asks == {[value |-> [stage |-> 3], from |-> 0], [value |-> [lgd |-> 60], from |-> 30]}
Banded == {[methodology |-> "dpd_banded"]}
===============================================================================

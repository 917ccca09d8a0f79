---------------------------- MODULE MCPaymentGateway ---------------------------
(* Small instances of PaymentGateway for TLC.  Sessions and runs are          *)
(* interchangeable, so the safety runs use their permutations as symmetry.    *)
EXTENDS PaymentGateway, TLC

Symmetry == Permutations(Sessions) \cup Permutations(Runs)
===============================================================================

--------------------------- MODULE MCConcurrentRequests ---------------------------
(* Two payments, a retry of one of them, two deciders and two recoveries.       *)
EXTENDS ConcurrentRequests, TLC

Money(reference, amount) == [reference |-> reference, amount |-> amount]
ThePayments == "p1" :> Money("a", 2) @@ "p2" :> Money("b", 1) @@ "p3" :> Money("a", 2)
TheDeciders == "d1" :> TRUE @@ "d2" :> TRUE @@ "d3" :> FALSE
TheRecoveries == "r1" :> Money("c", 2) @@ "r2" :> Money("d", 2)
===============================================================================

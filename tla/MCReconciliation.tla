---------------------------- MODULE MCReconciliation ----------------------------
(* Three payments, two of one amount; one is of the gateway and one may be     *)
(* found by its gateway reference.  Rows name a payment, nothing, or are empty.*)
EXTENDS Reconciliation

ThePayments == [p1 |-> [amount |-> 2, refs |-> {"a"}, day |-> 1],
                p2 |-> [amount |-> 2, refs |-> {"b", "t"}, day |-> 1],
                g1 |-> [amount |-> 3, refs |-> {"g"}, day |-> 1]]

BankRow(ref, amount, day) == [ref |-> ref, amount |-> amount, day |-> day]
TheRows == {BankRow("a", 2, 1), BankRow("a", 3, 1), BankRow("x", 2, 2),
            BankRow("x", 3, 1), BankRow("", 2, 1)}

FeedItem(gref, merchant, amount, day) ==
  [gref |-> gref, merchant |-> merchant, amount |-> amount, day |-> day]
TheItems == {FeedItem("t1", "g1", 3, 1), FeedItem("t1", "g1", 4, 1),
             FeedItem("t2", "g1", 3, 2), FeedItem("t2", "", 3, 1),
             FeedItem("t3", "unknown", 3, 1)}
===============================================================================

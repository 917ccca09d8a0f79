------------------------------ MODULE MCJournals ------------------------------
(* One event type on four accounts for TLC.                                  *)
EXTENDS Journals

CONSTANTS a1, a2, a3, a4, c1, c2, c3, c4

Seeded == (a1 :> c1) @@ (a2 :> c2) @@ (a3 :> c3) @@ (a4 :> NoCode)
AllRules == {Pair(a1, a2, "event_amount"), <<>>}
OtherRules == {Pair(a1, a2, "event_amount"), Pair(a1, a3, "event_amount")}
FirstRule == [type \in Types |-> Pair(a1, a2, "event_amount")]
Read == {EventAmount(0), EventAmount(1)}
===============================================================================

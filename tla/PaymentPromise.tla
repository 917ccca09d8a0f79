---------------------------- MODULE PaymentPromise ----------------------------
(* What the hosted-checkout channel promises about money, with the gateway,   *)
(* its webhooks and its failures hidden: the payment of one intent is applied *)
(* to the contract at most once, for exactly the amount the intent asked for, *)
(* may afterwards be taken back at most once for the same amount, and is      *)
(* never applied again after that (docs/payment-gateway/BRD.md BR-3 to BR-6). *)
EXTENDS Integers

CONSTANTS Intents,       \* payment intents, named by payment_reference
          Opening        \* what the contract owes before the first payment

VARIABLES amount,        \* requested_amount of an intent, 0 before it exists
          payment,       \* "none", "applied" or "reversed"
          outstanding,   \* what the contract still owes
          credits        \* what staff payments and an early settlement cleared

vars == <<amount, payment, outstanding, credits>>

Init == /\ amount = [i \in Intents |-> 0]
        /\ payment = [i \in Intents |-> "none"]
        /\ outstanding = Opening
        /\ credits = 0

\* A customer asks to pay part of what is owed.
Ask(i) == /\ amount[i] = 0
          /\ \E a \in 1..outstanding : amount' = [amount EXCEPT ![i] = a]
          /\ UNCHANGED <<payment, outstanding, credits>>

\* The money has moved: the contract owes that much less.
Apply(i) == /\ payment[i] = "none"
            /\ amount[i] \in 1..outstanding
            /\ payment' = [payment EXCEPT ![i] = "applied"]
            /\ outstanding' = outstanding - amount[i]
            /\ UNCHANGED <<amount, credits>>

\* The money was taken back: the contract owes it again.
TakeBack(i) == /\ payment[i] = "applied"
               /\ payment' = [payment EXCEPT ![i] = "reversed"]
               /\ outstanding' = outstanding + amount[i]
               /\ UNCHANGED <<amount, credits>>

\* Money that did not come through the gateway.
Credit == /\ \E a \in 1..outstanding : /\ outstanding' = outstanding - a
                                       /\ credits' = credits + a
          /\ UNCHANGED <<amount, payment>>

Next == \/ \E i \in Intents : Ask(i) \/ Apply(i) \/ TakeBack(i)
        \/ Credit

Spec == Init /\ [][Next]_vars
===============================================================================

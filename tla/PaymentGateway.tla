---------------------------- MODULE PaymentGateway ----------------------------
(* The hosted-checkout channel: payment intents and webhook processing in     *)
(* retail-credit-api, the separate mock-payment-gateway service that owns the *)
(* checkout sessions and sends the webhooks, and the network between them.    *)
(*                                                                            *)
(* retail-credit-api handles a webhook in one uninterrupted step of its event *)
(* loop and one database transaction (api/payment_gateway.py), so             *)
(* ProcessWebhook is one action.  Opening a checkout runs in a worker thread  *)
(* and waits for an HTTP reply between reading the intent and writing it, so  *)
(* it is two actions.  The gateway keeps its tables in SQLite: one writer at  *)
(* a time, from the first flush of a request to its commit.                   *)
EXTENDS Integers, Sequences, FiniteSets, FiniteSetsExt

CONSTANTS Intents,        \* payment_reference of each payment intent
          Sessions,       \* checkout sessions the gateway can hand out
          Runs,           \* outcomes the customer or the gateway may start
          Outcomes,       \* which simulated outcomes may be chosen
          Opening,        \* outstanding_receivable plus late fees at the start
          FinalStatuses,  \* values payment_gateway_final_allocation_status takes
          Faulty,         \* the network loses and delays, the gateway crashes
          MaxInFlight,    \* bound: webhook deliveries on their way at once
          NoIntent, NoSession

Status == {"INITIATED", "PENDING", "AUTHORIZED", "CAPTURED", "SETTLED", "FAILED",
           "CANCELLED", "EXPIRED", "REVERSED", "PARTIALLY_REFUNDED", "REFUNDED",
           "CHARGEBACK"}

PAYMENT_INTENT_TRANSITIONS ==
  [INITIATED          |-> {"PENDING", "CANCELLED", "EXPIRED"},
   PENDING            |-> {"AUTHORIZED", "FAILED", "CANCELLED", "EXPIRED"},
   AUTHORIZED         |-> {"CAPTURED", "FAILED", "EXPIRED"},
   CAPTURED           |-> {"SETTLED", "FAILED"},
   SETTLED            |-> {"REVERSED", "PARTIALLY_REFUNDED", "REFUNDED", "CHARGEBACK"},
   PARTIALLY_REFUNDED |-> {"REFUNDED"},
   FAILED |-> {}, CANCELLED |-> {}, EXPIRED |-> {},
   REVERSED |-> {}, REFUNDED |-> {}, CHARGEBACK |-> {}]

\* Mutant of can_transition: only a repeated status is refused.
can_transition_anywhere(current, target) == current # target

can_transition(current, target) ==
  current # target /\ target \in PAYMENT_INTENT_TRANSITIONS[current]

REVERSAL_STATUSES == {"REVERSED", "REFUNDED", "CHARGEBACK"}

\* The statuses each button of the hosted page reports, in order.  The timer
\* is the second half of delayed_settlement.
Script ==
  [success_settlement         |-> <<"AUTHORIZED", "CAPTURED", "SETTLED">>,
   success_authorization_only |-> <<"AUTHORIZED">>,
   insufficient_funds         |-> <<"FAILED">>,
   customer_cancel            |-> <<"CANCELLED">>,
   timeout                    |-> <<"EXPIRED">>,
   delayed_settlement         |-> <<"AUTHORIZED", "CAPTURED">>,
   duplicate_webhook          |-> <<"AUTHORIZED", "CAPTURED", "SETTLED", "SETTLED">>,
   invalid_signature          |-> <<"AUTHORIZED">>,
   settle_then_reverse        |-> <<"AUTHORIZED", "CAPTURED", "SETTLED", "REVERSED">>,
   settlement_timer           |-> <<"SETTLED">>,
   refund                     |-> <<"REFUNDED">>,
   partial_refund             |-> <<"PARTIALLY_REFUNDED", "REFUNDED">>,
   chargeback                 |-> <<"CHARGEBACK">>]

\* What a gateway reports about money it settled earlier: the mock page has no
\* button for these, the tests post them directly.
LaterOutcomes == {"refund", "partial_refund", "chargeback"}
Buttons == DOMAIN Script \ (LaterOutcomes \cup {"settlement_timer"})

\* One logical gateway event; its identity stands for gateway_event_id.  A
\* redelivery is the same event.
Event == [run: Runs, intent: Intents, status: Status, authentic: BOOLEAN]
EventResult == {"REJECTED_SIGNATURE", "REJECTED_STALE", "REJECTED_OUT_OF_ORDER",
                "PROCESSED", "FAILED"}

ASSUME ConstantsAssumption ==
  /\ Opening \in Nat \ {0}
  /\ Faulty \in BOOLEAN
  /\ MaxInFlight \in Nat \ {0}
  /\ NoIntent \notin Intents /\ NoSession \notin Sessions
  /\ Outcomes \subseteq Buttons \cup LaterOutcomes
  /\ FinalStatuses # {}
  /\ FinalStatuses \subseteq {"CAPTURED", "SETTLED"}

VARIABLES
  \* retail-credit-api
  intent,       \* status of each payment intent, "none" before it is created
  amount,       \* requested_amount, 0 before it is created
  checkouts,    \* open_checkout calls waiting for the gateway's reply
  webhookEvent, \* webhook_events: result of each gateway event seen so far
  transaction,  \* gateway_transactions: the events that were applied
  payment,      \* the Payment row whose external_reference is the intent's
  active,       \* contract.status = active
  outstanding,  \* what the contract still owes
  credits,      \* what staff payments and an early settlement cleared
  final,        \* payment_gateway_final_allocation_status
  \* mock-payment-gateway
  session,      \* checkout sessions: owner, progress and transaction status
  run,          \* simulate_outcome calls and timers being executed
  timers,       \* delayed settlements waiting in memory
  log,          \* committed WebhookDeliveryLog rows: what can be resent
  \* the network
  net           \* webhook deliveries on their way

rcVars == <<intent, amount, checkouts, webhookEvent, transaction, payment,
            active, outstanding, credits, final>>
gwVars == <<session, run, timers, log>>
vars   == <<rcVars, gwVars, net>>

TypeOK ==
  /\ intent \in [Intents -> Status \cup {"none"}]
  /\ amount \in [Intents -> Nat]
  /\ checkouts \subseteq [intent: Intents, session: Sessions]
  /\ DOMAIN webhookEvent \subseteq Event
  /\ \A e \in DOMAIN webhookEvent : webhookEvent[e] \in EventResult
  /\ transaction \subseteq Event
  /\ payment \in [Intents -> {"none", "applied", "reversed"}]
  /\ active \in BOOLEAN
  /\ outstanding \in Nat
  /\ credits \in Nat
  /\ final \in FinalStatuses
  /\ session \in [Sessions -> [intent: Intents \cup {NoIntent},
                               state: {"unused", "created", "handed", "consumed"},
                               txn: Status]]
  /\ run \in [Runs -> [session: Sessions \cup {NoSession},
                       outcome: DOMAIN Script,
                       sent: 0..4,
                       state: {"idle", "running", "ended"}]]
  /\ timers \subseteq Runs
  /\ log \subseteq Event
  /\ net \subseteq Event

Init ==
  /\ intent = [i \in Intents |-> "none"]
  /\ amount = [i \in Intents |-> 0]
  /\ checkouts = {}
  /\ webhookEvent = <<>>
  /\ transaction = {}
  /\ payment = [i \in Intents |-> "none"]
  /\ active = TRUE
  /\ outstanding = Opening
  /\ credits = 0
  /\ final \in FinalStatuses
  /\ session = [s \in Sessions |-> [intent |-> NoIntent, state |-> "unused", txn |-> "PENDING"]]
  /\ run = [r \in Runs |-> [session |-> NoSession, outcome |-> "timeout", sent |-> 0,
                            state |-> "idle"]]
  /\ timers = {}
  /\ log = {}
  /\ net = {}

-------------------------------------------------------------------------------
(* Payment intents and checkout, retail-credit-api.                           *)

\* create_intent: only for an active contract and at most what it owes now.
CreateIntent(i) ==
  /\ intent[i] = "none"
  /\ active
  /\ \E a \in 1..outstanding : amount' = [amount EXCEPT ![i] = a]
  /\ intent' = [intent EXCEPT ![i] = "INITIATED"]
  /\ UNCHANGED <<checkouts, webhookEvent, transaction, payment, active, outstanding,
                 credits, final, gwVars, net>>

\* The gateway request that has flushed and not committed holds the write lock.
LockedBy(r) == run[r].state = "running" /\ run[r].sent > 0
LockFree(r) == \A q \in Runs \ {r} : ~LockedBy(q)

\* create_checkout up to the gateway's reply: the intent's status is read here,
\* the gateway inserts and commits a fresh session.
BeginCheckout(i, s) ==
  /\ intent[i] = "INITIATED"
  /\ session[s].state = "unused"
  /\ \A r \in Runs : ~LockedBy(r)
  /\ session' = [session EXCEPT ![s].intent = i, ![s].state = "created"]
  /\ checkouts' = checkouts \cup {[intent |-> i, session |-> s]}
  /\ UNCHANGED <<intent, amount, webhookEvent, transaction, payment, active,
                 outstanding, credits, final, run, timers, log, net>>

\* The rest of create_checkout and the commit: the status is not read again.
FinishCheckout(c) ==
  /\ c \in checkouts
  /\ checkouts' = checkouts \ {c}
  /\ intent' = [intent EXCEPT ![c.intent] = "PENDING"]
  /\ session' = [session EXCEPT ![c.session].state = "handed"]
  /\ UNCHANGED <<amount, webhookEvent, transaction, payment, active, outstanding,
                 credits, final, run, timers, log, net>>

\* The reply timed out or the API stopped: nothing is committed and nobody
\* knows the session's token.
AbandonCheckout(c) ==
  /\ Faulty
  /\ c \in checkouts
  /\ checkouts' = checkouts \ {c}
  /\ UNCHANGED <<intent, amount, webhookEvent, transaction, payment, active,
                 outstanding, credits, final, gwVars, net>>

-------------------------------------------------------------------------------
(* Simulated outcomes, mock-payment-gateway.                                  *)

\* simulate_outcome up to its first flush: the session is open and has not
\* expired.  Two clicks may both find it open.
StartOutcome(r, s, o) ==
  /\ run[r].state = "idle"
  /\ o \in Outcomes
  /\ IF o \in LaterOutcomes THEN session[s].state = "consumed" /\ session[s].txn = "SETTLED"
                            ELSE session[s].state = "handed"
  /\ run' = [run EXCEPT ![r] = [session |-> s, outcome |-> o, sent |-> 0, state |-> "running"]]
  /\ UNCHANGED <<rcVars, session, timers, log, net>>

\* The event a run sends as its k-th: repeating a status repeats the event.
EventOf(r, k) ==
  [run |-> r, intent |-> session[run[r].session].intent,
   status |-> Script[run[r].outcome][k],
   authentic |-> run[r].outcome # "invalid_signature"]

\* The POST of the last event has its answer, or has been given up.
Answered(r) == (~Faulty /\ run[r].sent > 0) => EventOf(r, run[r].sent) \notin net

\* _mark and send_event: flush, then POST and wait at most ten seconds for the
\* answer; without an answer the run goes on with its next event.
SendNext(r) ==
  /\ run[r].state = "running"
  /\ run[r].sent < Len(Script[run[r].outcome])
  /\ LockFree(r)
  /\ Answered(r)
  /\ Cardinality(net) < MaxInFlight
  /\ net' = net \cup {EventOf(r, run[r].sent + 1)}
  /\ run' = [run EXCEPT ![r].sent = @ + 1]
  /\ UNCHANGED <<rcVars, session, timers, log>>

\* Mutant of FinishOutcome: the delayed settlement is never scheduled.
FinishOutcomeWithoutTimer(r) ==
  LET script == Script[run[r].outcome]
  IN /\ run[r].state = "running"
     /\ run[r].sent = Len(script) /\ Answered(r)
     /\ run' = [run EXCEPT ![r].state = "ended"]
     /\ session' = [session EXCEPT ![run[r].session] =
                     [intent |-> @.intent, state |-> "consumed", txn |-> script[Len(script)]]]
     /\ log' = log \cup {EventOf(r, k) : k \in 1..Len(script)}
     /\ UNCHANGED <<rcVars, timers, net>>

\* The commit at the end of simulate_outcome or of the timer: the session is
\* consumed, the deliveries can be resent, a delayed settlement is scheduled.
FinishOutcome(r) ==
  LET script == Script[run[r].outcome]
  IN /\ run[r].state = "running"
     /\ run[r].sent = Len(script) /\ Answered(r)
     /\ run' = [run EXCEPT ![r].state = "ended"]
     /\ session' = [session EXCEPT ![run[r].session] =
                     [intent |-> @.intent, state |-> "consumed", txn |-> script[Len(script)]]]
     /\ log' = log \cup {EventOf(r, k) : k \in 1..Len(script)}
     /\ timers' = IF run[r].outcome = "delayed_settlement" THEN timers \cup {r} ELSE timers
     /\ UNCHANGED <<rcVars, net>>

\* _run_delayed_settlement, in the timer's thread.
StartTimer(r) ==
  /\ r \in timers
  /\ timers' = timers \ {r}
  /\ run' = [run EXCEPT ![r] = [session |-> @.session, outcome |-> "settlement_timer",
                                  sent |-> 0, state |-> "running"]]
  /\ UNCHANGED <<rcVars, session, log, net>>

\* A flush that waits too long for SQLite's write lock raises: the request or
\* the timer ends before it has sent anything.
LockTimeout(r) ==
  /\ Faulty
  /\ run[r].state = "running" /\ run[r].sent = 0 /\ ~LockFree(r)
  /\ run' = [run EXCEPT ![r].state = "ended"]
  /\ UNCHANGED <<rcVars, session, timers, log, net>>

\* The gateway process stops: open transactions and timers are gone, the
\* webhooks already sent are not.
GatewayCrash ==
  /\ Faulty
  /\ timers # {} \/ \E r \in Runs : run[r].state = "running"
  /\ run' = [r \in Runs |-> IF run[r].state = "running" THEN [run[r] EXCEPT !.state = "ended"]
                                                       ELSE run[r]]
  /\ timers' = {}
  /\ UNCHANGED <<rcVars, session, log, net>>

\* POST /gateway/webhooks/{event_id}/retry: same event, freshly signed.
Resend(e) ==
  /\ e \in log \ net
  /\ Cardinality(net) < MaxInFlight
  /\ net' = net \cup {e}
  /\ UNCHANGED <<rcVars, gwVars>>

Lose(e) ==
  /\ Faulty
  /\ e \in net
  /\ net' = net \ {e}
  /\ UNCHANGED <<rcVars, gwVars>>

-------------------------------------------------------------------------------
(* process_webhook, retail-credit-api: one disjunct per numbered section.     *)

Record(e, result) ==
  webhookEvent' = [x \in DOMAIN webhookEvent \cup {e} |->
                     IF x = e THEN result ELSE webhookEvent[x]]

\* 1. A known event is acknowledged and never looked at again; only its
\* retry_count changes.
Acknowledge(e) ==
  /\ e \in DOMAIN webhookEvent
  /\ UNCHANGED rcVars

Reject(e, result) ==
  /\ Record(e, result)
  /\ UNCHANGED <<intent, amount, checkouts, transaction, payment, active, outstanding,
                 credits, final>>

\* 2. The signature is checked before anything else about the event.
RejectSignature(e) == ~e.authentic /\ Reject(e, "REJECTED_SIGNATURE")

\* 3. A delivery that took longer than gateway_webhook_max_age_seconds.
RejectStale(e) == Faulty /\ e.authentic /\ Reject(e, "REJECTED_STALE")

\* 4. The transition graph.
RejectOutOfOrder(e) ==
  /\ e.authentic
  /\ ~can_transition(intent[e.intent], e.status)
  /\ Reject(e, "REJECTED_OUT_OF_ORDER")

\* Mutant of RecordPayment: the external reference is not looked up first.
RecordPaymentAgain(i) ==
  /\ payment' = [payment EXCEPT ![i] = "applied"]
  /\ outstanding' = outstanding - amount[i]
  /\ active' = (outstanding # amount[i])

\* record_payment as far as the channel can tell, once it is not Refused: a
\* known reference is a replay; otherwise the contract owes that much less,
\* and closes when nothing is owed any more.
RecordPayment(i) ==
  \/ /\ payment[i] # "none"
     /\ UNCHANGED <<payment, active, outstanding>>
  \/ /\ payment[i] = "none"
     /\ payment' = [payment EXCEPT ![i] = "applied"]
     /\ outstanding' = outstanding - amount[i]
     /\ active' = (outstanding # amount[i])

\* Mutant of ReversePayment: the search does not skip a reversed original.
ReversePaymentAgain(i) ==
  /\ payment[i] # "none"
  /\ payment' = [payment EXCEPT ![i] = "reversed"]
  /\ outstanding' = outstanding + amount[i]
  /\ UNCHANGED active

\* reverse_settled_payment: compensates the payment that has not been reversed
\* yet, is a replay when it has, and never looks at the contract's status.
ReversePayment(i) ==
  \/ /\ payment[i] = "applied"
     /\ payment' = [payment EXCEPT ![i] = "reversed"]
     /\ outstanding' = outstanding + amount[i]
     /\ UNCHANGED active
  \/ /\ payment[i] = "reversed"
     /\ UNCHANGED <<payment, active, outstanding>>

\* Mutant of Effect: a chargeback is only recorded.
EffectWithoutChargeback(i, target) ==
  IF target = final THEN RecordPayment(i)
  ELSE IF target \in {"REVERSED", "REFUNDED"} THEN ReversePayment(i)
  ELSE UNCHANGED <<payment, active, outstanding>>

\* 5. The financial effect of the new status.
Effect(i, target) ==
  IF target = final THEN RecordPayment(i)
  ELSE IF target \in REVERSAL_STATUSES THEN ReversePayment(i)
  ELSE UNCHANGED <<payment, active, outstanding>>

\* Mutant of Refused: the amount checked when the intent was created is trusted.
RefusedNever(i, target) == FALSE

\* What makes record_payment or reverse_settled_payment raise a DomainError.
Refused(i, target) ==
  \/ target = final /\ payment[i] = "none" /\ (~active \/ amount[i] > outstanding)
  \/ target # final /\ target \in REVERSAL_STATUSES /\ payment[i] = "none"

Apply(e) ==
  /\ e.authentic
  /\ can_transition(intent[e.intent], e.status)
  /\ ~Refused(e.intent, e.status)
  /\ Effect(e.intent, e.status)
  /\ intent' = [intent EXCEPT ![e.intent] = e.status]
  /\ transaction' = transaction \cup {e}
  /\ Record(e, "PROCESSED")
  /\ UNCHANGED <<amount, checkouts, credits, final>>

\* Mutant of Fail: the transaction row and the status stay behind.
FailWithoutRollback(e) ==
  /\ e.authentic
  /\ can_transition(intent[e.intent], e.status)
  /\ Refused(e.intent, e.status)
  /\ intent' = [intent EXCEPT ![e.intent] = e.status]
  /\ transaction' = transaction \cup {e}
  /\ Record(e, "FAILED")
  /\ UNCHANGED <<amount, checkouts, payment, active, outstanding, credits, final>>

\* 5, except clause: everything is rolled back, the event is kept as FAILED.
Fail(e) ==
  /\ e.authentic
  /\ can_transition(intent[e.intent], e.status)
  /\ Refused(e.intent, e.status)
  /\ Reject(e, "FAILED")

ProcessWebhook(e) ==
  /\ e \in net
  /\ net' = net \ {e}
  /\ \/ Acknowledge(e)
     \/ /\ e \notin DOMAIN webhookEvent
        /\ \/ RejectSignature(e)
           \/ RejectStale(e)
           \/ RejectOutOfOrder(e)
           \/ Apply(e)
           \/ Fail(e)
  /\ UNCHANGED gwVars

-------------------------------------------------------------------------------
(* What else moves the contract and the configuration.                        *)

\* POST /contracts/{id}/payments with a reference of its own.
StaffPayment ==
  /\ active
  /\ \E a \in 1..outstanding : /\ outstanding' = outstanding - a
                               /\ credits' = credits + a
                               /\ active' = (a # outstanding)
  /\ UNCHANGED <<intent, amount, checkouts, webhookEvent, transaction, payment, final,
                 gwVars, net>>

\* settle_contract: everything owed is paid or rebated, the contract closes.
EarlySettlement ==
  /\ active /\ outstanding > 0
  /\ outstanding' = 0
  /\ credits' = credits + outstanding
  /\ active' = FALSE
  /\ UNCHANGED <<intent, amount, checkouts, webhookEvent, transaction, payment, final,
                 gwVars, net>>

\* An approved config.update of the allocation point.
ChangeFinalStatus ==
  /\ \E f \in FinalStatuses \ {final} : final' = f
  /\ UNCHANGED <<intent, amount, checkouts, webhookEvent, transaction, payment, active,
                 outstanding, credits, gwVars, net>>

Next ==
  \/ \E i \in Intents : CreateIntent(i) \/ \E s \in Sessions : BeginCheckout(i, s)
  \/ \E c \in checkouts : FinishCheckout(c) \/ AbandonCheckout(c)
  \/ \E r \in Runs, s \in Sessions, o \in Outcomes : StartOutcome(r, s, o)
  \/ \E r \in Runs : SendNext(r) \/ FinishOutcome(r) \/ StartTimer(r) \/ LockTimeout(r)
  \/ GatewayCrash
  \/ \E e \in log : Resend(e)
  \/ \E e \in net : Lose(e) \/ ProcessWebhook(e)
  \/ StaffPayment \/ EarlySettlement \/ ChangeFinalStatus

Spec == Init /\ [][Next]_vars

\* Requests that have started run to their end: the server processes, the
\* worker threads and the timer thread keep being scheduled.  Customers, staff
\* and the operator who resends owe nothing.
Fairness ==
  /\ WF_vars(\E c \in checkouts : FinishCheckout(c))
  /\ \A r \in Runs : WF_vars(SendNext(r)) /\ WF_vars(FinishOutcome(r)) /\ WF_vars(StartTimer(r))
  /\ \A e \in Event : WF_vars(ProcessWebhook(e))

FairSpec == Spec /\ Fairness

-------------------------------------------------------------------------------
(* Safety.                                                                    *)

\* Every dinar is in one place: whatever the interleaving of redelivered
\* webhooks, a second checkout session, a reversal and a changed allocation
\* point, what the contract owes plus what cleared it is what it owed at the
\* start.  A second allocation of one intent (payments.py's replay check) or a
\* second reversal (payment_reversal.py's search) would break it.
MoneyConserved ==
  LET applied == {i \in Intents : payment[i] = "applied"}
  IN outstanding + credits + MapThenSumSet(LAMBDA i : amount[i], applied) = Opening

\* Under the SETTLED policy an intent that shows SETTLED has its Payment row:
\* a refused allocation rolls the status back with it.
SettledIsAllocated ==
  FinalStatuses = {"SETTLED"} =>
    \A i \in Intents : intent[i] \in {"SETTLED", "PARTIALLY_REFUNDED"} => payment[i] # "none"

\* Under the SETTLED policy, an intent that shows the money was taken back has
\* its payment compensated, and is the only kind of intent whose payment was.
ReversalIsCompensated ==
  FinalStatuses = {"SETTLED"} =>
    \A i \in Intents :
      /\ intent[i] \in REVERSAL_STATUSES => payment[i] = "reversed"
      /\ payment[i] = "reversed" =>
           \E t \in transaction : t.intent = i /\ t.status \in REVERSAL_STATUSES

\* A Payment row exists only after authentic AUTHORIZED and CAPTURED events and
\* one with an allocation status were applied for its intent: neither a forged
\* nor an out-of-order event moves money, and no other status allocates
\* (BRD.md's "only status that creates a Payment row").
AllocationIsVerified ==
  \A i \in Intents : payment[i] # "none" =>
    LET seen == {t.status : t \in {u \in transaction : u.intent = i /\ u.authentic}}
    IN {"AUTHORIZED", "CAPTURED"} \subseteq seen /\ seen \cap FinalStatuses # {}

\* The event log and the transaction history agree: an event has its
\* gateway_transactions row exactly when it is recorded as PROCESSED, so an
\* attempt that was rolled back left nothing but its own record.
HistoryAgrees ==
  transaction = {e \in DOMAIN webhookEvent : webhookEvent[e] = "PROCESSED"}

\* A settled-and-done intent stays done: once FAILED, CANCELLED, EXPIRED or
\* taken back its status never changes, provided no open_checkout call for it
\* is still waiting for the gateway.
TerminalIsFinal ==
  [][\A i \in Intents :
       (/\ intent[i] \in {"FAILED", "CANCELLED", "EXPIRED"} \cup REVERSAL_STATUSES
        /\ \A c \in checkouts : c.intent # i) => intent'[i] = intent[i]]_vars

\* The channel keeps its promise about money: it implements PaymentPromise.
Promise == INSTANCE PaymentPromise
KeepsPromise == Promise!Spec

-------------------------------------------------------------------------------
(* Liveness.                                                                  *)

\* Nothing lost, delayed or crashed: a settlement the gateway reports for its
\* session reaches the contract, unless the contract refuses it (closed, or
\* paid down by staff in the meantime) and the event is kept as FAILED.
SettlementArrives ==
  \A r \in Runs, s \in Sessions, i \in Intents :
    (/\ run[r].state = "running" /\ run[r].session = s /\ session[s].intent = i
     /\ run[r].outcome \in {"success_settlement", "delayed_settlement", "settle_then_reverse",
                            "duplicate_webhook"})
      ~> \/ payment[i] # "none"
         \/ \E e \in DOMAIN webhookEvent : e.run = r /\ webhookEvent[e] = "FAILED"

-------------------------------------------------------------------------------
(* What comments and documents say, and the code does not do.                 *)

\* gateway_webhooks.py and FSD.md: a business-rule rejection never raises, so a
\* FAILED event is a bug or a transient failure that a retry can cure.
BusinessRulesNeverRaise ==
  \A e \in DOMAIN webhookEvent : webhookEvent[e] # "FAILED"

\* models/payment_gateway.py: a status change outside the graph is refused.
OnlyGraphTransitions ==
  [][\A i \in Intents : intent[i] \in Status /\ intent'[i] # intent[i]
        => can_transition(intent[i], intent'[i])]_vars
===============================================================================

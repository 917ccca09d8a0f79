------------------------- MODULE PaymentGatewayProofs -------------------------
(* Theorems about PaymentGateway, for any set of intents, sessions and runs.  *)
EXTENDS PaymentGateway, AmountTheorems

\* Every run that has started works on a session that belongs to an intent.
Owned ==
  /\ \A s \in Sessions : session[s].state # "unused" => session[s].intent \in Intents
  /\ \A r \in Runs : run[r].state # "idle" =>
       run[r].session \in Sessions /\ session[run[r].session].state # "unused"
  /\ \A r \in timers : run[r].state # "idle"
  /\ \A c \in checkouts : session[c.session].state # "unused"

LEMMA ScriptFacts ==
  ASSUME NEW o \in DOMAIN Script
  PROVE  /\ Len(Script[o]) \in 1..4
         /\ \A k \in 1..Len(Script[o]) : Script[o][k] \in Status
<1>1. o \in {"success_settlement", "success_authorization_only", "insufficient_funds",
             "customer_cancel", "timeout", "delayed_settlement", "duplicate_webhook",
             "invalid_signature", "settle_then_reverse", "settlement_timer", "refund",
             "partial_refund", "chargeback"}
  BY DEF Script
<1>2. CASE o \in {"success_settlement"}
  BY <1>2 DEF Script, Status
<1>3. CASE o \in {"duplicate_webhook", "settle_then_reverse"}
  BY <1>3 DEF Script, Status
<1>4. CASE o \in {"delayed_settlement", "partial_refund"}
  BY <1>4 DEF Script, Status
<1>5. CASE o \in {"success_authorization_only", "insufficient_funds", "customer_cancel",
                  "timeout", "invalid_signature", "settlement_timer", "refund", "chargeback"}
  BY <1>5 DEF Script, Status
<1> QED BY <1>1, <1>2, <1>3, <1>4, <1>5

TInv == TypeOK /\ Owned

RunType == [session: Sessions \cup {NoSession}, outcome: DOMAIN Script, sent: 0..4,
            state: {"idle", "running", "ended"}]
SessionType == [intent: Intents \cup {NoIntent},
                state: {"unused", "created", "handed", "consumed"}, txn: Status]

\* Changing one entry of a function to a value of its range.
LEMMA UpdateType ==
  ASSUME NEW S, NEW T, NEW f \in [S -> T], NEW x \in S, NEW v \in T
  PROVE  [f EXCEPT ![x] = v] \in [S -> T]
OBVIOUS

\* A run that ends, delivered or not, stays a run.
LEMMA RunEnds ==
  ASSUME TypeOK, NEW r \in Runs, run' = [run EXCEPT ![r].state = "ended"]
  PROVE  run' \in [Runs -> RunType]
<1> DEFINE new == [run[r] EXCEPT !.state = "ended"]
<1>1. run \in [Runs -> RunType] /\ run[r] \in RunType
  BY DEF TypeOK, RunType
<1>2. new \in RunType
  BY <1>1 DEF RunType
<1>3. run' = [run EXCEPT ![r] = new]
  OBVIOUS
<1> HIDE DEF new
<1> QED BY <1>1, <1>2, <1>3, UpdateType

LEMMA Within4 == ASSUME NEW n \in 1..4 PROVE n \in 1..n
OBVIOUS

LEMMA OneMore ==
  ASSUME NEW n \in 1..4, NEW k \in 0..4, k < n
  PROVE  k \in Nat /\ k + 1 \in 1..n /\ k + 1 \in 0..4
OBVIOUS

\* The event a started run sends is an Event.
LEMMA EventOfType ==
  ASSUME TInv, NEW r \in Runs, run[r].state # "idle",
         NEW k \in 1..Len(Script[run[r].outcome])
  PROVE  EventOf(r, k) \in Event
<1>1. run[r].outcome \in DOMAIN Script
  BY DEF TInv, TypeOK
<1>2. Script[run[r].outcome][k] \in Status
  BY <1>1, ScriptFacts
<1>3. session[run[r].session].intent \in Intents
  BY DEF TInv, Owned
<1> QED BY <1>2, <1>3 DEF EventOf, Event

\* Recording a result keeps webhook_events well-typed.
LEMMA RecordType ==
  ASSUME TInv, NEW e \in Event, NEW result \in EventResult, Record(e, result)
  PROVE  /\ DOMAIN webhookEvent' = DOMAIN webhookEvent \cup {e}
         /\ DOMAIN webhookEvent' \subseteq Event
         /\ \A x \in DOMAIN webhookEvent' : webhookEvent'[x] \in EventResult
BY DEF Record, TInv, TypeOK

LEMMA EffectType ==
  ASSUME TInv, NEW i \in Intents, NEW st \in Status, ~Refused(i, st), Effect(i, st)
  PROVE  /\ payment' \in [Intents -> {"none", "applied", "reversed"}]
         /\ active' \in BOOLEAN
         /\ outstanding' \in Nat
<1>1. CASE st = final
  <2>1. CASE payment[i] # "none"
    BY <1>1, <2>1 DEF Effect, RecordPayment, TInv, TypeOK
  <2>2. CASE payment[i] = "none"
    <3>1. amount[i] <= outstanding /\ amount[i] \in Nat /\ outstanding \in Nat
      BY <1>1, <2>2 DEF Refused, TInv, TypeOK
    <3>2. /\ payment' = [payment EXCEPT ![i] = "applied"]
          /\ outstanding' = outstanding - amount[i]
          /\ active' = (outstanding # amount[i])
      BY <1>1, <2>2 DEF Effect, RecordPayment
    <3>3. outstanding' \in Nat
      BY <3>1, <3>2
    <3>4. active' \in BOOLEAN
      BY <3>2
    <3>5. payment' \in [Intents -> {"none", "applied", "reversed"}]
      BY <3>2 DEF TInv, TypeOK
    <3> QED BY <3>3, <3>4, <3>5
  <2> QED BY <2>1, <2>2
<1>2. CASE st # final /\ st \in REVERSAL_STATUSES
  BY <1>2 DEF Effect, ReversePayment, TInv, TypeOK
<1>3. CASE st # final /\ st \notin REVERSAL_STATUSES
  BY <1>3 DEF Effect, TInv, TypeOK
<1> QED BY <1>1, <1>2, <1>3

LEMMA TypeInit == Init => TInv
<1> SUFFICES ASSUME Init PROVE TInv
  OBVIOUS
<1>1. "timeout" \in DOMAIN Script
  BY DEF Script
<1>2. Opening \in Nat
  BY ConstantsAssumption
<1> QED BY <1>1, <1>2 DEF Init, TInv, TypeOK, Owned, Status

LEMMA TypeNext == TInv /\ [Next]_vars => TInv'
<1> SUFFICES ASSUME TInv, [Next]_vars PROVE TInv'
  OBVIOUS
<1> USE DEF TInv
<1>1. ASSUME NEW i \in Intents, CreateIntent(i) PROVE TInv'
  BY <1>1 DEF CreateIntent, TypeOK, Owned, gwVars, Status
<1>2. ASSUME NEW i \in Intents, NEW s \in Sessions, BeginCheckout(i, s) PROVE TInv'
  <2>1. TypeOK'
    BY <1>2 DEF BeginCheckout, TypeOK
  <2>2. Owned'
    BY <1>2 DEF BeginCheckout, TypeOK, Owned
  <2> QED BY <2>1, <2>2
<1>3. ASSUME NEW c \in checkouts, FinishCheckout(c) PROVE TInv'
  <2> c.intent \in Intents /\ c.session \in Sessions
    BY DEF TypeOK
  <2> "PENDING" \in Status
    BY DEF Status
  <2>1. TypeOK'
    BY <1>3 DEF FinishCheckout, TypeOK
  <2>2. Owned'
    BY <1>3 DEF FinishCheckout, TypeOK, Owned
  <2> QED BY <2>1, <2>2
<1>4. ASSUME NEW c \in checkouts, AbandonCheckout(c) PROVE TInv'
  BY <1>4 DEF AbandonCheckout, TypeOK, Owned, gwVars
<1>5. ASSUME NEW r \in Runs, NEW s \in Sessions, NEW o \in Outcomes, StartOutcome(r, s, o)
      PROVE TInv'
  <2>1. o \in DOMAIN Script
    BY ConstantsAssumption DEF Buttons, LaterOutcomes, Script
  <2>2. TypeOK'
    BY <1>5, <2>1 DEF StartOutcome, TypeOK, rcVars
  <2>3. session[s].state # "unused"
    BY <1>5 DEF StartOutcome
  <2>4. Owned'
    BY <1>5, <2>3 DEF StartOutcome, TypeOK, Owned, rcVars
  <2> QED BY <2>2, <2>4
<1>6. ASSUME NEW r \in Runs, SendNext(r) PROVE TInv'
  <2>1. run[r].outcome \in DOMAIN Script
    BY DEF TypeOK
  <2>2. /\ run[r].sent + 1 \in 1..Len(Script[run[r].outcome])
        /\ run[r].sent + 1 \in 0..4
    <3>1. run[r].sent \in 0..4 /\ run[r].sent < Len(Script[run[r].outcome])
      BY <1>6 DEF SendNext, TypeOK
    <3>2. Len(Script[run[r].outcome]) \in 1..4
      BY <2>1, ScriptFacts
    <3> HIDE DEF TInv
    <3> QED BY <3>1, <3>2, OneMore
  <2>3. EventOf(r, run[r].sent + 1) \in Event
    BY <1>6, <2>2, EventOfType DEF SendNext
  <2>4. run[r].sent + 1 \in 0..4
    BY <2>2
  <2>5. TypeOK'
    <3> DEFINE new == [run[r] EXCEPT !.sent = run[r].sent + 1]
    <3>1. run \in [Runs -> RunType] /\ run[r] \in RunType
      BY DEF TypeOK, RunType
    <3>2. new \in RunType
      BY <2>4, <3>1 DEF RunType
    <3>3. run' = [run EXCEPT ![r] = new]
      BY <1>6 DEF SendNext
    <3>4. run' \in [Runs -> RunType]
      <4> HIDE DEF new
      <4> QED BY <3>1, <3>2, <3>3, UpdateType
    <3>5. net' \subseteq Event
      BY <1>6, <2>3 DEF SendNext, TypeOK
    <3> QED BY <1>6, <3>4, <3>5 DEF SendNext, TypeOK, RunType, rcVars
  <2>6. Owned'
    BY <1>6 DEF SendNext, TypeOK, Owned, rcVars
  <2> QED BY <2>5, <2>6
<1>7. ASSUME NEW r \in Runs, FinishOutcome(r) PROVE TInv'
  <2>1. run[r].outcome \in DOMAIN Script /\ run[r].state # "idle"
    BY <1>7 DEF FinishOutcome, TypeOK
  <2> DEFINE script == Script[run[r].outcome]
             last   == script[Len(script)]
  <2>2. last \in Status
    <3>1. Len(script) \in 1..4 /\ \A k \in 1..Len(script) : script[k] \in Status
      BY <2>1, ScriptFacts
    <3> HIDE DEF script
    <3>2. Len(script) \in 1..Len(script)
      BY <3>1, Within4
    <3> QED BY <3>1, <3>2
  <2>3. \A k \in 1..Len(Script[run[r].outcome]) : EventOf(r, k) \in Event
    BY <2>1, EventOfType
  <2>4. TypeOK'
    <3>1. run[r].session \in Sessions
      BY <2>1 DEF Owned
    <3> DEFINE old == session[run[r].session]
               new == [intent |-> old.intent, state |-> "consumed", txn |-> last]
    <3>2. old \in SessionType /\ session \in [Sessions -> SessionType]
      BY <3>1 DEF TypeOK, SessionType
    <3>a. new \in SessionType
      BY <3>2, <2>2 DEF SessionType
    <3>b. session' = [session EXCEPT ![run[r].session] = new]
      BY <1>7 DEF FinishOutcome
    <3>3. session' \in [Sessions -> SessionType]
      <4> HIDE DEF new
      <4> QED BY <3>1, <3>2, <3>a, <3>b, UpdateType
    <3>4. log' \subseteq Event /\ timers' \subseteq Runs
      BY <1>7, <2>3 DEF FinishOutcome, TypeOK
    <3>5. run' \in [Runs -> RunType]
      BY <1>7, RunEnds DEF FinishOutcome
    <3> QED BY <1>7, <3>3, <3>4, <3>5 DEF FinishOutcome, TypeOK, SessionType, RunType, rcVars
  <2>5. Owned'
    BY <1>7, <2>1 DEF FinishOutcome, TypeOK, Owned, rcVars
  <2> QED BY <2>4, <2>5
<1>8. ASSUME NEW r \in Runs, StartTimer(r) PROVE TInv'
  <2>1. "settlement_timer" \in DOMAIN Script
    BY DEF Script
  <2>2. TypeOK'
    <3> DEFINE new == [session |-> run[r].session, outcome |-> "settlement_timer",
                       sent |-> 0, state |-> "running"]
    <3>1. run \in [Runs -> RunType] /\ run[r] \in RunType
      BY DEF TypeOK, RunType
    <3>2. new \in RunType
      BY <2>1, <3>1 DEF RunType
    <3>3. run' = [run EXCEPT ![r] = new]
      BY <1>8 DEF StartTimer
    <3>4. run' \in [Runs -> RunType]
      <4> HIDE DEF new
      <4> QED BY <3>1, <3>2, <3>3, UpdateType
    <3> QED BY <1>8, <3>4 DEF StartTimer, TypeOK, RunType, rcVars
  <2>3. Owned'
    BY <1>8 DEF StartTimer, TypeOK, Owned, rcVars
  <2> QED BY <2>2, <2>3
<1>9. ASSUME NEW r \in Runs, LockTimeout(r) PROVE TInv'
  <2>1. run' \in [Runs -> RunType]
    BY <1>9, RunEnds DEF LockTimeout
  <2>2. TypeOK'
    BY <1>9, <2>1 DEF LockTimeout, TypeOK, RunType, rcVars
  <2>3. Owned'
    BY <1>9 DEF LockTimeout, TypeOK, Owned, rcVars
  <2> QED BY <2>2, <2>3
<1>10. ASSUME GatewayCrash PROVE TInv'
  <2>1. TypeOK'
    BY <1>10 DEF GatewayCrash, TypeOK, rcVars
  <2>2. Owned'
    BY <1>10 DEF GatewayCrash, TypeOK, Owned, rcVars
  <2> QED BY <2>1, <2>2
<1>11. ASSUME NEW e \in log, Resend(e) PROVE TInv'
  BY <1>11 DEF Resend, TypeOK, Owned, rcVars, gwVars
<1>12. ASSUME NEW e \in net, Lose(e) PROVE TInv'
  BY <1>12 DEF Lose, TypeOK, Owned, rcVars, gwVars
<1>13. ASSUME NEW e \in net, ProcessWebhook(e) PROVE TInv'
  <2> e \in Event /\ e.intent \in Intents /\ e.status \in Status
    BY DEF TypeOK, Event
  <2>1. Owned' /\ net' \subseteq Event
    <3>1. UNCHANGED <<checkouts, gwVars>> /\ net' = net \ {e}
      BY <1>13 DEF ProcessWebhook, Acknowledge, RejectSignature, RejectStale, RejectOutOfOrder,
                   Reject, Apply, Fail, rcVars
    <3> QED BY <3>1 DEF Owned, gwVars, TypeOK
  <2>2. CASE Acknowledge(e)
    BY <1>13, <2>1, <2>2 DEF ProcessWebhook, Acknowledge, TypeOK, rcVars, gwVars
  <2>3. CASE \E result \in EventResult : Reject(e, result)
    BY <1>13, <2>1, <2>3, RecordType DEF ProcessWebhook, Reject, TypeOK, gwVars
  <2>4. CASE Apply(e)
    <3>1. "PROCESSED" \in EventResult
      BY DEF EventResult
    <3>2. /\ DOMAIN webhookEvent' \subseteq Event
          /\ \A x \in DOMAIN webhookEvent' : webhookEvent'[x] \in EventResult
      BY <2>4, <3>1, RecordType DEF Apply
    <3>3. /\ payment' \in [Intents -> {"none", "applied", "reversed"}]
          /\ active' \in BOOLEAN
          /\ outstanding' \in Nat
      BY <2>4, EffectType DEF Apply
    <3> QED BY <1>13, <2>1, <2>4, <3>2, <3>3 DEF ProcessWebhook, Apply, TypeOK, gwVars
  <2> QED
    BY <1>13, <2>2, <2>3, <2>4 DEF ProcessWebhook, RejectSignature, RejectStale,
       RejectOutOfOrder, Fail, EventResult
<1>14. CASE StaffPayment
  BY <1>14 DEF StaffPayment, TypeOK, Owned, gwVars
<1>15. CASE EarlySettlement
  <2>1. credits' \in Nat /\ outstanding' \in Nat
    BY <1>15 DEF EarlySettlement, TypeOK
  <2>2. UNCHANGED <<intent, amount, checkouts, webhookEvent, transaction, payment, final,
                    session, run, timers, log, net>> /\ active' = FALSE
    BY <1>15 DEF EarlySettlement, gwVars
  <2> QED BY <2>1, <2>2 DEF TypeOK, Owned
<1>16. CASE ChangeFinalStatus
  BY <1>16 DEF ChangeFinalStatus, TypeOK, Owned, gwVars
<1>17. CASE UNCHANGED vars
  BY <1>17 DEF vars, rcVars, gwVars, TypeOK, Owned
<1> QED
  BY <1>1, <1>2, <1>3, <1>4, <1>5, <1>6, <1>7, <1>8, <1>9, <1>10, <1>11, <1>12, <1>13,
     <1>14, <1>15, <1>16, <1>17 DEF Next

\* Every reachable state is well-typed, whatever the number of intents,
\* sessions and runs and whatever the network and the gateway do.
THEOREM TypeCorrect == Spec => []TypeOK
<1>1. Spec => []TInv
  BY TypeInit, TypeNext, PTL DEF Spec
<1> QED BY <1>1, PTL DEF TInv

-------------------------------------------------------------------------------
(* The state invariants.  Born says that whatever refers to an intent, from a *)
(* session to a delivery in flight, refers to one that was created; Earned    *)
(* that a status of the settlement path was reached through applied events.   *)

Born ==
  /\ \A i \in Intents : amount[i] = 0 <=> intent[i] = "none"
  /\ \A c \in checkouts : intent[c.intent] # "none"
  /\ \A s \in Sessions : session[s].intent \in Intents => intent[session[s].intent] # "none"
  /\ \A e \in log \cup net : intent[e.intent] # "none"

Seen(i, st) == \E t \in transaction : t.intent = i /\ t.authentic /\ t.status = st

Earned ==
  \A i \in Intents :
    /\ intent[i] = "AUTHORIZED" => Seen(i, "AUTHORIZED")
    /\ intent[i] \in {"CAPTURED", "SETTLED"} => Seen(i, "AUTHORIZED") /\ Seen(i, "CAPTURED")
    /\ payment[i] # "none" => /\ Seen(i, "AUTHORIZED") /\ Seen(i, "CAPTURED")
                              /\ \E st \in FinalStatuses : Seen(i, st)

IInv == TInv /\ Born /\ HistoryAgrees /\ Earned /\ SettledIsAllocated /\ ReversalIsCompensated

\* The webhook aside, no step touches what Earned and the three properties read,
\* except that an intent may be created or become PENDING.
Quiet ==
  /\ UNCHANGED <<webhookEvent, transaction, payment>>
  /\ \A i \in Intents : intent'[i] \in {intent[i], "INITIATED", "PENDING"}

\* Every step that is not the processing of a webhook is quiet, and leaves a
\* created intent created.
LEMMA QuietSteps ==
  ASSUME IInv, [Next]_vars, ~ \E e \in net : ProcessWebhook(e)
  PROVE  Quiet
<1> USE DEF IInv, TInv, Quiet
<1>1. ASSUME NEW i \in Intents, CreateIntent(i) PROVE Quiet
  BY <1>1 DEF CreateIntent, TypeOK
<1>2. ASSUME NEW i \in Intents, NEW s \in Sessions, BeginCheckout(i, s) PROVE Quiet
  BY <1>2 DEF BeginCheckout
<1>3. ASSUME NEW c \in checkouts, FinishCheckout(c) PROVE Quiet
  BY <1>3 DEF FinishCheckout, TypeOK
<1>4. ASSUME NEW c \in checkouts, AbandonCheckout(c) PROVE Quiet
  BY <1>4 DEF AbandonCheckout
<1>5. ASSUME UNCHANGED rcVars PROVE Quiet
  BY <1>5 DEF rcVars
<1>6. ASSUME StaffPayment \/ EarlySettlement \/ ChangeFinalStatus PROVE Quiet
  BY <1>6 DEF StaffPayment, EarlySettlement, ChangeFinalStatus
<1> QED
  BY <1>1, <1>2, <1>3, <1>4, <1>5, <1>6 DEF Next, StartOutcome, SendNext, FinishOutcome,
     StartTimer, LockTimeout, GatewayCrash, Resend, Lose, vars

\* A quiet step preserves the three properties and Earned.
LEMMA QuietKeeps ==
  ASSUME IInv, Quiet
  PROVE  HistoryAgrees' /\ Earned' /\ SettledIsAllocated' /\ ReversalIsCompensated'
<1>1. HistoryAgrees'
  BY DEF IInv, Quiet, HistoryAgrees
<1>2. Earned'
  BY DEF IInv, Quiet, Earned, Seen
<1>3. SettledIsAllocated'
  BY DEF IInv, Quiet, SettledIsAllocated
<1>4. ReversalIsCompensated'
  BY DEF IInv, Quiet, ReversalIsCompensated, REVERSAL_STATUSES
<1> QED BY <1>1, <1>2, <1>3, <1>4

\* What the transition graph says of the statuses the properties mention.
LEMMA GraphFacts ==
  ASSUME NEW from \in Status, NEW to \in Status, can_transition(from, to)
  PROVE  /\ to = "CAPTURED" => from = "AUTHORIZED"
         /\ to = "SETTLED" => from = "CAPTURED"
         /\ to = "PARTIALLY_REFUNDED" => from = "SETTLED"
         /\ to \in REVERSAL_STATUSES => from \in {"SETTLED", "PARTIALLY_REFUNDED"}
         /\ from \notin {"FAILED", "CANCELLED", "EXPIRED"} \cup REVERSAL_STATUSES
BY DEF Status, can_transition, PAYMENT_INTENT_TRANSITIONS, REVERSAL_STATUSES

\* An applied event moves the payment of its own intent only, and how.
LEMMA EffectFacts ==
  ASSUME TInv, NEW i \in Intents, NEW st \in Status, ~Refused(i, st), Effect(i, st)
  PROVE  /\ \A j \in Intents \ {i} : payment'[j] = payment[j]
         /\ payment[i] # "none" => payment'[i] # "none"
         /\ st = final => payment'[i] # "none"
         /\ st # final /\ st \in REVERSAL_STATUSES => payment'[i] = "reversed"
         /\ payment'[i] = "reversed" =>
              payment[i] = "reversed" \/ (st # final /\ st \in REVERSAL_STATUSES)
         /\ payment[i] = "none" /\ payment'[i] # "none" => st = final
         /\ payment[i] = "reversed" => payment'[i] = "reversed"
BY DEF Effect, Refused, RecordPayment, ReversePayment, TInv, TypeOK

\* Whatever a step does, what is referred to was created.
LEMMA BornNext ==
  ASSUME IInv, [Next]_vars
  PROVE  Born'
<1> USE DEF IInv, TInv
<1>1. ASSUME NEW i \in Intents, CreateIntent(i) PROVE Born'
  BY <1>1 DEF CreateIntent, TypeOK, Born, gwVars
<1>2. ASSUME NEW i \in Intents, NEW s \in Sessions, BeginCheckout(i, s) PROVE Born'
  BY <1>2 DEF BeginCheckout, TypeOK, Born
<1>3. ASSUME NEW c \in checkouts, FinishCheckout(c) PROVE Born'
  <2>1. c.intent \in Intents /\ c.session \in Sessions
    BY DEF TypeOK
  <2>2. \A i \in Intents : intent'[i] = "none" <=> intent[i] = "none"
    BY <1>3, <2>1 DEF FinishCheckout, TypeOK, Born
  <2>3. \A s \in Sessions : session'[s].intent = session[s].intent
    BY <1>3, <2>1 DEF FinishCheckout, TypeOK
  <2>4. \A e \in log \cup net : e.intent \in Intents
    BY DEF TypeOK, Event
  <2>5. \A d \in checkouts : d.intent \in Intents
    BY DEF TypeOK
  <2>6. checkouts' \subseteq checkouts /\ UNCHANGED <<amount, log, net>>
    BY <1>3 DEF FinishCheckout
  <2> QED BY <2>2, <2>3, <2>4, <2>5, <2>6 DEF Born
<1>4. ASSUME NEW c \in checkouts, AbandonCheckout(c) PROVE Born'
  BY <1>4 DEF AbandonCheckout, Born, gwVars
<1>5. ASSUME NEW r \in Runs, NEW s \in Sessions, NEW o \in Outcomes, StartOutcome(r, s, o)
      PROVE Born'
  BY <1>5 DEF StartOutcome, Born, rcVars
<1>6. ASSUME NEW r \in Runs, SendNext(r) PROVE Born'
  <2>1. EventOf(r, run[r].sent + 1).intent = session[run[r].session].intent
    BY DEF EventOf
  <2>2. session[run[r].session].intent \in Intents /\ run[r].session \in Sessions
    BY <1>6 DEF SendNext, Owned
  <2> QED BY <1>6, <2>1, <2>2 DEF SendNext, Born, rcVars
<1>7. ASSUME NEW r \in Runs, FinishOutcome(r) PROVE Born'
  <2>1. run[r].session \in Sessions /\ session[run[r].session].intent \in Intents
    BY <1>7 DEF FinishOutcome, Owned
  <2>2. \A s \in Sessions : session'[s].intent = session[s].intent
    BY <1>7, <2>1 DEF FinishOutcome, TypeOK
  <2>3. \A e \in log' : e \in log \/ e.intent = session[run[r].session].intent
    BY <1>7 DEF FinishOutcome, EventOf
  <2> QED BY <1>7, <2>1, <2>2, <2>3 DEF FinishOutcome, Born, rcVars
<1>8. ASSUME NEW e \in net, ProcessWebhook(e) PROVE Born'
  <2>1. e.intent \in Intents /\ e.status \in Status
    BY DEF TypeOK, Event
  <2>2. \A i \in Intents : intent'[i] = intent[i] \/ (i = e.intent /\ intent'[i] \in Status)
    BY <1>8, <2>1 DEF ProcessWebhook, Acknowledge, RejectSignature, RejectStale,
       RejectOutOfOrder, Reject, Apply, Fail, rcVars, TypeOK
  <2>3. "none" \notin Status /\ intent[e.intent] # "none"
    BY DEF Status, Born
  <2>4. UNCHANGED <<amount, checkouts, session, log>> /\ net' \subseteq net
    BY <1>8 DEF ProcessWebhook, Acknowledge, RejectSignature, RejectStale,
       RejectOutOfOrder, Reject, Apply, Fail, rcVars, gwVars
  <2>5. \A i \in Intents : intent'[i] = "none" <=> intent[i] = "none"
    BY <2>2, <2>3
  <2>6. \A d \in log \cup net : d.intent \in Intents
    BY DEF TypeOK, Event
  <2>7. \A d \in checkouts : d.intent \in Intents
    BY DEF TypeOK
  <2> QED BY <2>4, <2>5, <2>6, <2>7 DEF Born
<1>9. ASSUME UNCHANGED rcVars, UNCHANGED session, log' \subseteq log, net' \subseteq net \cup log
      PROVE Born'
  BY <1>9 DEF Born, rcVars
<1>10. CASE StaffPayment \/ EarlySettlement \/ ChangeFinalStatus
  BY <1>10 DEF StaffPayment, EarlySettlement, ChangeFinalStatus, Born, gwVars
<1> QED
  BY <1>1, <1>2, <1>3, <1>4, <1>5, <1>6, <1>7, <1>8, <1>9, <1>10 DEF Next, StartTimer,
     LockTimeout, GatewayCrash, Resend, Lose, vars, rcVars, gwVars

\* Processing a webhook preserves what the history and the statuses say.
LEMMA WebhookKeeps ==
  ASSUME IInv, NEW e \in net, ProcessWebhook(e)
  PROVE  HistoryAgrees' /\ Earned' /\ SettledIsAllocated' /\ ReversalIsCompensated'
<1> USE DEF IInv, TInv
<1>1. e \in Event /\ e.intent \in Intents /\ e.status \in Status
  BY DEF TypeOK, Event
<1>2. CASE Acknowledge(e)
  <2> UNCHANGED <<intent, transaction, webhookEvent, payment>>
    BY <1>2 DEF Acknowledge, rcVars
  <2> Quiet
    BY DEF Quiet
  <2> QED BY QuietKeeps
<1>3. ASSUME NEW result \in EventResult \ {"PROCESSED"}, Reject(e, result),
             e \notin DOMAIN webhookEvent
      PROVE  HistoryAgrees' /\ Earned' /\ SettledIsAllocated' /\ ReversalIsCompensated'
  <2>1. HistoryAgrees'
    BY <1>3 DEF Reject, Record, HistoryAgrees
  <2>2. UNCHANGED <<intent, transaction, payment>>
    BY <1>3 DEF Reject
  <2> QED BY <2>1, <2>2 DEF Earned, Seen, SettledIsAllocated, ReversalIsCompensated
<1>4. CASE e \notin DOMAIN webhookEvent /\ Apply(e)
  <2> DEFINE i == e.intent
             st == e.status
  <2>1. /\ e.authentic /\ can_transition(intent[i], st) /\ ~Refused(i, st) /\ Effect(i, st)
        /\ intent' = [intent EXCEPT ![i] = st] /\ transaction' = transaction \cup {e}
        /\ Record(e, "PROCESSED")
    BY <1>4 DEF Apply
  <2>2. intent[i] \in Status
    BY <1>1 DEF TypeOK, Born
  <2>3. /\ \A j \in Intents \ {i} : payment'[j] = payment[j] /\ intent'[j] = intent[j]
        /\ intent'[i] = st
    BY <1>1, <2>1, EffectFacts DEF TypeOK
  <2>4. \A j \in Intents, x \in Status : Seen(j, x) => Seen(j, x)'
    BY <2>1 DEF Seen
  <2>5. Seen(i, st)'
    BY <2>1 DEF Seen
  <2>6. HistoryAgrees'
    BY <1>4, <2>1 DEF Record, HistoryAgrees
  <2>7. FinalStatuses \subseteq {"CAPTURED", "SETTLED"} /\ final \in FinalStatuses
    BY ConstantsAssumption DEF TypeOK
  <2>8. {"AUTHORIZED", "CAPTURED", "SETTLED"} \subseteq Status
    BY DEF Status
  <2>9. /\ st = "CAPTURED" => intent[i] = "AUTHORIZED"
        /\ st = "SETTLED" => intent[i] = "CAPTURED"
        /\ st = "PARTIALLY_REFUNDED" => intent[i] = "SETTLED"
        /\ st \in REVERSAL_STATUSES => intent[i] \in {"SETTLED", "PARTIALLY_REFUNDED"}
    BY <1>1, <2>1, <2>2, GraphFacts
  <2>10. /\ payment[i] # "none" => payment'[i] # "none"
         /\ st = final => payment'[i] # "none"
         /\ st # final /\ st \in REVERSAL_STATUSES => payment'[i] = "reversed"
         /\ payment'[i] = "reversed" =>
              payment[i] = "reversed" \/ (st # final /\ st \in REVERSAL_STATUSES)
         /\ payment[i] = "none" /\ payment'[i] # "none" => st = final
    BY <1>1, <2>1, EffectFacts
  <2>11. Earned'
    <3> SUFFICES ASSUME NEW j \in Intents
                 PROVE  /\ intent'[j] = "AUTHORIZED" => Seen(j, "AUTHORIZED")'
                        /\ intent'[j] \in {"CAPTURED", "SETTLED"} =>
                             Seen(j, "AUTHORIZED")' /\ Seen(j, "CAPTURED")'
                        /\ payment'[j] # "none" =>
                             /\ Seen(j, "AUTHORIZED")' /\ Seen(j, "CAPTURED")'
                             /\ \E x \in FinalStatuses : Seen(j, x)'
      BY DEF Earned
    <3>1. CASE j # i
      BY <3>1, <2>3, <2>4, <2>7, <2>8 DEF Earned
    <3>2. CASE j = i
      <4>1. intent'[i] = "AUTHORIZED" => Seen(i, "AUTHORIZED")'
        BY <2>3, <2>5
      <4>2. intent'[i] \in {"CAPTURED", "SETTLED"} =>
              Seen(i, "AUTHORIZED")' /\ Seen(i, "CAPTURED")'
        BY <1>1, <2>3, <2>4, <2>5, <2>8, <2>9 DEF Earned
      <4>3. ASSUME payment'[i] # "none"
            PROVE  /\ Seen(i, "AUTHORIZED")' /\ Seen(i, "CAPTURED")'
                   /\ \E x \in FinalStatuses : Seen(i, x)'
        <5>1. CASE payment[i] # "none"
          BY <5>1, <1>1, <2>4, <2>7, <2>8 DEF Earned
        <5>2. CASE payment[i] = "none"
          <6>1. st = final
            BY <4>3, <5>2, <2>10
          <6> QED BY <6>1, <4>2, <2>3, <2>5, <2>7
        <5> QED BY <5>1, <5>2
      <4> QED BY <3>2, <4>1, <4>2, <4>3
    <3> QED BY <3>1, <3>2
  <2>12. SettledIsAllocated'
    <3>1. ASSUME FinalStatuses = {"SETTLED"}, intent'[i] \in {"SETTLED", "PARTIALLY_REFUNDED"}
          PROVE  payment'[i] # "none"
      BY <3>1, <1>1, <2>3, <2>7, <2>9, <2>10 DEF SettledIsAllocated
    <3> QED BY <3>1, <2>3 DEF SettledIsAllocated
  <2>13. ReversalIsCompensated'
    <3>1. ASSUME FinalStatuses = {"SETTLED"}, intent'[i] \in REVERSAL_STATUSES
          PROVE  payment'[i] = "reversed"
      BY <3>1, <2>3, <2>7, <2>10 DEF REVERSAL_STATUSES
    <3>2. ASSUME FinalStatuses = {"SETTLED"}, payment'[i] = "reversed"
          PROVE  \E t \in transaction' : t.intent = i /\ t.status \in REVERSAL_STATUSES
      BY <3>2, <1>1, <2>1, <2>10 DEF ReversalIsCompensated
    <3> QED BY <3>1, <3>2, <2>1, <2>3 DEF ReversalIsCompensated, REVERSAL_STATUSES
  <2> QED BY <2>6, <2>11, <2>12, <2>13
<1> QED
  BY <1>2, <1>3, <1>4 DEF ProcessWebhook, RejectSignature, RejectStale, RejectOutOfOrder, Fail,
     EventResult

LEMMA InvariantInit == Init => IInv
<1> SUFFICES ASSUME Init PROVE IInv
  OBVIOUS
<1>1. TInv
  BY TypeInit
<1>2. Born
  <2>1. NoIntent \notin Intents
    BY ConstantsAssumption
  <2> QED BY <2>1 DEF Init, Born
<1>3. HistoryAgrees
  BY DEF Init, HistoryAgrees
<1>4. Earned /\ SettledIsAllocated /\ ReversalIsCompensated
  BY DEF Init, Earned, SettledIsAllocated, ReversalIsCompensated, REVERSAL_STATUSES
<1> QED BY <1>1, <1>2, <1>3, <1>4 DEF IInv

LEMMA InvariantNext == IInv /\ [Next]_vars => IInv'
<1> SUFFICES ASSUME IInv, [Next]_vars PROVE IInv'
  OBVIOUS
<1>1. TInv'
  BY TypeNext DEF IInv
<1>2. Born'
  BY BornNext
<1>3. HistoryAgrees' /\ Earned' /\ SettledIsAllocated' /\ ReversalIsCompensated'
  <2>1. CASE \E e \in net : ProcessWebhook(e)
    BY <2>1, WebhookKeeps
  <2>2. CASE ~ \E e \in net : ProcessWebhook(e)
    BY <2>2, QuietSteps, QuietKeeps
  <2> QED BY <2>1, <2>2
<1> QED BY <1>1, <1>2, <1>3 DEF IInv

LEMMA Invariant == Spec => []IInv
BY InvariantInit, InvariantNext, PTL DEF Spec

\* The event log and the applied transactions always agree.
THEOREM HistoryCorrect == Spec => []HistoryAgrees
BY Invariant, PTL DEF IInv

\* Under the SETTLED policy a settled intent always has its Payment row.
THEOREM SettledCorrect == Spec => []SettledIsAllocated
BY Invariant, PTL DEF IInv

\* Under the SETTLED policy money is taken back exactly for reversed intents.
THEOREM ReversalCorrect == Spec => []ReversalIsCompensated
BY Invariant, PTL DEF IInv

\* No Payment row without an authentic authorization, capture and allocation.
THEOREM AllocationCorrect == Spec => []AllocationIsVerified
<1>1. IInv => AllocationIsVerified
  <2> SUFFICES ASSUME IInv, NEW i \in Intents, payment[i] # "none"
               PROVE  LET seen == {t.status : t \in {u \in transaction :
                                                       u.intent = i /\ u.authentic}}
                      IN {"AUTHORIZED", "CAPTURED"} \subseteq seen /\ seen \cap FinalStatuses # {}
    BY DEF AllocationIsVerified
  <2>1. Seen(i, "AUTHORIZED") /\ Seen(i, "CAPTURED") /\ \E st \in FinalStatuses : Seen(i, st)
    BY DEF IInv, Earned
  <2> QED BY <2>1 DEF Seen
<1> QED BY <1>1, Invariant, PTL

\* A finished intent keeps its status, unless an open_checkout call that read
\* it as INITIATED is still waiting for its reply.
THEOREM TerminalCorrect == Spec => TerminalIsFinal
<1>1. ASSUME IInv, [Next]_vars, NEW i \in Intents,
             intent[i] \in {"FAILED", "CANCELLED", "EXPIRED"} \cup REVERSAL_STATUSES,
             \A c \in checkouts : c.intent # i
      PROVE  intent'[i] = intent[i]
  <2> USE DEF IInv, TInv
  <2>1. intent[i] \in Status /\ intent[i] # "none"
    BY <1>1 DEF TypeOK, REVERSAL_STATUSES
  <2>2. ASSUME NEW j \in Intents, CreateIntent(j) PROVE intent'[i] = intent[i]
    BY <2>1, <2>2 DEF CreateIntent, TypeOK
  <2>3. ASSUME NEW c \in checkouts, FinishCheckout(c) PROVE intent'[i] = intent[i]
    BY <1>1, <2>3 DEF FinishCheckout, TypeOK
  <2>4. ASSUME NEW e \in net, ProcessWebhook(e) PROVE intent'[i] = intent[i]
    <3>1. e.intent \in Intents /\ e.status \in Status
      BY <1>1 DEF TypeOK, Event
    <3>2. Apply(e) => e.intent # i
      BY <1>1, <2>1, <3>1, GraphFacts DEF Apply
    <3>3. Apply(e) => intent' = [intent EXCEPT ![e.intent] = e.status]
      BY DEF Apply
    <3>4. Apply(e) \/ UNCHANGED intent
      BY <2>4 DEF ProcessWebhook, Acknowledge, RejectSignature, RejectStale, RejectOutOfOrder,
         Fail, Reject, rcVars
    <3> QED BY <1>1, <3>1, <3>2, <3>3, <3>4 DEF TypeOK
  <2>5. ASSUME UNCHANGED intent PROVE intent'[i] = intent[i]
    BY <2>5
  <2> QED
    BY <1>1, <2>2, <2>3, <2>4, <2>5 DEF Next, BeginCheckout, AbandonCheckout, StartOutcome,
       SendNext, FinishOutcome, StartTimer, LockTimeout, GatewayCrash, Resend, Lose,
       StaffPayment, EarlySettlement, ChangeFinalStatus, vars, rcVars
<1>2. IInv /\ [Next]_vars =>
        [\A i \in Intents :
           (/\ intent[i] \in {"FAILED", "CANCELLED", "EXPIRED"} \cup REVERSAL_STATUSES
            /\ \A c \in checkouts : c.intent # i) => intent'[i] = intent[i]]_vars
  BY <1>1
<1> QED BY <1>2, Invariant, PTL DEF Spec, TerminalIsFinal

-------------------------------------------------------------------------------
(* The channel implements PaymentPromise: creating an intent asks, applying   *)
(* an event applies or takes back, staff payments and settlements credit, and *)
(* every other step stutters.                                                 *)

LEMMA PromiseStep ==
  ASSUME IInv, [Next]_vars
  PROVE  [Promise!Next]_Promise!vars
<1> USE DEF IInv, TInv
<1> USE DEF Promise!vars
<1>1. ASSUME NEW i \in Intents, CreateIntent(i) PROVE Promise!Ask(i)
  BY <1>1 DEF CreateIntent, Promise!Ask, Born
<1>2. ASSUME StaffPayment PROVE Promise!Credit
  BY <1>2 DEF StaffPayment, Promise!Credit
<1>3. ASSUME EarlySettlement PROVE Promise!Credit
  <2>1. outstanding \in 1..outstanding /\ outstanding - outstanding = 0
    BY <1>3 DEF EarlySettlement, TypeOK
  <2>2. outstanding' = outstanding - outstanding /\ credits' = credits + outstanding
        /\ UNCHANGED <<amount, payment>>
    BY <1>3, <2>1 DEF EarlySettlement
  <2> QED BY <2>1, <2>2 DEF Promise!Credit
<1>4. ASSUME NEW e \in net, e.authentic, ~Refused(e.intent, e.status),
             Effect(e.intent, e.status), UNCHANGED <<amount, credits>>,
             intent[e.intent] # "none"
      PROVE  Promise!Apply(e.intent) \/ Promise!TakeBack(e.intent) \/ UNCHANGED Promise!vars
  <2> DEFINE i == e.intent
             st == e.status
  <2>1. i \in Intents
    BY DEF TypeOK, Event
  <2>2. amount[i] # 0 /\ amount[i] \in Nat /\ outstanding \in Nat
    BY <1>4, <2>1 DEF Born, TypeOK
  <2>3. CASE st = final /\ payment[i] = "none"
    <3>1. amount[i] \in 1..outstanding
      <4>1. amount[i] <= outstanding
        BY <1>4, <2>2, <2>3 DEF Refused
      <4> QED BY <2>2, <4>1
    <3> QED BY <1>4, <2>3, <3>1 DEF Effect, RecordPayment, Promise!Apply
  <2>4. CASE st = final /\ payment[i] # "none"
    BY <1>4, <2>4 DEF Effect, RecordPayment
  <2>5. CASE st # final /\ st \in REVERSAL_STATUSES
    BY <1>4, <2>5 DEF Effect, ReversePayment, Promise!TakeBack
  <2>6. CASE st # final /\ st \notin REVERSAL_STATUSES
    BY <1>4, <2>6 DEF Effect
  <2> QED BY <2>3, <2>4, <2>5, <2>6
<1>5. ASSUME NEW e \in net, ProcessWebhook(e)
      PROVE  Promise!Apply(e.intent) \/ Promise!TakeBack(e.intent) \/ UNCHANGED Promise!vars
  <2>1. intent[e.intent] # "none"
    BY DEF Born
  <2>2. CASE Apply(e)
    BY <1>4, <2>1, <2>2 DEF Apply
  <2>3. CASE ~Apply(e)
    BY <1>5, <2>3 DEF ProcessWebhook, Acknowledge, RejectSignature, RejectStale,
       RejectOutOfOrder, Fail, Reject, rcVars
  <2> QED BY <2>2, <2>3
<1>6. \A e \in net : e.intent \in Intents
  BY DEF TypeOK, Event
<1>7. CASE UNCHANGED Promise!vars
  BY <1>7
<1> QED
  BY <1>1, <1>2, <1>3, <1>5, <1>6, <1>7 DEF Next, Promise!Next, BeginCheckout, FinishCheckout,
     AbandonCheckout, StartOutcome, SendNext, FinishOutcome, StartTimer, LockTimeout,
     GatewayCrash, Resend, Lose, ChangeFinalStatus, vars, rcVars

\* For any number of intents, sessions and runs and under every fault, a
\* payment is applied at most once and for its amount, and taken back at most
\* once and never again applied.
THEOREM PromiseCorrect == Spec => KeepsPromise
<1>1. Init => Promise!Init
  BY DEF Init, Promise!Init
<1>2. IInv /\ [Next]_vars => [Promise!Next]_Promise!vars
  BY PromiseStep
<1> QED BY <1>1, <1>2, Invariant, PTL DEF Spec, KeepsPromise, Promise!Spec

-------------------------------------------------------------------------------
(* Money.  An intent that was paid was created before, so its amount stays.   *)

Applied == {i \in Intents : payment[i] = "applied"}

Accounted ==
  /\ IsFiniteSet(Applied)
  /\ \A i \in Intents : payment[i] # "none" => intent[i] # "none"
  /\ outstanding + credits + SumFunctionOnSet(amount, Applied) = Opening

\* The property's sum is the sum of a function.
LEMMA AppliedSum ==
  MapThenSumSet(LAMBDA i : amount[i], Applied) = SumFunctionOnSet(amount, Applied)
BY DEF MapThenSumSet, SumFunctionOnSet, FoldFunctionOnSet, MapThenFoldSet

\* Nothing is paid or taken back, and no amount is forgotten.
Unmoved ==
  /\ UNCHANGED <<payment, outstanding, credits>>
  /\ \A i \in Intents : intent[i] # "none" => intent'[i] # "none" /\ amount'[i] = amount[i]

\* What was owed was cleared by staff.
Cleared ==
  /\ UNCHANGED <<intent, amount, payment>>
  /\ outstanding' \in Nat /\ credits' \in Nat
  /\ outstanding' + credits' = outstanding + credits

LEMMA MoneyStays ==
  ASSUME TInv, Accounted, Unmoved
  PROVE  Accounted'
<1>1. Applied' = Applied
  BY DEF Applied, Unmoved
<1>2. \A i \in Applied : amount[i] \in Int /\ amount[i] = amount'[i]
  BY DEF Applied, Accounted, Unmoved, TInv, TypeOK
<1>3. SumFunctionOnSet(amount, Applied) = SumFunctionOnSet(amount', Applied)
  BY <1>2, SumSame DEF Accounted
<1>4. \A i \in Intents : payment'[i] # "none" => intent'[i] # "none"
  BY DEF Accounted, Unmoved
<1> QED BY <1>1, <1>3, <1>4 DEF Accounted, Unmoved

LEMMA ClearedStays ==
  ASSUME TInv, Accounted, Cleared
  PROVE  Accounted'
<1>1. Applied' = Applied
  BY DEF Applied, Cleared
<1>2. SumFunctionOnSet(amount', Applied') = SumFunctionOnSet(amount, Applied)
  BY <1>1 DEF Cleared
<1>3. SumFunctionOnSet(amount, Applied) \in Int
  <2>1. \A i \in Applied : amount[i] \in Int
    BY DEF Applied, TInv, TypeOK
  <2> QED BY <2>1, SumInt DEF Accounted
<1>4. outstanding' + credits' + SumFunctionOnSet(amount', Applied') = Opening
  BY <1>2, <1>3 DEF Accounted, Cleared, TInv, TypeOK
<1>5. \A i \in Intents : payment'[i] # "none" => intent'[i] # "none"
  BY DEF Accounted, Cleared
<1> QED BY <1>1, <1>4, <1>5 DEF Accounted

\* An allocation takes its amount from what is owed once, and a reversal gives it
\* back once.
LEMMA EffectStays ==
  ASSUME IInv, Accounted, NEW e \in net, Apply(e)
  PROVE  Accounted'
<1> DEFINE i == e.intent
           st == e.status
<1>1. i \in Intents /\ st \in Status /\ intent[i] # "none"
  BY DEF IInv, TInv, TypeOK, Born, Event
<1>2. /\ ~Refused(i, st) /\ Effect(i, st) /\ amount' = amount /\ credits' = credits
      /\ intent' = [intent EXCEPT ![i] = st]
  BY DEF Apply
<1> HIDE DEF i, st
<1>3. /\ payment \in [Intents -> {"none", "applied", "reversed"}]
      /\ intent \in [Intents -> Status \cup {"none"}]
      /\ amount \in [Intents -> Nat] /\ outstanding \in Nat /\ credits \in Nat
  BY DEF IInv, TInv, TypeOK
<1>4. \A j \in Intents : intent[j] # "none" => intent'[j] # "none"
  BY <1>1, <1>2, <1>3 DEF Status
<1>5. intent'[i] # "none"
  BY <1>1, <1>4
<1>6. IsFiniteSet(Applied) /\ \A j \in Applied : amount[j] \in Int
  BY <1>3 DEF Accounted, Applied
<1>7. SumFunctionOnSet(amount, Applied) \in Int /\ amount[i] \in Nat
  BY <1>1, <1>3, <1>6, SumInt
<1>8. CASE UNCHANGED <<payment, outstanding>>
  <2>1. Unmoved
    BY <1>2, <1>4, <1>8 DEF Unmoved
  <2> QED BY <2>1, MoneyStays DEF IInv
<1>9. CASE /\ payment[i] = "none" /\ payment' = [payment EXCEPT ![i] = "applied"]
           /\ outstanding' = outstanding - amount[i]
  <2>1. Applied' = Applied \cup {i} /\ i \notin Applied
    BY <1>1, <1>3, <1>9 DEF Applied
  <2>2. SumFunctionOnSet(amount, Applied \cup {i})
          = amount[i] + SumFunctionOnSet(amount, Applied)
    <3>1. \A j \in Applied \cup {i} : amount[j] \in Int
      BY <1>6, <1>7
    <3> QED BY <1>6, <2>1, <3>1, SumWith
  <2>3. IsFiniteSet(Applied')
    BY <1>6, <2>1, FS_AddElement
  <2>4. outstanding' + credits' + SumFunctionOnSet(amount', Applied') = Opening
    BY <1>2, <1>3, <1>7, <1>9, <2>1, <2>2 DEF Accounted
  <2>5. \A j \in Intents : payment'[j] # "none" => intent'[j] # "none"
    BY <1>3, <1>4, <1>5, <1>9 DEF Accounted
  <2> QED BY <2>3, <2>4, <2>5 DEF Accounted
<1>10. CASE /\ payment[i] = "applied" /\ payment' = [payment EXCEPT ![i] = "reversed"]
            /\ outstanding' = outstanding + amount[i]
  <2>1. Applied' = Applied \ {i} /\ i \in Applied
    BY <1>1, <1>3, <1>10 DEF Applied
  <2>2. SumFunctionOnSet(amount, Applied)
          = amount[i] + SumFunctionOnSet(amount, Applied \ {i})
    BY <1>6, <2>1, SumWithout
  <2>3. IsFiniteSet(Applied') /\ SumFunctionOnSet(amount, Applied \ {i}) \in Int
    <3>1. IsFiniteSet(Applied \ {i})
      BY <1>6, FS_Subset
    <3>2. SumFunctionOnSet(amount, Applied \ {i}) \in Int
      BY <1>6, <3>1, SumInt
    <3> QED BY <2>1, <3>1, <3>2
  <2>4. outstanding' + credits' + SumFunctionOnSet(amount', Applied') = Opening
    BY <1>2, <1>3, <1>7, <1>10, <2>1, <2>2, <2>3 DEF Accounted
  <2>5. \A j \in Intents : payment'[j] # "none" => intent'[j] # "none"
    BY <1>3, <1>4, <1>5, <1>10 DEF Accounted
  <2> QED BY <2>3, <2>4, <2>5 DEF Accounted
<1> QED BY <1>2, <1>8, <1>9, <1>10 DEF Effect, RecordPayment, ReversePayment

\* Every other step leaves the money where it is, or is a payment or settlement by staff.
LEMMA MoneySteps ==
  ASSUME IInv, [Next]_vars
  PROVE  Unmoved \/ Cleared \/ \E e \in net : Apply(e)
<1> USE DEF IInv, TInv
<1>1. ASSUME NEW i \in Intents, CreateIntent(i) PROVE Unmoved
  BY <1>1 DEF CreateIntent, Unmoved, TypeOK
<1>2. ASSUME NEW i \in Intents, NEW s \in Sessions, BeginCheckout(i, s) PROVE Unmoved
  BY <1>2 DEF BeginCheckout, Unmoved
<1>3. ASSUME NEW c \in checkouts, FinishCheckout(c) PROVE Unmoved
  BY <1>3 DEF FinishCheckout, Unmoved, TypeOK
<1>4. ASSUME NEW c \in checkouts, AbandonCheckout(c) PROVE Unmoved
  BY <1>4 DEF AbandonCheckout, Unmoved
<1>5. ASSUME UNCHANGED rcVars PROVE Unmoved
  BY <1>5 DEF rcVars, Unmoved
<1>6. ASSUME ChangeFinalStatus PROVE Unmoved
  BY <1>6 DEF ChangeFinalStatus, Unmoved
<1>7. ASSUME StaffPayment PROVE Cleared
  <2>1. PICK a \in 1..outstanding : outstanding' = outstanding - a /\ credits' = credits + a
    BY <1>7 DEF StaffPayment
  <2>2. outstanding \in Nat /\ credits \in Nat
    BY DEF TypeOK
  <2>3. /\ outstanding' \in Nat /\ credits' \in Nat
        /\ outstanding' + credits' = outstanding + credits
    BY <2>1, <2>2
  <2> QED BY <1>7, <2>3 DEF StaffPayment, Cleared
<1>8. ASSUME EarlySettlement PROVE Cleared
  <2>1. outstanding' = 0 /\ credits' = credits + outstanding
    BY <1>8 DEF EarlySettlement
  <2>2. outstanding \in Nat /\ credits \in Nat
    BY DEF TypeOK
  <2> QED BY <1>8, <2>1, <2>2 DEF EarlySettlement, Cleared
<1>9. ASSUME NEW e \in net, ProcessWebhook(e), ~Apply(e) PROVE Unmoved
  BY <1>9 DEF ProcessWebhook, Acknowledge, RejectSignature, RejectStale, RejectOutOfOrder,
              Fail, Reject, Unmoved, rcVars
<1> QED
  BY <1>1, <1>2, <1>3, <1>4, <1>5, <1>6, <1>7, <1>8, <1>9 DEF Next, StartOutcome, SendNext,
     FinishOutcome, StartTimer, LockTimeout, GatewayCrash, Resend, Lose, vars

LEMMA MoneyNext == IInv /\ Accounted /\ [Next]_vars => Accounted'
<1> SUFFICES ASSUME IInv, Accounted, [Next]_vars PROVE Accounted'
  OBVIOUS
<1>1. TInv
  BY DEF IInv
<1> QED BY <1>1, MoneySteps, MoneyStays, ClearedStays, EffectStays

LEMMA MoneyInit == Init => Accounted
<1> SUFFICES ASSUME Init PROVE Accounted
  OBVIOUS
<1>1. Applied = {}
  BY DEF Init, Applied
<1>2. IsFiniteSet(Applied) /\ SumFunctionOnSet(amount, Applied) = 0
  BY <1>1, FS_EmptySet, SumEmpty
<1>3. outstanding = Opening /\ credits = 0 /\ Opening \in Nat
  BY ConstantsAssumption DEF Init
<1>4. \A i \in Intents : payment[i] = "none"
  BY DEF Init
<1> QED BY <1>2, <1>3, <1>4 DEF Accounted

\* For any set of intents, sessions and runs: what the contract owes and what cleared
\* it is what it owed at the start, whatever is redelivered, raced, reversed or
\* reconfigured (record_payment's replay check, reverse_settled_payment's search).
THEOREM MoneyCorrect == Spec => []MoneyConserved
<1>1. Accounted => MoneyConserved
  BY AppliedSum DEF Accounted, MoneyConserved, Applied
<1> QED BY <1>1, Invariant, MoneyInit, MoneyNext, InvariantInit, InvariantNext, PTL DEF Spec
===============================================================================

# TLA+ verification of the retail credit platform

The platform sells goods on instalments. `retail-credit-api` (FastAPI, SQLAlchemy,
PostgreSQL) takes applications, prices offers, delivers, and keeps contracts, schedules,
payments, late fees, collections, write-offs, expected credit losses and the general
ledger; `mock-payment-gateway` is a second service with a database of its own that plays
the bank's hosted checkout page. This directory models what they do to contracts and
money, checks it with TLC on small instances and proves parts of it for all of them.

## 1. Inventory

| Part (code) | State | Operations | What is hard |
|---|---|---|---|
| Origination (`assessment.py`, `offers.py`, `pricing.py`, `exposure.py`, `api/products.py`) | applications, assessment results, offers, orders, stock | assess, review, offer, accept, deliver, correct stock | stale affordability and exposure; superseded and lapsed offers; rounding; a unit given back or not |
| Payment intents (`payment_intents.py`, `api/payment_gateway.py`) | `payment_intents.status`, amount, checkout URL | create_intent, open_checkout | the HTTP call between reading and writing the intent, its timeout; amounts checked at creation and used at settlement |
| Webhooks (`gateway_webhooks.py`, `webhook_security.py`) | `webhook_events` (unique event id), `gateway_transactions`, intent status | process_webhook | lost, late, repeated and reordered events; partial failure; the allocation status is live configuration |
| Mock gateway (`mock-payment-gateway/app`) | sessions, delivery log, timer threads | create session, simulate outcome, resend | SQLite single writer, crash with webhooks already sent, timers only in memory |
| Allocation engine (`allocation.py`) | none | allocate | a waterfall whose order is a business rule |
| Contract servicing (`payments.py`, `payment_reversal.py`, `overdue.py`, `collections.py`, `closure.py`, `receivable.py`, `ledger.py`, waivers and rebates of `approvals.py`) | installments, late fees, payments, ledger, case, promise, closure, requests | pay, reverse, assess overdue, promise, waive, settle, return, cancel | long legal sequences in which one feature undoes an assumption of another |
| Write-off and recovery (`write_off.py`) | requests, executions, recoveries, components | request, decide, execute, recover | a snapshot used long after it was taken; caps per component |
| Accounting events, journals, chart of accounts (`accounting.py`, `gl_journal.py`, `coa.py`, `erp_adapter.py`) | events, journals, accounts, mapping versions | emit, post, retry, propose and approve accounts and mappings | rules that begin in the past or the future; an ERP that refuses, or accepts before a crash |
| Expected credit loss (`ecl*.py`) | assessments, runs, overrides, configuration versions | assess, run, post, override, activate, release | which assessment is the prior one; curing; overlapping overrides; a provision released and assessed again |
| Bank and gateway reconciliation (`reconciliation.py`, `gateway_reconciliation.py`) | bank lines, exceptions, batches, items, status of a payment | ingest, match, import, resolve | two sides that write one status; a run that does not see its own links |
| Approvals (`approvals.py`, `api/approvals.py`) | approval requests | request, decide | the payload was checked when requested and is used when approved |
| Users, audit, reports, configuration, frontend | rows | CRUD and queries | nothing a model checker would add |

How they interact: an accepted offer becomes a contract, which delivery activates; the
browser and the gateway page talk to the two services over HTTP; the gateway calls the
API's webhook endpoint; a settled intent calls `record_payment`, a reversed one
`reverse_settled_payment`; payments, the overdue job and write-offs call the collections
hooks; every money movement writes ledger entries and accounting events in its own
transaction, and `emit` resolves the mapping of the day and makes the journal; an
execution releases the provision of the ECL; both reconciliations write the status of a
payment; approvals call back into the service whose action was requested.

What makes each part correct:

- **Origination**: a schedule adds up to its price; one contract for one offer, and only
  for the latest; stock and contracts account for every unit.
- **Checkout channel**: a settled payment is applied once and for its amount, taken
  back at most once; only events that are authentic and in order move money; the
  event log, the transaction rows and the statuses agree; finished intents stay
  finished; a settlement that is reported arrives.
- **Allocation**: oldest installment first, late fee before profit before principal;
  exactly the amount; no difference between one payment and the same sum in parts.
- **Servicing**: the columns of contract, installments and charges, their statuses,
  the ledger and the receipts tell one story after any sequence of operations; a
  contract in arrears has an open case; one live late fee per installment, within the
  cap; a customer whose money has come is not pursued for a promise.
- **Write-off and recovery**: what was written off is the same in requests, columns
  and ledger; nothing is both paid and written off; recoveries stay within what was
  written off, in every component; a contract closes once.
- **General ledger**: the receivable, cash and unearned-profit accounts, which are
  journalled by rules, equal what the business rows say; the rule of every day is the
  one that was approved for it; no posting is lost; a checker approves the change
  its maker saw.
- **Expected credit loss**: the allowance is the provision that is shown; a stage falls
  only by the cure it asks for; one override governs a contract.
- **Reconciliation**: a reconciled payment has a line or an item that says so and stays
  reconciled; an import accounts for everything that settled.

## 2. Modules

| Module | What it is | Code |
|---|---|---|
| `PaymentPromise` | abstract: what the channel promises about money | `docs/payment-gateway/BRD.md` BR-3 to BR-6 |
| `PaymentGateway` | intents, webhooks, the mock gateway and the network | `payment_intents.py`, `gateway_webhooks.py`, `mock-payment-gateway/app` |
| `Allocation` | the allocation engine, and the loop every other sweep shares | `allocation.py` |
| `ContractAccount` | abstract: a contract as an account of money owed and received | |
| `ContractServicing` | one contract from delivery to closure | `payments.py`, `payment_reversal.py`, `overdue.py`, `collections.py`, `closure.py`, `receivable.py`, waiver and rebate of `approvals.py` |
| `WriteOff` | `ContractServicing` with write-off requests and recoveries | `write_off.py`, its part of `approvals.py` |
| `PostingRules` | events to journal lines, as operators | `gl_journal.py`, the seeded rules of `coa.py` |
| `GeneralLedger` | `WriteOff` with the journals of every handler | the `emit` calls of all handlers |
| `Journals` | accounts, mapping versions, journals and the ERP over time | `accounting.py`, `gl_journal.py`, `coa.py`, `erp_adapter.py`, their part of `approvals.py` |
| `CreditLoss` | rating, stage, curing rule and loss, as operators | `ecl_risk.py`, `ecl_stage.py`, `ecl_engine.py`, `ecl_config.py` |
| `Provisions` | assessments, runs, overrides and the allowance over time | `ecl.py`, `ecl_override.py`, their part of `approvals.py`, `write_off.py` |
| `Reconciliation` | bank lines, settlement feed, and the status of payments | `reconciliation.py`, `gateway_reconciliation.py`, their part of `approvals.py` |
| `Pricing` | the installment plan, as operators | `pricing.py` |
| `Origination` | applications, offers, contracts and stock | `assessment.py`, `offers.py`, `exposure.py`, `api/applications.py`, `api/products.py` |
| `ConcurrentRequests` | handlers of one contract as reads and commits | `payments.py`, `approvals.py`, `write_off.py` under READ COMMITTED |
| `MC...` | constants of one small instance for TLC | |
| `...Proofs` | theorems about the module named, section 5; `ServicingProofs` is about `Allocation`, `ContractServicing` and `WriteOff`, and `LedgerProofs` about `GeneralLedger` | |
| `AmountTheorems` | what the proofs share: induction over sets of numbers, sums of functions, `Spread`, tables of rows | |

`GeneralLedger` extends `WriteOff`, which extends `ContractServicing`, which extends
`Allocation`; `GeneralLedger` and `Journals` extend `PostingRules`; `Provisions` extends
`CreditLoss`, and `Origination` extends `Pricing`. `PaymentGateway` sees the contract as
an amount outstanding; `ContractServicing` sees the gateway as payments whose `source` is
`gateway`, which is what makes them reversible. Everywhere money is in minor units, a
handler is one database transaction and one action with everything it calls, and a
request that the code refuses is a step that is not there.

### PaymentGateway

State: `intent`, `amount` are columns of `payment_intents`; `webhookEvent` is the table
`webhook_events` with the result of each event; `transaction` is
`gateway_transactions`; `payment` says of each intent whether its Payment row exists
and whether it was reversed; `active`, `outstanding` are the contract, `credits` what
staff and a settlement paid; `final` is the configured allocation status. `session`,
`run`, `timers` and `log` belong to the gateway: its checkout sessions, the
`simulate_outcome` calls and timer threads in progress, the delayed settlements in
memory and the committed delivery log. `net` is the set of POSTs on their way.

`open_checkout` runs in a worker thread and makes an HTTP call between reading the
intent and writing it, so it is `BeginCheckout` and `FinishCheckout` (or
`AbandonCheckout`). `receive_gateway_webhook` is an `async` handler that never awaits
after reading the body, so it runs to its commit in one step of the event loop:
`ProcessWebhook`, one disjunct per numbered section of `process_webhook`. The gateway
keeps SQLite's write lock from its first flush to its commit, which is what `LockFree`
says. `Faulty` switches on losses, timeouts, stale deliveries and crashes.

### Allocation

`Spread` is the loop: each balance in turn gets what it owes until the money runs out.
`allocate` runs it over the late fee, profit and principal of every installment, oldest
first. `Share` runs it over rows picked by key, the components of a recovery; late fees of
an installment, when they are paid or given back, and write-offs use `Spread` itself.

### ContractServicing, WriteOff and ContractAccount

`RecordPayment` allocates, pays fees and installments, posts to the ledger, evaluates
the promise (`KeepPromise`; `BreakPromise` is the job's), closes the case and the contract. `ledger` keeps the sum of the entries
of each type, which is all the code ever reads of them. `unearned` is
`contract.unearned_profit_balance`, a column of its own that has to agree with the
installments. There is no clock: the overdue job takes its day as a parameter, as
`POST /jobs/assess-overdue` does, and may be run for an earlier day again. The late
fee of an installment is a constant instead of rate times amount. The two-decimal
rounding is exact in minor units except for `Percent`, which rounds half up.
`ContractAccount` forgets the installments; `KeepsAccount` is the refinement with
`owed` mapped to the total of `build_receivable` and `cash` to the cash entries of the
ledger.

`RequestWriteOff` takes the snapshot, `DecideWriteOff` and `CancelWriteOff` end it,
`ExecuteWriteOff` is a later step of its own that compares with the balances of that
moment, `RecordRecovery` credits components in the configured order. An ineligible
request is allowed as an exception, so eligibility excludes nothing and is left out.

### PostingRules and GeneralLedger

An event is its type and what can be read for it, by amount source (`PaymentAmounts`,
`ClosureAmounts`, `ExecutionAmounts`, ...); a source that cannot be read is a row the
resolver does not find. `_build_lines` drops zero lines and turns negative ones when the
rule says so, and keeps the numbers of the others; `generate_journal` gives the lines and the status. `SeededRules` are the
rules a new database gets.

`books` holds debits less credits of each account. `BooksNext` conjoins every action of
`ContractServicing` and `WriteOff` with the events its handler emits: nothing in the
handler computes a balance of an account, and nothing in the journals knows an
installment, so that the accounts agree with the rows is a statement about all handlers
and all rules together.

### Journals

`mapping` gives each event type its versions with the days they begin and end and
whether they are current; `journal` joins an event with its journal, and `accepted` counts
what the ERP has taken. `emit` may carry any day, as the services pass the date of the
business fact. `post_pending` offers every READY journal and marks the refused;
`CrashWhilePosting` is the job stopping after the adapter has answered and before the
commit. Proposals of accounts and mappings are made and approved by different steps, so
what was legal when proposed may be illegal when approved; a mapping has one pending
request at a time, an account any number of them. `TypeOK` is its type invariant.

### CreditLoss and Provisions

`Profiles` are what an assessment reads of a contract (balance, days past due, score,
collections flags): the components that keep these are modelled elsewhere, so here they
are an input of each assessment, and a contract may be read in any condition at any run.
`_assess_one` is the whole assessment: stage, curing against the history of the contract,
override in force, loss by methodology, opening and closing provision. `post_run` books
the movements; `ReleaseByWriteOff` is what an execution does to the allowance. Runs may be
dated back and posted in any order or never, as the endpoints allow. Rates are in
percent, losses exact; the rounding to cents is left out. `Shaped` is what the engine
needs of a proposed table (a rating that exists, a rate that is a number): the code looks
at the name of the parameter alone, and a run on any other form ends with an exception.

### Reconciliation

`status` is `payments.reconciliation_status`, the column both sides write; `lines` are bank
lines with their exception, `items` the rows of an import. `MatchAll` is one run of
`run_matching`: the session has `autoflush=False`, so the run reads the table as it was
when it began, and lines that touch one payment overwrite each other in turn. A payment
of the gateway stands for its intent, whose reversal is a step of its own.

### Pricing and Origination

`build_plan` accumulates principal and profit, rounds the sums and takes differences, with
the last line taking the rest. `assess_application` runs the four rules over the customer
and the exposure of that moment; `generate_offer` prices, checks affordability again and
supersedes; `accept_offer` makes order and contract and takes a unit; `Ends` is a
cancellation, return or settlement with its effect on stock. A customer's record is
never changed by the code, so `Customer` is a constant. What servicing does to a contract
appears as `PayInstallment` and `Ends`. `compute_exposure` counts installments not yet
paid; late fees and parts of an installment are left out, and no property is about them.

### ConcurrentRequests

What the other modules keep in one action is here a read and a commit. Rows changed in
place are written from what was read (`row`), inserts add (`ledger`), unique keys
(`inserted`) are all that can refuse. It is about one installment, one late fee with
its waiver, and one write-off execution: the rows that several handlers change.

## 3. Runs

| Run | Question | Result |
|---|---|---|
| `gateway_faults` | Do events, history, statuses and payments agree when webhooks are lost, late or resent and the gateway crashes? | holds |
| `gateway_twice` | Is money conserved with two checkout sessions for one intent, staff payments and a changing allocation point? Does it implement `PaymentPromise`? | holds |
| `gateway_arrives` | Does every reported settlement reach the contract? | holds without faults |
| `allocation` | The ordering rules, exactness and splitting | holds |
| `servicing_money` | Do columns, statuses, ledger, receipts and the receivable and unearned-profit accounts agree after any sequence? Does it implement `ContractAccount`? | holds |
| `servicing_collections` | Fee cap, and is no customer pursued whose promised money has come and stayed? | holds |
| `writeoff` | Is a write-off consistent whatever falls between request, decision and execution, and does the cash account agree? | holds |
| `journals` | Is the rule of every day the last one approved for it? Is no posting lost? Is a pending change of a mapping about the version that is current? | holds |
| `provisions` | Is the allowance the provision, with one override at most and no stage that falls without its cure? | holds |
| `reconciliation` | Is a payment's status explained by lines and items, kept once reconciled, and every settlement accounted for? | holds |
| `origination` | Do stock and schedules add up, and is only the latest offer accepted? | holds |
| `concurrent` | Does the ledger reproduce the balances when requests overlap? | violated |

Eight more configurations keep counterexamples that section 7 refers to. They are there to
be run when the code they are about is changed, and are not part of `PROJECT.json`:
`PaymentGateway_raise`, `PaymentGateway_graph`, `ContractServicing_promise`,
`ContractServicing_fees`, `WriteOff_full`, `GeneralLedger_allowance`, `Journals_inactive`,
`Journals_code`.

### Bounds and why they are enough

- **gateway_faults**: one intent and session, two runs, two deliveries in flight. Two
  clicks on one session, or an outcome and a later refund, are the largest number of
  sources of events for one intent; two deliveries are enough to swap any two. No
  event reads another intent, so a second one would add interleaving but no new case.
- **gateway_twice**: two sessions of one intent, each with its run, three deliveries,
  an opening balance of 2 so that a payment may be partial. Both allocation statuses,
  switched at any time.
- **gateway_arrives**: one session and run, no faults; `FairSpec`.
- **allocation**: all schedules of two installments with balances 0..2, payments up to 4.
- **servicing**: two installments that differ in principal, profit, due day and fee, so
  that exchanging any two of them shows. One staff and one gateway payment of 1 or 5
  units stop inside the first installment, inside the second, and exactly at the end,
  with or without a fee before them; days 2 and 3 make the first and then both overdue;
  three charges allow a fee, its waiver and a second fee beside one of the other
  installment. `servicing_collections` has a staff payment, a gateway payment and its
  reversal, a settlement, a promise of 3 that one payment may or may not cover, before or
  after it is made, and a cap that lets only one of two fees pass; staff may call a
  promise kept or broken at any time but not pending again, which would say that it is
  open whatever was paid.
- **writeoff**: two requests, full or one of three partial ones (fee and profit; a part
  of the principal; the first installment as a whole), one gateway payment and its
  reversal, one late fee, settlement and return, two allocation orders of which one
  leaves profit out, and a provision of 3 that covers some executions and not others.
- **journals**: one event type (types share nothing but accounts), its rule, an empty rule
  and one more version of either, with beginnings on two days in any order; four accounts
  of which one is not yet created, two pending requests at a time so that each may
  overtake the other; one event refused, retried and accepted up to twice.
- **provisions**: one contract (an assessment reads no other), dates 0, 30 and 90 which
  are the observation periods of the two cure rules, three profiles (sound, 40 days, 95
  days), three payments at once, which is what a cure asks for, two overrides with
  overlapping windows, three runs and three assessments: a peak, something in between,
  and the one whose stage or opening balance depends on both.
- **reconciliation**: three payments, two of one amount so that a line may fit both, one
  of the gateway; five kinds of bank row, with wrong amount, unknown reference, other day
  and malformed; two lines, a feed of two items with repeated, unknown and missing
  references, one request.
- **origination**: two customers, one that passes and one that is referred; two
  applications and offers of each kind, a price of 13 that no tenor divides, and one unit
  of stock, so that the second acceptance and a correction compete for it; corrections that
  add up to between -1 and 1 (`MaxCorrection`).
- **concurrent**: three payments of which two share a reference, three deciders, two
  recoveries.

`MaxCharges`, `MaxWriteOffs`, `MaxInFlight`, `MaxVersions`, `MaxPending`, `MaxAccepted`,
`MaxRuns`, `MaxOverrides`, `MaxRows`, `MaxLines`, `MaxFeed`, `MaxRequests`,
`MaxApplications`, `MaxOffers` and `MaxCorrection` are bounds of the models that the code does not have.
References are finite sets because a reference is used once. Runs say `CHECK_DEADLOCK
FALSE` where the system may stop: an intent is finished and nothing is left to deliver, all
is paid, every request has been answered, or the rows the bounds allow are used up. In
servicing and in `journals` something can always be done, so deadlock is checked there.

## 4. Fairness

Only `gateway_arrives` assumes any, in `PaymentGateway`'s `Fairness`: a started
`open_checkout` finishes, a started run sends its next event and commits, a timer in
memory starts, and a delivery on its way is processed. These are threads and server
processes that keep being scheduled, and a network without faults. Customers, staff and
the operator who resends owe nothing, and neither do lost webhooks: with faults the
property does not hold, since a FAILED or stale event is never looked at again. The
other modules have no fairness: their jobs (overdue, posting, matching, expiry) run
when an operator calls an endpoint, and nothing promises that one does.

## 5. What is proved

| Theorem | States | For any |
|---|---|---|
| `PaymentGatewayProofs!TypeCorrect` | `TypeOK` | intents, sessions, runs, outcomes, both policies, with and without faults |
| `PaymentGatewayProofs!HistoryCorrect` | `HistoryAgrees` | the same |
| `PaymentGatewayProofs!SettledCorrect` | `SettledIsAllocated` | the same |
| `PaymentGatewayProofs!ReversalCorrect` | `ReversalIsCompensated` | the same |
| `PaymentGatewayProofs!AllocationCorrect` | `AllocationIsVerified` | the same |
| `PaymentGatewayProofs!TerminalCorrect` | `TerminalIsFinal` | the same |
| `PaymentGatewayProofs!MoneyCorrect` | `MoneyConserved` | the same |
| `PaymentGatewayProofs!PromiseCorrect` | `KeepsPromise`: `PaymentGateway` implements `PaymentPromise` | the same |
| `ServicingProofs!OrderCorrect` | `OldestFirstFeesFirst` | schedules of any length, balances, payments |
| `ServicingProofs!AmountCorrect` | `ExactlyTheAmount` | the same |
| `ServicingProofs!SplitCorrect` | `SplitMakesNoDifference` | the same |
| `ServicingProofs!PaidOrWrittenOffCorrect` | `PaidOrWrittenOff` | schedules, references, amounts, days, caps, partial requests, orders; any number of fees, requests and recoveries (`WriteOffSpec`) |
| `ServicingProofs!WriteOffCorrect` | `WriteOffAccounted` | the same |
| `ServicingProofs!RecoveryCorrect` | `RecoveredWithinWrittenOff` | the same |
| `ServicingProofs!UnearnedCorrect` | `UnearnedAddsUp` | the same |
| `ServicingProofs!CashCorrect` | `CashIsReceived` | the same |
| `ServicingProofs!OneFeeCorrect` | `OneLiveFee` | the same |
| `ServicingProofs!CapCorrect` | `FeesWithinCap` | the same |
| `ServicingProofs!ClosingCorrect` | `ClosesOnce` | the same |
| `ServicingProofs!CaseCorrect` | `OverdueHasCase` | the same |
| `ServicingProofs!OpenLedgerCorrect` | `LedgerExplainsTheSchedule`, unless settled or returned early | the same |
| `ServicingProofs!LedgerCorrect` | `LedgerExplainsTheSchedule` | the same, without write-offs (`ServicingSpec`) |
| `ServicingProofs!StatusCorrect` | `ScheduleAgrees` | the same, if every installment is worth something |
| `ServicingProofs!AccountCorrect` | `KeepsAccount`: `ContractServicing` implements `ContractAccount` | the same, without write-offs |
| `ServicingProofs!PursuitCorrect` | `PaidPromiseIsNotPursued` | everything of `WriteOffSpec`, if staff set no promise back to pending |
| `LedgerProofs!CashAccountCorrect` | `CashAccountAgrees` | everything of `WriteOffSpec`, with any down payment, refund and provision (`BooksSpec`) |
| `LedgerProofs!ReceivableAccountCorrect` | `ReceivableAccountAgrees` | the same |
| `LedgerProofs!UnearnedAccountCorrect` | `UnearnedAccountAgrees`: while nothing has been taken back | the same |
| `LedgerProofs!BooksImplement` | `GeneralLedger` implements `WriteOff` | rules, amounts booked |
| `JournalsProofs!TypeCorrect` | `TypeOK` | accounts, rules, events, days, versions |
| `JournalsProofs!RulesCorrect` | `LastVersionRules` | the same |
| `JournalsProofs!PostingCorrect` | `AcceptedIsKnown` | the same |
| `JournalsProofs!RequestsCorrect` | `RequestsSeeTheCurrentVersion` | the same |
| `ProvisionsProofs!OverridesCorrect` | `OverridesAgree` | contracts, overrides, days, configurations |
| `ProvisionsProofs!AllowanceCorrect` | `AllowanceIsProvision` | contracts, profiles, runs, overrides, days, configurations |
| `ProvisionsProofs!DowngradeCorrect` | `NoUncuredDowngrade` | the same, if no version changes the cure rules |
| `ReconciliationProofs!ReconciledForGood` | `ReconciledStays` | payments, rows, feeds, requests |
| `ReconciliationProofs!StatusCorrect` | `StatusIsExplained` | the same |
| `ReconciliationProofs!SweepCorrect` | `SweepIsComplete` | the same |
| `OriginationProofs!StockCorrect` | `StockAddsUp` | customers, applications, offers, stock, and corrections within `MaxCorrection` |
| `OriginationProofs!LatestOfferCorrect` | `OnlyTheLatestIsAccepted` | the same |
| `OriginationProofs!PlanCorrect` | `PlanAddsUp` | prices, down payments, tenors, rates |

Each holds under the module's ASSUME, and three under a hypothesis of their own. An
installment of nothing would be fully paid the day it is made and stay `pending`, so
`StatusCorrect` asks for schedules without one. `NoUncuredDowngrade` speaks of the three
payments and the 90 and 30 days of `_placeholder_v1`, so `DowngradeCorrect` asks that no
later version replaces the cure rules; the run has the other parameters change.
Staff may give a promise any status by hand, pending included, so `PursuitCorrect` asks
for verdicts that are not that one.

The runs of `GeneralLedger` check `BooksSpec`. The theorems about accounts speak of it too,
the others of `WriteOffSpec` and `ServicingSpec`: `BooksImplement` carries whatever holds of `WriteOffSpec` over to the runs,
and `ServicingSpec` is `WriteOffSpec` without requests. `LedgerCorrect`, `StatusCorrect`
and `AccountCorrect` are about `ServicingSpec` because write-offs break them by design: an
execution takes off the ledger what no payment recognised, restamps an installment and is
neither a credit nor a payment of the account.

The arguments:

**Sums and loops.** The induction theorems of the library take an operator. `AmountTheorems`
derives one that takes a set instead (`NatSetInduction`: a set of numbers that holds 0 and
with n also n + 1 is all of them) from the well-foundedness of < (`WFMin`), and one over
finite sets. `SumFunctionOnSet` is then shown to unfold by one element, to be additive,
monotone, and equal for functions that agree. `Spread` is described by what is left after
the first k balances, `LeftAfter`; that it takes no more than is owed, fills each balance
before the next and distributes exactly the smaller of amount and sum are consequences.

**Allocation.** The buckets of installment i are 3i - 2 to 3i. A balance touched while an
earlier one is unpaid would contradict `LeftAfter`; paying a and then b leaves what paying
a + b leaves because the rest after the first k is the same in both (`TwiceIsOnce`).

**PaymentGateway.** One inductive invariant, `IInv`: `TInv`, `Born`, `HistoryAgrees`,
`Earned`, `SettledIsAllocated` and `ReversalIsCompensated`.

- `TInv` adds `Owned` to `TypeOK`: a started run works on a session that belongs to an
  intent. Without it the intent of an event could be `NoIntent`.
- `Born`: sessions, calls, deliveries and the log speak of intents that exist, and an
  intent exists exactly if it has an amount. A webhook therefore never meets status
  "none", and creating an intent disturbs no event.
- `Earned`: a status shows which authentic events were applied: SETTLED needs AUTHORIZED
  and CAPTURED before it. `FinishCheckout`, which may write PENDING over anything,
  keeps it because PENDING claims nothing; that is the step `OnlyGraphTransitions`
  fails on and these properties survive.

Every step other than a webhook leaves events, history and payments alone
(`QuietSteps`); for a webhook, `GraphFacts` (where a status can come from) and
`EffectFacts` (what an effect does to one intent) decide each case. The refinement maps
`Apply` with a new payment to `Apply` of `PaymentPromise`, a first reversal to
`TakeBack`, staff payments and settlement to `Credit`, and everything else to a stutter.

`Accounted` adds to it what `MoneyConserved` needs: an intent whose payment exists was created,
so that its amount stays what was applied, and the applied ones are finitely many. What
the contract owes and the sum over the applied then move together, one step at a time.

**Servicing and write-off.** `WriteOffInv` is `Sound`, `RequestsSound` and `Counted`.

- `Sound` types the rows and bounds every column by what the row is worth, paid and written
  off together. It is inductive only with facts about the payments: `Backed` (what
  an installment has as paid is at least what its applied gateway payments gave it, so
  that taking one back leaves no negative column), `GatewayAddsUp` (the lines of a
  gateway payment are its amount) and `AppliedAreAsked` (an applied payment is not a
  compensating row, so that each is taken back once).
- `RequestsSound`: a request keeps what it asked for, and its recoveries stay within it,
  component by component, since a recovery is a `Share` of what is left.
- `Counted` relates sums: cash entries and applied payments; the written-off columns,
  entries and executed requests; live fees and the cap.

`WriteOffStep` lists what a step can be, once, by the shape of its effect on the columns
(`PaidBy`, `TakenBackBy`, `SettledBy`, `ReturnedBy`, `ChargedBy`, `WaivedBy`, `WrittenOffBy`): the lemmas
`...Step` lead each handler to its shape, and every conjunct is then kept shape by
shape. `PaidExplained` (paid columns are the payment entries plus what settlement and
return cleared) gives `OpenLedgerCorrect`, and with `NothingOff` (no write-off without a
request) `LedgerCorrect`. `Told` is what a status says of its row, for rows and fees;
`CaseKept` adds to `OverdueHasCase` that nothing is overdue before delivery. `AccountInv` adds what the refinement reads: a
gateway payment brings money, and a contract not delivered has none. Each shape is
then `Charge`, `Receive`, `TakeBack`, `Forgive`, `Settle` or a stutter of `ContractAccount`,
with the total of `build_receivable` computed before and after.

**General ledger.** `BooksInv` is `WriteOffInv` and `LedgerInv`. The proof goes up in four
steps.

- *A journal.* The books are a loop over events, of a loop over the lines of a rule, and the
  rules are data. `Sums` unrolls both loops into sums over the first n lines, so that
  `Journalise` adds to each account the balance of the lines on it (`JournaliseAdds`). A
  line of zero adds nothing whether or not it was dropped. That the sides of a seeded rule
  agree is shown rule by rule from the amounts (a payment is the sum of its parts, an
  execution what it used and what it expensed), since a journal that does not balance has
  no lines in the books. `Moved(event, x, y, z)` is the result, in closed form: what each
  event adds to cash, receivable and unearned income, for both signs of an amount.
- *A handler.* `Gains(x, y, z)` adds up the events one handler emits. For the overdue job
  their number depends on the installments: what it books is the growth of the sum of charges.
- *The rows.* `EntriesGrow(c, r)` says, for each shape of `WriteOffStep`, what cash entries
  and what relieving entries (`Relieved`) the contract's own ledger gains.
- *The invariant.* `CashBooked`, `ReceivableBooked` and `UnearnedBooked` are the three
  agreements, with `ChargesOf` and `Relieved` for the sums. They are inductive with `Untouched`
  only: delivery books the whole schedule, which agrees if nothing was charged or paid and
  all profit is unearned before it. `UnearnedBooked` holds while `NoneTakenBack`; a reversal ends that and
  nothing restores it, so each other step has the agreement before it to start from.

**Promises.** `_paid_since`, which the code asks, counts rows taken back and their
compensating rows; `ReceivedSince`, of which the property speaks, counts what was
applied and stayed, so it is never more (`SinceMeaning`, `ReceivedWithinPaid`).
`PromiseInv` keeps the property of the state from step to step: when a promise is made
nothing has come since (`NothingSinceTheLast`), a payment that leaves it pending was
compared with the larger sum, a reversal only lessens what was received
(`ReceivedLess`), and a settlement leaves it unlooked at, but closed for good
(`ClosedStays`), so that no payment follows. That the job breaks a promise only when
it is short holds in that last case too, as the job compares for itself.

**Journals.** `IInv == TInv /\ Windows /\ PInv`. `LastVersionRules` alone is not inductive:
it says nothing of an end date while a later version covers it. `Windows` says of every
type that only the last version can be current (`Chained`), that while it is, each
version ends on the day the next begins, and that whatever has begun by a day, there is a
last one that has (`HasLast`). `AppendVersion` shows that superseding keeps both,
wherever the new version begins, and `LastIsResolved` that the window query then picks
exactly the last. `PInv` ties each journal row to its event and to what the ERP has
accepted (`KnownRow`); that a READY journal is balanced is what makes a refused one
eligible for a retry. `RInv` adds to `RequestsSeeTheCurrentVersion` that the pending
requests of a type are one (`OneRequestPerType`): approving it supersedes the version the
others would have been drawn up from, if there were any.

**Provisions.** `OInv` is `OverridesAgree` with the types of the rows and what each tells of
its request (`Told`); approving rewrites all rows of the contract at once, and `Rewritten`
shows the others keep their numbers. For the allowance, `EInv` adds `Typed`, `Opened`,
`Delivered` and `Accounted`. `Opened`: each assessment opens with the closing provision of the
latest one before it, by date and then number, which a run that is dated back leaves
true since it looks at rows no later than its day. `Accounted`: the allowance is the sum of
the movements of the rows that have been posted, less what was released, which is where
`post_run` must take each row of its run once. Once all are posted and in order, the sum
over the first m rows of a contract telescopes to the closing of the last (`RowsAddUp`).
That losses are numbers whatever version is active is `Shaped`, kept by `Updated`. For
`Downgrades`, the step that assesses shows the cure with the peak rows as witness, and later
steps only add rows and payments.

**Reconciliation.** A payment is written only when the run found it among the payments that
are not reconciled (`OnlyCandidates`), when a decision finds it so, or to the same value.
`StatusIsExplained` needs that rows tell the truth (`TellTruth`: a line that is matched has
no open exception, an item names a payment only as MATCHED) and that rows, once there,
keep what explains a status (`LinesKept`, `ItemsKept`). Of several lines of one run that
touch a payment the last wins, in the status as in the explanation. `SweepIsComplete`
follows from what `import` makes of the finite feed (`ImportedItems`) and of what the feed
does not mention.

**Origination.** `CInv` adds to the equation that a contract has a reason only from the
day it is closed, so that a contract gives its unit back at most once; the sum is a
cardinality of the contracts whose unit is out, which each step changes by at most one
(`UnitGoes`, `UnitReturns`, `UnitStays`). `OfferInv` says of the offers of an application that
an open one is the last (`LatestIn`) and that an accepted one has exactly one contract
(`OneEach`). `PricedInv`: the plan of every offer is `build_plan` of some price, down
payment, tenor and rate that is not negative. Its lines are differences of rounded
cumulative sums, so they telescope to the whole; that none is negative is monotonicity of
the rounding, with the division described by its bounds (`DivIs`).

## 6. What is only model-checked

- `SettlementArrives`: liveness under fairness is out of the prover's reach.
- Everything that instances of `ConcurrentRequests` and the eight further configurations
  refute is refuted by TLC.

## 7. Where code and documents disagree

Shown by the run `concurrent` and listed in `PROJECT.json`: two requests that overlap
read the same row, and the later commit overwrites what the earlier one wrote, while the
ledger keeps the entries of both. Two payments lose one of their updates; a payment and
the approval of a waiver, or two approvals, do the same to the late fee. In the same
module, without a property of their own: of two deciders the last writer wins, and two
recoveries together exceed the execution.

The counterexamples of the further configurations:

1. `PaymentGateway_raise.cfg` (`BusinessRulesNeverRaise`): a settlement the contract
   refuses is recorded as FAILED and its redelivery is swallowed, though the comment at
   `gateway_webhooks.py:238-241` says business-rule rejections never raise.
2. `PaymentGateway_graph.cfg` (`OnlyGraphTransitions`): the slower of two `open_checkout`
   calls writes PENDING over whatever status the faster one has led to
   (`payment_intents.py:223`; `models/payment_gateway.py:70-75`).
3. `ContractServicing_promise.cfg` (`KeptPromiseIsPaid`, with reversals): money taken
   back, and the compensating row, count towards a promise to pay (`collections.py:205`;
   `docs/payment-gateway/BRD.md:109-111`).
4. `ContractServicing_fees.cfg` (`LedgerExplainsTheFees`): a reversal of a payment on a
   late fee that was waived later leaves an amount in the ledger that no charge owes
   (`payment_reversal.py:81`; `models/ledger.py:61-65`).
5. `WriteOff_full.cfg` (`FullLeavesNothing`): a fee charged or a payment reversed after
   the request stays outstanding on the contract a full write-off closes
   (`write_off.py:646`; `docs/write-off-recovery/BRD.md:151`).
6. `GeneralLedger_allowance.cfg` (`AllowanceIsAvailable`): an execution draws the
   allowance by its journal and the provision is released by another event, so the
   allowance is drawn twice (`write_off.py:757`; the rule at `coa.py` "uses available ECL
   allowance first").
7. `Journals_inactive.cfg` (`CurrentRulesOnActiveAccounts`): a mapping proposed onto an
   account is approved after the account was deactivated, and becomes current
   (`approvals.py:532`, which does not look at the accounts again;
   `docs/chart-of-accounts/FSD.md:259-261`, with the same claim for proposals in
   `test_chart_of_accounts.py:96`). The other order, a deactivation approved after the
   mapping, is refused (`StillUnused`).
8. `Journals_code.cfg` (`UsedAccountsKeepTheirCode`): a new code proposed for an account
   is approved after a mapping has come to use the account (`approvals.py:451`;
   `models/gl.py:169-170` and `FSD.md:258` say the code is immutable then).

Met while modelling, visible in the actions:

Channel and servicing

- With CAPTURED as the allocation status, CAPTURED to FAILED leaves the payment applied
  (`PAYMENT_INTENT_TRANSITIONS`, `Effect`; `docs/payment-gateway/FSD.md:24`).
- `Chargeable` ignores waived charges; `docs/business-rules-catalogue.md:244` and `:482`
  say one blocks a new charge for ever. The comment in `overdue.py` says the opposite
  and is what the code does.
- The cap on late fees is read and enforced (`overdue.py:66-71` and `139`; `WithinCap`,
  checked and proved as `FeesWithinCap`). The header of the same file says "NOT enforced
  this step" (`overdue.py:14`), and `docs/business-rules-catalogue.md:245` and `:481` say
  that it is never read anywhere.
- Promises to pay are evaluated, after a payment and by the overdue job
  (`collections.py:269-337`; `KeepPromise`, `BreakPromise`, checked and proved as
  `PaidPromiseIsNotPursued`). `docs/business-rules-catalogue.md:265` and `:483` and
  `docs/enterprise-assessment.md:89`, `:136`, `:197` and `:250` say that nothing ever
  moves a promise from pending. Whether the money came by the promised date, as BR-7
  asks, the hook after a payment does not look.
- Settlement and return leave the case open (`README.md:1507` of the repository speaks
  of "a payment"), and a pending promise to the next run of the job.
- `ApproveWaiver` waives a charge that was paid since the request
  (`app/api/approvals.py:53`), and posts amount minus amount paid although a part may be
  written off.
- A payment of a late fee on a written-off installment restamps it `paid`
  (`PayInstallments`; `app/models/contract.py:26-32`); such an installment bears new fees,
  and keeps the contract from closing by repayment.
- After profit was written off, `Quote` still charges it, as `unearned` is not reduced
  (`SweepInstallments`).

General ledger

- Profit a return retains is recognised but never leaves the receivable, and a reversed
  payment books nothing against the profit it had recognised
  (`ReceivableAccountAgrees`; `UnearnedAccountAgrees` speaks of contracts with
  `NoneTakenBack`).
- Once the mapping of an event type is deactivated it cannot be mapped again: the next
  change would be version 1, which exists (`ApproveMappingChange`).
- A proposed multiplier is dropped when the mapping is approved.
- `api/accounting.py` says failed events are re-attempted by the posting job;
  `post_pending` takes READY journals only, and a refused one waits for a retry by hand.
- Cancelling before delivery books a refund against a deposit that was never booked.
- Deactivating a version that has not begun leaves no current version, yet the one before
  it resolves until the day it would have ended.
- After a crash between the ERP's acceptance and the commit the journal is accepted twice
  (`accepted`); the mock adapter has no key to refuse it.

Expected credit loss

- A `risk_rating` override is accepted and active, and no assessment uses it; a stage
  override to 3 takes the lifetime PD of stage 3 with the LGD of the other stages.
- Payments of a cure are counted from the first day at the highest stage, so those made
  before a second default count; the rule for 3 to 2 lets a contract go to 1.
- `models/ecl.py:364` says an override is created only when approved; it is created with
  the request.
- A partial write-off releases the provision, and the next run opens with the closing
  balance before it: the allowance stays short by what was released
  (`released` in `AllowanceIsProvision`; the comment at `write_off.py:711-713` says the
  release is its opening balance). A run that is never posted, or dated back, breaks the
  sum of the movements in the same way.
- Proposed configurations carry no base version; of two, the second approved undoes the
  first. The expiry job takes any day.

Reconciliation

- The session does not flush before a query, so within one run two lines match one payment,
  or a line flags as exception what another has just matched; the docstring of
  `_classify` says "naturally idempotent" (`reconciliation.py:232`).
- `apply_manual_match` does not look at the payment again, and a payment flagged for a
  wrong amount stays flagged when its line is resolved with another one.
- Two batches of one day both book a transaction that neither mentions; the reference of
  the mock feed is its date, which blocks a second import of a day; the payment branch
  of `apply_resolution` is never reached; a reversal leaves the reconciliation status.

Origination

- The `expired` status a late acceptance writes is rolled back with the refusal.
- After an acceptance the application stays approved: another offer and another contract
  can be made for it, and the exposure is not looked at again. Exposure is compared with
  the amount requested, not the price; two applications submitted before either is a
  contract both pass. Affordability ignores the installments of the customer's own
  contracts.
- An acceptance may make the stock negative, as `accept_offer` takes a unit without asking
  whether there is one; a correction that would is refused.
- `pricing.py:27-29` says profit per installment never increases; with a profit of 1 in
  four lines it is 0, 1, 0, 0. `offers.py` rounds the minimum down payment half to even,
  the model half up.

## 8. Not modelled, and the plan

Reports, the drill-downs of the ECL, exposure listings, audit and the frontend only read or
append. Users, references and migrations are CRUD and set-up. Calls, messages and visits
of collections, a second promise, eligibility indicators, names and types of accounts,
gateway fees, formatting, authentication and the scheduling of jobs are out of scope. That
a maker is not the checker is assumed wherever a request is decided, since users are not
modelled. `PROJECT.json` lists every component with its reason.

Three hazards have no property: a promise that is pending after its date because the job has
not run (`collections.py:281`; needs dates on payments), a full write-off that can be
neither executed nor requested again after a payment (`write_off.py:646`; `WriteOff_full.cfg`
has a counterexample), and a contract that one written-off installment keeps open
(`closure.py:132`). For the last, and for what becomes of a case on a contract that ends
(`closure.py:310`), nothing in the documents promises an outcome.

Order of further work:

1. An abstract request that is decided once and takes effect once, implemented by the
   requests of `Journals`, `Provisions` and `Reconciliation`.
2. `ConcurrentRequests` with the overdue job and the webhook, and with the row locks that
   would make `LedgerReproducesTheBalance` hold.
3. Dates on payments, for promises.

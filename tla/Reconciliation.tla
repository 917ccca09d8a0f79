----------------------------- MODULE Reconciliation -----------------------------
(* Both reconciliations of payments: bank statement lines matched to payments, *)
(* and the gateway's settlement feed compared with the intents and payments it *)
(* caused.  They meet in the reconciliation status of a payment.  A payment of *)
(* the gateway stands for its intent too: under the seeded policy the webhook  *)
(* that settles the one records the other.                                     *)
EXTENDS Integers, Sequences, FiniteSets, FiniteSetsExt, SequencesExt

CONSTANTS Payment,         \* the payments that may be recorded: amount, refs, day
          GatewayPayments, \* those that a settled intent causes, in DOMAIN Payment
          Rows,            \* rows a bank statement may hold, malformed ones too
          Tolerance,       \* KEY_RECON_DATE_TOLERANCE_DAYS
          BatchReferences,
          FeedItems,       \* items a settlement feed may hold
          Days,            \* days on which something settles
          MaxLines, MaxFeed, MaxRequests   \* bounds

VARIABLES status,     \* reconciliation_status of each payment, NoPayment before it
          intents,    \* status of the intent behind a payment of the gateway
          lines,      \* BankStatementLine rows, each with its exception
          batches,    \* references of the SettlementBatch rows
          items,      \* ReconciliationItem rows
          requests,   \* pending approval requests
          asked       \* how many there have been

vars == <<status, intents, lines, batches, items, requests, asked>>
bank == <<lines>>
feed == <<batches, items>>

NoPayment == "none"
NoReason == "none"
Payments == DOMAIN Payment

ASSUME ReconciliationAssumption ==
  /\ IsFiniteSet(Payments) /\ GatewayPayments \subseteq Payments /\ NoPayment \notin Payments
  /\ {Tolerance, MaxLines, MaxFeed, MaxRequests} \subseteq Nat
-------------------------------------------------------------------------------
\* The bank side.

_refs(p) == Payment[p].refs

\* Mutant of Eligible: payments flagged or matched earlier are candidates again.
EligibleAll == {p \in Payments : status[p] # NoPayment}

\* What the query of _classify returns.  It reads the table, and SessionLocal does
\* not flush before a query: within one run it does not see the run's own links.
Eligible == {p \in Payments : status[p] = "unreconciled"}

ByRef(row) == {p \in Eligible : row.ref \in _refs(p)}
ByAmountDate(row) ==
  {p \in Eligible : /\ Payment[p].amount = row.amount
                    /\ Payment[p].day - row.day \in -Tolerance..Tolerance}

Found(p) == [payment |-> p, reason |-> NoReason]
Unclear(reason) == [payment |-> NoPayment, reason |-> reason]
\* The one candidate, or why there is none.
TheOnly(candidates) ==
  CASE candidates = {} -> Unclear("no_match")
    [] Cardinality(candidates) = 1 -> Found(CHOOSE p \in candidates : TRUE)
    [] OTHER -> Unclear("duplicate_candidate")

_classify(row) ==
  LET byRef == TheOnly(ByRef(row)) IN
  IF ByRef(row) = {} THEN TheOnly(ByAmountDate(row))
  ELSE IF byRef.payment # NoPayment /\ Payment[byRef.payment].amount # row.amount
       THEN Unclear("amount_mismatch") ELSE byRef

\* A line is done once it is matched or has an exception.
Done(line) == line.matched # NoPayment \/ line.exception # "none"

Matched(line) ==
  LET found == _classify(line) IN
  IF Done(line) THEN line
  ELSE [line EXCEPT !.matched = found.payment, !.reason = found.reason,
                    !.exception = IF found.payment = NoPayment THEN "open" ELSE @]

\* The payment a line of this run links, or flags as an exception.
Touches(line, p) ==
  /\ ~Done(line)
  /\ \/ _classify(line).payment = p
     \/ _classify(line).reason = "amount_mismatch" /\ ByRef(line) = {p}

\* Lines are taken in order, so that the last one decides the payment's status.
MatchAll(all) ==
  /\ lines' = [n \in DOMAIN all |-> Matched(all[n])]
  /\ status' = [p \in Payments |->
       LET touching == {n \in DOMAIN all : Touches(all[n], p)} IN
       IF touching = {} THEN status[p]
       ELSE IF _classify(all[Max(touching)]).payment = p
            THEN "reconciled" ELSE "exception"]

Line(row) == [ref |-> row.ref, amount |-> row.amount, day |-> row.day,
              matched |-> NoPayment, exception |-> "none", reason |-> NoReason]
WellFormed(row) == row.ref # "" /\ row.amount > 0

\* One line by hand: it waits for the next run.
ingest_bank_line(row) ==
  /\ WellFormed(row) /\ Len(lines) < MaxLines
  /\ lines' = Append(lines, Line(row))
  /\ UNCHANGED <<status, intents, feed, requests, asked>>

\* A workbook: the rows that are well formed, and then the matching of everything.
ingest_bank_statement_upload(rows) ==
  LET good == SelectSeq(rows, WellFormed) IN
  /\ good # <<>> /\ Len(lines) + Len(good) <= MaxLines
  /\ MatchAll(lines \o [n \in DOMAIN good |-> Line(good[n])])
  /\ UNCHANGED <<intents, feed, requests, asked>>

run_matching ==
  /\ \E n \in DOMAIN lines : ~Done(lines[n])
  /\ MatchAll(lines)
  /\ UNCHANGED <<intents, feed, requests, asked>>
-------------------------------------------------------------------------------
\* Maker-checker, for both sides.

Ask(kind, row, p) ==
  /\ asked < MaxRequests
  /\ \A r \in requests : ~(r.kind = kind /\ r.row = row)
  /\ requests' = requests \cup {[kind |-> kind, row |-> row, payment |-> p]}
  /\ asked' = asked + 1

request_manual_match(n, p) ==
  /\ lines[n].exception = "open"
  /\ status[p] \notin {NoPayment, "reconciled"}
  /\ Ask("match", n, p)
  /\ UNCHANGED <<status, intents, bank, feed>>

\* Mutant of apply_manual_match: the exception stays open.
apply_manual_matchOpen(r) ==
  /\ r.kind = "match"
  /\ lines[r.row].exception = "open" /\ lines[r.row].matched = NoPayment
  /\ lines' = [lines EXCEPT ![r.row].matched = r.payment]
  /\ status' = [status EXCEPT ![r.payment] = "reconciled"]
  /\ requests' = requests \ {r}
  /\ UNCHANGED <<intents, feed, asked>>

\* Whether the payment is still to be reconciled is not asked again.
apply_manual_match(r) ==
  /\ r.kind = "match"
  /\ lines[r.row].exception = "open" /\ lines[r.row].matched = NoPayment
  /\ lines' = [lines EXCEPT ![r.row].matched = r.payment,
                            ![r.row].exception = "resolved"]
  /\ status' = [status EXCEPT ![r.payment] = "reconciled"]
  /\ requests' = requests \ {r}
  /\ UNCHANGED <<intents, feed, asked>>

reject(r) ==
  /\ requests' = requests \ {r}
  /\ UNCHANGED <<status, intents, bank, feed, asked>>
-------------------------------------------------------------------------------
\* The gateway side.  An item names the intent as the merchant's reference.

\* The transaction has settled, whatever became of the intent afterwards.
SettledOn(p, day) == intents[p] \in {"settled", "reversed"} /\ Payment[p].day = day

Outcome(outcome, intent, payment, variance) ==
  [outcome |-> outcome, intent |-> intent, payment |-> payment,
   variance |-> variance]
Open(outcome) == Outcome(outcome, NoPayment, NoPayment, 0)

\* The item at n of the feed; the others are there for the repeated references.
_classify_item(all, n) ==
  LET item == all[n]  p == item.merchant IN
  IF \E k \in 1..n - 1 : all[k].gref = item.gref THEN Open("DUPLICATE")
  ELSE IF p = "" THEN Open("UNRESOLVED")
  ELSE IF p \notin GatewayPayments THEN Open("MISSING_IN_INTERNAL_SYSTEM")
  ELSE IF intents[p] # "settled" THEN Outcome("STATUS_MISMATCH", p, NoPayment, 0)
  ELSE IF Payment[p].amount # item.amount
    THEN Outcome("AMOUNT_MISMATCH", p, NoPayment, item.amount - Payment[p].amount)
  ELSE IF Payment[p].day # item.day THEN Outcome("DATE_MISMATCH", p, NoPayment, 0)
  ELSE Outcome("MATCHED", p, p, 0)

Item(reference, day, merchant, found) ==
  [batch |-> reference, day |-> day, merchant |-> merchant,
   outcome |-> found.outcome, intent |-> found.intent, payment |-> found.payment,
   variance |-> found.variance, booked |-> FALSE,
   status |-> IF found.outcome = "MATCHED" THEN "resolved" ELSE "open"]

\* Mutant of Unmentioned: the status of the intent is asked, as it is for an item.
UnmentionedSettled(all, day) ==
  {p \in GatewayPayments : /\ intents[p] = "settled" /\ Payment[p].day = day
                           /\ \A n \in DOMAIN all : all[n].merchant # p}

\* Own settled transactions of the day that the feed does not mention.
Unmentioned(all, day) ==
  {p \in GatewayPayments : SettledOn(p, day) /\ \A n \in DOMAIN all : all[n].merchant # p}

Missing(reference, day, p) ==
  Item(reference, day, p,
       Outcome("MISSING_IN_GATEWAY", p, NoPayment, Payment[p].amount))

import_settlement_batch(reference, day, all) ==
  LET compared == [n \in DOMAIN all |->
        Item(reference, all[n].day, all[n].merchant, _classify_item(all, n))]
      swept == SetToSeq({Missing(reference, day, p) : p \in Unmentioned(all, day)})
      matched == {compared[n].payment : n \in DOMAIN all} \ {NoPayment}
  IN
  /\ reference \notin batches
  /\ batches' = batches \cup {reference}
  /\ items' = items \o compared \o swept
  /\ status' = [p \in Payments |-> IF p \in matched THEN "reconciled" ELSE status[p]]
  /\ UNCHANGED <<intents, bank, requests, asked>>

request_reconciliation_resolution(n) ==
  /\ items[n].status = "open"
  /\ Ask("resolve", n, NoPayment)
  /\ UNCHANGED <<status, intents, bank, feed>>

\* A variance of a known intent is booked as a settlement difference.
apply_resolution(r) ==
  LET item == items[r.row] IN
  /\ r.kind = "resolve" /\ item.status = "open"
  /\ items' = [items EXCEPT ![r.row].status = "resolved",
                 ![r.row].booked = item.variance # 0 /\ item.intent # NoPayment]
  /\ status' = IF item.payment = NoPayment THEN status
               ELSE [status EXCEPT ![item.payment] = "reconciled"]
  /\ requests' = requests \ {r}
  /\ UNCHANGED <<intents, bank, batches, asked>>
-------------------------------------------------------------------------------
\* What happens to payments elsewhere: ContractServicing and PaymentGateway.

PaymentRecorded(p) ==
  /\ status[p] = NoPayment
  /\ status' = [status EXCEPT ![p] = "unreconciled"]
  /\ intents' = [intents EXCEPT ![p] = IF p \in GatewayPayments THEN "settled" ELSE @]
  /\ UNCHANGED <<bank, feed, requests, asked>>

\* A reversal leaves the reconciliation status of the payment alone.
IntentReversed(p) ==
  /\ intents[p] = "settled"
  /\ intents' = [intents EXCEPT ![p] = "reversed"]
  /\ UNCHANGED <<status, bank, feed, requests, asked>>

Init ==
  /\ status = [p \in Payments |-> NoPayment]
  /\ intents = [p \in Payments |-> "pending"]
  /\ lines = <<>> /\ batches = {} /\ items = <<>>
  /\ requests = {} /\ asked = 0

Next ==
  \/ \E row \in Rows : ingest_bank_line(row)
  \/ \E rows \in SeqOf(Rows, 2) : ingest_bank_statement_upload(rows)
  \/ run_matching
  \/ \E n \in DOMAIN lines, p \in Payments : request_manual_match(n, p)
  \/ \E reference \in BatchReferences, day \in Days, all \in SeqOf(FeedItems, MaxFeed) :
       import_settlement_batch(reference, day, all)
  \/ \E n \in DOMAIN items : request_reconciliation_resolution(n)
  \/ \E r \in requests : apply_manual_match(r) \/ apply_resolution(r) \/ reject(r)
  \/ \E p \in Payments : PaymentRecorded(p) \/ IntentReversed(p)

Spec == Init /\ [][Next]_vars
-------------------------------------------------------------------------------
\* A payment counts as reconciled only for a bank line or an item of the feed that
\* says so, it is flagged only for a line that named it with another amount, and a
\* line is matched exactly when it has no exception left: screens and counts of the
\* two sides are read from different tables.
StatusIsExplained ==
  /\ \A p \in Payments :
       /\ status[p] = "reconciled" =>
            \/ \E n \in DOMAIN lines : lines[n].matched = p
            \/ \E n \in DOMAIN items : items[n].outcome = "MATCHED" /\ items[n].payment = p
       /\ status[p] = "exception" =>
            \E n \in DOMAIN lines : /\ lines[n].reason = "amount_mismatch"
                                    /\ lines[n].ref \in _refs(p)
  /\ \A n \in DOMAIN lines :
       /\ lines[n].exception = "open" => lines[n].matched = NoPayment
       /\ lines[n].exception = "resolved" => lines[n].matched # NoPayment

\* Whichever side reconciled a payment first, no later run, import or decision of
\* the other takes it back or flags it.
ReconciledStays ==
  [][\A p \in Payments : status[p] = "reconciled" => status'[p] = "reconciled"]_vars

\* An import accounts for every own transaction that settled on the day of the batch:
\* the batch mentions it or has a missing item for it, also when the intent has been
\* reversed since.
SweepIsComplete ==
  [][\A reference \in BatchReferences, day \in Days, all \in SeqOf(FeedItems, MaxFeed) :
       import_settlement_batch(reference, day, all) =>
         \A p \in GatewayPayments : SettledOn(p, day) =>
           \E n \in DOMAIN items' : items'[n].batch = reference /\ items'[n].merchant = p]_vars
===============================================================================

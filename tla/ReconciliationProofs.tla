--------------------------- MODULE ReconciliationProofs ---------------------------
(* Theorems about Reconciliation, for any payments, statements and feeds.       *)
EXTENDS Reconciliation, AmountTheorems, SequenceTheorems

\* status has an entry for every payment.
SInv == status = [p \in Payments |-> status[p]]

LEMMA OnlyCandidates ==
  ASSUME NEW candidates, NEW p, TheOnly(candidates).payment = p
  PROVE  p = NoPayment \/ p \in candidates
<1>1. CASE candidates = {}
  BY <1>1, FS_EmptySet DEF TheOnly, Unclear
<1>2. CASE candidates # {}
  <2>1. (CHOOSE q \in candidates : TRUE) \in candidates
    BY <1>2
  <2>2. TheOnly(candidates) \in {Unclear("duplicate_candidate"),
                                 Found(CHOOSE q \in candidates : TRUE)}
    BY <1>2 DEF TheOnly
  <2> QED BY <2>1, <2>2 DEF Unclear, Found
<1> QED BY <1>1, <1>2

\* A line matches or flags only payments that are still unreconciled.
LEMMA TouchesEligible ==
  ASSUME NEW line, NEW p \in Payments, Touches(line, p)
  PROVE  status[p] = "unreconciled"
<1>0. p # NoPayment
  BY ReconciliationAssumption
<1>1. CASE ByRef(line) = {p}
  BY <1>1 DEF ByRef, Eligible
<1>2. CASE _classify(line).payment = p
  <2>1. CASE ByRef(line) = {}
    <3>1. TheOnly(ByAmountDate(line)).payment = p
      BY <1>2, <2>1 DEF _classify
    <3>2. p \in ByAmountDate(line)
      BY <1>0, <3>1, OnlyCandidates
    <3> QED BY <3>2 DEF ByAmountDate, Eligible
  <2>2. CASE ByRef(line) # {}
    <3>1. _classify(line) \in {Unclear("amount_mismatch"), TheOnly(ByRef(line))}
      BY <2>2 DEF _classify
    <3>2. Unclear("amount_mismatch").payment = NoPayment
      BY DEF Unclear
    <3>3. TheOnly(ByRef(line)).payment = p
      BY <1>0, <1>2, <3>1, <3>2
    <3>4. p \in ByRef(line)
      BY <1>0, <3>3, OnlyCandidates
    <3> QED BY <3>4 DEF ByRef, Eligible
  <2> QED BY <2>1, <2>2
<1> QED BY <1>1, <1>2 DEF Touches

LEMMA MatchingKeeps ==
  ASSUME NEW all, MatchAll(all)
  PROVE  /\ SInv'
         /\ \A p \in Payments : status[p] = "reconciled" => status'[p] = "reconciled"
<1>1. SInv'
  BY DEF MatchAll, SInv
<1>2. ASSUME NEW p \in Payments, status[p] = "reconciled" PROVE status'[p] = "reconciled"
  <2>1. {n \in DOMAIN all : Touches(all[n], p)} = {}
    BY <1>2, TouchesEligible
  <2> QED BY <1>2, <2>1 DEF MatchAll
<1> QED BY <1>1, <1>2

LEMMA StepKeeps ==
  ASSUME SInv, [Next]_vars
  PROVE  /\ SInv'
         /\ \A p \in Payments : status[p] = "reconciled" => status'[p] = "reconciled"
<1>1. CASE status' = status
  BY <1>1 DEF SInv
<1>2. CASE run_matching \/ \E rows \in SeqOf(Rows, 2) : ingest_bank_statement_upload(rows)
  BY <1>2, MatchingKeeps DEF run_matching, ingest_bank_statement_upload
<1>3. ASSUME NEW r \in requests, apply_manual_match(r)
      PROVE  /\ SInv'
             /\ \A p \in Payments : status[p] = "reconciled" => status'[p] = "reconciled"
  BY <1>3 DEF apply_manual_match, SInv
<1>4. ASSUME NEW r \in requests, apply_resolution(r)
      PROVE  /\ SInv'
             /\ \A p \in Payments : status[p] = "reconciled" => status'[p] = "reconciled"
  BY <1>4 DEF apply_resolution, SInv
<1>5. ASSUME NEW reference, NEW day, NEW all, import_settlement_batch(reference, day, all)
      PROVE  /\ SInv'
             /\ \A p \in Payments : status[p] = "reconciled" => status'[p] = "reconciled"
  BY <1>5 DEF import_settlement_batch, SInv
<1>6. ASSUME NEW q \in Payments, PaymentRecorded(q)
      PROVE  /\ SInv'
             /\ \A p \in Payments : status[p] = "reconciled" => status'[p] = "reconciled"
  BY <1>6 DEF PaymentRecorded, SInv, NoPayment
<1> QED
  BY <1>1, <1>2, <1>3, <1>4, <1>5, <1>6
  DEF Next, vars, ingest_bank_line, request_manual_match, request_reconciliation_resolution,
      reject, IntentReversed

\* For any payments, bank lines, feeds and requests: once a payment is reconciled, by
\* the bank or the gateway, it stays so.
THEOREM ReconciledForGood == Spec => ReconciledStays
<1> DEFINE Kept == \A p \in Payments : status[p] = "reconciled" => status'[p] = "reconciled"
<1>1. Init => SInv
  BY DEF Init, SInv
<1>2. SInv /\ [Next]_vars => SInv' /\ [Kept]_vars
  BY StepKeeps
<1> QED BY <1>1, <1>2, PTL DEF Spec, ReconciledStays
-------------------------------------------------------------------------------
\* The rows.

Reasons == {NoReason, "no_match", "duplicate_candidate", "amount_mismatch"}
LineRow == [ref: {row.ref : row \in Rows}, amount: {row.amount : row \in Rows},
            day: {row.day : row \in Rows}, matched: Payments \cup {NoPayment},
            exception: {"none", "open", "resolved"}, reason: Reasons]

Variances == {0} \cup {Payment[p].amount : p \in Payments}
               \cup {item.amount - Payment[p].amount : item \in FeedItems, p \in Payments}
Outcomes == {"DUPLICATE", "UNRESOLVED", "MISSING_IN_INTERNAL_SYSTEM", "STATUS_MISMATCH",
             "AMOUNT_MISMATCH", "DATE_MISMATCH", "MATCHED", "MISSING_IN_GATEWAY"}
ItemDays == Days \cup {item.day : item \in FeedItems}
Merchants == GatewayPayments \cup {item.merchant : item \in FeedItems}
ItemRow == [batch: BatchReferences, day: ItemDays, merchant: Merchants,
            outcome: Outcomes, intent: Payments \cup {NoPayment},
            payment: Payments \cup {NoPayment}, variance: Variances, booked: BOOLEAN,
            status: {"open", "resolved"}]
Request == [kind: {"match", "resolve"}, row: Nat, payment: Payments \cup {NoPayment}]

TypeOK ==
  /\ status \in [Payments -> {NoPayment, "unreconciled", "reconciled", "exception"}]
  /\ intents \in [Payments -> {"pending", "settled", "reversed"}]
  /\ lines \in Seq(LineRow)
  /\ items \in Seq(ItemRow)
  /\ requests \subseteq Request
  /\ \A r \in requests : /\ r.kind = "match" => r.row \in DOMAIN lines /\ r.payment \in Payments
                         /\ r.kind = "resolve" => r.row \in DOMAIN items

\* What the columns of a line tell: only the run that classifies it gives a reason.
LineTells(line) ==
  /\ ~Done(line) => line.reason = NoReason
  /\ line.exception = "open" => line.matched = NoPayment
  /\ line.exception = "resolved" => line.matched # NoPayment
ItemTells(item) == item.payment # NoPayment => item.outcome = "MATCHED"

TellTruth == /\ \A n \in DOMAIN lines : LineTells(lines[n])
             /\ \A n \in DOMAIN items : ItemTells(items[n])

ByLine(p) == \E n \in DOMAIN lines : lines[n].matched = p
ByItem(p) == \E n \in DOMAIN items : items[n].outcome = "MATCHED" /\ items[n].payment = p
Flagged(p) == \E n \in DOMAIN lines : /\ lines[n].reason = "amount_mismatch"
                                      /\ lines[n].ref \in _refs(p)
Explained == \A p \in Payments : /\ status[p] = "reconciled" => ByLine(p) \/ ByItem(p)
                                 /\ status[p] = "exception" => Flagged(p)

IInv == TypeOK /\ TellTruth /\ Explained

LEMMA LineMeaning ==
  ASSUME NEW line \in LineRow
  PROVE  /\ line.ref \in {row.ref : row \in Rows} /\ line.amount \in {row.amount : row \in Rows}
         /\ line.day \in {row.day : row \in Rows} /\ line.matched \in Payments \cup {NoPayment}
         /\ line.exception \in {"none", "open", "resolved"} /\ line.reason \in Reasons
BY DEF LineRow

-------------------------------------------------------------------------------
\* The rows of a table stay, and what they explain stays explained.

LinesKept ==
  \A n \in DOMAIN lines :
    /\ n \in DOMAIN lines' /\ lines'[n].ref = lines[n].ref
    /\ lines[n].matched # NoPayment => lines'[n].matched = lines[n].matched
    /\ lines[n].reason = "amount_mismatch" => lines'[n].reason = "amount_mismatch"
ItemsKept ==
  \A n \in DOMAIN items : /\ n \in DOMAIN items' /\ items'[n].outcome = items[n].outcome
                          /\ items'[n].payment = items[n].payment

LEMMA StaysExplained ==
  ASSUME Explained, LinesKept, ItemsKept,
         \A p \in Payments : \/ status'[p] \in {status[p], NoPayment, "unreconciled"}
                             \/ status'[p] = "reconciled" /\ (ByLine(p)' \/ ByItem(p)')
                             \/ status'[p] = "exception" /\ Flagged(p)'
  PROVE  Explained'
<1>1. ASSUME NEW p \in Payments PROVE /\ ByLine(p) => ByLine(p)'
                                      /\ ByItem(p) => ByItem(p)'
                                      /\ Flagged(p) => Flagged(p)'
  <2>1. p # NoPayment
    BY ReconciliationAssumption
  <2>2. ByLine(p) => ByLine(p)'
    BY <2>1 DEF ByLine, LinesKept
  <2>3. ByItem(p) => ByItem(p)'
    BY DEF ByItem, ItemsKept
  <2>4. Flagged(p) => Flagged(p)'
    BY DEF Flagged, LinesKept, _refs
  <2> QED BY <2>2, <2>3, <2>4
<1>2. ASSUME NEW p \in Payments
      PROVE  /\ status'[p] = "reconciled" => ByLine(p)' \/ ByItem(p)'
             /\ status'[p] = "exception" => Flagged(p)'
  <2>1. NoPayment \notin {"reconciled", "exception"}
    BY DEF NoPayment
  <2>2. CASE status'[p] \in {NoPayment, "unreconciled"}
    BY <2>1, <2>2
  <2>3. CASE status'[p] = status[p]
    BY <1>1, <2>3 DEF Explained
  <2> QED BY <2>2, <2>3
<1> QED BY <1>2 DEF Explained

LEMMA SameLines == ASSUME UNCHANGED lines PROVE LinesKept
BY DEF LinesKept
LEMMA SameItems == ASSUME UNCHANGED items PROVE ItemsKept
BY DEF ItemsKept

-------------------------------------------------------------------------------
\* Matching.

\* The last of some lines is one of them.
LEMMA LastIsOne ==
  ASSUME NEW m \in Nat, NEW S, S \subseteq 1..m, S # {}
  PROVE  Max(S) \in S
<1> DEFINE T == {n \in Nat : m - n \in S}
<1>1. T # {}
  <2>1. PICK k \in S : k \in 1..m
    OBVIOUS
  <2>2. m - k \in Nat /\ m - (m - k) = k
    BY <2>1
  <2>3. m - k \in T
    BY <2>2
  <2> QED BY <2>3
<1>2. PICK n \in T : \A k \in T : n <= k
  BY <1>1, SmallestNat
<1>3. ASSUME NEW k \in S PROVE m - n >= k
  <2>1. k \in 1..m /\ m - k \in Nat /\ m - (m - k) = k
    OBVIOUS
  <2>2. m - k \in T
    BY <2>1
  <2>3. n <= m - k /\ n \in Nat
    BY <1>2, <2>2
  <2> QED BY <2>1, <2>3
<1>4. m - n \in S
  OBVIOUS
<1> QED BY <1>3, <1>4 DEF Max

\* What classifying a line returns.
LEMMA TheOnlyMeaning ==
  ASSUME NEW candidates, candidates \subseteq Payments
  PROVE  /\ TheOnly(candidates).payment \in Payments \cup {NoPayment}
         /\ TheOnly(candidates).reason \in Reasons \ {"amount_mismatch"}
<1>1. CASE candidates = {}
  <2>1. TheOnly(candidates) = Unclear("no_match")
    BY <1>1, FS_EmptySet DEF TheOnly
  <2> QED BY <2>1 DEF Unclear, Reasons, NoReason
<1>2. CASE candidates # {}
  <2>1. (CHOOSE q \in candidates : TRUE) \in Payments
    BY <1>2
  <2>2. TheOnly(candidates) \in {Unclear("duplicate_candidate"),
                                 Found(CHOOSE q \in candidates : TRUE)}
    BY <1>2 DEF TheOnly
  <2>3. ASSUME NEW q \in Payments
        PROVE  Found(q).payment = q /\ Found(q).reason = NoReason
    BY DEF Found
  <2>4. /\ Unclear("duplicate_candidate").payment = NoPayment
        /\ Unclear("duplicate_candidate").reason = "duplicate_candidate"
    BY DEF Unclear
  <2>5. CASE TheOnly(candidates) = Unclear("duplicate_candidate")
    BY <2>4, <2>5 DEF Reasons, NoReason
  <2>6. CASE TheOnly(candidates) = Found(CHOOSE q \in candidates : TRUE)
    <3>1. PICK q \in Payments : q = (CHOOSE r \in candidates : TRUE)
      BY <2>1
    <3>2. TheOnly(candidates).payment = q /\ TheOnly(candidates).reason = NoReason
      BY <2>3, <2>6, <3>1
    <3> QED BY <3>2 DEF Reasons, NoReason
  <2> QED BY <2>2, <2>5, <2>6
<1> QED BY <1>1, <1>2

LEMMA ClassifyMeaning ==
  ASSUME NEW line
  PROVE  /\ _classify(line).payment \in Payments \cup {NoPayment}
         /\ _classify(line).reason \in Reasons
<1>1. ByRef(line) \subseteq Payments /\ ByAmountDate(line) \subseteq Payments
  BY DEF ByRef, ByAmountDate, Eligible
<1>2. /\ TheOnly(ByRef(line)).payment \in Payments \cup {NoPayment}
      /\ TheOnly(ByRef(line)).reason \in Reasons
      /\ TheOnly(ByAmountDate(line)).payment \in Payments \cup {NoPayment}
      /\ TheOnly(ByAmountDate(line)).reason \in Reasons
  BY <1>1, TheOnlyMeaning
<1>3. /\ Unclear("amount_mismatch").payment = NoPayment
      /\ Unclear("amount_mismatch").reason = "amount_mismatch"
  BY DEF Unclear
<1> QED BY <1>2, <1>3 DEF _classify, Reasons

\* The table a run matches: the lines there were, and those just added.
Extended(all) == /\ all \in Seq(LineRow)
                 /\ \A n \in DOMAIN all : LineTells(all[n])
                 /\ \A n \in DOMAIN lines : n \in DOMAIN all /\ all[n] = lines[n]

LEMMA MatchedMeaning ==
  ASSUME NEW line \in LineRow, LineTells(line)
  PROVE  /\ Matched(line) \in LineRow /\ LineTells(Matched(line))
         /\ Matched(line).ref = line.ref
         /\ Done(line) => Matched(line) = line
         /\ ~Done(line) => /\ Matched(line).matched = _classify(line).payment
                           /\ Matched(line).reason = _classify(line).reason
<1>1. CASE Done(line)
  BY <1>1 DEF Matched
<1>2. CASE ~Done(line)
  <2> DEFINE p == _classify(line).payment
             reason == _classify(line).reason
             new == [line EXCEPT !.matched = p, !.reason = reason,
                                 !.exception = IF p = NoPayment THEN "open" ELSE @]
  <2>1. p \in Payments \cup {NoPayment} /\ reason \in Reasons
    BY ClassifyMeaning
  <2>2. Matched(line) = new
    BY <1>2 DEF Matched
  <2>3. line.exception = "none" /\ line.matched = NoPayment
    BY <1>2 DEF Done
  <2> HIDE DEF p, reason
  <2>4. /\ new \in LineRow /\ new.ref = line.ref /\ new.matched = p /\ new.reason = reason
        /\ new.exception = IF p = NoPayment THEN "open" ELSE "none"
    BY <2>1, <2>3 DEF LineRow
  <2> HIDE DEF new
  <2>5. LineTells(new)
    BY <2>4 DEF LineTells, Done
  <2> QED BY <1>2, <2>2, <2>4, <2>5 DEF p, reason
<1> QED BY <1>1, <1>2

\* A run of the matching keeps rows and explains every status it writes.
LEMMA MatchingExplains ==
  ASSUME IInv, NEW all, Extended(all), MatchAll(all), UNCHANGED items
  PROVE  /\ status' \in [Payments -> {NoPayment, "unreconciled", "reconciled", "exception"}]
         /\ lines' \in Seq(LineRow) /\ DOMAIN lines \subseteq DOMAIN lines'
         /\ \A n \in DOMAIN lines' : LineTells(lines'[n])
         /\ Explained'
<1>1. PICK m \in Nat : all \in [1..m -> LineRow] /\ DOMAIN all = 1..m /\ Len(all) = m
  BY SeqDef DEF Extended
<1>2. \A n \in 1..m : /\ all[n] \in LineRow /\ LineTells(all[n])
                      /\ lines'[n] = Matched(all[n])
  BY <1>1 DEF Extended, MatchAll
<1>3. DOMAIN lines' = 1..m /\ lines' = [n \in 1..m |-> lines'[n]]
  BY <1>1 DEF MatchAll
<1>4. ASSUME NEW n \in 1..m
      PROVE  /\ lines'[n] \in LineRow /\ LineTells(lines'[n]) /\ lines'[n].ref = all[n].ref
             /\ Done(all[n]) => lines'[n] = all[n]
             /\ ~Done(all[n]) => /\ lines'[n].matched = _classify(all[n]).payment
                                 /\ lines'[n].reason = _classify(all[n]).reason
  BY <1>2, MatchedMeaning
<1>5. lines' \in Seq(LineRow)
  <2>1. lines' \in [1..m -> LineRow]
    BY <1>3, <1>4
  <2> QED BY <2>1, SeqDef
<1>6. DOMAIN lines \subseteq DOMAIN lines'
  BY <1>1, <1>3 DEF Extended
<1>7. LinesKept
  <2> SUFFICES ASSUME NEW n \in DOMAIN lines
               PROVE  /\ n \in DOMAIN lines' /\ lines'[n].ref = lines[n].ref
                      /\ lines[n].matched # NoPayment => lines'[n].matched = lines[n].matched
                      /\ lines[n].reason = "amount_mismatch" => lines'[n].reason = "amount_mismatch"
    BY DEF LinesKept
  <2>1. n \in 1..m /\ all[n] = lines[n]
    BY <1>1 DEF Extended
  <2>2. CASE Done(all[n])
    BY <1>3, <1>4, <2>1, <2>2
  <2>3. CASE ~Done(all[n])
    <3>1. lines[n].matched = NoPayment /\ lines[n].reason = NoReason
      BY <1>2, <2>1, <2>3 DEF LineTells, Done
    <3> QED BY <1>3, <1>4, <2>1, <3>1 DEF NoReason
  <2> QED BY <2>2, <2>3
<1>8. ASSUME NEW p \in Payments
      PROVE  /\ status'[p] \in {status[p], "reconciled", "exception"}
             /\ \/ status'[p] = status[p]
                \/ status'[p] = "reconciled" /\ ByLine(p)'
                \/ status'[p] = "exception" /\ Flagged(p)'
  <2> DEFINE touching == {n \in DOMAIN all : Touches(all[n], p)}
             last == Max(touching)
  <2>1. status'[p] = IF touching = {} THEN status[p]
                     ELSE IF _classify(all[last]).payment = p THEN "reconciled" ELSE "exception"
    BY DEF MatchAll
  <2>2. touching \subseteq 1..m
    BY <1>1
  <2>3. CASE touching # {}
    <3>1. last \in touching
      <4> HIDE DEF touching
      <4> QED BY <2>2, <2>3, LastIsOne
    <3>2. last \in 1..m /\ Touches(all[last], p)
      BY <1>1, <3>1
    <3> HIDE DEF touching, last
    <3>3. ~Done(all[last])
      BY <3>2 DEF Touches
    <3>4. CASE _classify(all[last]).payment = p
      <4>1. lines'[last].matched = p
        BY <1>4, <3>2, <3>3, <3>4
      <4> QED BY <1>3, <2>1, <2>3, <3>2, <3>4, <4>1 DEF ByLine
    <3>5. CASE _classify(all[last]).payment # p
      <4>1. _classify(all[last]).reason = "amount_mismatch" /\ ByRef(all[last]) = {p}
        BY <3>2, <3>5 DEF Touches
      <4>2. all[last].ref \in _refs(p)
        BY <4>1 DEF ByRef
      <4>3. lines'[last].reason = "amount_mismatch" /\ lines'[last].ref \in _refs(p)
        BY <1>4, <3>2, <3>3, <4>1, <4>2
      <4>4. Flagged(p)'
        BY <1>3, <3>2, <4>3 DEF Flagged, _refs
      <4> QED BY <2>1, <2>3, <3>5, <4>4
    <3> QED BY <3>4, <3>5
  <2> HIDE DEF touching
  <2> QED BY <2>1, <2>3
<1>9. Explained'
  BY <1>7, <1>8, SameItems, StaysExplained DEF IInv
<1>10. status' \in [Payments -> {NoPayment, "unreconciled", "reconciled", "exception"}]
  <2>1. \A p \in Payments : status[p] \in {NoPayment, "unreconciled", "reconciled", "exception"}
    BY DEF IInv, TypeOK
  <2>2. status' = [p \in Payments |-> status'[p]]
    BY DEF MatchAll
  <2> QED BY <1>8, <2>1, <2>2
<1> QED BY <1>3, <1>4, <1>5, <1>6, <1>9, <1>10

-------------------------------------------------------------------------------
\* New lines.

KeptOf(g, rows, n) ==
  g = [k \in 0..n |-> IF k = 0 THEN <<>>
                      ELSE IF WellFormed(rows[k]) THEN Append(g[k - 1], rows[k]) ELSE g[k - 1]]

LEMMA KeptExists ==
  ASSUME NEW rows
  PROVE  \A n \in Nat : \E g : KeptOf(g, rows, n)
<1> DEFINE T == {n \in Nat : \E g : KeptOf(g, rows, n)}
<1>1. 0 \in T
  <2> DEFINE g == [k \in 0..0 |-> <<>>]
  <2>1. KeptOf(g, rows, 0)
    BY DEF KeptOf
  <2> QED BY <2>1
<1>2. ASSUME NEW n \in Nat, n \in T PROVE n + 1 \in T
  <2>1. PICK g : KeptOf(g, rows, n)
    BY <1>2
  <2> DEFINE last == IF WellFormed(rows[n + 1]) THEN Append(g[n], rows[n + 1]) ELSE g[n]
             h == [k \in 0..(n + 1) |-> IF k \in 0..n THEN g[k] ELSE last]
  <2>2. \A k \in 0..n : h[k] = g[k]
    OBVIOUS
  <2>3. \A k \in 0..n : g[k] = IF k = 0 THEN <<>>
                               ELSE IF WellFormed(rows[k]) THEN Append(g[k - 1], rows[k])
                                                           ELSE g[k - 1]
    BY <2>1 DEF KeptOf
  <2>4. h[n + 1] = last
    OBVIOUS
  <2>5. \A k \in 0..(n + 1) : k \in 0..n \/ k = n + 1
    OBVIOUS
  <2>6. \A k \in 0..n : k # 0 => k - 1 \in 0..n
    OBVIOUS
  <2>7. n + 1 # 0 /\ (n + 1) - 1 = n /\ n \in 0..n
    OBVIOUS
  <2>8. h = [k \in 0..(n + 1) |-> h[k]]
    OBVIOUS
  <2> HIDE DEF h
  <2>9. \A k \in 0..(n + 1) :
          h[k] = IF k = 0 THEN <<>>
                 ELSE IF WellFormed(rows[k]) THEN Append(h[k - 1], rows[k]) ELSE h[k - 1]
    BY <2>2, <2>3, <2>4, <2>5, <2>6, <2>7
  <2>10. KeptOf(h, rows, n + 1)
    BY <2>8, <2>9 DEF KeptOf
  <2> QED BY <2>10
<1>3. 0 \in T /\ \A n \in Nat : n \in T => n + 1 \in T
  BY <1>1, <1>2
<1>4. Nat \subseteq T
  <2> HIDE DEF T
  <2> QED BY <1>3, NatSetInduction
<1> QED BY <1>4

\* The rows of a workbook that are well formed are rows.
LEMMA GoodRows ==
  ASSUME NEW rows \in Seq(Rows)
  PROVE  SelectSeq(rows, WellFormed) \in Seq(Rows)
<1>1. PICK n \in Nat : rows \in [1..n -> Rows] /\ Len(rows) = n
  BY SeqDef
<1>2. \E g : KeptOf(g, rows, Len(rows))
  BY <1>1, KeptExists
<1>3. PICK g : KeptOf(g, rows, Len(rows)) /\ SelectSeq(rows, WellFormed) = g[Len(rows)]
  BY <1>2 DEF KeptOf
<1> DEFINE T == {k \in Nat : k <= n => g[k] \in Seq(Rows)}
<1>4. 0 \in T
  BY <1>1, <1>3 DEF KeptOf
<1>5. ASSUME NEW k \in Nat, k \in T PROVE k + 1 \in T
  <2> SUFFICES ASSUME k + 1 <= n PROVE g[k + 1] \in Seq(Rows)
    OBVIOUS
  <2>1. g[k] \in Seq(Rows) /\ k + 1 \in 1..n /\ k + 1 \in 0..n /\ (k + 1) - 1 = k /\ k + 1 # 0
    BY <1>5
  <2>2. rows[k + 1] \in Rows
    BY <1>1, <2>1
  <2>3. g[k + 1] \in {Append(g[k], rows[k + 1]), g[k]}
    BY <1>1, <1>3, <2>1 DEF KeptOf
  <2>4. PICK h \in Seq(Rows), r \in Rows : h = g[k] /\ r = rows[k + 1]
    BY <2>1, <2>2
  <2>5. Append(h, r) \in Seq(Rows)
    OBVIOUS
  <2> QED BY <2>3, <2>4, <2>5
<1>6. 0 \in T /\ \A k \in Nat : k \in T => k + 1 \in T
  BY <1>4, <1>5
<1>7. Nat \subseteq T
  <2> HIDE DEF T
  <2> QED BY <1>6, NatSetInduction
<1> QED BY <1>1, <1>3, <1>7

LEMMA NewLine ==
  ASSUME NEW row \in Rows
  PROVE  Line(row) \in LineRow /\ LineTells(Line(row)) /\ Line(row).matched = NoPayment
BY DEF Line, LineRow, LineTells, Done, NoReason, Reasons, NoPayment

-------------------------------------------------------------------------------
\* The steps.

LEMMA AddingLines ==
  ASSUME IInv, NEW n \in Nat, NEW more \in [1..n -> LineRow],
         \A k \in 1..n : LineTells(more[k])
  PROVE  Extended(lines \o more)
<1>1. PICK m \in Nat : lines \in [1..m -> LineRow] /\ DOMAIN lines = 1..m
  BY SeqDef DEF IInv, TypeOK
<1> DEFINE all == lines \o more
<1>2. /\ all \in [1..(m + n) -> LineRow]
      /\ \A k \in 1..m : all[k] = lines[k]
      /\ \A k \in 1..n : all[m + k] = more[k]
  <2>1. PICK s \in [1..m -> LineRow] : s = lines
    BY <1>1
  <2>2. PICK u \in [1..n -> LineRow] : u = more
    OBVIOUS
  <2>3. Joins(s \o u, s, m, u, n, LineRow)
    BY Joined
  <2> QED BY <2>1, <2>2, <2>3 DEF Joins
<1> HIDE DEF all
<1>3. all \in Seq(LineRow) /\ DOMAIN all = 1..(m + n)
  BY <1>2, SeqDef
<1>4. ASSUME NEW k \in 1..(m + n) PROVE LineTells(all[k])
  <2>1. CASE k <= m
    BY <1>1, <1>2, <2>1 DEF IInv, TellTruth
  <2>2. CASE ~(k <= m)
    <3>1. k - m \in 1..n /\ m + (k - m) = k
      BY <2>2
    <3>2. all[k] = more[k - m]
      BY <1>2, <3>1
    <3> QED BY <3>1, <3>2
  <2> QED BY <2>1, <2>2
<1>5. \A k \in DOMAIN lines : k \in DOMAIN all /\ all[k] = lines[k]
  BY <1>1, <1>2, <1>3
<1> QED BY <1>3, <1>4, <1>5 DEF Extended, all

\* Requests stay about rows that exist.
LEMMA RequestsStay ==
  ASSUME TypeOK, DOMAIN lines \subseteq DOMAIN lines', DOMAIN items \subseteq DOMAIN items',
         requests' \subseteq requests
  PROVE  /\ requests' \subseteq Request
         /\ \A r \in requests' :
              /\ r.kind = "match" => r.row \in DOMAIN lines' /\ r.payment \in Payments
              /\ r.kind = "resolve" => r.row \in DOMAIN items'
BY DEF TypeOK

LEMMA MatchingStep ==
  ASSUME IInv, NEW all, Extended(all), MatchAll(all),
         UNCHANGED <<intents, feed, requests, asked>>
  PROVE  IInv'
<1>1. UNCHANGED <<intents, items, requests>>
  BY DEF feed
<1>2. /\ status' \in [Payments -> {NoPayment, "unreconciled", "reconciled", "exception"}]
      /\ lines' \in Seq(LineRow) /\ DOMAIN lines \subseteq DOMAIN lines'
      /\ \A n \in DOMAIN lines' : LineTells(lines'[n])
      /\ Explained'
  BY <1>1, MatchingExplains
<1>3. TypeOK'
  BY <1>1, <1>2, RequestsStay DEF IInv, TypeOK
<1>4. TellTruth'
  BY <1>1, <1>2 DEF IInv, TellTruth
<1> QED BY <1>2, <1>3, <1>4 DEF IInv

LEMMA LineByHand ==
  ASSUME IInv, NEW row \in Rows, ingest_bank_line(row)
  PROVE  IInv'
<1>1. PICK m \in Nat : /\ lines \in [1..m -> LineRow] /\ DOMAIN lines = 1..m
                       /\ Len(lines) = m /\ lines \in Seq(LineRow)
  BY SeqDef DEF IInv, TypeOK
<1>2. UNCHANGED <<status, intents, items, requests>>
  BY DEF ingest_bank_line, feed
<1>3. PICK line \in LineRow : line = Line(row) /\ LineTells(line)
  BY NewLine
<1>4. lines' = Append(lines, line)
  BY <1>3 DEF ingest_bank_line
<1>5. /\ lines' \in Seq(LineRow) /\ Len(lines') = m + 1
      /\ \A n \in 1..m : lines'[n] = lines[n]
      /\ lines'[m + 1] = line
  BY <1>1, <1>4, AppendProperties
<1>6. DOMAIN lines' = 1..(m + 1) /\ \A n \in 1..(m + 1) : n \in 1..m \/ n = m + 1
  BY <1>5, LenProperties
<1>7. TellTruth'
  BY <1>1, <1>2, <1>3, <1>5, <1>6 DEF IInv, TellTruth
<1>8. LinesKept /\ DOMAIN lines \subseteq DOMAIN lines'
  <2>1. \A n \in DOMAIN lines : n \in DOMAIN lines' /\ lines'[n] = lines[n]
    BY <1>1, <1>5, <1>6
  <2> QED BY <2>1 DEF LinesKept
<1>9. Explained'
  BY <1>2, <1>8, SameItems, StaysExplained DEF IInv
<1>10. TypeOK'
  BY <1>2, <1>5, <1>8, RequestsStay DEF IInv, TypeOK
<1> QED BY <1>7, <1>9, <1>10 DEF IInv

LEMMA Workbook ==
  ASSUME IInv, NEW rows \in SeqOf(Rows, 2), ingest_bank_statement_upload(rows)
  PROVE  IInv'
<1> DEFINE good == SelectSeq(rows, WellFormed)
           more == [n \in DOMAIN good |-> Line(good[n])]
<1>1. rows \in Seq(Rows)
  <2>1. PICK m \in 0..2 : rows \in [1..m -> Rows]
    BY DEF SeqOf
  <2> QED BY <2>1, SeqDef
<1>2. good \in Seq(Rows)
  BY <1>1, GoodRows
<1>3. MatchAll(lines \o more) /\ UNCHANGED <<intents, feed, requests, asked>>
  BY DEF ingest_bank_statement_upload
<1> HIDE DEF good
<1>4. PICK n \in Nat : good \in [1..n -> Rows]
  BY <1>2, SeqDef
<1>5. \A k \in 1..n : Line(good[k]) \in LineRow /\ LineTells(Line(good[k]))
  BY <1>4, NewLine
<1>6. more \in [1..n -> LineRow] /\ \A k \in 1..n : LineTells(more[k])
  BY <1>4, <1>5
<1> HIDE DEF more
<1> QED BY <1>3, <1>6, AddingLines, MatchingStep

LEMMA RunMatching ==
  ASSUME IInv, run_matching
  PROVE  IInv'
<1>1. Extended(lines)
  BY DEF IInv, TypeOK, TellTruth, Extended
<1> QED BY <1>1, MatchingStep DEF run_matching

\* A decision on a line: only one without a match gets one.
LEMMA ManualMatch ==
  ASSUME IInv, NEW r \in requests, apply_manual_match(r)
  PROVE  IInv'
<1>1. PICK n \in DOMAIN lines, p \in Payments : n = r.row /\ p = r.payment
  BY DEF IInv, TypeOK, apply_manual_match
<1>2. /\ lines[n].matched = NoPayment /\ lines[n].exception = "open"
      /\ requests' \subseteq requests /\ UNCHANGED <<intents, items>>
      /\ lines' = [lines EXCEPT ![n].matched = p, ![n].exception = "resolved"]
      /\ status' = [status EXCEPT ![p] = "reconciled"]
  BY <1>1 DEF apply_manual_match, feed
<1>3. PICK m \in Nat : /\ lines \in [1..m -> LineRow] /\ DOMAIN lines = 1..m
  BY SeqDef DEF IInv, TypeOK
<1> DEFINE new == [lines[n] EXCEPT !.matched = p, !.exception = "resolved"]
<1>4. lines[n] \in LineRow /\ p # NoPayment
  BY <1>1, <1>3, ReconciliationAssumption
<1>5. /\ new \in LineRow /\ new.ref = lines[n].ref /\ new.reason = lines[n].reason
      /\ new.matched = p /\ new.exception = "resolved"
  BY <1>4 DEF LineRow
<1>6. lines' = [lines EXCEPT ![n] = new]
  BY <1>2
<1> HIDE DEF new
<1>7. /\ lines' \in [1..m -> LineRow] /\ DOMAIN lines' = 1..m /\ lines'[n] = new
      /\ \A k \in 1..m : k # n => lines'[k] = lines[k]
  BY <1>1, <1>3, <1>5, <1>6
<1>8. lines' \in Seq(LineRow)
  BY <1>7, SeqDef
<1>9. LineTells(new)
  BY <1>4, <1>5 DEF LineTells, Done
<1>10. TellTruth'
  BY <1>2, <1>3, <1>7, <1>9 DEF IInv, TellTruth
<1>11. LinesKept
  BY <1>2, <1>3, <1>5, <1>7 DEF LinesKept
<1>12. ByLine(p)'
  BY <1>1, <1>3, <1>5, <1>7 DEF ByLine
<1>13. /\ status' \in [Payments -> {NoPayment, "unreconciled", "reconciled", "exception"}]
       /\ \A q \in Payments : \/ status'[q] = status[q]
                              \/ status'[q] = "reconciled" /\ q = p
  BY <1>2 DEF IInv, TypeOK
<1>14. Explained'
  BY <1>2, <1>11, <1>12, <1>13, SameItems, StaysExplained DEF IInv
<1>15. TypeOK'
  BY <1>2, <1>3, <1>7, <1>8, <1>13, RequestsStay DEF IInv, TypeOK
<1> QED BY <1>10, <1>14, <1>15 DEF IInv

-------------------------------------------------------------------------------
\* An import.

Telling(found) == /\ found.outcome \in Outcomes /\ found.variance \in Variances
                  /\ {found.intent, found.payment} \subseteq Payments \cup {NoPayment}
                  /\ found.payment # NoPayment => found.outcome = "MATCHED"

LEMMA ItemFacts ==
  ASSUME NEW reference \in BatchReferences, NEW day \in ItemDays,
         NEW merchant \in Merchants, NEW found, Telling(found)
  PROVE  /\ Item(reference, day, merchant, found) \in ItemRow
         /\ ItemTells(Item(reference, day, merchant, found))
         /\ Item(reference, day, merchant, found).payment = found.payment
         /\ Item(reference, day, merchant, found).batch = reference
         /\ Item(reference, day, merchant, found).merchant = merchant
BY DEF Telling, Item, ItemRow, ItemTells

LEMMA OutcomeTells ==
  ASSUME NEW outcome \in Outcomes, NEW intent \in Payments \cup {NoPayment},
         NEW payment \in Payments \cup {NoPayment}, NEW variance \in Variances,
         payment # NoPayment => outcome = "MATCHED"
  PROVE  Telling(Outcome(outcome, intent, payment, variance))
BY DEF Telling, Outcome

LEMMA ClassifiedTells ==
  ASSUME NEW all, NEW n \in DOMAIN all, all[n] \in FeedItems
  PROVE  Telling(_classify_item(all, n))
<1> DEFINE item == all[n]
           p == item.merchant
<1>1. 0 \in Variances
  BY DEF Variances
<1>2. /\ Telling(Open("DUPLICATE")) /\ Telling(Open("UNRESOLVED"))
      /\ Telling(Open("MISSING_IN_INTERNAL_SYSTEM"))
  BY <1>1, OutcomeTells DEF Open, Outcomes
<1>3. ASSUME p \in GatewayPayments
      PROVE  /\ Telling(Outcome("STATUS_MISMATCH", p, NoPayment, 0))
             /\ Telling(Outcome("AMOUNT_MISMATCH", p, NoPayment, item.amount - Payment[p].amount))
             /\ Telling(Outcome("DATE_MISMATCH", p, NoPayment, 0))
             /\ Telling(Outcome("MATCHED", p, p, 0))
  <2>1. p \in Payments
    BY <1>3, ReconciliationAssumption
  <2>2. item.amount - Payment[p].amount \in Variances
    BY <2>1 DEF Variances
  <2> HIDE DEF p, item
  <2>3. /\ Telling(Outcome("STATUS_MISMATCH", p, NoPayment, 0))
        /\ Telling(Outcome("DATE_MISMATCH", p, NoPayment, 0))
    BY <1>1, <2>1, OutcomeTells DEF Outcomes
  <2>4. Telling(Outcome("AMOUNT_MISMATCH", p, NoPayment, item.amount - Payment[p].amount))
    BY <2>1, <2>2, OutcomeTells DEF Outcomes
  <2>5. Telling(Outcome("MATCHED", p, p, 0))
    BY <1>1, <2>1, OutcomeTells DEF Outcomes
  <2> QED BY <2>3, <2>4, <2>5
<1>4. CASE p \notin GatewayPayments
  <2>1. _classify_item(all, n) \in
          {Open("DUPLICATE"), Open("UNRESOLVED"), Open("MISSING_IN_INTERNAL_SYSTEM")}
    BY <1>4 DEF _classify_item
  <2> QED BY <1>2, <2>1
<1>5. CASE p \in GatewayPayments
  <2>1. _classify_item(all, n) \in
          {Open("DUPLICATE"), Open("UNRESOLVED"), Outcome("STATUS_MISMATCH", p, NoPayment, 0),
           Outcome("AMOUNT_MISMATCH", p, NoPayment, item.amount - Payment[p].amount),
           Outcome("DATE_MISMATCH", p, NoPayment, 0), Outcome("MATCHED", p, p, 0)}
    BY <1>5 DEF _classify_item
  <2> HIDE DEF p, item
  <2> QED BY <1>2, <1>3, <1>5, <2>1
<1> QED BY <1>4, <1>5

\* The items of an import: those of the feed and those the feed does not mention.
LEMMA ImportedItems ==
  ASSUME IInv, NEW reference \in BatchReferences, NEW day \in Days,
         NEW all \in SeqOf(FeedItems, MaxFeed),
         import_settlement_batch(reference, day, all)
  PROVE  /\ items' \in Seq(ItemRow)
         /\ \A n \in DOMAIN items : n \in DOMAIN items' /\ items'[n] = items[n]
         /\ \A n \in DOMAIN items' : ItemTells(items'[n])
         /\ \A n \in DOMAIN all : \E k \in DOMAIN items' :
              /\ items'[k].batch = reference /\ items'[k].merchant = all[n].merchant
              /\ items'[k].payment = _classify_item(all, n).payment
              /\ items'[k].payment # NoPayment => items'[k].outcome = "MATCHED"
         /\ \A p \in Unmentioned(all, day) : \E k \in DOMAIN items' :
              items'[k].batch = reference /\ items'[k].merchant = p
<1> DEFINE compared == [n \in DOMAIN all |->
                          Item(reference, all[n].day, all[n].merchant, _classify_item(all, n))]
           missing == {Missing(reference, day, p) : p \in Unmentioned(all, day)}
           swept == SetToSeq(missing)
<1>1. items' = items \o compared \o swept
  BY DEF import_settlement_batch
<1>2. PICK l \in Nat : items \in [1..l -> ItemRow]
  BY SeqDef DEF IInv, TypeOK
<1>3. PICK m \in Nat : all \in [1..m -> FeedItems]
  BY DEF SeqOf
<1>4. ASSUME NEW n \in 1..m
      PROVE  /\ compared[n] \in ItemRow /\ ItemTells(compared[n])
             /\ compared[n].batch = reference /\ compared[n].merchant = all[n].merchant
             /\ compared[n].payment = _classify_item(all, n).payment
  <2>1. /\ all[n] \in FeedItems /\ n \in DOMAIN all
        /\ all[n].day \in ItemDays /\ all[n].merchant \in Merchants
    BY <1>3 DEF ItemDays, Merchants
  <2>2. Telling(_classify_item(all, n))
    BY <2>1, ClassifiedTells
  <2>3. compared[n] = Item(reference, all[n].day, all[n].merchant, _classify_item(all, n))
    BY <2>1
  <2> HIDE DEF compared
  <2>0. PICK found : found = _classify_item(all, n)
    OBVIOUS
  <2>4. PICK d \in ItemDays, x \in Merchants : d = all[n].day /\ x = all[n].merchant
    BY <2>1
  <2>5. compared[n] = Item(reference, d, x, found) /\ Telling(found)
    BY <2>0, <2>2, <2>3, <2>4
  <2> QED BY <2>0, <2>4, <2>5, ItemFacts
<1>5. compared \in [1..m -> ItemRow]
  BY <1>3, <1>4
<1>6. ASSUME NEW p \in Unmentioned(all, day)
      PROVE  /\ Missing(reference, day, p) \in ItemRow /\ ItemTells(Missing(reference, day, p))
             /\ Missing(reference, day, p).batch = reference
             /\ Missing(reference, day, p).merchant = p
  <2>1. p \in GatewayPayments /\ p \in Payments
    BY ReconciliationAssumption DEF Unmentioned
  <2>2. Telling(Outcome("MISSING_IN_GATEWAY", p, NoPayment, Payment[p].amount))
    <3>0. Payment[p].amount \in Variances
      BY <2>1 DEF Variances
    <3>1. PICK v \in Variances, none \in Payments \cup {NoPayment} :
            v = Payment[p].amount /\ none = NoPayment
      BY <3>0
    <3>2. Telling(Outcome("MISSING_IN_GATEWAY", p, none, v))
      BY <2>1, <3>1, OutcomeTells DEF Outcomes
    <3> QED BY <3>1, <3>2
  <2>3. p \in Merchants /\ day \in ItemDays
    BY <2>1 DEF Merchants, ItemDays
  <2> QED BY <2>2, <2>3, ItemFacts DEF Missing
<1>7. IsFiniteSet(missing)
  <2> DEFINE U == Unmentioned(all, day)
             f == [p \in U |-> Missing(reference, day, p)]
  <2>1. IsFiniteSet(U)
    BY ReconciliationAssumption, FS_Subset DEF Unmentioned
  <2>2. f \in Surjection(U, missing)
    BY DEF Surjection
  <2> HIDE DEF f, U, missing
  <2> QED BY <2>1, <2>2, FS_Surjection
<1>8. PICK n \in Nat : /\ swept \in [1..n -> missing]
                       /\ \A x \in missing : \E k \in 1..n : swept[k] = x
  <2> HIDE DEF missing
  <2> QED BY <1>7, SetListed
<1>9. ASSUME NEW x \in missing
      PROVE  /\ x \in ItemRow /\ ItemTells(x) /\ x.batch = reference
  BY <1>6
<1>10. \A p \in Unmentioned(all, day) : \E x \in missing : x.merchant = p
  BY <1>6
<1> HIDE DEF compared, missing, swept
<1>11. swept \in [1..n -> ItemRow]
  BY <1>8, <1>9
<1> DEFINE first == items \o compared
<1>12. PICK j \in Nat : j = l + m
  OBVIOUS
<1> HIDE DEF first
<1>13. /\ first \in [1..j -> ItemRow]
       /\ \A k \in 1..l : first[k] = items[k]
       /\ \A k \in 1..m : first[l + k] = compared[k]
  <2>1. PICK s \in [1..l -> ItemRow], u \in [1..m -> ItemRow] : s = items /\ u = compared
    BY <1>2, <1>5
  <2>2. Joins(s \o u, s, l, u, m, ItemRow)
    BY Joined
  <2> QED BY <1>12, <2>1, <2>2 DEF Joins, first
<1>14. /\ items' \in [1..(j + n) -> ItemRow]
       /\ \A k \in 1..j : items'[k] = first[k]
       /\ \A k \in 1..n : items'[j + k] = swept[k]
  <2>1. items' = first \o swept
    BY <1>1 DEF first
  <2>2. PICK s \in [1..j -> ItemRow], u \in [1..n -> ItemRow] : s = first /\ u = swept
    BY <1>11, <1>13
  <2>3. Joins(s \o u, s, j, u, n, ItemRow)
    BY Joined
  <2> QED BY <2>1, <2>2, <2>3 DEF Joins
<1>15. items' \in Seq(ItemRow) /\ DOMAIN items' = 1..(j + n)
  BY <1>14, SeqDef
<1>16. /\ \A k \in 1..l : k \in 1..j /\ k \in 1..(j + n)
       /\ \A k \in 1..m : l + k \in 1..j /\ l + k \in 1..(j + n)
       /\ \A k \in 1..n : j + k \in 1..(j + n)
  BY <1>12
<1>17. /\ \A k \in 1..l : items'[k] = items[k]
       /\ \A k \in 1..m : items'[l + k] = compared[k]
  BY <1>13, <1>14, <1>16
<1>18. \A n_ \in DOMAIN items : n_ \in DOMAIN items' /\ items'[n_] = items[n_]
  BY <1>2, <1>15, <1>16, <1>17
<1>19. ASSUME NEW k \in 1..(j + n) PROVE ItemTells(items'[k])
  <2>1. CASE k \in 1..l
    BY <1>2, <1>17, <2>1 DEF IInv, TellTruth
  <2>2. CASE k \in (l + 1)..j
    <3>1. k - l \in 1..m /\ l + (k - l) = k
      BY <1>12, <2>2
    <3> QED BY <1>4, <1>17, <3>1
  <2>3. CASE k \in (j + 1)..(j + n)
    <3>1. k - j \in 1..n /\ j + (k - j) = k
      BY <2>3
    <3>2. items'[k] = swept[k - j] /\ swept[k - j] \in missing
      BY <1>8, <1>14, <3>1
    <3> QED BY <1>9, <3>2
  <2>4. k \in 1..l \/ k \in (l + 1)..j \/ k \in (j + 1)..(j + n)
    BY <1>12
  <2> QED BY <2>1, <2>2, <2>3, <2>4
<1>20. ASSUME NEW k \in DOMAIN all
       PROVE  /\ l + k \in DOMAIN items'
              /\ items'[l + k].batch = reference /\ items'[l + k].merchant = all[k].merchant
              /\ items'[l + k].payment = _classify_item(all, k).payment
              /\ items'[l + k].payment # NoPayment => items'[l + k].outcome = "MATCHED"
  <2>1. k \in 1..m
    BY <1>3
  <2>2. l + k \in DOMAIN items' /\ items'[l + k] = compared[k]
    BY <1>15, <1>16, <1>17, <2>1
  <2> QED BY <1>4, <2>1, <2>2 DEF ItemTells
<1>21. ASSUME NEW p \in Unmentioned(all, day)
       PROVE  \E k \in DOMAIN items' : items'[k].batch = reference /\ items'[k].merchant = p
  <2>1. PICK x \in missing : x.merchant = p
    BY <1>10
  <2>2. PICK k \in 1..n : swept[k] = x
    BY <1>8
  <2>3. j + k \in DOMAIN items' /\ items'[j + k] = x
    BY <1>14, <1>15, <1>16, <2>2
  <2> QED BY <1>9, <2>1, <2>3
<1> QED BY <1>15, <1>18, <1>19, <1>20, <1>21

LEMMA ImportKeeps ==
  ASSUME IInv, NEW reference \in BatchReferences, NEW day \in Days,
         NEW all \in SeqOf(FeedItems, MaxFeed),
         import_settlement_batch(reference, day, all)
  PROVE  IInv'
<1> DEFINE found == [n \in DOMAIN all |-> _classify_item(all, n).payment]
<1>1. /\ items' \in Seq(ItemRow)
      /\ \A n \in DOMAIN items : n \in DOMAIN items' /\ items'[n] = items[n]
      /\ \A n \in DOMAIN items' : ItemTells(items'[n])
      /\ \A n \in DOMAIN all : \E k \in DOMAIN items' :
           /\ items'[k].payment = _classify_item(all, n).payment
           /\ items'[k].payment # NoPayment => items'[k].outcome = "MATCHED"
  BY ImportedItems
<1>2. UNCHANGED <<intents, lines, requests>>
  BY DEF import_settlement_batch, bank
<1>3. PICK matched : /\ \A p \in matched : \E n \in DOMAIN all : _classify_item(all, n).payment = p
                     /\ status' = [p \in Payments |->
                                     IF p \in matched THEN "reconciled" ELSE status[p]]
  <2> DEFINE compared == [n \in DOMAIN all |->
                            Item(reference, all[n].day, all[n].merchant, _classify_item(all, n))]
             some == {compared[n].payment : n \in DOMAIN all} \ {NoPayment}
  <2>1. status' = [p \in Payments |-> IF p \in some THEN "reconciled" ELSE status[p]]
    BY DEF import_settlement_batch
  <2>2. \A n \in DOMAIN all : compared[n].payment = _classify_item(all, n).payment
    BY DEF Item
  <2> HIDE DEF compared
  <2>3. \A p \in some : \E n \in DOMAIN all : _classify_item(all, n).payment = p
    BY <2>2
  <2> HIDE DEF some
  <2> QED BY <2>1, <2>3
<1>4. ASSUME NEW p \in Payments
      PROVE  status'[p] = status[p] \/ (status'[p] = "reconciled" /\ ByItem(p)')
  <2>1. CASE p \in matched
    <3>1. PICK n \in DOMAIN all : _classify_item(all, n).payment = p
      BY <1>3, <2>1
    <3>2. PICK k \in DOMAIN items' : /\ items'[k].payment = p
                                     /\ items'[k].payment # NoPayment => items'[k].outcome = "MATCHED"
      BY <1>1, <3>1
    <3>3. ByItem(p)'
      BY <3>2, ReconciliationAssumption DEF ByItem
    <3> QED BY <1>3, <2>1, <3>3
  <2>2. CASE p \notin matched
    BY <1>3, <2>2
  <2> QED BY <2>1, <2>2
<1>5. ItemsKept /\ DOMAIN items \subseteq DOMAIN items'
  BY <1>1 DEF ItemsKept
<1>6. Explained'
  BY <1>2, <1>4, <1>5, SameLines, StaysExplained DEF IInv
<1>7. status' \in [Payments -> {NoPayment, "unreconciled", "reconciled", "exception"}]
  BY <1>3 DEF IInv, TypeOK
<1>8. TypeOK'
  BY <1>1, <1>2, <1>5, <1>7, RequestsStay DEF IInv, TypeOK
<1>9. TellTruth'
  BY <1>1, <1>2 DEF IInv, TellTruth
<1> QED BY <1>6, <1>8, <1>9 DEF IInv

LEMMA ResolutionKeeps ==
  ASSUME IInv, NEW r \in requests, apply_resolution(r)
  PROVE  IInv'
<1>1. PICK n \in DOMAIN items : n = r.row
  BY DEF IInv, TypeOK, apply_resolution
<1>2. PICK l \in Nat : items \in [1..l -> ItemRow] /\ DOMAIN items = 1..l
  BY SeqDef DEF IInv, TypeOK
<1> DEFINE flag == items[n].variance # 0 /\ items[n].intent # NoPayment
           new == [items[n] EXCEPT !.status = "resolved", !.booked = flag]
<1>3. /\ items' = [items EXCEPT ![n] = new] /\ requests' \subseteq requests
      /\ status' = IF items[n].payment = NoPayment THEN status
                   ELSE [status EXCEPT ![items[n].payment] = "reconciled"]
      /\ UNCHANGED <<intents, lines>>
  BY <1>1 DEF apply_resolution, bank
<1>4. items[n] \in ItemRow /\ ItemTells(items[n]) /\ flag \in BOOLEAN
  BY <1>2 DEF IInv, TellTruth
<1> HIDE DEF flag
<1>5. new \in ItemRow /\ new.outcome = items[n].outcome /\ new.payment = items[n].payment
  BY <1>4 DEF ItemRow
<1> HIDE DEF new
<1>6. /\ items' \in [1..l -> ItemRow] /\ DOMAIN items' = 1..l /\ items'[n] = new
      /\ \A k \in 1..l : k # n => items'[k] = items[k]
  BY <1>1, <1>2, <1>3, <1>5
<1>7. ItemsKept
  BY <1>2, <1>5, <1>6 DEF ItemsKept
<1>8. \A k \in DOMAIN items' : ItemTells(items'[k])
  <2>1. ItemTells(new)
    BY <1>4, <1>5 DEF ItemTells
  <2>2. \A k \in 1..l : ItemTells(items[k])
    BY <1>2 DEF IInv, TellTruth
  <2> QED BY <1>6, <2>1, <2>2
<1>9. ASSUME NEW p \in Payments
      PROVE  status'[p] = status[p] \/ (status'[p] = "reconciled" /\ ByItem(p)')
  <2>1. CASE items[n].payment = p
    <3>1. items'[n].payment = p /\ items'[n].outcome = "MATCHED" /\ n \in DOMAIN items'
      BY <1>1, <1>2, <1>4, <1>5, <1>6, <2>1, ReconciliationAssumption DEF ItemTells
    <3>2. ByItem(p)'
      BY <3>1 DEF ByItem
    <3> QED BY <1>3, <2>1, <3>2, ReconciliationAssumption DEF IInv, TypeOK
  <2>2. CASE items[n].payment # p
    BY <1>3, <2>2 DEF IInv, TypeOK
  <2> QED BY <2>1, <2>2
<1>10. status' \in [Payments -> {NoPayment, "unreconciled", "reconciled", "exception"}]
  BY <1>3, <1>4, NewLine DEF IInv, TypeOK
<1>11. Explained'
  BY <1>3, <1>7, <1>9, SameLines, StaysExplained DEF IInv
<1>12. items' \in Seq(ItemRow)
  BY <1>6, SeqDef
<1>13. TypeOK'
  BY <1>2, <1>3, <1>6, <1>10, <1>12, RequestsStay DEF IInv, TypeOK
<1>14. TellTruth'
  BY <1>3, <1>8 DEF IInv, TellTruth
<1> QED BY <1>11, <1>13, <1>14 DEF IInv

\* What asks, rejects, and happens elsewhere.
LEMMA AskingKeeps ==
  ASSUME IInv, NEW kind \in {"match", "resolve"}, NEW row \in Nat,
         NEW p \in Payments \cup {NoPayment}, Ask(kind, row, p),
         kind = "match" => row \in DOMAIN lines /\ p \in Payments,
         kind = "resolve" => row \in DOMAIN items,
         UNCHANGED <<status, intents, bank, feed>>
  PROVE  IInv'
<1> DEFINE new == [kind |-> kind, row |-> row, payment |-> p]
<1>1. new \in Request
  BY DEF Request
<1>2. requests' = requests \cup {new} /\ UNCHANGED <<status, intents, lines, items>>
  BY DEF Ask, bank, feed
<1>3. /\ new.kind = "match" => new.row \in DOMAIN lines /\ new.payment \in Payments
      /\ new.kind = "resolve" => new.row \in DOMAIN items
  OBVIOUS
<1> HIDE DEF new
<1>4. TypeOK'
  BY <1>1, <1>2, <1>3 DEF IInv, TypeOK
<1>5. TellTruth'
  BY <1>2 DEF IInv, TellTruth
<1>6. Explained'
  BY <1>2, SameLines, SameItems, StaysExplained DEF IInv
<1> QED BY <1>4, <1>5, <1>6 DEF IInv

LEMMA ElsewhereKeeps ==
  ASSUME IInv, UNCHANGED <<lines, items>>, requests' \subseteq requests,
         status' \in [Payments -> {NoPayment, "unreconciled", "reconciled", "exception"}],
         \A q \in Payments : status'[q] \in {status[q], "unreconciled"},
         intents' \in [Payments -> {"pending", "settled", "reversed"}]
  PROVE  IInv'
<1>1. TypeOK'
  BY RequestsStay DEF IInv, TypeOK
<1>2. TellTruth'
  BY DEF IInv, TellTruth
<1>3. Explained'
  BY SameLines, SameItems, StaysExplained DEF IInv
<1> QED BY <1>1, <1>2, <1>3 DEF IInv

LEMMA IInvKept == IInv /\ [Next]_vars => IInv'
<1> SUFFICES ASSUME IInv, [Next]_vars PROVE IInv'
  OBVIOUS
<1>1. CASE UNCHANGED vars
  BY <1>1, ElsewhereKeeps DEF vars, IInv, TypeOK
<1>2. ASSUME NEW row \in Rows, ingest_bank_line(row) PROVE IInv'
  BY <1>2, LineByHand
<1>3. ASSUME NEW rows \in SeqOf(Rows, 2), ingest_bank_statement_upload(rows) PROVE IInv'
  BY <1>3, Workbook
<1>4. ASSUME run_matching PROVE IInv'
  BY <1>4, RunMatching
<1>5. ASSUME NEW n \in DOMAIN lines, NEW p \in Payments, request_manual_match(n, p)
      PROVE  IInv'
  <2>1. n \in Nat
    BY SeqDef DEF IInv, TypeOK
  <2>2. Ask("match", n, p) /\ UNCHANGED <<status, intents, bank, feed>>
    BY <1>5 DEF request_manual_match
  <2> QED BY <2>1, <2>2, AskingKeeps
<1>6. ASSUME NEW n \in DOMAIN items, request_reconciliation_resolution(n) PROVE IInv'
  <2>1. n \in Nat
    BY SeqDef DEF IInv, TypeOK
  <2>2. Ask("resolve", n, NoPayment) /\ UNCHANGED <<status, intents, bank, feed>>
    BY <1>6 DEF request_reconciliation_resolution
  <2> QED BY <2>1, <2>2, AskingKeeps
<1>7. ASSUME NEW reference \in BatchReferences, NEW day \in Days,
             NEW all \in SeqOf(FeedItems, MaxFeed),
             import_settlement_batch(reference, day, all)
      PROVE  IInv'
  BY <1>7, ImportKeeps
<1>8. ASSUME NEW r \in requests, apply_manual_match(r) PROVE IInv'
  BY <1>8, ManualMatch
<1>9. ASSUME NEW r \in requests, apply_resolution(r) PROVE IInv'
  BY <1>9, ResolutionKeeps
<1>10. ASSUME NEW r \in requests, reject(r) PROVE IInv'
  BY <1>10, ElsewhereKeeps DEF reject, bank, feed, IInv, TypeOK
<1>11. ASSUME NEW p \in Payments, PaymentRecorded(p) PROVE IInv'
  BY <1>11, ElsewhereKeeps DEF PaymentRecorded, bank, feed, IInv, TypeOK
<1>12. ASSUME NEW p \in Payments, IntentReversed(p) PROVE IInv'
  BY <1>12, ElsewhereKeeps DEF IntentReversed, bank, feed, IInv, TypeOK
<1> QED BY <1>1, <1>2, <1>3, <1>4, <1>5, <1>6, <1>7, <1>8, <1>9, <1>10, <1>11, <1>12 DEF Next

LEMMA IInvAtFirst == Init => IInv
<1> SUFFICES ASSUME Init PROVE IInv
  OBVIOUS
<1>1. TypeOK
  BY EmptySeq DEF Init, TypeOK
<1>2. TellTruth
  BY DEF Init, TellTruth
<1>3. Explained
  BY DEF Init, Explained, NoPayment
<1> QED BY <1>1, <1>2, <1>3 DEF IInv

\* In every reachable state the status of a payment has its line or its item, and
\* every line is matched exactly when its exception is settled.
THEOREM StatusCorrect == Spec => []StatusIsExplained
<1>1. Init => IInv
  BY IInvAtFirst
<1>2. IInv => StatusIsExplained
  BY DEF IInv, TellTruth, LineTells, Explained, ByLine, ByItem, Flagged, StatusIsExplained
<1> QED BY <1>1, <1>2, IInvKept, PTL DEF Spec

\* Every import mentions what settled on its day.
THEOREM SweepCorrect == Spec => SweepIsComplete
<1> DEFINE Complete ==
      \A reference \in BatchReferences, day \in Days, all \in SeqOf(FeedItems, MaxFeed) :
        import_settlement_batch(reference, day, all) =>
          \A p \in GatewayPayments : SettledOn(p, day) =>
            \E n \in DOMAIN items' : items'[n].batch = reference /\ items'[n].merchant = p
<1>1. Init => IInv
  BY IInvAtFirst
<1>2. IInv => Complete
  <2> SUFFICES ASSUME IInv, NEW reference \in BatchReferences, NEW day \in Days,
                      NEW all \in SeqOf(FeedItems, MaxFeed),
                      import_settlement_batch(reference, day, all),
                      NEW p \in GatewayPayments, SettledOn(p, day)
               PROVE  \E n \in DOMAIN items' :
                        items'[n].batch = reference /\ items'[n].merchant = p
    OBVIOUS
  <2>1. CASE p \in Unmentioned(all, day)
    BY <2>1, ImportedItems
  <2>2. CASE p \notin Unmentioned(all, day)
    <3>1. PICK n \in DOMAIN all : all[n].merchant = p
      BY <2>2 DEF Unmentioned
    <3> QED BY <3>1, ImportedItems
  <2> QED BY <2>1, <2>2
<1>3. IInv /\ [Next]_vars => IInv' /\ [Complete]_vars
  BY <1>2, IInvKept
<1> QED BY <1>1, <1>3, PTL DEF Spec, SweepIsComplete
===============================================================================

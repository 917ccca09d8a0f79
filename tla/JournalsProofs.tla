----------------------------- MODULE JournalsProofs -----------------------------
(* Theorems about Journals, for any accounts, rules, events and days.           *)
EXTENDS Journals, SequenceTheorems, TLAPS

Version == [rule: Rules, from: Nat \ {0}, to: Nat, is_active: BOOLEAN]
JournalRow == [event: {"absent", "pending", "posted", "failed"},
               status: {"absent", "none", "UNMAPPED", "READY", "POSTED", "FAILED"},
               is_balanced: BOOLEAN]

\* What a request will do when it is approved.
WellMade(r) ==
  /\ r.action = "account_create" => r.key \in Codes
  /\ r.action = "account_update" => r.key \in Rows /\ r.code \in Codes
  /\ r.action = "account_deactivate" => r.key \in Rows
  /\ r.action = "mapping_change" => r.key \in Types /\ r.rule \in Rules /\ r.from \in Nat \ {0}
  /\ r.action = "mapping_deactivate" => r.key \in Types

TInv ==
  /\ today \in Nat \ {0}
  /\ account \in [Rows -> [code: Codes \cup {NoCode}, is_active: BOOLEAN]]
  /\ mapping \in [Types -> Seq(Version)]
  /\ journal \in [References -> JournalRow]
  /\ accepted \in [References -> Nat]
  /\ \A r \in requests : WellMade(r)
-------------------------------------------------------------------------------
\* Versions of a type.

SupersededRow(row, from) ==
  IF row.is_active THEN [row EXCEPT !.is_active = FALSE, !.to = from] ELSE row

LEMMA SupersededRowFacts ==
  ASSUME NEW row \in Version, NEW day \in Nat
  PROVE  /\ SupersededRow(row, day) \in Version
         /\ SupersededRow(row, day).from = row.from
         /\ SupersededRow(row, day).is_active = FALSE
         /\ row.is_active => SupersededRow(row, day).to = day
         /\ ~row.is_active => SupersededRow(row, day).to = row.to
BY DEF Version, SupersededRow

LEMMA SupersededFacts ==
  ASSUME NEW v \in Seq(Version), NEW day \in Nat
  PROVE  /\ Superseded(v, day) \in Seq(Version)
         /\ Len(Superseded(v, day)) = Len(v)
         /\ \A n \in 1..Len(v) : Superseded(v, day)[n] = SupersededRow(v[n], day)
<1> DEFINE s == Superseded(v, day)
<1>1. Len(v) \in Nat /\ DOMAIN v = 1..Len(v) /\ \A n \in 1..Len(v) : v[n] \in Version
  BY ElementOfSeq, LenProperties
<1>2. s = [n \in 1..Len(v) |-> SupersededRow(v[n], day)]
  BY <1>1 DEF Superseded, SupersededRow
<1>3. \A n \in 1..Len(v) : SupersededRow(v[n], day) \in Version
  BY <1>1, SupersededRowFacts
<1>4. s \in Seq(Version)
  BY <1>1, <1>2, <1>3, IsASeq
<1>5. Len(s) = Len(v)
  BY <1>1, <1>2, <1>4, LenProperties
<1> QED BY <1>2, <1>4, <1>5

IsLive(v) == \E n \in DOMAIN v : v[n].is_active

\* Only the last version can be current, and then each version ends on the day
\* the next one begins.
Chained(v) ==
  /\ Len(v) > 0
  /\ \A n \in DOMAIN v : v[n].is_active => n = Len(v) /\ v[n].to = Open
  /\ IsLive(v) => \A n \in DOMAIN v : n < Len(v) => v[n].to = v[n + 1].from

\* Whatever version has begun by a day, from it on there is a last one that has.
HasLast(v) ==
  \A day \in Days : \A n \in DOMAIN v : v[n].from <= day =>
    \E m \in DOMAIN v : /\ m >= n /\ v[m].from <= day
                        /\ \A k \in DOMAIN v : k > m => v[k].from > day

Windows == \A type \in Types : Chained(mapping[type]) /\ HasLast(mapping[type])

LEMMA AppendVersion ==
  ASSUME NEW v \in Seq(Version), NEW r \in Version, r.is_active, r.to = Open,
         Chained(v), HasLast(v), IsLive(v)
  PROVE  LET s == Append(Superseded(v, r.from), r)
         IN s \in Seq(Version) /\ Chained(s) /\ HasLast(s)
<1> DEFINE u == Superseded(v, r.from)
           s == Append(u, r)
           L == Len(v)
<1>1. r.from \in Nat \ {0}
  BY DEF Version
<1>2. L \in Nat /\ DOMAIN v = 1..L /\ \A n \in 1..L : v[n] \in Version
  BY ElementOfSeq, LenProperties
<1>3. /\ u \in Seq(Version) /\ Len(u) = L
      /\ \A n \in 1..L : u[n] = SupersededRow(v[n], r.from)
  BY <1>1, SupersededFacts
<1>4. /\ s \in Seq(Version) /\ Len(s) = L + 1 /\ DOMAIN s = 1..(L + 1)
      /\ s[L + 1] = r /\ \A n \in 1..L : s[n] = SupersededRow(v[n], r.from)
  <2>1. /\ s \in Seq(Version) /\ Len(s) = Len(u) + 1
        /\ \A n \in 1..Len(u) : s[n] = u[n]
        /\ s[Len(u) + 1] = r
    BY <1>3, AppendProperties
  <2> QED BY <1>2, <1>3, <2>1, LenProperties
<1> HIDE DEF s, u, L
<1>5. ASSUME NEW n \in 1..L
      PROVE  /\ s[n].from = v[n].from /\ s[n].is_active = FALSE
             /\ v[n].is_active => s[n].to = r.from
             /\ ~v[n].is_active => s[n].to = v[n].to
  <2>1. v[n] \in Version /\ s[n] = SupersededRow(v[n], r.from)
    BY <1>2, <1>4
  <2>2. r.from \in Nat
    BY <1>1
  <2> QED BY <2>1, <2>2 DEF SupersededRow, Version
<1>6. L > 0 /\ v[L].is_active /\ \A n \in 1..L : n < L => ~v[n].is_active /\ v[n].to = v[n + 1].from
  BY <1>2 DEF Chained, IsLive
<1>a. \A n \in 1..L : s[n].from = v[n].from
  BY <1>5
<1>b. \A n \in 1..L : s[n].is_active = FALSE
  BY <1>5
<1>c. s[L].to = r.from
  <2>1. L \in 1..L
    BY <1>2, <1>6
  <2>2. v[L].is_active
    BY <1>6
  <2> QED BY <1>5, <2>1, <2>2, Zenon
<1>d. ASSUME NEW n \in 1..L, n < L PROVE s[n].to = v[n + 1].from
  BY <1>5, <1>6, <1>d
<1>7. Chained(s)
  <2>1. \A n \in DOMAIN s : s[n].is_active => n = Len(s) /\ s[n].to = Open
    BY <1>2, <1>4, <1>b
  <2>2. ASSUME NEW n \in 1..(L + 1), n < L + 1 PROVE s[n].to = s[n + 1].from
    <3>1. CASE n = L
      BY <3>1, <1>4, <1>c
    <3>2. CASE n < L
      <4>1. n \in 1..L /\ n + 1 \in 1..L
        BY <1>2, <3>2
      <4>2. s[n].to = v[n + 1].from
        BY <1>d, <3>2, <4>1
      <4> QED BY <1>a, <4>1, <4>2
    <3> QED BY <1>2, <2>2, <3>1, <3>2
  <2> QED BY <1>2, <1>4, <2>1, <2>2 DEF Chained
<1>8. HasLast(s)
  <2> SUFFICES ASSUME NEW day \in Days, NEW n \in 1..(L + 1), s[n].from <= day
               PROVE  \E m \in 1..(L + 1) :
                        /\ m >= n /\ s[m].from <= day
                        /\ \A k \in 1..(L + 1) : k > m => s[k].from > day
    BY <1>4 DEF HasLast
  <2>0. day \in Nat
    BY JournalsAssumption DEF Days
  <2>1. CASE r.from <= day
    BY <1>2, <1>4, <2>1
  <2>2. CASE ~(r.from <= day)
    <3>1. n \in 1..L /\ v[n].from <= day
      BY <1>2, <1>4, <1>a, <2>2
    <3>2. PICK m \in 1..L : /\ m >= n /\ v[m].from <= day
                            /\ \A k \in 1..L : k > m => v[k].from > day
      BY <1>2, <3>1 DEF HasLast
    <3>3. ASSUME NEW k \in 1..(L + 1), k > m PROVE s[k].from > day
      <4>1. CASE k = L + 1
        BY <4>1, <1>1, <1>4, <2>0, <2>2
      <4>2. CASE k \in 1..L
        BY <4>2, <1>a, <3>2, <3>3
      <4> QED BY <1>2, <4>1, <4>2
    <3> QED BY <1>2, <1>a, <3>2, <3>3
  <2> QED BY <2>1, <2>2
<1> QED BY <1>4, <1>7, <1>8 DEF s, u

LEMMA EndVersion ==
  ASSUME NEW v \in Seq(Version), NEW day \in Nat, Chained(v), HasLast(v)
  PROVE  LET s == Superseded(v, day)
         IN s \in Seq(Version) /\ Chained(s) /\ HasLast(s)
<1> DEFINE s == Superseded(v, day)
<1>1. Len(v) \in Nat /\ DOMAIN v = 1..Len(v) /\ \A n \in 1..Len(v) : v[n] \in Version
  BY ElementOfSeq, LenProperties
<1>2. /\ s \in Seq(Version) /\ Len(s) = Len(v)
      /\ \A n \in 1..Len(v) : s[n] = SupersededRow(v[n], day)
  BY SupersededFacts
<1>3. DOMAIN s = 1..Len(v)
  BY <1>2, LenProperties
<1> HIDE DEF s
<1>4. ASSUME NEW n \in 1..Len(v)
      PROVE  s[n].from = v[n].from /\ s[n].is_active = FALSE
  <2>1. v[n] \in Version /\ s[n] = SupersededRow(v[n], day)
    BY <1>1, <1>2
  <2>2. /\ SupersededRow(v[n], day).from = v[n].from
        /\ SupersededRow(v[n], day).is_active = FALSE
    BY <2>1, SupersededRowFacts
  <2> QED BY <2>1, <2>2
<1>5. Chained(s)
  BY <1>1, <1>2, <1>3, <1>4 DEF Chained, IsLive
<1>6. HasLast(s)
  BY <1>1, <1>3, <1>4 DEF HasLast
<1> QED BY <1>2, <1>5, <1>6 DEF s

\* The last version that has begun is the one that _resolve_mapping_for finds.
LEMMA LastIsResolved ==
  ASSUME TInv, NEW type \in Types, Active(type) # {},
         Chained(mapping[type]), HasLast(mapping[type]),
         NEW day \in Days, NEW n \in DOMAIN mapping[type]
  PROVE  ResolvesTo(type, day, n) <=>
           /\ mapping[type][n].from <= day
           /\ \A k \in DOMAIN mapping[type] : k > n => mapping[type][k].from > day
<1> DEFINE v == mapping[type]
           L == Len(v)
           Begun(k) == v[k].from <= day
           InForce(k) == Begun(k) /\ (v[k].to = Open \/ day <= v[k].to)
<1>1. v \in Seq(Version)
  BY DEF TInv
<1>2. L \in Nat /\ DOMAIN v = 1..L /\ \A k \in 1..L : v[k] \in Version
  BY <1>1, ElementOfSeq, LenProperties
<1>3. \A k \in 1..L : v[k].from \in Nat \ {0} /\ v[k].to \in Nat
  BY <1>2 DEF Version
<1>4. v[L].to = Open /\ \A k \in 1..L : k < L => v[k].to = v[k + 1].from
  BY <1>2 DEF Chained, IsLive, Active
<1>5. day \in Nat
  BY JournalsAssumption DEF Days
<1>6. ResolvesTo(type, day, n) <=> InForce(n) /\ \A k \in 1..L : InForce(k) => k <= n
  BY <1>2 DEF ResolvesTo, Effective, InWindow
<1>7. ASSUME NEW k \in 1..L, Begun(k), \A j \in 1..L : j > k => v[j].from > day
      PROVE  InForce(k)
  <2>1. CASE k = L
    BY <2>1, <1>4, <1>7
  <2>2. CASE k < L
    <3>1. k + 1 \in 1..L /\ k + 1 > k
      BY <1>2, <2>2
    <3>2. v[k + 1].from > day /\ v[k + 1].from \in Nat
      BY <1>3, <1>7, <3>1
    <3>3. v[k].to = v[k + 1].from
      BY <1>4, <2>2
    <3> QED BY <1>5, <1>7, <3>2, <3>3
  <2> QED BY <1>2, <2>1, <2>2
<1>8. ASSUME ResolvesTo(type, day, n), NEW k \in 1..L, k > n PROVE v[k].from > day
  <2> SUFFICES ASSUME Begun(k) PROVE FALSE
    BY <1>3, <1>5
  <2>1. PICK m \in 1..L : /\ m >= k /\ Begun(m)
                          /\ \A j \in 1..L : j > m => v[j].from > day
    BY <1>2 DEF HasLast
  <2>2. InForce(m)
    BY <1>7, <2>1
  <2> QED BY <1>2, <1>6, <1>8, <2>1, <2>2
<1>9. ASSUME Begun(n), \A k \in 1..L : k > n => v[k].from > day
      PROVE  ResolvesTo(type, day, n)
  BY <1>2, <1>3, <1>5, <1>6, <1>7, <1>9
<1> QED BY <1>2, <1>6, <1>8, <1>9
-------------------------------------------------------------------------------
\* Events and their journals, one row at a time; n is how often the ERP has it.

KnownRow(row, n) ==
  /\ row.event = "absent" <=> row.status = "absent"
  /\ row.event = "posted" <=> row.status = "POSTED"
  /\ row.event = "failed" <=> row.status = "FAILED" /\ row.is_balanced
  /\ row.status = "READY" => row.is_balanced
  /\ row.status = "POSTED" => n > 0
  /\ n > 0 => \/ row.status \in {"POSTED", "READY"}
              \/ row.status = "FAILED" /\ row.is_balanced

PInv == \A ref \in References : KnownRow(journal[ref], accepted[ref])

LEMMA EmittedRow ==
  ASSUME NEW status \in {"UNMAPPED", "none", "READY", "FAILED"}
  PROVE  Emitted(status) \in JournalRow /\ KnownRow(Emitted(status), 0)
<1>1. Emitted(status) = [event |-> "pending", status |-> status,
                         is_balanced |-> status = "READY"]
  BY DEF Emitted
<1>2. CASE status = "READY"
  <2>1. Emitted(status) = [event |-> "pending", status |-> "READY", is_balanced |-> TRUE]
    BY <1>1, <1>2
  <2> QED BY <2>1 DEF JournalRow, KnownRow
<1>3. CASE status # "READY"
  <2>1. Emitted(status) = [event |-> "pending", status |-> status, is_balanced |-> FALSE]
    BY <1>1, <1>3
  <2> QED BY <1>3, <2>1 DEF JournalRow, KnownRow
<1> QED BY <1>2, <1>3

LEMMA AbsentRow ==
  ASSUME NEW n \in Nat, KnownRow(NoEvent, n)
  PROVE  n = 0
BY DEF NoEvent, KnownRow

\* A journal the ERP was handed, that took it or refused it.
LEMMA OutcomeRow ==
  ASSUME NEW row \in JournalRow, NEW n \in Nat, KnownRow(row, n),
         row.status = "READY" \/ Retryable(row)
  PROVE  /\ Outcome(row, TRUE) \in JournalRow /\ KnownRow(Outcome(row, TRUE), n + 1)
         /\ Outcome(row, FALSE) \in JournalRow /\ KnownRow(Outcome(row, FALSE), n)
<1>1. row.is_balanced /\ row.is_balanced \in BOOLEAN
  BY DEF KnownRow, Retryable, JournalRow
<1>2. Outcome(row, TRUE) \in JournalRow /\ KnownRow(Outcome(row, TRUE), n + 1)
  <2>1. Outcome(row, TRUE) = [row EXCEPT !.status = "POSTED", !.event = "posted"]
    BY DEF Outcome
  <2>2. Outcome(row, TRUE) \in JournalRow
    BY <2>1 DEF JournalRow
  <2>3. Outcome(row, TRUE).status = "POSTED" /\ Outcome(row, TRUE).event = "posted"
    BY <2>1 DEF JournalRow
  <2>4. n + 1 > 0
    OBVIOUS
  <2> QED BY <2>2, <2>3, <2>4 DEF KnownRow
<1>3. Outcome(row, FALSE) \in JournalRow /\ KnownRow(Outcome(row, FALSE), n)
  BY <1>1 DEF Outcome, KnownRow, JournalRow
<1> QED BY <1>2, <1>3

\* One more acceptance of a journal that waits for the ERP.
LEMMA AcceptedRow ==
  ASSUME NEW row, NEW n \in Nat, KnownRow(row, n), row.status = "READY"
  PROVE  KnownRow(row, n + 1)
BY DEF KnownRow

IInv == TInv /\ Windows /\ PInv

LEMMA Starts == Init => IInv
<1> SUFFICES ASSUME Init PROVE IInv
  OBVIOUS
<1> USE JournalsAssumption
<1> DEFINE first(type) == [rule |-> SeedRule[type], from |-> 1, to |-> Open, is_active |-> TRUE]
<1>1. ASSUME NEW type \in Types
      PROVE  first(type) \in Version /\ mapping[type] = <<first(type)>>
  <2>1. SeedRule[type] \in Rules
    OBVIOUS
  <2>2. first(type) \in Version
    BY <2>1 DEF Version, Open
  <2> QED BY <2>2 DEF Init
<1>2. TInv
  <2>1. mapping \in [Types -> Seq(Version)]
    BY <1>1 DEF Init
  <2>2. account \in [Rows -> [code: Codes \cup {NoCode}, is_active: BOOLEAN]]
    BY DEF Init
  <2>3. journal \in [References -> JournalRow]
    BY DEF Init, NoEvent, JournalRow
  <2> QED BY <2>1, <2>2, <2>3 DEF TInv, Init
<1>3. Windows
  <2> SUFFICES ASSUME NEW type \in Types PROVE Chained(mapping[type]) /\ HasLast(mapping[type])
    BY DEF Windows
  <2>1. /\ Len(mapping[type]) = 1 /\ DOMAIN mapping[type] = {1}
        /\ mapping[type][1] = first(type)
    <3>1. mapping[type] = <<first(type)>>
      BY <1>1
    <3> HIDE DEF first
    <3> QED BY <3>1
  <2> QED BY <2>1 DEF Chained, HasLast, Days
<1>4. PInv
  BY DEF Init, PInv, KnownRow, NoEvent
<1> QED BY <1>2, <1>3, <1>4 DEF IInv
-------------------------------------------------------------------------------
\* Steps that leave the mappings, or the events, alone.

LEMMA SameMapping == Windows /\ mapping' = mapping => Windows'
BY DEF Windows

LEMMA SameJournals == PInv /\ UNCHANGED <<journal, accepted>> => PInv'
BY DEF PInv

LEMMA EmitKeeps ==
  ASSUME IInv, NEW ref \in References, NEW type \in Types, NEW day, NEW amounts,
         emit(ref, type, day, amounts)
  PROVE  IInv'
<1>1. PICK status \in {"UNMAPPED", "none", "READY", "FAILED"} :
        journal' = [journal EXCEPT ![ref] = Emitted(status)]
  <2>1. CASE journal' = [journal EXCEPT ![ref] = Emitted("UNMAPPED")]
    BY <2>1
  <2>2. ASSUME NEW rule,
               journal' = [journal EXCEPT ![ref] = Emitted(
                  IF rule = <<>> THEN "none" ELSE generate_journal(rule, amounts).status)]
        PROVE  \E status \in {"UNMAPPED", "none", "READY", "FAILED"} :
                 journal' = [journal EXCEPT ![ref] = Emitted(status)]
    <3>1. generate_journal(rule, amounts).status \in {"READY", "FAILED"}
      BY DEF generate_journal
    <3> QED BY <2>2, <3>1
  <2> QED BY <2>1, <2>2 DEF emit
<1>2. journal[ref] = NoEvent /\ UNCHANGED <<today, chart, accepted>>
  BY DEF emit
<1>3. KnownRow(NoEvent, accepted[ref]) /\ accepted[ref] \in Nat
  BY <1>2 DEF IInv, PInv, TInv
<1>4. accepted[ref] = 0
  BY <1>3, AbsentRow
<1>5. Emitted(status) \in JournalRow /\ KnownRow(Emitted(status), 0)
  BY EmittedRow
<1>6. TInv'
  BY <1>1, <1>2, <1>5 DEF IInv, TInv, chart
<1>7. PInv'
  BY <1>1, <1>2, <1>4, <1>5 DEF IInv, TInv, PInv
<1> QED BY <1>2, <1>6, <1>7, SameMapping DEF IInv, chart

\* The rows that were handed to the ERP are the ready ones.
LEMMA PostKeeps ==
  ASSUME IInv, NEW refused \in SUBSET References, post_pending(refused)
  PROVE  IInv'
<1> DEFINE new(ref) == IF ref \in Ready THEN Outcome(journal[ref], ref \notin refused)
                                        ELSE journal[ref]
           took(ref) == accepted[ref] + IF ref \in Ready \ refused THEN 1 ELSE 0
<1>1. /\ journal' = [ref \in References |-> new(ref)]
      /\ accepted' = [ref \in References |-> took(ref)]
      /\ UNCHANGED <<today, chart>>
  BY DEF post_pending, Accept
<1>2. ASSUME NEW ref \in References
      PROVE  /\ new(ref) \in JournalRow /\ took(ref) \in Nat
             /\ KnownRow(new(ref), took(ref))
  <2>1. /\ journal[ref] \in JournalRow /\ accepted[ref] \in Nat
        /\ KnownRow(journal[ref], accepted[ref])
    BY DEF IInv, TInv, PInv
  <2>2. CASE ref \in Ready /\ ref \notin refused
    <3>1. journal[ref].status = "READY"
      BY <2>2 DEF Ready
    <3>2. new(ref) = Outcome(journal[ref], TRUE)
      BY <2>2 DEF Outcome
    <3>3. took(ref) = accepted[ref] + 1
      BY <2>1, <2>2
    <3>4. /\ Outcome(journal[ref], TRUE) \in JournalRow
          /\ KnownRow(Outcome(journal[ref], TRUE), accepted[ref] + 1)
      BY <2>1, <3>1, OutcomeRow
    <3>5. accepted[ref] + 1 \in Nat
      BY <2>1
    <3> HIDE DEF new, took
    <3> QED BY <3>2, <3>3, <3>4, <3>5, Zenon
  <2>3. CASE ref \in Ready /\ ref \in refused
    <3>1. journal[ref].status = "READY"
      BY <2>3 DEF Ready
    <3>2. new(ref) = Outcome(journal[ref], FALSE)
      BY <2>3 DEF Outcome
    <3>3. took(ref) = accepted[ref]
      BY <2>1, <2>3
    <3>4. /\ Outcome(journal[ref], FALSE) \in JournalRow
          /\ KnownRow(Outcome(journal[ref], FALSE), accepted[ref])
      BY <2>1, <3>1, OutcomeRow
    <3> HIDE DEF new, took
    <3> QED BY <2>1, <3>2, <3>3, <3>4
  <2>4. CASE ref \notin Ready
    BY <2>1, <2>4
  <2> QED BY <2>2, <2>3, <2>4
<1> HIDE DEF new, took
<1>3. TInv'
  BY <1>1, <1>2 DEF IInv, TInv, chart
<1>4. PInv'
  BY <1>1, <1>2 DEF PInv
<1> QED BY <1>1, <1>3, <1>4, SameMapping DEF IInv, chart

LEMMA CrashKeeps ==
  ASSUME IInv, NEW refs \in SUBSET References, CrashWhilePosting(refs)
  PROVE  IInv'
<1> DEFINE took(ref) == accepted[ref] + IF ref \in refs THEN 1 ELSE 0
<1>1. /\ refs \subseteq Ready /\ accepted' = [ref \in References |-> took(ref)]
      /\ UNCHANGED <<today, chart, journal>>
  BY DEF CrashWhilePosting, Accept
<1>2. ASSUME NEW ref \in References
      PROVE  took(ref) \in Nat /\ KnownRow(journal[ref], took(ref))
  <2>1. accepted[ref] \in Nat /\ KnownRow(journal[ref], accepted[ref])
    BY DEF IInv, TInv, PInv
  <2>2. CASE ref \in refs
    BY <1>1, <2>1, <2>2, AcceptedRow DEF Ready
  <2>3. CASE ref \notin refs
    BY <2>1, <2>3
  <2> QED BY <2>2, <2>3
<1> HIDE DEF took
<1>3. TInv'
  BY <1>1, <1>2 DEF IInv, TInv, chart
<1>4. PInv'
  BY <1>1, <1>2 DEF PInv
<1> QED BY <1>1, <1>3, <1>4, SameMapping DEF IInv, chart

LEMMA RetryKeeps ==
  ASSUME IInv, NEW ref \in References, NEW ok \in BOOLEAN, retry_failed_posting(ref, ok)
  PROVE  IInv'
<1> DEFINE row == Outcome(journal[ref], ok)
           took(r) == accepted[r] + IF r \in (IF ok THEN {ref} ELSE {}) THEN 1 ELSE 0
<1>1. /\ Retryable(journal[ref])
      /\ journal' = [journal EXCEPT ![ref] = row]
      /\ accepted' = [r \in References |-> took(r)]
      /\ UNCHANGED <<today, chart>>
  BY DEF retry_failed_posting, Accept
<1>2. \A r \in References : /\ journal[r] \in JournalRow /\ accepted[r] \in Nat
                            /\ KnownRow(journal[r], accepted[r])
  BY DEF IInv, TInv, PInv
<1>3. row \in JournalRow /\ KnownRow(row, took(ref)) /\ took(ref) \in Nat
  <2>1. CASE ok = TRUE
    <3>1. row = Outcome(journal[ref], TRUE)
      BY <2>1 DEF Outcome
    <3>2. took(ref) = accepted[ref] + 1
      BY <1>2, <2>1
    <3>3. /\ Outcome(journal[ref], TRUE) \in JournalRow
          /\ KnownRow(Outcome(journal[ref], TRUE), accepted[ref] + 1)
      BY <1>1, <1>2, OutcomeRow
    <3>4. accepted[ref] + 1 \in Nat
      BY <1>2
    <3> HIDE DEF row, took
    <3> QED BY <3>1, <3>2, <3>3, <3>4, Zenon
  <2>2. CASE ok = FALSE
    <3>1. row = Outcome(journal[ref], FALSE)
      BY <2>2 DEF Outcome
    <3>2. took(ref) = accepted[ref]
      BY <1>2, <2>2
    <3>3. /\ Outcome(journal[ref], FALSE) \in JournalRow
          /\ KnownRow(Outcome(journal[ref], FALSE), accepted[ref])
      BY <1>1, <1>2, OutcomeRow
    <3> HIDE DEF row, took
    <3> QED BY <1>2, <3>1, <3>2, <3>3
  <2> QED BY <2>1, <2>2
<1>4. \A r \in References \ {ref} : took(r) = accepted[r]
  BY <1>2
<1> HIDE DEF row, took
<1>5. TInv'
  BY <1>1, <1>2, <1>3, <1>4 DEF IInv, TInv, chart
<1>6. PInv'
  BY <1>1, <1>2, <1>3, <1>4 DEF IInv, TInv, PInv
<1> QED BY <1>1, <1>5, <1>6, SameMapping DEF IInv, chart
-------------------------------------------------------------------------------
\* Requests and their approval.

LEMMA AskKeeps ==
  ASSUME IInv, NEW r, WellMade(r), Request(r)
  PROVE  IInv'
<1>1. requests' = requests \cup {r} /\ UNCHANGED <<today, account, mapping, journal, accepted>>
  BY DEF Request
<1>2. TInv'
  BY <1>1 DEF IInv, TInv, WellMade
<1> QED BY <1>1, <1>2, SameMapping, SameJournals DEF IInv

LEMMA ProposalKeeps ==
  ASSUME IInv,
         \/ \E code \in Codes : ProposeAccountCreate(code)
         \/ \E row \in Rows, code \in Codes : ProposeAccountUpdate(row, code)
         \/ \E row \in Rows : ProposeAccountDeactivate(row)
         \/ \E type \in Types, rule \in Rules, from \in Days :
              ProposeMappingChange(type, rule, from)
         \/ \E type \in Types : ProposeMappingDeactivate(type)
  PROVE  IInv'
<1>0. \A r : WellMade(r) /\ Request(r) => IInv'
  BY AskKeeps
<1>1. CASE \E code \in Codes : ProposeAccountCreate(code)
  BY <1>0, <1>1 DEF ProposeAccountCreate, WellMade
<1>2. CASE \E row \in Rows, code \in Codes : ProposeAccountUpdate(row, code)
  BY <1>0, <1>2 DEF ProposeAccountUpdate, WellMade
<1>3. CASE \E row \in Rows : ProposeAccountDeactivate(row)
  BY <1>0, <1>3 DEF ProposeAccountDeactivate, WellMade
<1>4. CASE \E type \in Types, rule \in Rules, from \in Days :
             ProposeMappingChange(type, rule, from)
  BY <1>0, <1>4, JournalsAssumption DEF ProposeMappingChange, WellMade, Days
<1>5. CASE \E type \in Types : ProposeMappingDeactivate(type)
  BY <1>0, <1>5 DEF ProposeMappingDeactivate, WellMade
<1> QED BY <1>1, <1>2, <1>3, <1>4, <1>5

\* What every approval leaves of the invariant to be shown.
LEMMA ApprovalKeeps ==
  ASSUME IInv, NEW r \in requests, NEW action, Approve(r, action),
         account' \in [Rows -> [code: Codes \cup {NoCode}, is_active: BOOLEAN]],
         mapping' \in [Types -> Seq(Version)], Windows'
  PROVE  IInv'
<1>1. requests' \subseteq requests /\ UNCHANGED <<today, journal, accepted>>
  BY DEF Approve
<1>2. TInv'
  <2>1. \A q \in requests' : WellMade(q)
    BY <1>1 DEF IInv, TInv
  <2> QED BY <1>1, <2>1 DEF IInv, TInv, WellMade
<1> QED BY <1>1, <1>2, SameJournals DEF IInv

LEMMA AccountApprovalKeeps ==
  ASSUME IInv, NEW r \in requests,
         \/ \E row \in Rows : ApproveAccountCreate(r, row)
         \/ ApproveAccountUpdate(r) \/ ApproveAccountDeactivate(r)
  PROVE  IInv'
<1> USE DEF IInv, TInv, WellMade
<1>1. CASE \E row \in Rows : ApproveAccountCreate(r, row)
  <2>1. PICK row \in Rows : ApproveAccountCreate(r, row)
    BY <1>1
  <2>2. /\ r.action = "account_create" /\ mapping' = mapping
        /\ account' = [account EXCEPT ![row] = [code |-> r.key, is_active |-> TRUE]]
    BY <2>1 DEF ApproveAccountCreate, Approve
  <2>3. account' \in [Rows -> [code: Codes \cup {NoCode}, is_active: BOOLEAN]]
    BY <2>2
  <2> QED BY <2>1, <2>2, <2>3, ApprovalKeeps, SameMapping DEF ApproveAccountCreate
<1>2. CASE ApproveAccountUpdate(r)
  <2>1. /\ r.action = "account_update" /\ mapping' = mapping
        /\ account' = [account EXCEPT ![r.key].code = r.code]
    BY <1>2 DEF ApproveAccountUpdate, Approve
  <2>2. account' \in [Rows -> [code: Codes \cup {NoCode}, is_active: BOOLEAN]]
    BY <2>1
  <2> QED BY <1>2, <2>1, <2>2, ApprovalKeeps, SameMapping DEF ApproveAccountUpdate
<1>3. CASE ApproveAccountDeactivate(r)
  <2>1. /\ r.action = "account_deactivate" /\ mapping' = mapping
        /\ account' = [account EXCEPT ![r.key].is_active = FALSE]
    BY <1>3 DEF ApproveAccountDeactivate, Approve
  <2>2. account' \in [Rows -> [code: Codes \cup {NoCode}, is_active: BOOLEAN]]
    BY <2>1
  <2> QED BY <1>3, <2>1, <2>2, ApprovalKeeps, SameMapping DEF ApproveAccountDeactivate
<1> QED BY <1>1, <1>2, <1>3

\* Replacing the versions of one type.
LEMMA MappingUpdate ==
  ASSUME IInv, NEW type \in Types, NEW s \in Seq(Version), Chained(s), HasLast(s),
         mapping' = [mapping EXCEPT ![type] = s]
  PROVE  mapping' \in [Types -> Seq(Version)] /\ Windows'
<1>1. mapping \in [Types -> Seq(Version)]
  BY DEF IInv, TInv
<1>2. mapping'[type] = s /\ \A t \in Types \ {type} : mapping'[t] = mapping[t]
  BY <1>1
<1>3. \A t \in Types : Chained(mapping'[t]) /\ HasLast(mapping'[t])
  BY <1>2 DEF IInv, Windows
<1>4. mapping' \in [Types -> Seq(Version)]
  BY <1>1
<1> QED BY <1>3, <1>4 DEF Windows

LEMMA MappingChangeKeeps ==
  ASSUME IInv, NEW r \in requests, ApproveMappingChange(r)
  PROVE  IInv'
<1> DEFINE v == mapping[r.key]
           new == [rule |-> r.rule, from |-> r.from, to |-> Open, is_active |-> TRUE]
           s == Append(Superseded(v, r.from), new)
<1>1. /\ r.base = CurrentVersion(r.key) /\ r.base + 1 \notin DOMAIN v
      /\ mapping' = [mapping EXCEPT ![r.key] = s]
      /\ account' = account
  BY DEF ApproveMappingChange
<1>2. r.action = "mapping_change"
  BY DEF ApproveMappingChange, Approve
<1>3. r.key \in Types /\ r.rule \in Rules /\ r.from \in Nat \ {0}
  BY <1>2 DEF IInv, TInv, WellMade
<1>4. v \in Seq(Version) /\ Chained(v) /\ HasLast(v)
  BY <1>3 DEF IInv, TInv, Windows
<1>5. new \in Version /\ new.is_active /\ new.to = Open /\ new.from = r.from
  BY <1>3 DEF Version, Open
<1>6. IsLive(v)
  <2> SUFFICES ASSUME ~IsLive(v) PROVE FALSE
    OBVIOUS
  <2>1. Active(r.key) = {}
    BY DEF IsLive, Active
  <2>2. r.base = 0
    BY <1>1, <2>1 DEF CurrentVersion
  <2>3. 1 \in DOMAIN v
    <3>1. Len(v) > 0 /\ Len(v) \in Nat /\ DOMAIN v = 1..Len(v)
      BY <1>4, LenProperties DEF Chained
    <3> QED BY <3>1
  <2> QED BY <1>1, <2>2, <2>3
<1>7. s \in Seq(Version) /\ Chained(s) /\ HasLast(s)
  <2> HIDE DEF new, v
  <2> QED BY <1>4, <1>5, <1>6, AppendVersion
<1> HIDE DEF s
<1>8. mapping' \in [Types -> Seq(Version)] /\ Windows'
  BY <1>1, <1>3, <1>7, MappingUpdate
<1>9. account' \in [Rows -> [code: Codes \cup {NoCode}, is_active: BOOLEAN]]
  BY <1>1 DEF IInv, TInv
<1> QED BY <1>8, <1>9, ApprovalKeeps DEF ApproveMappingChange

LEMMA MappingDeactivateKeeps ==
  ASSUME IInv, NEW r \in requests, ApproveMappingDeactivate(r)
  PROVE  IInv'
<1> DEFINE v == mapping[r.key]
           s == Superseded(v, today)
<1>1. mapping' = [mapping EXCEPT ![r.key] = s] /\ account' = account
  BY DEF ApproveMappingDeactivate
<1>2. r.action = "mapping_deactivate"
  BY DEF ApproveMappingDeactivate, Approve
<1>3. r.key \in Types
  BY <1>2 DEF IInv, TInv, WellMade
<1>4. v \in Seq(Version) /\ Chained(v) /\ HasLast(v) /\ today \in Nat
  BY <1>3 DEF IInv, TInv, Windows
<1>5. s \in Seq(Version) /\ Chained(s) /\ HasLast(s)
  <2> HIDE DEF v
  <2> QED BY <1>4, EndVersion
<1> HIDE DEF s
<1>6. mapping' \in [Types -> Seq(Version)] /\ Windows'
  BY <1>1, <1>3, <1>5, MappingUpdate
<1>7. account' \in [Rows -> [code: Codes \cup {NoCode}, is_active: BOOLEAN]]
  BY <1>1 DEF IInv, TInv
<1> QED BY <1>6, <1>7, ApprovalKeeps DEF ApproveMappingDeactivate
-------------------------------------------------------------------------------
LEMMA Keeps == IInv /\ [Next]_vars => IInv'
<1> SUFFICES ASSUME IInv, [Next]_vars PROVE IInv'
  OBVIOUS
<1>1. CASE UNCHANGED vars
  <2>1. TInv'
    BY <1>1 DEF IInv, TInv, WellMade, vars
  <2> QED BY <1>1, <2>1, SameMapping, SameJournals DEF IInv, vars
<1>2. CASE NextDay
  <2>1. TInv'
    BY <1>2 DEF IInv, TInv, WellMade, NextDay
  <2> QED BY <1>2, <2>1, SameMapping, SameJournals DEF IInv, NextDay
<1>3. CASE \E ref \in References, type \in Types, day \in 1..today, amounts \in AmountRows :
             emit(ref, type, day, amounts)
  BY <1>3, EmitKeeps
<1>4. CASE \E refs \in SUBSET References : post_pending(refs) \/ CrashWhilePosting(refs)
  BY <1>4, PostKeeps, CrashKeeps
<1>5. CASE \E ref \in References, ok \in BOOLEAN : retry_failed_posting(ref, ok)
  BY <1>5, RetryKeeps
<1>6. CASE \/ \E code \in Codes : ProposeAccountCreate(code)
           \/ \E row \in Rows, code \in Codes : ProposeAccountUpdate(row, code)
           \/ \E row \in Rows : ProposeAccountDeactivate(row)
           \/ \E type \in Types, rule \in Rules, from \in Days :
                ProposeMappingChange(type, rule, from)
           \/ \E type \in Types : ProposeMappingDeactivate(type)
  BY <1>6, ProposalKeeps
<1>7. ASSUME NEW r \in requests, Reject(r) PROVE IInv'
  <2>1. TInv'
    BY <1>7 DEF IInv, TInv, WellMade, Reject
  <2> QED BY <1>7, <2>1, SameMapping, SameJournals DEF IInv, Reject
<1>8. ASSUME NEW r \in requests,
             \/ \E row \in Rows : ApproveAccountCreate(r, row)
             \/ ApproveAccountUpdate(r) \/ ApproveAccountDeactivate(r)
      PROVE  IInv'
  BY <1>8, AccountApprovalKeeps
<1>9. ASSUME NEW r \in requests, ApproveMappingChange(r) \/ ApproveMappingDeactivate(r)
      PROVE  IInv'
  BY <1>9, MappingChangeKeeps, MappingDeactivateKeeps
<1> QED BY <1>1, <1>2, <1>3, <1>4, <1>5, <1>6, <1>7, <1>8, <1>9 DEF Next

LEMMA Holds == Spec => []IInv
<1> QED BY Starts, Keeps, PTL DEF Spec

LEMMA KnownImplies == PInv => AcceptedIsKnown
BY DEF PInv, KnownRow, AcceptedIsKnown, Ready, RetryEligible, unmapped_and_failed_report,
       Retryable

LEMMA WindowsImply == IInv => LastVersionRules
BY LastIsResolved DEF IInv, Windows, LastVersionRules

\* Events, journals, accounts and versions are what their columns allow in every
\* reachable state; an event without a journal row is an event that is not there.
THEOREM TypeCorrect == Spec => []TypeOK
<1>1. ASSUME IInv PROVE TypeOK
  <2>1. mapping \in [Types -> Seq([rule: Rules, from: Nat, to: Nat, is_active: BOOLEAN])]
    <3>1. Version \subseteq [rule: Rules, from: Nat, to: Nat, is_active: BOOLEAN]
      BY DEF Version
    <3>2. \A type \in Types :
            mapping[type] \in Seq([rule: Rules, from: Nat, to: Nat, is_active: BOOLEAN])
      <4>1. Seq(Version) \subseteq Seq([rule: Rules, from: Nat, to: Nat, is_active: BOOLEAN])
        BY <3>1, SeqMonotonic
      <4> QED BY <1>1, <4>1 DEF IInv, TInv
    <3> QED BY <1>1, <3>2 DEF IInv, TInv
  <2>2. \A ref \in References : journal[ref] \in JournalRow
                               /\ KnownRow(journal[ref], accepted[ref])
    BY <1>1 DEF IInv, TInv, PInv
  <2> QED BY <1>1, <2>1, <2>2 DEF IInv, TInv, TypeOK, JournalRow, KnownRow
<1> QED BY <1>1, Holds, PTL

\* For any number of versions, with whatever dates: the rule of a day is the last
\* version approved among those that begin by that day (_resolve_mapping_for and
\* the two approvals in approvals.py).
THEOREM RulesCorrect == Spec => []LastVersionRules
BY Holds, WindowsImply, PTL

\* For any number of events, refusals and crashes: AccountingEvent and GLJournal
\* agree, and no posting is lost (post_pending, retry_failed_posting).
THEOREM PostingCorrect == Spec => []AcceptedIsKnown
<1>1. IInv => AcceptedIsKnown
  BY KnownImplies DEF IInv
<1> QED BY <1>1, Holds, PTL

-------------------------------------------------------------------------------
\* What is pending about the mappings.

OneRequestPerType == \A r, s \in MappingRequests : r.key = s.key => r = s
RInv == OneRequestPerType /\ RequestsSeeTheCurrentVersion

\* Requests go, and the versions of the types that the others are about stay.
LEMMA FewerRequests ==
  ASSUME RInv, requests' \subseteq requests,
         \A s \in MappingRequests : s \in requests' => mapping'[s.key] = mapping[s.key]
  PROVE  RInv'
<1>1. MappingRequests' \subseteq MappingRequests
  BY DEF MappingRequests
<1>2. ASSUME NEW s \in MappingRequests' PROVE s.base = CurrentVersion(s.key)'
  <2>1. s \in MappingRequests /\ s \in requests'
    BY <1>1, <1>2 DEF MappingRequests
  <2>2. s.base = CurrentVersion(s.key) /\ mapping'[s.key] = mapping[s.key]
    BY <2>1 DEF RInv, RequestsSeeTheCurrentVersion
  <2> QED BY <2>2 DEF CurrentVersion, Active
<1> QED BY <1>1, <1>2 DEF RInv, OneRequestPerType, RequestsSeeTheCurrentVersion

\* One more request, of which those on mappings ask for a type nobody asks for.
LEMMA MoreRequests ==
  ASSUME RInv, NEW r, Request(r),
         r.action \in {"mapping_change", "mapping_deactivate"} =>
           ~MappingPending(r.key) /\ r.base = CurrentVersion(r.key)
  PROVE  RInv'
<1>1. requests' = requests \cup {r} /\ mapping' = mapping
  BY DEF Request
<1>2. \A type : CurrentVersion(type)' = CurrentVersion(type)
  BY <1>1 DEF CurrentVersion, Active
<1>3. CASE r.action \notin {"mapping_change", "mapping_deactivate"}
  <2>1. MappingRequests' = MappingRequests
    BY <1>1, <1>3 DEF MappingRequests
  <2> QED BY <1>2, <2>1 DEF RInv, OneRequestPerType, RequestsSeeTheCurrentVersion
<1>4. CASE r.action \in {"mapping_change", "mapping_deactivate"}
  <2>1. MappingRequests' = MappingRequests \cup {r}
    BY <1>1, <1>4 DEF MappingRequests
  <2>2. \A s \in MappingRequests : s.key # r.key
    BY <1>4 DEF MappingPending, Pending, MappingRequests
  <2> QED BY <1>2, <1>4, <2>1, <2>2 DEF RInv, OneRequestPerType, RequestsSeeTheCurrentVersion
<1> QED BY <1>3, <1>4

\* An approval that replaces the versions of the type it is about, which no other
\* request is about.
LEMMA ApprovedMapping ==
  ASSUME IInv, RInv, NEW r \in requests, NEW action \in {"mapping_change", "mapping_deactivate"},
         Approve(r, action), NEW versions, mapping' = [mapping EXCEPT ![r.key] = versions]
  PROVE  RInv'
<1>1. requests' = requests \ {r} /\ r \in MappingRequests
  BY DEF Approve, MappingRequests
<1>2. ASSUME NEW s \in MappingRequests, s \in requests'
      PROVE  mapping'[s.key] = mapping[s.key]
  <2>1. s.key # r.key
    BY <1>1, <1>2 DEF RInv, OneRequestPerType
  <2>2. s.key \in Types
    BY DEF MappingRequests, IInv, TInv, WellMade
  <2> QED BY <2>1, <2>2 DEF IInv, TInv
<1> QED BY <1>1, <1>2, FewerRequests

LEMMA RequestsKept == IInv /\ RInv /\ [Next]_vars => RInv'
<1> SUFFICES ASSUME IInv, RInv, [Next]_vars PROVE RInv'
  OBVIOUS
<1>1. CASE requests' \subseteq requests /\ mapping' = mapping
  BY <1>1, FewerRequests
<1>2. CASE \/ \E code \in Codes : ProposeAccountCreate(code)
           \/ \E row \in Rows, code \in Codes : ProposeAccountUpdate(row, code)
           \/ \E row \in Rows : ProposeAccountDeactivate(row)
  BY <1>2, MoreRequests
  DEF ProposeAccountCreate, ProposeAccountUpdate, ProposeAccountDeactivate
<1>3. CASE \E type \in Types, rule \in Rules, from \in Days : ProposeMappingChange(type, rule, from)
  BY <1>3, MoreRequests DEF ProposeMappingChange
<1>4. CASE \E type \in Types : ProposeMappingDeactivate(type)
  BY <1>4, MoreRequests DEF ProposeMappingDeactivate
<1>5. CASE \E r \in requests : ApproveMappingChange(r) \/ ApproveMappingDeactivate(r)
  BY <1>5, ApprovedMapping DEF ApproveMappingChange, ApproveMappingDeactivate
<1> QED
  BY <1>1, <1>2, <1>3, <1>4, <1>5
  DEF Next, vars, chart, NextDay, emit, post_pending, CrashWhilePosting, retry_failed_posting,
      Reject, Approve, ApproveAccountCreate, ApproveAccountUpdate, ApproveAccountDeactivate

\* For any accounts, rules and number of requests: whichever are proposed, rejected
\* and approved in between, a pending change of a mapping is based on the version
\* that is current (propose_mapping_change, propose_mapping_deactivate, _execute).
THEOREM RequestsCorrect == Spec => []RequestsSeeTheCurrentVersion
<1>1. Init => RInv
  BY DEF Init, RInv, OneRequestPerType, RequestsSeeTheCurrentVersion, MappingRequests
<1>2. RInv => RequestsSeeTheCurrentVersion
  BY DEF RInv
<1> QED BY <1>1, <1>2, Holds, RequestsKept, PTL DEF Spec
===============================================================================

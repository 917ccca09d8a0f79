----------------------------- MODULE ProvisionsProofs -----------------------------
(* Theorems about Provisions, for any contracts, dates, profiles, runs,        *)
(* overrides and versions of the configuration.                                *)
EXTENDS Provisions, AmountTheorems, SequenceTheorems

-------------------------------------------------------------------------------
\* Overrides.

Asked == {ask.value : ask \in OverrideAsks}
Begin == {ask.from : ask \in OverrideAsks}
End == {ask.from + Validity : ask \in OverrideAsks}
OverrideStatus == {"pending", "approved", "rejected", "active", "expired", "cancelled"}
Override == [contract: Contracts, value: Asked, from: Begin, to: End,
             status: OverrideStatus, request: {"pending", "approved", "rejected"}]

\* One row and its request.
Told(o) == /\ o.status = "pending" <=> o.request = "pending"
           /\ Governing(o) => o.request = "approved"

OInv == /\ overrides \in Seq(Override)
        /\ \A n \in DOMAIN overrides : Told(overrides[n])
        /\ OverridesAgree

LEMMA RowsOfOverrides ==
  ASSUME NEW s \in Seq(Override)
  PROVE  /\ Len(s) \in Nat /\ DOMAIN s = 1..Len(s)
         /\ \A n \in DOMAIN s : s[n] \in Override
BY ElementOfSeq, LenProperties

\* Rows that are rewritten keep their numbers.
LEMMA Rewritten ==
  ASSUME NEW s \in Seq(Override), NEW t, t = [n \in DOMAIN s |-> t[n]],
         \A n \in DOMAIN s : t[n] \in Override
  PROVE  t \in Seq(Override) /\ DOMAIN t = DOMAIN s
<1>1. Len(s) \in Nat /\ DOMAIN s = 1..Len(s)
  BY RowsOfOverrides
<1>2. t = [n \in 1..Len(s) |-> t[n]]
  BY <1>1
<1>3. t \in Seq(Override)
  BY <1>1, <1>2, IsASeq
<1> QED BY <1>3

\* What a step must do: each row changes to one that agrees with its request, and
\* either none starts to govern, or one does and takes all others of its contract
\* out of force.
LEMMA Agreeing ==
  ASSUME OInv, overrides' \in Seq(Override), DOMAIN overrides' = DOMAIN overrides,
         \A n \in DOMAIN overrides : Told(overrides'[n]),
         \A n \in DOMAIN overrides : overrides'[n].contract = overrides[n].contract,
         \/ \A n \in DOMAIN overrides : Governing(overrides'[n]) => Governing(overrides[n])
         \/ \E n \in DOMAIN overrides : \A k \in DOMAIN overrides :
              k # n /\ Governing(overrides'[k]) =>
                Governing(overrides[k]) /\ overrides[k].contract # overrides[n].contract
  PROVE  OInv'
<1>1. \A n, k \in DOMAIN overrides : /\ overrides'[n].contract = overrides'[k].contract
                                     /\ Governing(overrides'[n]) /\ Governing(overrides'[k])
                                     => n = k
  BY DEF OInv, OverridesAgree
<1>2. OverridesAgree'
  BY <1>1 DEF OverridesAgree, Told, Governing
<1> QED BY <1>2 DEF OInv, Told, Governing

LEMMA OverridesStart == Init => OInv
<1> SUFFICES ASSUME Init PROVE OInv
  OBVIOUS
<1>1. overrides = <<>>
  BY DEF Init
<1>2. overrides \in Seq(Override) /\ DOMAIN overrides = {}
  BY <1>1
<1> QED BY <1>2 DEF OInv, OverridesAgree

LEMMA RequestKeeps ==
  ASSUME OInv, NEW c \in Contracts, NEW ask \in OverrideAsks, RequestOverride(c, ask)
  PROVE  OInv'
<1> DEFINE new == [contract |-> c, value |-> ask.value, from |-> ask.from,
                   to |-> ask.from + Validity, status |-> "pending", request |-> "pending"]
<1>1. overrides' = Append(overrides, new)
  BY DEF RequestOverride
<1>2. new \in Override
  BY DEF Override, Asked, Begin, End, OverrideStatus
<1>3. new.status = "pending" /\ new.request = "pending"
  OBVIOUS
<1> HIDE DEF new
<1>4. overrides \in Seq(Override) /\ Len(overrides) \in Nat /\ DOMAIN overrides = 1..Len(overrides)
  BY RowsOfOverrides DEF OInv
<1>5. /\ overrides' \in Seq(Override) /\ DOMAIN overrides' = 1..(Len(overrides) + 1)
      /\ overrides'[Len(overrides) + 1] = new
      /\ \A n \in DOMAIN overrides : overrides'[n] = overrides[n]
  <2>1. /\ overrides' \in Seq(Override) /\ Len(overrides') = Len(overrides) + 1
        /\ \A n \in 1..Len(overrides) : overrides'[n] = overrides[n]
        /\ overrides'[Len(overrides) + 1] = new
    BY <1>1, <1>2, <1>4, AppendProperties
  <2> QED BY <1>4, <2>1, RowsOfOverrides
<1>6. \A n \in DOMAIN overrides' : n \in DOMAIN overrides \/ overrides'[n] = new
  BY <1>4, <1>5
<1>7. Told(new) /\ ~Governing(new)
  BY <1>3 DEF Told, Governing
<1>8. \A n \in DOMAIN overrides' : Told(overrides'[n])
  BY <1>5, <1>6, <1>7 DEF OInv
<1>9. \A n \in DOMAIN overrides' : Governing(overrides'[n]) =>
        n \in DOMAIN overrides /\ overrides'[n] = overrides[n]
  BY <1>5, <1>6, <1>7
<1>10. OverridesAgree'
  BY <1>8, <1>9 DEF OInv, OverridesAgree, Told, Governing
<1> QED BY <1>5, <1>8, <1>10 DEF OInv, Told, Governing

LEMMA ApproveKeeps ==
  ASSUME OInv, NEW n \in DOMAIN overrides, ApproveOverride(n)
  PROVE  OInv'
<1> DEFINE row(k) ==
      IF k = n
      THEN [overrides[k] EXCEPT !.request = "approved",
              !.status = IF InWindow(overrides[k], today) THEN "active" ELSE "approved"]
      ELSE IF Supersedes(n, k) THEN [overrides[k] EXCEPT !.status = "cancelled"] ELSE overrides[k]
<1>1. overrides' = [k \in DOMAIN overrides |-> row(k)]
  BY DEF ApproveOverride
<1>2. ASSUME NEW k \in DOMAIN overrides
      PROVE  /\ row(k) \in Override /\ Told(row(k))
             /\ row(k).contract = overrides[k].contract
             /\ k # n /\ Governing(row(k)) =>
                  Governing(overrides[k]) /\ overrides[k].contract # overrides[n].contract
  <2>1. overrides[k] \in Override /\ Told(overrides[k])
    BY RowsOfOverrides DEF OInv
  <2>2. CASE k = n
    <3>1. PICK new \in {"active", "approved"} :
            row(k) = [overrides[k] EXCEPT !.request = "approved", !.status = new]
      BY <2>2
    <3> HIDE DEF row
    <3> QED BY <2>1, <2>2, <3>1 DEF Override, OverrideStatus, Told, Governing
  <2>3. CASE k # n /\ Supersedes(n, k)
    <3>1. row(k) = [overrides[k] EXCEPT !.status = "cancelled"]
      BY <2>3
    <3>2. Governing(overrides[k])
      BY <2>3 DEF Supersedes
    <3> HIDE DEF row
    <3> QED BY <2>1, <3>1, <3>2 DEF Override, OverrideStatus, Told, Governing
  <2>4. CASE k # n /\ ~Supersedes(n, k)
    <3>1. row(k) = overrides[k]
      BY <2>4
    <3>2. Governing(overrides[k]) => overrides[k].contract # overrides[n].contract
      BY <2>4 DEF Supersedes
    <3> HIDE DEF row
    <3> QED BY <2>1, <3>1, <3>2
  <2> QED BY <2>2, <2>3, <2>4
<1> HIDE DEF row
<1>3. \A k \in DOMAIN overrides : overrides'[k] = row(k)
  BY <1>1
<1>4. overrides' \in Seq(Override) /\ DOMAIN overrides' = DOMAIN overrides
  BY <1>1, <1>2, <1>3, Rewritten DEF OInv
<1> QED BY <1>2, <1>3, <1>4, Agreeing

\* One row leaves force or stays out of it, and agrees with its request.
LEMMA OneRowKeeps ==
  ASSUME OInv, NEW n \in DOMAIN overrides, NEW new \in Override,
         overrides' = [overrides EXCEPT ![n] = new],
         Told(new), ~Governing(new), new.contract = overrides[n].contract
  PROVE  OInv'
<1>1. overrides \in Seq(Override) /\ Len(overrides) \in Nat /\ DOMAIN overrides = 1..Len(overrides)
  BY RowsOfOverrides DEF OInv
<1>2. \A k \in DOMAIN overrides : overrides'[k] = IF k = n THEN new ELSE overrides[k]
  OBVIOUS
<1>3. DOMAIN overrides' = DOMAIN overrides /\ overrides' \in Seq(Override)
  BY <1>1, ExceptSeq
<1> QED BY <1>2, <1>3, Agreeing DEF OInv

LEMMA RejectKeeps ==
  ASSUME OInv, NEW n \in DOMAIN overrides, RejectOverride(n)
  PROVE  OInv'
<1> DEFINE new == [overrides[n] EXCEPT !.request = "rejected", !.status = "rejected"]
<1>1. overrides[n] \in Override /\ Told(overrides[n]) /\ overrides[n].request = "pending"
  BY RowsOfOverrides DEF OInv, RejectOverride
<1>2. overrides[n].status = "pending"
  BY <1>1 DEF Told
<1>3. overrides' = [overrides EXCEPT ![n] = new]
  BY <1>1, <1>2 DEF RejectOverride, Override
<1>4. /\ new \in Override /\ Told(new) /\ ~Governing(new)
      /\ new.contract = overrides[n].contract
  BY <1>1 DEF Override, OverrideStatus, Told, Governing
<1> HIDE DEF new
<1> QED BY <1>3, <1>4, OneRowKeeps

LEMMA CancelKeeps ==
  ASSUME OInv, NEW n \in DOMAIN overrides, cancel_override(n)
  PROVE  OInv'
<1> DEFINE new == [overrides[n] EXCEPT !.status = "cancelled",
                     !.request = IF @ = "pending" THEN "rejected" ELSE @]
<1>1. overrides[n] \in Override /\ Told(overrides[n])
  BY RowsOfOverrides DEF OInv
<1>2. overrides' = [overrides EXCEPT ![n] = new]
  BY <1>1 DEF cancel_override, Override
<1>3. /\ new \in Override /\ Told(new) /\ ~Governing(new)
      /\ new.contract = overrides[n].contract
  BY <1>1 DEF Override, OverrideStatus, Told, Governing
<1> HIDE DEF new
<1> QED BY <1>2, <1>3, OneRowKeeps

LEMMA ExpireKeeps ==
  ASSUME OInv, NEW as_of, expire_due(as_of)
  PROVE  OInv'
<1> DEFINE row(k) == IF ExpiredBy(overrides[k], as_of) THEN [overrides[k] EXCEPT !.status = "expired"]
                     ELSE IF BegunBy(overrides[k], as_of)
                          THEN [overrides[k] EXCEPT !.status = "active"] ELSE overrides[k]
<1>1. overrides' = [k \in DOMAIN overrides |-> row(k)]
  BY DEF expire_due
<1>2. ASSUME NEW k \in DOMAIN overrides
      PROVE  /\ row(k) \in Override /\ Told(row(k))
             /\ row(k).contract = overrides[k].contract
             /\ Governing(row(k)) => Governing(overrides[k])
  <2>1. overrides[k] \in Override /\ Told(overrides[k])
    BY RowsOfOverrides DEF OInv
  <2>2. CASE ExpiredBy(overrides[k], as_of)
    <3>1. row(k) = [overrides[k] EXCEPT !.status = "expired"] /\ Governing(overrides[k])
      BY <2>2 DEF ExpiredBy
    <3> HIDE DEF row
    <3> QED BY <2>1, <3>1 DEF Override, OverrideStatus, Told, Governing
  <2>3. CASE ~ExpiredBy(overrides[k], as_of) /\ BegunBy(overrides[k], as_of)
    <3>1. row(k) = [overrides[k] EXCEPT !.status = "active"] /\ Governing(overrides[k])
      BY <2>3 DEF BegunBy, Governing
    <3> HIDE DEF row
    <3> QED BY <2>1, <3>1 DEF Override, OverrideStatus, Told, Governing
  <2>4. CASE ~ExpiredBy(overrides[k], as_of) /\ ~BegunBy(overrides[k], as_of)
    BY <2>1, <2>4
  <2> QED BY <2>2, <2>3, <2>4
<1> HIDE DEF row
<1>3. \A k \in DOMAIN overrides : overrides'[k] = row(k)
  BY <1>1
<1>4. overrides' \in Seq(Override) /\ DOMAIN overrides' = DOMAIN overrides
  BY <1>1, <1>2, <1>3, Rewritten DEF OInv
<1> QED BY <1>2, <1>3, <1>4, Agreeing

LEMMA OverridesKept == OInv /\ [Next]_vars => OInv'
<1> SUFFICES ASSUME OInv, [Next]_vars PROVE OInv'
  OBVIOUS
<1>1. CASE overrides' = overrides
  BY <1>1 DEF OInv, OverridesAgree, Told, Governing
<1>2. CASE \E c \in Contracts, ask \in OverrideAsks : RequestOverride(c, ask)
  BY <1>2, RequestKeeps
<1>3. CASE \E as_of \in Dates : expire_due(as_of)
  BY <1>3, ExpireKeeps
<1>4. CASE \E n \in DOMAIN overrides :
             ApproveOverride(n) \/ RejectOverride(n) \/ cancel_override(n)
  BY <1>4, ApproveKeeps, RejectKeeps, CancelKeeps
<1> QED
  BY <1>1, <1>2, <1>3, <1>4
  DEF Next, vars, NextDay, PaymentsArrive, ContractCloses, initial_assessment,
      ReleaseByWriteOff, run_ecl, post_run, activate_version

\* For any contracts, any number of overrides and any order of requests, approvals,
\* rejections, cancellations and runs of the expiry job: one override at most governs a
\* contract, and each tells what became of its request (approvals.py:317).
THEOREM OverridesCorrect == Spec => []OverridesAgree
<1>1. OInv => OverridesAgree
  BY DEF OInv
<1> QED BY <1>1, OverridesStart, OverridesKept, PTL DEF Spec

-------------------------------------------------------------------------------
\* The tables of the engine.

Assessment(a) ==
  /\ a.contract \in Contracts /\ a.as_of \in Dates /\ a.dpd \in Nat
  /\ a.run \in 0..Len(runs) /\ a.automated_stage \in 0..3
  /\ a.opening \in Int /\ a.calculated \in Int /\ a.closing \in Int

Typed ==
  /\ today \in Dates
  /\ status \in [Contracts -> {"created", "active", "closed"}]
  /\ received \in [Contracts -> Seq(Dates)]
  /\ Numbered(config) /\ Len(config) # 0
  /\ \A parameter \in DOMAIN config[Len(config)] :
       Shaped(parameter, config[Len(config)][parameter])
  /\ runs \in Seq([as_of: Dates, status: {"completed", "posted"}])
  /\ Numbered(assessments) /\ \A n \in DOMAIN assessments : Assessment(assessments[n])
  /\ allowance \in [Contracts -> Int] /\ released \in [Contracts -> Int]

LEMMA DatesAreNumbers == Dates \subseteq Nat
BY ProvisionsAssumption

LEMMA RowMeaning ==
  ASSUME Typed, NEW n \in DOMAIN assessments
  PROVE  Assessment(assessments[n]) /\ n \in Nat
<1>1. DOMAIN assessments = 1..Len(assessments)
  BY NumberedDomain DEF Typed
<1>2. n \in Nat
  BY <1>1
<1> QED BY <1>2 DEF Typed

LEMMA DayMeaning ==
  ASSUME Typed, NEW n \in DOMAIN assessments
  PROVE  n \in Nat /\ assessments[n].as_of \in Nat
BY RowMeaning, DatesAreNumbers DEF Assessment

\* Later orders the rows, so that any of them have a first and a last.
LEMMA LatestExists ==
  ASSUME Typed, NEW rows \in SUBSET DOMAIN assessments, rows # {}
  PROVE  \E n \in rows : \A k \in rows \ {n} : Later(n, k)
<1> DEFINE N == {m \in Nat : \A s \in SUBSET (1..m) : s # {} /\ s \subseteq DOMAIN assessments
                               => \E n \in s : \A k \in s \ {n} : Later(n, k)}
<1>1. Len(assessments) \in Nat /\ DOMAIN assessments = 1..Len(assessments)
  BY NumberedDomain DEF Typed
<1>2. \A n \in DOMAIN assessments : n \in Nat /\ assessments[n].as_of \in Nat
  BY DayMeaning
<1>3. 0 \in N
  BY UpToNone
<1>4. ASSUME NEW m \in Nat, m \in N PROVE m + 1 \in N
  <2> SUFFICES ASSUME NEW s \in SUBSET (1..(m + 1)), s # {}, s \subseteq DOMAIN assessments
               PROVE  \E n \in s : \A k \in s \ {n} : Later(n, k)
    OBVIOUS
  <2>1. s \ {m + 1} \in SUBSET (1..m)
    BY UpToNext
  <2>2. CASE s \ {m + 1} = {}
    BY <2>2
  <2>3. CASE s \ {m + 1} # {} /\ m + 1 \notin s
    BY <1>4, <2>1, <2>3
  <2>4. CASE s \ {m + 1} # {} /\ m + 1 \in s
    <3>1. PICK n \in s \ {m + 1} : \A k \in (s \ {m + 1}) \ {n} : Later(n, k)
      BY <1>4, <2>1, <2>4
    <3>2. n < m + 1 /\ n \in Nat
      BY <2>1, <3>1
    <3>3. CASE assessments[n].as_of > assessments[m + 1].as_of
      BY <3>1, <3>3 DEF Later
    <3>4. CASE ~(assessments[n].as_of > assessments[m + 1].as_of)
      <4>1. \A k \in s \ {m + 1} : Later(m + 1, k)
        <5> SUFFICES ASSUME NEW k \in s \ {m + 1} PROVE Later(m + 1, k)
          OBVIOUS
        <5>1. k < m + 1 /\ k \in Nat
          BY <2>1
        <5>2. assessments[k].as_of <= assessments[n].as_of
          BY <1>2, <3>1 DEF Later
        <5>3. /\ assessments[k].as_of \in Nat /\ assessments[n].as_of \in Nat
              /\ assessments[m + 1].as_of \in Nat
          BY <1>2, <2>4, <3>1
        <5> QED BY <3>4, <5>1, <5>2, <5>3 DEF Later
      <4> QED BY <2>4, <4>1
    <3> QED BY <3>3, <3>4
  <2> QED BY <2>2, <2>3, <2>4
<1>5. Nat \subseteq N
  <2> HIDE DEF N
  <2> QED BY <1>3, <1>4, NatSetInduction
<1>6. Len(assessments) \in N
  BY <1>1, <1>5
<1> QED BY <1>1, <1>6

LEMMA LatestMeaning ==
  ASSUME Typed, NEW rows \in SUBSET DOMAIN assessments, rows # {}
  PROVE  /\ LatestOf(rows) \in rows
         /\ \A k \in rows \ {LatestOf(rows)} : Later(LatestOf(rows), k)
BY LatestExists DEF LatestOf

LEMMA EarliestExists ==
  ASSUME Typed, NEW rows \in SUBSET DOMAIN assessments, rows # {}
  PROVE  \E n \in rows : \A k \in rows \ {n} : Later(k, n)
<1> DEFINE N == {m \in Nat : \A s \in SUBSET (1..m) : s # {} /\ s \subseteq DOMAIN assessments
                               => \E n \in s : \A k \in s \ {n} : Later(k, n)}
<1>1. Len(assessments) \in Nat /\ DOMAIN assessments = 1..Len(assessments)
  BY NumberedDomain DEF Typed
<1>2. \A n \in DOMAIN assessments : n \in Nat /\ assessments[n].as_of \in Nat
  BY DayMeaning
<1>3. 0 \in N
  BY UpToNone
<1>4. ASSUME NEW m \in Nat, m \in N PROVE m + 1 \in N
  <2> SUFFICES ASSUME NEW s \in SUBSET (1..(m + 1)), s # {}, s \subseteq DOMAIN assessments
               PROVE  \E n \in s : \A k \in s \ {n} : Later(k, n)
    OBVIOUS
  <2>1. s \ {m + 1} \in SUBSET (1..m)
    BY UpToNext
  <2>2. CASE s \ {m + 1} = {}
    BY <2>2
  <2>3. CASE s \ {m + 1} # {} /\ m + 1 \notin s
    BY <1>4, <2>1, <2>3
  <2>4. CASE s \ {m + 1} # {} /\ m + 1 \in s
    <3>1. PICK n \in s \ {m + 1} : \A k \in (s \ {m + 1}) \ {n} : Later(k, n)
      BY <1>4, <2>1, <2>4
    <3>2. n < m + 1 /\ n \in Nat
      BY <2>1, <3>1
    <3>3. /\ assessments[n].as_of \in Nat /\ assessments[m + 1].as_of \in Nat
      BY <1>2, <2>4, <3>1
    <3>4. CASE assessments[n].as_of <= assessments[m + 1].as_of
      <4>1. Later(m + 1, n)
        BY <3>2, <3>3, <3>4 DEF Later
      <4> QED BY <3>1, <4>1
    <3>5. CASE ~(assessments[n].as_of <= assessments[m + 1].as_of)
      <4>1. \A k \in s \ {m + 1} : Later(k, m + 1)
        <5> SUFFICES ASSUME NEW k \in s \ {m + 1} PROVE Later(k, m + 1)
          OBVIOUS
        <5>1. assessments[k].as_of \in Nat
          BY <1>2
        <5>2. assessments[n].as_of <= assessments[k].as_of
          BY <3>1, <3>3, <5>1 DEF Later
        <5> QED BY <3>3, <3>5, <5>1, <5>2 DEF Later
      <4> QED BY <2>4, <4>1
    <3> QED BY <3>4, <3>5
  <2> QED BY <2>2, <2>3, <2>4
<1>5. Nat \subseteq N
  <2> HIDE DEF N
  <2> QED BY <1>3, <1>4, NatSetInduction
<1>6. Len(assessments) \in N
  BY <1>1, <1>5
<1> QED BY <1>1, <1>6

LEMMA EarliestMeaning ==
  ASSUME Typed, NEW rows \in SUBSET DOMAIN assessments, rows # {}
  PROVE  EarliestOf(rows) \in rows
BY EarliestExists DEF EarliestOf

-------------------------------------------------------------------------------
\* The configuration, and what is computed from it.

Ratings == DOMAIN _placeholder_v1.risk_segments
Segments == DOMAIN _placeholder_v1.pd_term_structure
Tables == {"rating_mapping", "risk_segments", "pd_term_structure", "lgd_model",
           "dpd_provision_pct", "dpd_provision_rest", "lifetime_loss_rate"}

LEMMA Keys ==
  /\ Ratings = {"A", "B", "C", "D", "E", UNRATED}
  /\ Segments = {"prime", "standard", "subprime", "unrated"}
  /\ Tables \subseteq DOMAIN _placeholder_v1
BY DEF Ratings, Segments, Tables, _placeholder_v1, UNRATED

LEMMA FirstIsShaped == \A table \in Tables : Shaped(table, _placeholder_v1[table])
<1>1. \A band \in _placeholder_v1.rating_mapping : band.rating \in Ratings
  BY Keys DEF _placeholder_v1
<1>2. \A rating \in Ratings : _placeholder_v1.risk_segments[rating] \in Segments
  BY Keys DEF _placeholder_v1, UNRATED
<1>3. \A s \in Segments : _placeholder_v1.pd_term_structure[s]
                            \in [pd_12m: Int, pd_lifetime: Int, pd_lifetime_stage_3: Int]
  BY Keys DEF _placeholder_v1
<1>4. \A s \in Segments : _placeholder_v1.lgd_model[s] \in [lgd: Int, lgd_stage_3: Int]
  BY Keys DEF _placeholder_v1
<1>5. _placeholder_v1.dpd_provision_pct \in Seq([upto: Int, halves: Int])
  BY DEF _placeholder_v1
<1>6. _placeholder_v1.dpd_provision_rest \in Int /\ _placeholder_v1.lifetime_loss_rate \in Int
  BY DEF _placeholder_v1
<1> QED BY <1>1, <1>2, <1>3, <1>4, <1>5, <1>6 DEF Tables, Shaped, Ratings, Segments

LEMMA UpdatedValue ==
  ASSUME NEW row, NEW changes, NEW x \in DOMAIN row \cup DOMAIN changes
  PROVE  Updated(row, changes)[x] = IF x \in DOMAIN changes THEN changes[x] ELSE row[x]
BY DEF Updated

LEMMA ActiveIsShaped == Typed => \A table \in Tables : Shaped(table, get_active[table])
<1> SUFFICES ASSUME Typed, NEW table \in Tables PROVE Shaped(table, get_active[table])
  OBVIOUS
<1>1. PICK f : f = config[Len(config)]
  OBVIOUS
<1>2. PICK g : g = _placeholder_v1
  OBVIOUS
<1>3. \A parameter \in DOMAIN f : Shaped(parameter, f[parameter])
  BY <1>1 DEF Typed
<1>4. table \in DOMAIN g /\ Shaped(table, g[table])
  BY <1>2, Keys, FirstIsShaped
<1>5. Updated(g, f)[table] = IF table \in DOMAIN f THEN f[table] ELSE g[table]
  BY <1>4, UpdatedValue
<1>6. get_active = Updated(g, f)
  BY <1>1, <1>2 DEF get_active
<1> QED BY <1>3, <1>4, <1>5, <1>6

ShapedConfig(cfg) == \A table \in Tables : Shaped(table, cfg[table])

LEMMA SegmentFacts ==
  ASSUME NEW cfg, ShapedConfig(cfg), NEW score
  PROVE  LET segment == resolve_segment(resolve_rating(score, cfg), cfg)
         IN /\ segment \in Segments
            /\ resolve_pd(segment, cfg)
                 \in [pd_12m: Int, pd_lifetime: Int, pd_lifetime_stage_3: Int]
            /\ resolve_lgd(segment, cfg) \in [lgd: Int, lgd_stage_3: Int]
<1>1. \A band \in cfg.rating_mapping : band.rating \in Ratings
  BY DEF ShapedConfig, Tables, Shaped, Ratings
<1>2. \A rating \in Ratings : cfg.risk_segments[rating] \in Segments
  BY DEF ShapedConfig, Tables, Shaped, Ratings, Segments
<1>3. \A s \in Segments : cfg.pd_term_structure[s]
                            \in [pd_12m: Int, pd_lifetime: Int, pd_lifetime_stage_3: Int]
  BY DEF ShapedConfig, Tables, Shaped, Segments
<1>4. \A s \in Segments : cfg.lgd_model[s] \in [lgd: Int, lgd_stage_3: Int]
  BY DEF ShapedConfig, Tables, Shaped, Segments
<1>5. resolve_rating(score, cfg) \in Ratings
  BY <1>1, Keys DEF resolve_rating
<1> QED BY <1>2, <1>3, <1>4, <1>5 DEF resolve_segment, resolve_pd, resolve_lgd

LEMMA ThreeStageNumber ==
  ASSUME NEW ead \in Int, NEW pd_12m \in Int, NEW pd_lifetime \in Int, NEW lgd \in Int, NEW stage
  PROVE  calc_three_stage(ead, stage, pd_12m, pd_lifetime, lgd) \in Int
<1>1. PICK pd \in Int : pd = IF stage = 1 THEN pd_12m ELSE pd_lifetime
  OBVIOUS
<1>2. ead * pd * lgd \in Int
  OBVIOUS
<1> QED BY <1>1, <1>2 DEF calc_three_stage

\* What is asked for in place of a parameter.
Numbers(value) == \A parameter \in DOMAIN value \ {"risk_rating"} : value[parameter] \in Int

LEMMA OverriddenNumber ==
  ASSUME NEW value, Numbers(value), NEW parameter, parameter # "risk_rating",
         NEW automated \in Int
  PROVE  Overridden(value, parameter, automated) \in Int
BY DEF Overridden, Numbers

\* The result of an assessment: two numbers.
Result(r) == r.calculated \in Int /\ r.closing \in Int

LEMMA StagedNumbers ==
  ASSUME Typed, NEW profile \in Profiles \cup NewProfiles, NEW stage \in Int,
         NEW value, Numbers(value)
  PROVE  Result(StagedResult(profile, stage, value))
<1>1. PICK cfg : cfg = get_active
  OBVIOUS
<1>2. ShapedConfig(cfg)
  BY <1>1, ActiveIsShaped DEF ShapedConfig
<1>3. PICK segment : segment = resolve_segment(resolve_rating(profile.score, cfg), cfg)
  OBVIOUS
<1>4. PICK pd : pd = resolve_pd(segment, cfg)
  OBVIOUS
<1>5. PICK lgd : lgd = resolve_lgd(segment, cfg)
  OBVIOUS
<1>6. /\ pd.pd_12m \in Int /\ pd.pd_lifetime \in Int /\ pd.pd_lifetime_stage_3 \in Int
      /\ lgd.lgd \in Int /\ lgd.lgd_stage_3 \in Int
  BY <1>2, <1>3, <1>4, <1>5, SegmentFacts
<1> DEFINE lifetime(s) == IF s = 3 THEN pd.pd_lifetime_stage_3 ELSE pd.pd_lifetime
<1>7. PICK automated_lgd \in Int : automated_lgd = IF stage = 3 THEN lgd.lgd_stage_3 ELSE lgd.lgd
  BY <1>6
<1>8. PICK final_stage : final_stage = Overridden(value, "stage", stage)
  OBVIOUS
<1>9. \A s : lifetime(s) \in Int
  BY <1>6
<1>10. profile.ead \in Int
  BY ProvisionsAssumption
<1>11. PICK ead \in Int : ead = Overridden(value, "ead", profile.ead)
  BY <1>10, OverriddenNumber
<1>12. PICK pd_12m \in Int : pd_12m = Overridden(value, "pd_12m", pd.pd_12m)
  BY <1>6, OverriddenNumber
<1>13. PICK pd_lifetime \in Int :
         pd_lifetime = Overridden(value, "pd_lifetime", lifetime(final_stage))
  BY <1>9, OverriddenNumber
<1>14. PICK final_lgd \in Int : final_lgd = Overridden(value, "lgd", automated_lgd)
  BY OverriddenNumber
<1>15. PICK x \in Int :
         x = calc_three_stage(profile.ead, stage, pd.pd_12m, lifetime(stage), automated_lgd)
  BY <1>6, <1>9, <1>10, ThreeStageNumber
<1>16. PICK y \in Int : y = calc_three_stage(ead, final_stage, pd_12m, pd_lifetime, final_lgd)
  BY ThreeStageNumber
<1>17. StagedResult(profile, stage, value) = [calculated |-> x, closing |-> y]
  BY <1>1, <1>3, <1>4, <1>5, <1>7, <1>8, <1>11, <1>12, <1>13, <1>14, <1>15, <1>16
  DEF StagedResult
<1> QED BY <1>17 DEF Result

LEMMA BandedNumber ==
  ASSUME NEW cfg, ShapedConfig(cfg), NEW ead \in Int, NEW dpd \in Nat
  PROVE  calc_dpd_banded(ead, dpd, cfg) \in Int
<1>1. PICK bands : bands = cfg.dpd_provision_pct
  OBVIOUS
<1>2. bands \in Seq([upto: Int, halves: Int]) /\ cfg.dpd_provision_rest \in Int
  BY <1>1 DEF ShapedConfig, Tables, Shaped
<1>3. Len(bands) \in Nat /\ DOMAIN bands = 1..Len(bands)
  BY <1>2, LenProperties
<1>4. \A n \in DOMAIN bands : bands[n].halves \in Int
  <2>1. \A n \in 1..Len(bands) : bands[n] \in [upto: Int, halves: Int]
    BY <1>2, ElementOfSeq
  <2> QED BY <1>3, <2>1
<1>5. PICK reaching : reaching = {n \in DOMAIN bands : dpd <= bands[n].upto}
  OBVIOUS
<1>6. reaching \subseteq Nat /\ reaching \subseteq DOMAIN bands
  BY <1>3, <1>5
<1> DEFINE halves == IF reaching = {} THEN cfg.dpd_provision_rest
                     ELSE bands[CHOOSE n \in reaching : \A k \in reaching : n <= k].halves
<1>7. halves \in Int
  <2>1. CASE reaching = {}
    BY <1>2, <2>1
  <2>2. CASE reaching # {}
    <3>1. \E n \in reaching : \A k \in reaching : n <= k
      BY <1>6, <2>2, SmallestNat
    <3>2. (CHOOSE n \in reaching : \A k \in reaching : n <= k) \in DOMAIN bands
      BY <1>6, <3>1
    <3> QED BY <1>4, <2>2, <3>2
  <2> QED BY <2>1, <2>2
<1>8. calc_dpd_banded(ead, dpd, cfg) = ead * halves * 50
  BY <1>1, <1>5 DEF calc_dpd_banded
<1> HIDE DEF halves
<1> QED BY <1>7, <1>8

LEMMA UnstagedNumbers ==
  ASSUME Typed, NEW profile \in Profiles \cup NewProfiles
  PROVE  Result(UnstagedResult(profile))
<1>1. PICK cfg : cfg = get_active
  OBVIOUS
<1>2. ShapedConfig(cfg)
  BY <1>1, ActiveIsShaped DEF ShapedConfig
<1>3. profile.ead \in Int /\ profile.dpd \in Nat
  BY ProvisionsAssumption
<1>4. calc_dpd_banded(profile.ead, profile.dpd, cfg) \in Int
  BY <1>2, <1>3, BandedNumber
<1>5. PICK rate \in Int : rate = cfg.lifetime_loss_rate
  BY <1>2 DEF ShapedConfig, Tables, Shaped
<1>6. calc_simplified_lifetime(profile.ead, cfg) \in Int
  <2>1. profile.ead * rate * 100 \in Int
    BY <1>3
  <2> QED BY <1>5, <2>1 DEF calc_simplified_lifetime
<1>7. PICK ecl \in Int : UnstagedResult(profile) = [calculated |-> ecl, closing |-> ecl]
  BY <1>1, <1>4, <1>6 DEF UnstagedResult
<1> QED BY <1>7 DEF Result

-------------------------------------------------------------------------------
\* One assessment.

LEMMA OverrideInForce ==
  ASSUME OInv, NEW c, NEW as_of
  PROVE  _active_override(c, as_of) = 0 \/ _active_override(c, as_of) \in DOMAIN overrides
<1>1. PICK inForce : inForce = {n \in DOMAIN overrides : /\ overrides[n].contract = c
                                                         /\ Governing(overrides[n])
                                                         /\ InWindow(overrides[n], as_of)}
  OBVIOUS
<1>2. _active_override(c, as_of) = IF inForce = {} THEN 0
                                   ELSE CHOOSE n \in inForce : \A k \in inForce : k <= n
  BY <1>1 DEF _active_override
<1>3. inForce # {} => \E n \in inForce : \A k \in inForce : k <= n
  <2>1. /\ Len(overrides) \in Nat /\ DOMAIN overrides = 1..Len(overrides)
        /\ inForce \subseteq 1..Len(overrides)
    BY <1>1, RowsOfOverrides DEF OInv
  <2> DEFINE N == {m \in Nat : \A s \in SUBSET (1..m) : s # {} =>
                                 \E n \in s : \A k \in s : k <= n}
  <2>2. 0 \in N
    BY UpToNone
  <2>3. ASSUME NEW m \in Nat, m \in N PROVE m + 1 \in N
    <3>1. ASSUME NEW s \in SUBSET (1..(m + 1)), s # {}
          PROVE  \E n \in s : \A k \in s : k <= n
      <4>1. CASE m + 1 \in s
        BY <4>1
      <4>2. CASE m + 1 \notin s
        BY <2>3, <3>1, <4>2, UpToNext
      <4> QED BY <4>1, <4>2
    <3> QED BY <3>1
  <2>4. Nat \subseteq N
    <3> HIDE DEF N
    <3> QED BY <2>2, <2>3, NatSetInduction
  <2>5. Len(overrides) \in N
    BY <2>1, <2>4
  <2> QED BY <2>1, <2>5
<1>4. CASE inForce = {}
  BY <1>2, <1>4
<1>5. CASE inForce # {}
  BY <1>1, <1>2, <1>3, <1>5
<1> QED BY <1>4, <1>5

LEMMA OverrideValue ==
  ASSUME OInv, NEW n \in DOMAIN overrides
  PROVE  Numbers(overrides[n].value)
<1>1. overrides[n].value \in Asked
  BY RowsOfOverrides DEF OInv, Override
<1> QED BY <1>1, ProvisionsAssumption DEF Asked, Numbers

LEMMA RowsOfContract ==
  ASSUME NEW c
  PROVE  /\ AssessmentsOf(c) \in SUBSET DOMAIN assessments
         /\ Staged(c) \in SUBSET AssessmentsOf(c) /\ PeakRows(c) \in SUBSET Staged(c)
BY DEF AssessmentsOf, Staged, PeakRows

LEMMA PriorNumber ==
  ASSUME Typed, NEW c, NEW as_of
  PROVE  _prior_assessment(c, as_of) \in Int
<1>1. _prior(c, as_of) \in SUBSET DOMAIN assessments
  BY DEF _prior, AssessmentsOf
<1>2. CASE _prior(c, as_of) = {}
  BY <1>2 DEF _prior_assessment
<1>3. CASE _prior(c, as_of) # {}
  <2>1. PICK n \in DOMAIN assessments : n = LatestOf(_prior(c, as_of))
    BY <1>1, <1>3, LatestMeaning
  <2>2. assessments[n].closing \in Int
    BY RowMeaning DEF Assessment
  <2> QED BY <1>3, <2>1, <2>2 DEF _prior_assessment
<1> QED BY <1>2, <1>3

\* A contract that was ever staged has a peak: the stages are three.
LEMMA PeakExists ==
  ASSUME Typed, NEW c, Staged(c) # {}
  PROVE  PeakRows(c) # {}
<1>1. \A n \in Staged(c) : assessments[n].automated_stage \in 1..3
  <2> SUFFICES ASSUME NEW n \in Staged(c) PROVE assessments[n].automated_stage \in 1..3
    OBVIOUS
  <2>1. n \in DOMAIN assessments /\ assessments[n].automated_stage # NoStage
    BY DEF Staged, AssessmentsOf
  <2>2. assessments[n].automated_stage \in 0..3
    BY <2>1, RowMeaning DEF Assessment
  <2> QED BY <2>1, <2>2 DEF NoStage
<1> DEFINE At(stage) == \E n \in Staged(c) : assessments[n].automated_stage = stage
<1>2. CASE At(3)
  <2>1. PICK n \in Staged(c) : assessments[n].automated_stage = 3
    BY <1>2
  <2>2. \A k \in Staged(c) : assessments[k].automated_stage <= 3
    BY <1>1
  <2> QED BY <2>1, <2>2 DEF PeakRows
<1>3. CASE ~At(3) /\ At(2)
  <2>1. PICK n \in Staged(c) : assessments[n].automated_stage = 2
    BY <1>3
  <2>2. \A k \in Staged(c) : assessments[k].automated_stage <= 2
    BY <1>1, <1>3
  <2> QED BY <2>1, <2>2 DEF PeakRows
<1>4. CASE ~At(3) /\ ~At(2)
  <2>1. PICK n \in Staged(c) : TRUE
    OBVIOUS
  <2>2. \A k \in Staged(c) : assessments[k].automated_stage = 1
    BY <1>1, <1>4
  <2>3. \A k \in Staged(c) : assessments[k].automated_stage <= assessments[n].automated_stage
    BY <2>2
  <2> QED BY <2>3 DEF PeakRows
<1> QED BY <1>2, <1>3, <1>4

LEMMA PeakMeaning ==
  ASSUME Typed, NEW c, Staged(c) # {}
  PROVE  /\ LatestOf(PeakRows(c)) \in PeakRows(c) /\ EarliestOf(PeakRows(c)) \in PeakRows(c)
         /\ \A n \in PeakRows(c), k \in Staged(c) :
              assessments[k].automated_stage <= assessments[n].automated_stage
<1>1. PeakRows(c) # {}
  BY PeakExists
<1>2. PeakRows(c) \in SUBSET DOMAIN assessments
  BY RowsOfContract
<1>3. LatestOf(PeakRows(c)) \in PeakRows(c)
  BY <1>1, <1>2, LatestMeaning
<1>4. EarliestOf(PeakRows(c)) \in PeakRows(c)
  BY <1>1, <1>2, EarliestMeaning
<1> QED BY <1>3, <1>4 DEF PeakRows

LEMMA CuringStage ==
  ASSUME Typed, NEW c, NEW raw \in 1..3, NEW dpd, NEW as_of
  PROVE  _apply_curing(c, raw, dpd, as_of) \in 1..3
<1>1. CASE ~get_active.cure_enabled \/ Staged(c) = {}
  BY <1>1 DEF _apply_curing
<1>2. CASE ~(~get_active.cure_enabled \/ Staged(c) = {})
  <2>1. PICK n \in PeakRows(c) : n = LatestOf(PeakRows(c))
    BY <1>2, PeakMeaning
  <2>2. n \in DOMAIN assessments /\ n \in Staged(c)
    BY RowsOfContract
  <2>3. assessments[n].automated_stage \in 0..3 /\ assessments[n].automated_stage # NoStage
    BY <2>2, RowMeaning DEF Assessment, Staged
  <2>4. PICK peak \in 1..3 : peak = assessments[LatestOf(PeakRows(c))].automated_stage
    BY <2>1, <2>3 DEF NoStage
  <2>5. _apply_curing(c, raw, dpd, as_of) \in {raw, peak}
    BY <1>2, <2>4 DEF _apply_curing
  <2> QED BY <2>5
<1> QED BY <1>1, <1>2

\* The row made for contract c.
Assessed(a, c, as_of, run) ==
  /\ a.contract = c /\ a.as_of = as_of /\ a.run = run
  /\ a.dpd \in Nat /\ a.automated_stage \in 0..3
  /\ a.opening = _prior_assessment(c, as_of)
  /\ a.opening \in Int /\ a.calculated \in Int /\ a.closing \in Int

LEMMA RawStage == \A ctx, cfg : determine_stage(ctx, cfg) \in 1..3
BY DEF determine_stage

LEMMA AssessedRow ==
  ASSUME Typed, OInv, NEW c \in Contracts, NEW profile \in Profiles \cup NewProfiles,
         NEW as_of \in Dates, NEW run
  PROVE  /\ Assessed(_assess_one(c, profile, as_of, run), c, as_of, run)
         /\ _assess_one(c, profile, as_of, run).dpd = profile.dpd
         /\ \E raw \in 1..3 :
              \/ _assess_one(c, profile, as_of, run).automated_stage = NoStage
              \/ _assess_one(c, profile, as_of, run).automated_stage
                   = _apply_curing(c, raw, profile.dpd, as_of)
<1> DEFINE a == _assess_one(c, profile, as_of, run)
<1>1. PICK override : override = _active_override(c, as_of)
  OBVIOUS
<1>2. PICK value : value = IF override = 0 THEN <<>> ELSE overrides[override].value
  OBVIOUS
<1>3. Numbers(value)
  <2>1. CASE override = 0
    <3>1. DOMAIN value = {}
      BY <1>2, <2>1
    <3> QED BY <3>1 DEF Numbers
  <2>2. CASE override # 0
    BY <1>1, <1>2, <2>2, OverrideInForce, OverrideValue
  <2> QED BY <2>1, <2>2
<1>4. PICK raw \in 1..3, stage \in 1..3 : \E origin, result :
        /\ stage = _apply_curing(c, raw, profile.dpd, as_of)
        /\ Result(result)
        /\ a = [contract |-> c, run |-> run, as_of |-> as_of, origination |-> origin,
                dpd |-> profile.dpd,
                automated_stage |-> IF get_active.methodology = "three_stage" THEN stage
                                    ELSE NoStage,
                opening |-> _prior_assessment(c, as_of),
                calculated |-> result.calculated, closing |-> result.closing]
  <2>1. PICK rating : rating = resolve_rating(profile.score, get_active)
    OBVIOUS
  <2>2. PICK pd : pd = resolve_pd(resolve_segment(rating, get_active), get_active).pd_12m
    OBVIOUS
  <2>3. PICK origin : origin = _origination(c, rating, pd)
    OBVIOUS
  <2>4. PICK ctx : ctx = profile @@ [current_pd |-> pd, origination_pd |-> origin.pd,
                         current_rating |-> rating, origination_rating |-> origin.rating]
    OBVIOUS
  <2>5. PICK raw \in 1..3 : raw = determine_stage(ctx, get_active)
    BY RawStage
  <2>6. PICK stage \in 1..3 : stage = _apply_curing(c, raw, profile.dpd, as_of)
    BY CuringStage
  <2>7. PICK result : result = IF get_active.methodology = "three_stage"
                               THEN StagedResult(profile, stage, value)
                               ELSE UnstagedResult(profile)
    OBVIOUS
  <2>8. Result(result)
    BY <1>3, <2>7, StagedNumbers, UnstagedNumbers
  <2>9. a = [contract |-> c, run |-> run, as_of |-> as_of, origination |-> origin,
             dpd |-> profile.dpd,
             automated_stage |-> IF get_active.methodology = "three_stage" THEN stage
                                 ELSE NoStage,
             opening |-> _prior_assessment(c, as_of),
             calculated |-> result.calculated, closing |-> result.closing]
    BY <1>1, <1>2, <2>1, <2>2, <2>3, <2>4, <2>5, <2>6, <2>7 DEF _assess_one
  <2> HIDE DEF a
  <2> QED BY <2>5, <2>6, <2>8, <2>9
<1> HIDE DEF a
<1>5. profile.dpd \in Nat
  BY ProvisionsAssumption
<1>6. a.automated_stage \in 0..3
  BY <1>4 DEF NoStage
<1>7. Assessed(a, c, as_of, run)
  BY <1>4, <1>5, <1>6, PriorNumber DEF Assessed, Result
<1>8. a.dpd = profile.dpd
  BY <1>4
<1>9. \/ a.automated_stage = NoStage
      \/ a.automated_stage = _apply_curing(c, raw, profile.dpd, as_of)
  BY <1>4
<1> QED BY <1>7, <1>8, <1>9 DEF a

-------------------------------------------------------------------------------
\* Curing, by the rules the first configuration has.

CureParameters == {"cure_enabled", "stage_3_to_2", "stage_2_to_1"}
CureSeeded == \A parameter \in CureParameters : parameter \notin DOMAIN config[Len(config)]

\* What has to be true for row b to be below row a.
Cured(a, b) ==
  /\ b.dpd = 0 /\ Len(received[a.contract]) >= 3
  /\ \E i \in AssessmentsOf(a.contract) :
       /\ assessments[i].automated_stage >= a.automated_stage
       /\ b.as_of - assessments[i].as_of >= IF a.automated_stage = 3 THEN 90 ELSE 30

LEMMA CureRules ==
  ASSUME CureSeeded
  PROVE  /\ get_active.cure_enabled
         /\ \A peak : /\ CureRule(peak, get_active).max_dpd = 0
                      /\ CureRule(peak, get_active).min_qualifying_payments = 3
                      /\ CureRule(peak, get_active).min_observation_days
                           = IF peak = 3 THEN 90 ELSE 30
<1>1. \A parameter \in CureParameters : parameter \in DOMAIN _placeholder_v1
  BY DEF CureParameters, _placeholder_v1
<1>2. \A parameter \in CureParameters : get_active[parameter] = _placeholder_v1[parameter]
  <2>1. PICK f : f = config[Len(config)]
    OBVIOUS
  <2>2. PICK g : g = _placeholder_v1
    OBVIOUS
  <2>3. \A parameter \in CureParameters : Updated(g, f)[parameter] = g[parameter]
    BY <1>1, <2>1, <2>2, UpdatedValue DEF CureSeeded
  <2> QED BY <2>1, <2>2, <2>3 DEF get_active
<1>3. /\ get_active.cure_enabled = _placeholder_v1.cure_enabled
      /\ get_active.stage_3_to_2 = _placeholder_v1.stage_3_to_2
      /\ get_active.stage_2_to_1 = _placeholder_v1.stage_2_to_1
  BY <1>2 DEF CureParameters
<1>4. /\ _placeholder_v1.cure_enabled
      /\ _placeholder_v1.stage_3_to_2 = [min_qualifying_payments |-> 3, max_dpd |-> 0,
                                         min_observation_days |-> 90]
      /\ _placeholder_v1.stage_2_to_1 = [min_qualifying_payments |-> 3, max_dpd |-> 0,
                                         min_observation_days |-> 30]
  BY DEF _placeholder_v1
<1> QED BY <1>3, <1>4 DEF CureRule

LEMMA PaymentsCounted ==
  ASSUME Typed, NEW c \in Contracts, NEW day
  PROVE  /\ Len(received[c]) \in Nat /\ _payments_since(c, day) \in Nat
         /\ _payments_since(c, day) <= Len(received[c])
<1>1. PICK s \in Seq(Dates) : s = received[c]
  BY DEF Typed
<1>2. Len(s) \in Nat /\ DOMAIN s = 1..Len(s)
  BY LenProperties
<1>3. PICK m \in Nat : m = Len(s)
  BY <1>2
<1>4. IsFiniteSet(1..m) /\ Cardinality(1..m) = m
  BY FS_Interval
<1>5. PICK t \in SUBSET (1..m) : t = {n \in DOMAIN received[c] : received[c][n] > day}
  BY <1>1, <1>2, <1>3
<1>6. IsFiniteSet(t) /\ Cardinality(t) <= m
  BY <1>4, FS_Subset
<1>7. Cardinality(t) \in Nat
  BY <1>6, FS_CardinalityType
<1> QED BY <1>1, <1>3, <1>5, <1>6, <1>7 DEF _payments_since

LEMMA CuredIfLower ==
  ASSUME Typed, CureSeeded, NEW c \in Contracts, NEW raw \in 1..3, NEW dpd \in Nat,
         NEW as_of \in Nat, NEW n \in AssessmentsOf(c),
         _apply_curing(c, raw, dpd, as_of) < assessments[n].automated_stage
  PROVE  /\ dpd = 0 /\ Len(received[c]) >= 3
         /\ \E i \in AssessmentsOf(c) :
              /\ assessments[i].automated_stage >= assessments[n].automated_stage
              /\ as_of - assessments[i].as_of
                   >= IF assessments[n].automated_stage = 3 THEN 90 ELSE 30
<1>1. _apply_curing(c, raw, dpd, as_of) \in 1..3
  BY CuringStage
<1>2. n \in DOMAIN assessments /\ assessments[n].automated_stage \in 0..3
  BY RowsOfContract, RowMeaning DEF Assessment
<1>3. n \in Staged(c)
  BY <1>1, <1>2 DEF Staged, NoStage
<1>4. PICK last \in PeakRows(c) : last = LatestOf(PeakRows(c))
  BY <1>3, PeakMeaning
<1>5. PICK first \in PeakRows(c) : first = EarliestOf(PeakRows(c))
  BY <1>3, PeakMeaning
<1>6. /\ last \in DOMAIN assessments /\ last \in Staged(c)
      /\ first \in AssessmentsOf(c) /\ first \in DOMAIN assessments /\ first \in Staged(c)
  BY RowsOfContract
<1>7. /\ assessments[n].automated_stage <= assessments[last].automated_stage
      /\ assessments[n].automated_stage <= assessments[first].automated_stage
  BY <1>3, PeakMeaning
<1>8. PICK peak \in 0..3 : peak = assessments[last].automated_stage
  BY <1>6, RowMeaning DEF Assessment
<1>9. PICK day \in Nat : day = assessments[first].as_of
  BY <1>6, DayMeaning
<1>10. assessments[first].automated_stage \in 0..3
  BY <1>6, RowMeaning DEF Assessment
<1>11. _apply_curing(c, raw, dpd, as_of) < peak
  BY <1>1, <1>2, <1>7, <1>8
<1> DEFINE rule == CureRule(peak, get_active)
           cured == /\ dpd <= rule.max_dpd
                    /\ _payments_since(c, day) >= rule.min_qualifying_payments
                    /\ as_of - day >= rule.min_observation_days
<1>12. _apply_curing(c, raw, dpd, as_of) = IF raw >= peak \/ cured THEN raw ELSE peak
  <2>1. ~(~get_active.cure_enabled \/ Staged(c) = {})
    BY <1>3, CureRules
  <2> QED BY <1>4, <1>5, <1>8, <1>9, <2>1 DEF _apply_curing, FirstSeen
<1> HIDE DEF cured
<1>13. cured
  BY <1>11, <1>12
<1>14. /\ rule.max_dpd = 0 /\ rule.min_qualifying_payments = 3
       /\ rule.min_observation_days = IF peak = 3 THEN 90 ELSE 30
  BY CureRules
<1> HIDE DEF rule
<1>15. /\ dpd <= 0 /\ _payments_since(c, day) >= 3
       /\ as_of - day >= IF peak = 3 THEN 90 ELSE 30
  BY <1>13, <1>14 DEF cured
<1>16. Len(received[c]) >= 3
  BY <1>15, PaymentsCounted
<1>17. as_of - day >= IF assessments[n].automated_stage = 3 THEN 90 ELSE 30
  <2>1. PICK stage \in 0..3 : stage = assessments[n].automated_stage
    BY <1>2
  <2>2. stage <= peak
    BY <1>7, <1>8, <2>1
  <2>3. as_of - day >= IF stage = 3 THEN 90 ELSE 30
    BY <1>15, <2>2
  <2> QED BY <2>1, <2>3
<1>18. assessments[first].automated_stage >= assessments[n].automated_stage
  BY <1>2, <1>7, <1>10
<1> QED BY <1>6, <1>9, <1>15, <1>16, <1>17, <1>18

-------------------------------------------------------------------------------
\* Steps that assess.

\* A row that is made from the present state.
Fresh(a, run) ==
  /\ a.contract \in Contracts /\ a.as_of \in Dates
  /\ Assessed(a, a.contract, a.as_of, run)
  /\ CureSeeded => \A n \in AssessmentsOf(a.contract) :
       a.automated_stage # NoStage /\ a.automated_stage < assessments[n].automated_stage
         => Cured(assessments[n], a)

LEMMA FreshRow ==
  ASSUME Typed, OInv, NEW c \in Contracts, NEW profile \in Profiles \cup NewProfiles,
         NEW as_of \in Dates, NEW run
  PROVE  /\ Fresh(_assess_one(c, profile, as_of, run), run)
         /\ _assess_one(c, profile, as_of, run).contract = c
<1>1. PICK a : a = _assess_one(c, profile, as_of, run)
  OBVIOUS
<1>2. Assessed(a, c, as_of, run) /\ a.dpd = profile.dpd
  BY <1>1, AssessedRow
<1>3. PICK raw \in 1..3 : \/ a.automated_stage = NoStage
                          \/ a.automated_stage = _apply_curing(c, raw, profile.dpd, as_of)
  BY <1>1, AssessedRow
<1>4. profile.dpd \in Nat /\ as_of \in Nat
  BY ProvisionsAssumption
<1>5. ASSUME CureSeeded, NEW n \in AssessmentsOf(c), a.automated_stage # NoStage,
             a.automated_stage < assessments[n].automated_stage
      PROVE  Cured(assessments[n], a)
  <2>1. _apply_curing(c, raw, profile.dpd, as_of) < assessments[n].automated_stage
    BY <1>3, <1>5
  <2>2. assessments[n].contract = c /\ a.as_of = as_of
    BY <1>2 DEF AssessmentsOf, Assessed
  <2> QED BY <1>2, <1>4, <1>5, <2>1, <2>2, CuredIfLower DEF Cured
<1>6. a.contract = c /\ a.as_of = as_of
  BY <1>2 DEF Assessed
<1> QED BY <1>1, <1>2, <1>5, <1>6 DEF Fresh

RowsKept == /\ DOMAIN assessments \subseteq DOMAIN assessments'
            /\ \A n \in DOMAIN assessments : assessments'[n] = assessments[n]

RowsAdded(run) ==
  /\ Numbered(assessments') /\ RowsKept
  /\ \A n \in DOMAIN assessments' \ DOMAIN assessments : Fresh(assessments'[n], run)
  /\ \A n, k \in DOMAIN assessments' \ DOMAIN assessments :
       assessments'[n].contract = assessments'[k].contract => n = k

LEMMA InitialAdds ==
  ASSUME Typed, OInv, NEW c \in Contracts, NEW profile \in NewProfiles,
         initial_assessment(c, profile)
  PROVE  /\ RowsAdded(NoRun)
         /\ DOMAIN assessments' \ DOMAIN assessments = {Len(assessments) + 1}
         /\ assessments'[Len(assessments) + 1].contract = c
         /\ allowance' = [allowance EXCEPT ![c] =
              @ + assessments'[Len(assessments) + 1].closing
                - assessments'[Len(assessments) + 1].opening]
<1>1. PICK a : a = _assess_one(c, profile, today, NoRun)
  OBVIOUS
<1>2. Fresh(a, NoRun) /\ a.contract = c
  BY <1>1, FreshRow DEF Typed
<1>3. /\ assessments' = Append(assessments, a)
      /\ allowance' = [allowance EXCEPT ![c] = @ + a.closing - a.opening]
  BY <1>1 DEF initial_assessment
<1>4. AddsRow(assessments', assessments, a)
  BY <1>3, AddAny DEF Typed
<1>5. Len(assessments) \in Nat /\ DOMAIN assessments = 1..Len(assessments)
  BY NumberedDomain DEF Typed
<1>6. DOMAIN assessments' \ DOMAIN assessments = {Len(assessments) + 1}
  BY <1>4, <1>5 DEF AddsRow
<1>7. assessments'[Len(assessments) + 1] = a
  BY <1>4 DEF AddsRow
<1>8. RowsAdded(NoRun)
  <2>1. Numbered(assessments') /\ RowsKept
    BY <1>4 DEF AddsRow, RowsKept
  <2> QED BY <1>2, <1>6, <1>7, <2>1 DEF RowsAdded
<1> QED BY <1>2, <1>3, <1>6, <1>7, <1>8

LEMMA RunAdds ==
  ASSUME Typed, OInv, NEW as_of \in Dates, NEW profile \in [Contracts -> Profiles],
         run_ecl(as_of, profile)
  PROVE  RowsAdded(Len(runs) + 1)
<1> DEFINE run == Len(runs) + 1
           S == {c \in Contracts : status[c] = "active"}
<1>1. IsFiniteSet(S)
  BY ProvisionsAssumption, FS_Subset
<1>2. PICK active : active = SetToSeq(S)
  OBVIOUS
<1>3. PICK m \in Nat : /\ active \in [1..m -> S]
                       /\ \A k, j \in 1..m : active[k] = active[j] => k = j
  BY <1>1, <1>2, SetListed
<1>4. PICK u : u = [n \in 1..m |-> _assess_one(active[n], profile[active[n]], as_of, run)]
  OBVIOUS
<1>5. assessments' = assessments \o u
  BY <1>2, <1>3, <1>4 DEF run_ecl
<1>6. AddsRows(assessments', assessments, m, u)
  <2>1. u = [k \in 1..m |-> u[k]]
    BY <1>4
  <2> QED BY <1>5, <2>1, AddTable DEF Typed
<1>7. ASSUME NEW k \in 1..m PROVE Fresh(u[k], run) /\ u[k].contract = active[k]
  <2>1. active[k] \in Contracts
    BY <1>3
  <2>2. profile[active[k]] \in Profiles
    BY <2>1
  <2> QED BY <1>4, <2>1, <2>2, FreshRow
<1> HIDE DEF run
<1>8. PICK L \in Nat : L = Len(assessments) /\ DOMAIN assessments = 1..L
  BY NumberedDomain DEF Typed
<1>9. /\ DOMAIN assessments' = 1..(L + m)
      /\ \A k \in 1..m : assessments'[L + k] = u[k]
      /\ \A k \in 1..L : assessments'[k] = assessments[k]
  BY <1>6, <1>8 DEF AddsRows
<1>10. \A n \in DOMAIN assessments' \ DOMAIN assessments :
         n - L \in 1..m /\ n \in Nat /\ L + (n - L) = n
  BY <1>8, <1>9
<1>11. \A n \in DOMAIN assessments' \ DOMAIN assessments : assessments'[n] = u[n - L]
  BY <1>9, <1>10
<1>12. RowsKept
  BY <1>8, <1>9 DEF RowsKept
<1>13. \A n \in DOMAIN assessments' \ DOMAIN assessments : Fresh(assessments'[n], run)
  BY <1>7, <1>10, <1>11
<1>14. ASSUME NEW n \in DOMAIN assessments' \ DOMAIN assessments,
              NEW k \in DOMAIN assessments' \ DOMAIN assessments,
              assessments'[n].contract = assessments'[k].contract
       PROVE  n = k
  <2>1. active[n - L] = active[k - L]
    BY <1>7, <1>10, <1>11, <1>14
  <2>2. n - L = k - L
    BY <1>3, <1>10, <2>1
  <2> QED BY <1>10, <2>2
<1>15. Numbered(assessments')
  BY <1>6 DEF AddsRows
<1> QED BY <1>12, <1>13, <1>14, <1>15 DEF RowsAdded, run

-------------------------------------------------------------------------------
\* The opening of each row is the closing of the row before it.

Before(n) == {k \in AssessmentsOf(assessments[n].contract) :
                k < n /\ assessments[k].as_of <= assessments[n].as_of}

Opens(n) ==
  \/ Before(n) = {} /\ assessments[n].opening = 0
  \/ \E m \in Before(n) : /\ \A k \in Before(n) \ {m} : Later(m, k)
                          /\ assessments[n].opening = assessments[m].closing

Opened == \A n \in DOMAIN assessments : Opens(n)

LEMMA OldRowsStay ==
  ASSUME Typed, RowsKept, Numbered(assessments'), NEW n \in DOMAIN assessments, Opens(n)
  PROVE  Opens(n)'
<1>1. DOMAIN assessments = 1..Len(assessments) /\ Len(assessments) \in Nat
  BY NumberedDomain DEF Typed
<1>2. DOMAIN assessments' = 1..Len(assessments') /\ Len(assessments') \in Nat
  BY NumberedDomain
<1>3. \A k \in DOMAIN assessments' : k < n => k \in DOMAIN assessments
  BY <1>1, <1>2
<1>4. Before(n)' = Before(n) /\ Before(n) \subseteq DOMAIN assessments
  BY <1>3 DEF Before, AssessmentsOf, RowsKept
<1>5. \A m, k \in Before(n) : Later(m, k)' <=> Later(m, k)
  BY <1>4 DEF Later, RowsKept
<1> QED BY <1>4, <1>5 DEF Opens, RowsKept

LEMMA OpenedStays ==
  ASSUME Typed, Opened, NEW run, RowsAdded(run)
  PROVE  Opened'
<1> SUFFICES ASSUME NEW n \in DOMAIN assessments' PROVE Opens(n)'
  BY DEF Opened
<1>1. Numbered(assessments') /\ RowsKept
  BY DEF RowsAdded
<1>2. CASE n \in DOMAIN assessments
  BY <1>1, <1>2, OldRowsStay DEF Opened
<1>3. CASE n \notin DOMAIN assessments
  <2>1. PICK c, as_of : c = assessments'[n].contract /\ as_of = assessments'[n].as_of
    OBVIOUS
  <2>2. assessments'[n].opening = _prior_assessment(c, as_of)
    BY <1>3, <2>1 DEF RowsAdded, Fresh, Assessed
  <2>3. \A k \in DOMAIN assessments : k < n
    <3>1. DOMAIN assessments = 1..Len(assessments) /\ Len(assessments) \in Nat
      BY NumberedDomain DEF Typed
    <3>2. DOMAIN assessments' = 1..Len(assessments') /\ Len(assessments') \in Nat
      BY <1>1, NumberedDomain
    <3> QED BY <1>3, <3>1, <3>2
  <2>4. \A k \in DOMAIN assessments' : k < n /\ assessments'[k].contract = c
                                         => k \in DOMAIN assessments
    <3> SUFFICES ASSUME NEW k \in DOMAIN assessments', k < n, assessments'[k].contract = c,
                        k \notin DOMAIN assessments
                 PROVE  FALSE
      OBVIOUS
    <3>1. k = n
      BY <1>3, <2>1 DEF RowsAdded
    <3>2. n \in Nat
      BY <1>1, NumberedDomain
    <3> QED BY <3>1, <3>2
  <2>5. Before(n)' = _prior(c, as_of) /\ _prior(c, as_of) \in SUBSET DOMAIN assessments
    BY <1>1, <2>1, <2>3, <2>4 DEF Before, _prior, AssessmentsOf, RowsKept
  <2>6. \A m, k \in _prior(c, as_of) : Later(m, k)' <=> Later(m, k)
    BY <1>1, <2>5 DEF Later, RowsKept
  <2>7. CASE _prior(c, as_of) = {}
    BY <2>2, <2>5, <2>7 DEF Opens, _prior_assessment
  <2>8. CASE _prior(c, as_of) # {}
    <3>1. PICK m \in _prior(c, as_of) :
            /\ m = LatestOf(_prior(c, as_of))
            /\ \A k \in _prior(c, as_of) \ {m} : Later(m, k)
      BY <2>5, <2>8, LatestMeaning
    <3>2. assessments'[n].opening = assessments[m].closing
      BY <2>2, <2>8, <3>1 DEF _prior_assessment
    <3>3. assessments'[m] = assessments[m]
      BY <1>1, <2>5 DEF RowsKept
    <3> QED BY <2>5, <2>6, <3>1, <3>2, <3>3 DEF Opens
  <2> QED BY <2>7, <2>8
<1> QED BY <1>2, <1>3

-------------------------------------------------------------------------------
\* What the allowance adds up to.

Counted(c) == {n \in AssessmentsOf(c) : \/ assessments[n].run = NoRun
                                        \/ runs[assessments[n].run].status = "posted"}

Accounted(c) == allowance[c] = SumFunctionOnSet(Moved, Counted(c)) - released[c]

LEMMA MovedMeaning ==
  ASSUME Typed, NEW n \in DOMAIN assessments
  PROVE  Moved[n] = assessments[n].closing - assessments[n].opening /\ Moved[n] \in Int
<1>1. PICK o, k, z \in Int : /\ o = assessments[n].opening /\ k = assessments[n].calculated
                             /\ z = assessments[n].closing
  BY RowMeaning DEF Assessment
<1>2. Moved[n] = (k - o) + (z - k)
  BY <1>1 DEF Moved, Movements
<1> QED BY <1>1, <1>2

MovedOK == \A n \in DOMAIN assessments :
  /\ assessments[n].closing \in Int /\ assessments[n].opening \in Int
  /\ Moved[n] = assessments[n].closing - assessments[n].opening /\ Moved[n] \in Int

LEMMA AllMoved == Typed => MovedOK
BY MovedMeaning, RowMeaning DEF MovedOK, Assessment

LEMMA RowsAreFinite ==
  ASSUME Typed, NEW S \in SUBSET DOMAIN assessments
  PROVE  IsFiniteSet(S) /\ SumFunctionOnSet(Moved, S) \in Int
<1>1. Len(assessments) \in Nat /\ DOMAIN assessments = 1..Len(assessments)
  BY NumberedDomain DEF Typed
<1>2. IsFiniteSet(S)
  BY <1>1, UpToIsFinite, FS_Subset
<1>3. \A n \in S : Moved[n] \in Int
  BY MovedMeaning
<1> QED BY <1>2, <1>3, SumInt

\* Rows that stay move what they moved.
LEMMA SumKept ==
  ASSUME Typed, RowsKept, NEW S \in SUBSET DOMAIN assessments
  PROVE  SumFunctionOnSet(Moved', S) = SumFunctionOnSet(Moved, S)
<1>1. PICK f : f = Moved
  OBVIOUS
<1>2. PICK g : g = Moved'
  OBVIOUS
<1>3. \A n \in S : f[n] = g[n]
  BY <1>1, <1>2 DEF Moved, Movements, RowsKept
<1>4. \A n \in S : f[n] \in Int /\ g[n] \in Int
  BY <1>1, <1>3, MovedMeaning
<1>5. SumFunctionOnSet(f, S) = SumFunctionOnSet(g, S)
  BY <1>3, <1>4, RowsAreFinite, SumSame
<1> QED BY <1>1, <1>2, <1>5

LEMMA InitialAccounted ==
  ASSUME Typed, OInv, NEW c \in Contracts, NEW profile \in NewProfiles,
         initial_assessment(c, profile), NEW d \in Contracts, Accounted(d), Typed'
  PROVE  Accounted(d)'
<1> DEFINE new == Len(assessments) + 1
<1>0. MovedOK'
  BY AllMoved, PTL
<1>1. /\ RowsAdded(NoRun) /\ DOMAIN assessments' \ DOMAIN assessments = {new}
      /\ assessments'[new].contract = c
      /\ allowance' = [allowance EXCEPT ![c] = @ + assessments'[new].closing
                                                 - assessments'[new].opening]
  BY InitialAdds
<1>2. runs' = runs /\ released' = released
  BY DEF initial_assessment
<1> HIDE DEF new
<1>3. RowsKept /\ new \in DOMAIN assessments' /\ new \notin DOMAIN assessments
  BY <1>1 DEF RowsAdded
<1>4. assessments'[new].run = NoRun
  BY <1>1 DEF RowsAdded, Fresh, Assessed
<1>5. Counted(d)' = IF d = c THEN Counted(d) \cup {new} ELSE Counted(d)
  BY <1>1, <1>2, <1>3, <1>4 DEF Counted, AssessmentsOf, RowsKept
<1>6. Counted(d) \in SUBSET DOMAIN assessments
  BY DEF Counted, AssessmentsOf
<1>7. SumFunctionOnSet(Moved', Counted(d)) = SumFunctionOnSet(Moved, Counted(d))
  BY <1>3, <1>6, SumKept
<1>8. allowance[d] \in Int /\ released[d] \in Int /\ SumFunctionOnSet(Moved, Counted(d)) \in Int
  BY <1>6, RowsAreFinite DEF Typed
<1>9. CASE d # c
  <2>1. allowance'[d] = allowance[d]
    BY <1>1, <1>9 DEF Typed
  <2> QED BY <1>2, <1>5, <1>7, <1>9, <2>1 DEF Accounted
<1>10. CASE d = c
  <2>1. PICK x, y \in Int : x = assessments'[new].closing /\ y = assessments'[new].opening
    BY <1>0, <1>3 DEF MovedOK
  <2>2. allowance'[d] = allowance[d] + x - y
    BY <1>1, <1>10, <2>1 DEF Typed
  <2>3. PICK g : g = Moved'
    OBVIOUS
  <2>4. g[new] = x - y /\ g[new] \in Int
    BY <1>0, <1>3, <2>1, <2>3 DEF MovedOK
  <2>5. SumFunctionOnSet(g, Counted(d) \cup {new}) = SumFunctionOnSet(g, Counted(d)) + g[new]
    <3>1. \A n \in Counted(d) : g[n] \in Int
      BY <1>0, <1>3, <1>6, <2>3 DEF RowsKept, MovedOK
    <3>2. IsFiniteSet(Counted(d)) /\ new \notin Counted(d)
      BY <1>3, <1>6, RowsAreFinite
    <3>3. PICK S : S = Counted(d)
      OBVIOUS
    <3>4. SumFunctionOnSet(g, S \cup {new}) = g[new] + SumFunctionOnSet(g, S)
      <4>1. IsFiniteSet(S) /\ new \notin S /\ \A n \in S \cup {new} : g[n] \in Int
        BY <2>4, <3>1, <3>2, <3>3
      <4> QED BY <4>1, SumWith
    <3>5. SumFunctionOnSet(g, S) \in Int
      BY <3>1, <3>2, <3>3, SumInt
    <3> QED BY <2>4, <3>3, <3>4, <3>5
  <2>6. SumFunctionOnSet(Moved', Counted(d)') = SumFunctionOnSet(Moved, Counted(d)) + (x - y)
    BY <1>5, <1>7, <1>10, <2>3, <2>4, <2>5
  <2> QED BY <1>2, <1>8, <2>2, <2>6 DEF Accounted
<1> QED BY <1>9, <1>10

LEMMA RunAccounted ==
  ASSUME Typed, OInv, NEW as_of \in Dates, NEW profile \in [Contracts -> Profiles],
         run_ecl(as_of, profile), NEW d \in Contracts, Accounted(d)
  PROVE  Accounted(d)'
<1> DEFINE run == Len(runs) + 1
<1>1. RowsAdded(run)
  BY RunAdds
<1>2. /\ runs' = Append(runs, [as_of |-> as_of, status |-> "completed"])
      /\ allowance' = allowance /\ released' = released
  BY DEF run_ecl
<1>3. Len(runs) \in Nat /\ DOMAIN runs = 1..Len(runs)
  BY LenProperties DEF Typed
<1>4. runs'[run].status = "completed" /\ \A r \in 1..Len(runs) : runs'[r] = runs[r]
  <2>1. [as_of |-> as_of, status |-> "completed"]
          \in [as_of: Dates, status: {"completed", "posted"}]
    OBVIOUS
  <2> QED BY <1>2, <2>1, AppendProperties DEF Typed
<1> HIDE DEF run
<1>5. RowsKept
  BY <1>1 DEF RowsAdded
<1>6. \A n \in DOMAIN assessments' \ DOMAIN assessments : assessments'[n].run = run
  BY <1>1 DEF RowsAdded, Fresh, Assessed
<1>7. run # NoRun
  BY <1>3 DEF run, NoRun
<1>8. ASSUME NEW n \in DOMAIN assessments
      PROVE  assessments[n].run = NoRun \/ runs'[assessments[n].run] = runs[assessments[n].run]
  <2>1. assessments[n].run \in 0..Len(runs)
    BY RowMeaning DEF Assessment
  <2> QED BY <1>3, <1>4, <2>1 DEF NoRun
<1>9. Counted(d)' = Counted(d)
  <2>1. \A n \in DOMAIN assessments' \ DOMAIN assessments : n \notin Counted(d)'
    BY <1>4, <1>6, <1>7 DEF Counted
  <2>2. \A n \in DOMAIN assessments : n \in Counted(d)' <=> n \in Counted(d)
    BY <1>5, <1>8 DEF Counted, AssessmentsOf, RowsKept
  <2> QED BY <1>5, <2>1, <2>2 DEF Counted, AssessmentsOf, RowsKept
<1>10. Counted(d) \in SUBSET DOMAIN assessments
  BY DEF Counted, AssessmentsOf
<1>11. SumFunctionOnSet(Moved', Counted(d)) = SumFunctionOnSet(Moved, Counted(d))
  BY <1>5, <1>10, SumKept
<1> QED BY <1>2, <1>9, <1>11 DEF Accounted

LEMMA PostAccounted ==
  ASSUME Typed, NEW run \in DOMAIN runs, post_run(run), NEW d \in Contracts, Accounted(d)
  PROVE  Accounted(d)'
<1>1. /\ runs[run].status = "completed" /\ runs' = [runs EXCEPT ![run].status = "posted"]
      /\ allowance' = [c \in Contracts |-> allowance[c] + Posted(c, run)]
      /\ assessments' = assessments /\ released' = released
  BY DEF post_run
<1>2. PICK R : R = {n \in RowsOf(run) : assessments[n].contract = d}
  OBVIOUS
<1>3. R \in SUBSET DOMAIN assessments /\ Counted(d) \in SUBSET DOMAIN assessments
  BY <1>2 DEF RowsOf, Counted, AssessmentsOf
<1>4. Len(runs) \in Nat /\ DOMAIN runs = 1..Len(runs)
  BY LenProperties DEF Typed
<1>5. /\ runs'[run].status = "posted"
      /\ \A r \in DOMAIN runs : r # run => runs'[r] = runs[r]
  <2>1. PICK row \in [as_of: Dates, status: {"completed", "posted"}] : row = runs[run]
    BY <1>4, ElementOfSeq DEF Typed
  <2>2. [row EXCEPT !.status = "posted"].status = "posted"
    OBVIOUS
  <2>3. runs' = [runs EXCEPT ![run] = [row EXCEPT !.status = "posted"]]
    BY <1>1, <2>1
  <2> QED BY <2>2, <2>3
<1>6. run # NoRun
  BY <1>4 DEF NoRun
<1>7. Counted(d) \cap R = {}
  BY <1>1, <1>2, <1>6 DEF Counted, RowsOf
<1>8. \A n \in DOMAIN assessments : assessments[n].run = NoRun \/ assessments[n].run \in DOMAIN runs
  <2> SUFFICES ASSUME NEW n \in DOMAIN assessments
               PROVE  assessments[n].run = NoRun \/ assessments[n].run \in DOMAIN runs
    OBVIOUS
  <2>1. assessments[n].run \in 0..Len(runs)
    BY RowMeaning DEF Assessment
  <2> QED BY <1>4, <2>1 DEF NoRun
<1>9. Counted(d)' = Counted(d) \cup R
  <2>1. \A n \in DOMAIN assessments : n \in Counted(d)' <=> n \in Counted(d) \cup R
    BY <1>1, <1>2, <1>5, <1>6, <1>8 DEF Counted, AssessmentsOf, RowsOf
  <2>2. Counted(d)' \subseteq DOMAIN assessments
    BY <1>1 DEF Counted, AssessmentsOf
  <2> QED BY <1>3, <2>1, <2>2
<1>10. Moved' = Moved
  BY <1>1 DEF Moved, Movements
<1>11. Posted(d, run) = SumFunctionOnSet(Moved, R)
  BY <1>2 DEF Posted
<1>12. SumFunctionOnSet(Moved, Counted(d) \cup R)
         = SumFunctionOnSet(Moved, Counted(d)) + SumFunctionOnSet(Moved, R)
  <2>1. PICK f, S : f = Moved /\ S = Counted(d)
    OBVIOUS
  <2>2. \A n \in S \cup R : f[n] \in Int
    BY <1>3, <2>1, MovedMeaning
  <2>3. IsFiniteSet(S) /\ IsFiniteSet(R)
    BY <1>3, <2>1, RowsAreFinite
  <2> QED BY <1>7, <2>1, <2>2, <2>3, SumUnion
<1>13. /\ allowance[d] \in Int /\ released[d] \in Int
       /\ SumFunctionOnSet(Moved, Counted(d)) \in Int /\ SumFunctionOnSet(Moved, R) \in Int
  BY <1>3, RowsAreFinite DEF Typed
<1>14. allowance'[d] = allowance[d] + SumFunctionOnSet(Moved, R)
  BY <1>1, <1>11
<1>15. SumFunctionOnSet(Moved, Counted(d))'
         = SumFunctionOnSet(Moved, Counted(d)) + SumFunctionOnSet(Moved, R)
  BY <1>9, <1>10, <1>12
<1> QED BY <1>1, <1>13, <1>14, <1>15 DEF Accounted

LEMMA ReleaseAccounted ==
  ASSUME Typed, NEW c \in Contracts, NEW full \in BOOLEAN, ReleaseByWriteOff(c, full),
         AssessmentsOf(c) # {}, NEW d \in Contracts, Accounted(d)
  PROVE  Accounted(d)'
<1>1. PICK n \in DOMAIN assessments : n = LatestOf(AssessmentsOf(c))
  BY RowsOfContract, LatestMeaning
<1>2. PICK x \in Int : x = latest_assessment(c).closing
  BY <1>1, RowMeaning DEF Assessment, latest_assessment
<1>3. /\ released[c] = 0 /\ allowance' = [allowance EXCEPT ![c] = @ - x]
      /\ released' = [released EXCEPT ![c] = x] /\ assessments' = assessments /\ runs' = runs
  BY <1>2 DEF ReleaseByWriteOff
<1>4. Counted(d)' = Counted(d) /\ Moved' = Moved
  BY <1>3 DEF Counted, AssessmentsOf, Moved, Movements
<1>5. Counted(d) \in SUBSET DOMAIN assessments
  BY DEF Counted, AssessmentsOf
<1>6. allowance[d] \in Int /\ released[d] \in Int /\ SumFunctionOnSet(Moved, Counted(d)) \in Int
  BY <1>5, RowsAreFinite DEF Typed
<1>7. CASE d # c
  <2>1. allowance'[d] = allowance[d] /\ released'[d] = released[d]
    BY <1>3, <1>7 DEF Typed
  <2> QED BY <1>4, <2>1 DEF Accounted
<1>8. CASE d = c
  <2>1. allowance'[d] = allowance[d] - x /\ released'[d] = x /\ released[d] = 0
    BY <1>3, <1>8 DEF Typed
  <2> QED BY <1>4, <1>6, <2>1 DEF Accounted
<1> QED BY <1>7, <1>8

-------------------------------------------------------------------------------
\* In the order of their dates, the rows of a contract add up to the last closing.

InOrder(c) == \A n, k \in AssessmentsOf(c) : n < k => assessments[n].as_of <= assessments[k].as_of

LEMMA LatestIsLast ==
  ASSUME Typed, NEW c, InOrder(c), NEW rows \in SUBSET AssessmentsOf(c), NEW m \in rows,
         \A k \in rows \ {m} : Later(m, k), NEW k \in rows
  PROVE  k <= m
<1>1. m \in DOMAIN assessments /\ k \in DOMAIN assessments
  BY DEF AssessmentsOf
<1>2. PICK x, y \in Nat : x = assessments[m].as_of /\ y = assessments[k].as_of
  BY <1>1, DayMeaning
<1>3. m \in Nat /\ k \in Nat
  BY <1>1, DayMeaning
<1>4. CASE m < k
  <2>1. x <= y
    BY <1>2, <1>4 DEF InOrder
  <2>2. Later(m, k)
    BY <1>3, <1>4
  <2> QED BY <1>2, <1>3, <1>4, <2>1, <2>2 DEF Later
<1> QED BY <1>3, <1>4

Upto(c, m) == {n \in AssessmentsOf(c) : n <= m}
AddsUp(c, m) ==
  \/ Upto(c, m) = {}
  \/ \E last \in Upto(c, m) :
       /\ \A k \in Upto(c, m) : k <= last
       /\ SumFunctionOnSet(Moved, Upto(c, m)) = assessments[last].closing

LEMMA NextRowAdds ==
  ASSUME Typed, Opened, NEW c, InOrder(c), NEW m \in Nat, AddsUp(c, m)
  PROVE  AddsUp(c, m + 1)
<1>1. \A n \in AssessmentsOf(c) : n \in DOMAIN assessments /\ n \in Nat
  BY DayMeaning DEF AssessmentsOf
<1>2. CASE m + 1 \notin AssessmentsOf(c)
  <2>1. Upto(c, m + 1) = Upto(c, m)
    BY <1>1, <1>2 DEF Upto
  <2> QED BY <2>1 DEF AddsUp
<1>3. CASE m + 1 \in AssessmentsOf(c)
  <2>1. Upto(c, m + 1) = Upto(c, m) \cup {m + 1} /\ m + 1 \notin Upto(c, m)
    BY <1>1, <1>3 DEF Upto
  <2>2. Upto(c, m) \in SUBSET AssessmentsOf(c) /\ Upto(c, m) \in SUBSET DOMAIN assessments
    BY <1>1 DEF Upto
  <2>3. m + 1 \in DOMAIN assessments /\ assessments[m + 1].contract = c
    BY <1>3 DEF AssessmentsOf
  <2>4. Before(m + 1) = Upto(c, m)
    <3>1. \A k \in AssessmentsOf(c) : k < m + 1 <=> k <= m
      BY <1>1
    <3>2. \A k \in AssessmentsOf(c) : k < m + 1 =>
            assessments[k].as_of <= assessments[m + 1].as_of
      BY <1>3 DEF InOrder
    <3> QED BY <2>3, <3>1, <3>2 DEF Before, Upto
  <2>5. /\ assessments[m + 1].closing \in Int /\ assessments[m + 1].opening \in Int
        /\ Moved[m + 1] = assessments[m + 1].closing - assessments[m + 1].opening
        /\ Moved[m + 1] \in Int
    BY <2>3, AllMoved DEF MovedOK
  <2>6. SumFunctionOnSet(Moved, Upto(c, m + 1))
          = Moved[m + 1] + SumFunctionOnSet(Moved, Upto(c, m))
    <3>1. PICK f, S : f = Moved /\ S = Upto(c, m)
      OBVIOUS
    <3>2. \A n \in S \cup {m + 1} : f[n] \in Int
      BY <2>2, <2>3, <3>1, MovedMeaning
    <3>3. IsFiniteSet(S) /\ m + 1 \notin S
      BY <2>1, <2>2, <3>1, RowsAreFinite
    <3>4. SumFunctionOnSet(f, S \cup {m + 1}) = f[m + 1] + SumFunctionOnSet(f, S)
      BY <3>2, <3>3, SumWith
    <3> QED BY <2>1, <3>1, <3>4
  <2>7. \A k \in Upto(c, m + 1) : k <= m + 1
    BY <1>1 DEF Upto
  <2>8. SumFunctionOnSet(Moved, Upto(c, m)) = assessments[m + 1].opening
    <3>1. Opens(m + 1)
      BY <2>3 DEF Opened
    <3>2. CASE Upto(c, m) = {}
      <4>1. assessments[m + 1].opening = 0
        BY <2>4, <3>1, <3>2 DEF Opens
      <4> QED BY <3>2, <4>1, SumEmpty
    <3>3. CASE Upto(c, m) # {}
      <4>1. PICK last \in Upto(c, m) :
              /\ \A k \in Upto(c, m) : k <= last
              /\ SumFunctionOnSet(Moved, Upto(c, m)) = assessments[last].closing
        BY <3>3 DEF AddsUp
      <4>2. PICK prior \in Upto(c, m) :
              /\ \A k \in Upto(c, m) \ {prior} : Later(prior, k)
              /\ assessments[m + 1].opening = assessments[prior].closing
        BY <2>4, <3>1, <3>3 DEF Opens
      <4>3. last <= prior
        BY <2>2, <4>2, LatestIsLast
      <4>4. prior <= last /\ prior \in Nat /\ last \in Nat
        BY <1>1, <2>2, <4>1
      <4>5. prior = last
        BY <4>3, <4>4
      <4> QED BY <4>1, <4>2, <4>5
    <3> QED BY <3>2, <3>3
  <2>9. SumFunctionOnSet(Moved, Upto(c, m + 1)) = assessments[m + 1].closing
    BY <2>5, <2>6, <2>8
  <2>10. m + 1 \in Upto(c, m + 1)
    BY <2>1
  <2> QED BY <2>7, <2>9, <2>10 DEF AddsUp
<1> QED BY <1>2, <1>3

LEMMA RowsAddUp ==
  ASSUME Typed, Opened, NEW c, InOrder(c), AssessmentsOf(c) # {}
  PROVE  SumFunctionOnSet(Moved, AssessmentsOf(c)) = latest_assessment(c).closing
<1> DEFINE N == {m \in Nat : AddsUp(c, m)}
<1>1. Len(assessments) \in Nat /\ DOMAIN assessments = 1..Len(assessments)
  BY NumberedDomain DEF Typed
<1>2. 0 \in N
  <2>1. Upto(c, 0) = {}
    BY <1>1 DEF Upto, AssessmentsOf
  <2> QED BY <2>1 DEF AddsUp
<1>3. \A m \in Nat : m \in N => m + 1 \in N
  BY NextRowAdds
<1>4. Nat \subseteq N
  <2> HIDE DEF N
  <2> QED BY <1>2, <1>3, NatSetInduction
<1>5. AddsUp(c, Len(assessments))
  BY <1>1, <1>4
<1>6. Upto(c, Len(assessments)) = AssessmentsOf(c)
  BY <1>1 DEF Upto, AssessmentsOf
<1>7. PICK last \in AssessmentsOf(c) :
        /\ \A k \in AssessmentsOf(c) : k <= last
        /\ SumFunctionOnSet(Moved, AssessmentsOf(c)) = assessments[last].closing
  BY <1>5, <1>6 DEF AddsUp
<1>8. PICK latest \in AssessmentsOf(c) :
        /\ latest = LatestOf(AssessmentsOf(c))
        /\ \A k \in AssessmentsOf(c) \ {latest} : Later(latest, k)
  BY RowsOfContract, LatestMeaning
<1>9. last <= latest
  <2>1. AssessmentsOf(c) \in SUBSET AssessmentsOf(c)
    OBVIOUS
  <2> QED BY <1>8, <2>1, LatestIsLast
<1>10. latest <= last /\ latest \in Nat /\ last \in Nat
  BY <1>1, <1>7 DEF AssessmentsOf
<1>11. latest = last
  BY <1>9, <1>10
<1> QED BY <1>7, <1>8, <1>11 DEF latest_assessment

-------------------------------------------------------------------------------
\* The types, step by step.

LEMMA TypedStart == Init => Typed
<1> SUFFICES ASSUME Init PROVE Typed
  OBVIOUS
<1>1. config = << <<>> >>
  BY DEF Init
<1>2. Len(config) = 1 /\ config[1] = <<>> /\ DOMAIN config = {1}
  BY <1>1
<1>3. Numbered(config)
  <2>1. config \in Seq({ <<>> })
    BY <1>1
  <2>2. {config[n] : n \in DOMAIN config} = { <<>> }
    BY <1>2
  <2> QED BY <2>1, <2>2 DEF Numbered
<1>4. DOMAIN config[Len(config)] = {}
  BY <1>2
<1>5. /\ today = 0 /\ status = [c \in Contracts |-> "created"]
      /\ received = [c \in Contracts |-> <<>>] /\ runs = <<>> /\ assessments = <<>>
      /\ allowance = [c \in Contracts |-> 0] /\ released = [c \in Contracts |-> 0]
  BY DEF Init
<1>6. DOMAIN assessments = {} /\ Numbered(assessments)
  BY <1>5 DEF Numbered
<1>7. received \in [Contracts -> Seq(Dates)]
  <2>1. <<>> \in Seq(Dates)
    OBVIOUS
  <2> QED BY <1>5, <2>1
<1>8. runs \in Seq([as_of: Dates, status: {"completed", "posted"}])
  BY <1>5
<1>9. today \in Dates
  BY <1>5, ProvisionsAssumption
<1> QED BY <1>2, <1>3, <1>4, <1>5, <1>6, <1>7, <1>8, <1>9 DEF Typed

\* Without a new run or a new row, the rows stay as they are.
LEMMA TypesOfRows ==
  ASSUME Typed, NEW run \in 0..Len(runs'), RowsAdded(run), Len(runs') >= Len(runs),
         Len(runs') \in Nat
  PROVE  \A n \in DOMAIN assessments' : Assessment(assessments[n])'
<1> SUFFICES ASSUME NEW n \in DOMAIN assessments' PROVE Assessment(assessments[n])'
  OBVIOUS
<1>1. Len(runs) \in Nat
  BY LenProperties DEF Typed
<1>2. CASE n \in DOMAIN assessments
  <2>1. Assessment(assessments[n]) /\ assessments'[n] = assessments[n]
    BY <1>2, RowMeaning DEF RowsAdded, RowsKept
  <2>2. assessments[n].run \in 0..Len(runs')
    BY <1>1, <2>1 DEF Assessment
  <2> QED BY <2>1, <2>2 DEF Assessment
<1>3. CASE n \notin DOMAIN assessments
  <2>1. PICK a : a = assessments'[n]
    OBVIOUS
  <2>2. Fresh(a, run)
    BY <1>3, <2>1 DEF RowsAdded
  <2> QED BY <2>1, <2>2 DEF Fresh, Assessed, Assessment
<1> QED BY <1>2, <1>3

LEMMA PaymentsTyped ==
  ASSUME Typed, NEW c \in Contracts, NEW k \in PaymentCounts, PaymentsArrive(c, k)
  PROVE  Typed'
<1>1. PICK s \in Seq(Dates) : s = received[c]
  BY DEF Typed
<1>2. PICK u : u = [n \in 1..k |-> today]
  OBVIOUS
<1>3. k \in Nat /\ today \in Dates
  BY ProvisionsAssumption DEF Typed
<1>4. u \in Seq(Dates)
  BY <1>2, <1>3, IsASeq
<1>5. s \o u \in Seq(Dates)
  BY <1>4, ConcatProperties
<1>6. received' = [received EXCEPT ![c] = s \o u]
  BY <1>1, <1>2 DEF PaymentsArrive
<1>7. received' \in [Contracts -> Seq(Dates)]
  BY <1>5, <1>6 DEF Typed
<1> QED BY <1>7 DEF PaymentsArrive, Typed, Assessment, engine

LEMMA InitialTyped ==
  ASSUME Typed, OInv, NEW c \in Contracts, NEW profile \in NewProfiles,
         initial_assessment(c, profile)
  PROVE  Typed'
<1> DEFINE new == Len(assessments) + 1
<1>1. /\ RowsAdded(NoRun) /\ DOMAIN assessments' \ DOMAIN assessments = {new}
      /\ allowance' = [allowance EXCEPT ![c] = @ + assessments'[new].closing
                                                 - assessments'[new].opening]
  BY InitialAdds
<1>2. /\ status' = [status EXCEPT ![c] = "active"]
      /\ UNCHANGED <<today, received, config, overrides, runs, released>>
  BY DEF initial_assessment
<1> HIDE DEF new
<1>3. Len(runs') \in Nat /\ Len(runs') >= Len(runs) /\ NoRun \in 0..Len(runs')
  BY <1>2, LenProperties DEF Typed, NoRun
<1>4. \A n \in DOMAIN assessments' : Assessment(assessments[n])'
  BY <1>1, <1>3, TypesOfRows
<1>5. PICK x, y \in Int : x = assessments'[new].closing /\ y = assessments'[new].opening
  BY <1>1, <1>4 DEF Assessment
<1>6. allowance' \in [Contracts -> Int]
  BY <1>1, <1>5 DEF Typed
<1>7. Numbered(assessments')
  BY <1>1 DEF RowsAdded
<1> QED BY <1>2, <1>4, <1>6, <1>7 DEF Typed

LEMMA RunTyped ==
  ASSUME Typed, OInv, NEW as_of \in Dates, NEW profile \in [Contracts -> Profiles],
         run_ecl(as_of, profile)
  PROVE  Typed'
<1>1. RowsAdded(Len(runs) + 1)
  BY RunAdds
<1>2. /\ runs' = Append(runs, [as_of |-> as_of, status |-> "completed"])
      /\ UNCHANGED <<today, inputs, config, overrides, allowance, released>>
  BY DEF run_ecl
<1>3. PICK row \in [as_of: Dates, status: {"completed", "posted"}] :
        row = [as_of |-> as_of, status |-> "completed"]
  OBVIOUS
<1>4. /\ runs' \in Seq([as_of: Dates, status: {"completed", "posted"}])
      /\ Len(runs') = Len(runs) + 1 /\ Len(runs) \in Nat
  BY <1>2, <1>3, AppendProperties, LenProperties DEF Typed
<1>5. \A n \in DOMAIN assessments' : Assessment(assessments[n])'
  BY <1>1, <1>4, TypesOfRows
<1>6. Numbered(assessments')
  BY <1>1 DEF RowsAdded
<1> QED BY <1>2, <1>4, <1>5, <1>6 DEF Typed, inputs

LEMMA PostTyped ==
  ASSUME Typed, NEW run \in DOMAIN runs, post_run(run)
  PROVE  Typed'
<1>1. /\ runs' = [runs EXCEPT ![run].status = "posted"]
      /\ allowance' = [c \in Contracts |-> allowance[c] + Posted(c, run)]
      /\ UNCHANGED <<today, inputs, config, overrides, assessments, released>>
  BY DEF post_run
<1>2. Len(runs) \in Nat /\ DOMAIN runs = 1..Len(runs)
  BY LenProperties DEF Typed
<1>3. PICK row \in [as_of: Dates, status: {"completed", "posted"}] : row = runs[run]
  BY <1>2, ElementOfSeq DEF Typed
<1>4. PICK new \in [as_of: Dates, status: {"completed", "posted"}] :
        new = [row EXCEPT !.status = "posted"]
  OBVIOUS
<1>5. runs' = [runs EXCEPT ![run] = new]
  BY <1>1, <1>3, <1>4
<1>6. /\ runs' \in Seq([as_of: Dates, status: {"completed", "posted"}])
      /\ Len(runs') = Len(runs)
  BY <1>2, <1>5, ExceptSeq DEF Typed
<1>7. \A c \in Contracts : Posted(c, run) \in Int
  <2> SUFFICES ASSUME NEW c \in Contracts PROVE Posted(c, run) \in Int
    OBVIOUS
  <2>1. {n \in RowsOf(run) : assessments[n].contract = c} \in SUBSET DOMAIN assessments
    BY DEF RowsOf
  <2> QED BY <2>1, RowsAreFinite DEF Posted
<1>8. allowance' \in [Contracts -> Int]
  BY <1>1, <1>7 DEF Typed
<1> QED BY <1>1, <1>6, <1>8 DEF Typed, inputs, Assessment

LEMMA ReleaseTyped ==
  ASSUME Typed, NEW c \in Contracts, NEW full \in BOOLEAN, ReleaseByWriteOff(c, full),
         AssessmentsOf(c) # {}
  PROVE  Typed'
<1>1. PICK n \in DOMAIN assessments : n = LatestOf(AssessmentsOf(c))
  BY RowsOfContract, LatestMeaning
<1>2. PICK x \in Int : x = latest_assessment(c).closing
  BY <1>1, RowMeaning DEF Assessment, latest_assessment
<1>3. PICK new \in {"closed", "active"} : status' = [status EXCEPT ![c] = new]
  BY DEF ReleaseByWriteOff
<1>4. /\ allowance' = [allowance EXCEPT ![c] = @ - x] /\ released' = [released EXCEPT ![c] = x]
      /\ UNCHANGED <<today, received, config, overrides, runs, assessments>>
  BY <1>2 DEF ReleaseByWriteOff
<1>5. allowance' \in [Contracts -> Int] /\ released' \in [Contracts -> Int]
  BY <1>4 DEF Typed
<1>6. status' \in [Contracts -> {"created", "active", "closed"}]
  BY <1>3 DEF Typed
<1> QED BY <1>4, <1>5, <1>6 DEF Typed, Assessment

LEMMA VersionTyped ==
  ASSUME Typed, NEW changes \in ConfigChanges, activate_version(changes)
  PROVE  /\ Typed'
         /\ \A parameter : parameter \in DOMAIN config'[Len(config')]
              => parameter \in DOMAIN config[Len(config)] \/ parameter \in DOMAIN changes
<1>1. PICK f : f = config[Len(config)]
  OBVIOUS
<1>2. PICK u : u = Updated(f, changes)
  OBVIOUS
<1>3. /\ config' = Append(config, u)
      /\ UNCHANGED <<today, inputs, overrides, engine>>
  BY <1>1, <1>2 DEF activate_version
<1>4. AddsRow(config', config, u)
  BY <1>3, AddAny DEF Typed
<1>5. Len(config) \in Nat /\ DOMAIN config = 1..Len(config) /\ Numbered(config')
  BY <1>4, NumberedDomain DEF Typed, AddsRow
<1>6. Len(config') = Len(config) + 1
  <2>1. DOMAIN config' = 1..(Len(config) + 1)
    BY <1>4, <1>5 DEF AddsRow
  <2>2. DOMAIN config' = 1..Len(config') /\ Len(config') \in Nat
    BY <1>5, NumberedDomain
  <2> QED BY <1>5, <2>1, <2>2
<1>7. config'[Len(config')] = u /\ Len(config') # 0
  BY <1>4, <1>5, <1>6 DEF AddsRow
<1>8. DOMAIN u = DOMAIN f \cup DOMAIN changes
  BY <1>2 DEF Updated
<1>9. \A parameter \in DOMAIN u :
        u[parameter] = IF parameter \in DOMAIN changes THEN changes[parameter] ELSE f[parameter]
  BY <1>2, <1>8, UpdatedValue
<1>10. \A parameter \in DOMAIN changes : Shaped(parameter, changes[parameter])
  BY ProvisionsAssumption
<1>11. \A parameter \in DOMAIN f : Shaped(parameter, f[parameter])
  BY <1>1 DEF Typed
<1>12. \A parameter \in DOMAIN u : Shaped(parameter, u[parameter])
  BY <1>8, <1>9, <1>10, <1>11
<1>13. Typed'
  BY <1>3, <1>5, <1>7, <1>12 DEF Typed, Assessment, inputs, engine
<1> QED BY <1>1, <1>7, <1>8, <1>13

-------------------------------------------------------------------------------
\* All steps together.

Delivered == \A c \in Contracts : status[c] = "active" => AssessmentsOf(c) # {}

EInv == /\ OInv /\ Typed /\ Opened /\ Delivered
        /\ \A c \in Contracts : Accounted(c)

LEMMA EngineStarts == Init => EInv
<1> SUFFICES ASSUME Init PROVE EInv
  OBVIOUS
<1>1. OInv /\ Typed
  BY OverridesStart, TypedStart
<1>2. /\ assessments = <<>> /\ status = [c \in Contracts |-> "created"]
      /\ allowance = [c \in Contracts |-> 0] /\ released = [c \in Contracts |-> 0]
  BY DEF Init
<1>3. DOMAIN assessments = {}
  BY <1>2
<1>4. Opened /\ Delivered
  BY <1>2, <1>3 DEF Opened, Delivered
<1>5. \A c \in Contracts : Accounted(c)
  <2> SUFFICES ASSUME NEW c \in Contracts PROVE Accounted(c)
    OBVIOUS
  <2>1. Counted(c) = {}
    BY <1>3 DEF Counted, AssessmentsOf
  <2>2. SumFunctionOnSet(Moved, Counted(c)) = 0
    BY <2>1, SumEmpty
  <2>3. allowance[c] = 0 /\ released[c] = 0
    BY <1>2
  <2> QED BY <2>2, <2>3 DEF Accounted
<1> QED BY <1>1, <1>4, <1>5 DEF EInv

\* What a step does to the engine.
LEMMA Steps ==
  ASSUME [Next]_vars
  PROVE  \/ \E c \in Contracts, profile \in NewProfiles : initial_assessment(c, profile)
         \/ \E as_of \in Dates, profile \in [Contracts -> Profiles] : run_ecl(as_of, profile)
         \/ \E run \in DOMAIN runs : post_run(run)
         \/ \E c \in Contracts, full \in BOOLEAN : ReleaseByWriteOff(c, full)
         \/ \E changes \in ConfigChanges : activate_version(changes)
         \/ \E c \in Contracts, k \in PaymentCounts : PaymentsArrive(c, k)
         \/ /\ UNCHANGED <<received, config, engine>>
            /\ today' = today \/ today' \in Dates
            /\ status' = status \/ \E c \in Contracts : status' = [status EXCEPT ![c] = "closed"]
BY DEF Next, vars, NextDay, ContractCloses, RequestOverride, ApproveOverride, RejectOverride,
       cancel_override, expire_due, inputs, engine

\* Steps that leave the engine alone.
LEMMA EngineAlone ==
  ASSUME Opened, \A c \in Contracts : Accounted(c), UNCHANGED engine
  PROVE  Opened' /\ \A c \in Contracts : Accounted(c)'
<1>1. assessments' = assessments /\ runs' = runs /\ allowance' = allowance /\ released' = released
  BY DEF engine
<1>2. Opened'
  BY <1>1 DEF Opened, Opens, Before, AssessmentsOf, Later
<1>3. Moved' = Moved /\ \A c \in Contracts : Counted(c)' = Counted(c)
  BY <1>1 DEF Moved, Movements, Counted, AssessmentsOf
<1> QED BY <1>1, <1>2, <1>3 DEF Accounted

LEMMA TypedKept ==
  ASSUME OInv, Typed, Delivered, [Next]_vars
  PROVE  Typed'
<1>1. CASE \E c \in Contracts, profile \in NewProfiles : initial_assessment(c, profile)
  BY <1>1, InitialTyped
<1>2. CASE \E as_of \in Dates, profile \in [Contracts -> Profiles] : run_ecl(as_of, profile)
  BY <1>2, RunTyped
<1>3. CASE \E run \in DOMAIN runs : post_run(run)
  BY <1>3, PostTyped
<1>4. CASE \E c \in Contracts, full \in BOOLEAN : ReleaseByWriteOff(c, full)
  <2>1. PICK c \in Contracts, full \in BOOLEAN : ReleaseByWriteOff(c, full)
    BY <1>4
  <2>2. AssessmentsOf(c) # {}
    BY <2>1 DEF ReleaseByWriteOff, Delivered
  <2> QED BY <2>1, <2>2, ReleaseTyped
<1>5. CASE \E changes \in ConfigChanges : activate_version(changes)
  BY <1>5, VersionTyped
<1>6. CASE \E c \in Contracts, k \in PaymentCounts : PaymentsArrive(c, k)
  BY <1>6, PaymentsTyped
<1>7. CASE /\ UNCHANGED <<received, config, engine>>
           /\ today' = today \/ today' \in Dates
           /\ \/ status' = status
              \/ \E c \in Contracts : status' = [status EXCEPT ![c] = "closed"]
  <2>1. status' \in [Contracts -> {"created", "active", "closed"}]
    BY <1>7 DEF Typed
  <2>2. today' \in Dates
    BY <1>7 DEF Typed
  <2> QED BY <1>7, <2>1, <2>2 DEF Typed, Assessment, engine
<1> QED BY <1>1, <1>2, <1>3, <1>4, <1>5, <1>6, <1>7, Steps

LEMMA DeliveredKept ==
  ASSUME OInv, Typed, Delivered, [Next]_vars
  PROVE  Delivered'
<1>1. CASE \E c \in Contracts, profile \in NewProfiles : initial_assessment(c, profile)
  <2>1. PICK c \in Contracts, profile \in NewProfiles : initial_assessment(c, profile)
    BY <1>1
  <2>2. /\ RowsKept /\ Len(assessments) + 1 \in DOMAIN assessments'
        /\ assessments'[Len(assessments) + 1].contract = c
    BY <2>1, InitialAdds DEF RowsAdded
  <2>3. status' = [status EXCEPT ![c] = "active"]
    BY <2>1 DEF initial_assessment
  <2> QED BY <2>2, <2>3 DEF Delivered, AssessmentsOf, RowsKept, Typed
<1>2. CASE \E as_of \in Dates, profile \in [Contracts -> Profiles] : run_ecl(as_of, profile)
  <2>1. RowsKept /\ status' = status
    BY <1>2, RunAdds DEF RowsAdded, run_ecl, inputs
  <2> QED BY <2>1 DEF Delivered, AssessmentsOf, RowsKept
<1>3. CASE assessments' = assessments /\ \A c \in Contracts : status'[c] = "active" => status[c] = "active"
  BY <1>3 DEF Delivered, AssessmentsOf
<1>4. CASE \E c \in Contracts, full \in BOOLEAN : ReleaseByWriteOff(c, full)
  <2>1. PICK c \in Contracts, full \in BOOLEAN : ReleaseByWriteOff(c, full)
    BY <1>4
  <2>2. PICK new : status' = [status EXCEPT ![c] = new]
    BY <2>1 DEF ReleaseByWriteOff
  <2>3. assessments' = assessments /\ status[c] = "active"
    BY <2>1 DEF ReleaseByWriteOff
  <2> QED BY <1>3, <2>2, <2>3 DEF Typed
<1>5. CASE \/ \E run \in DOMAIN runs : post_run(run)
           \/ \E changes \in ConfigChanges : activate_version(changes)
           \/ \E c \in Contracts, k \in PaymentCounts : PaymentsArrive(c, k)
  BY <1>3, <1>5 DEF post_run, activate_version, PaymentsArrive, engine, inputs
<1>6. CASE /\ UNCHANGED <<received, config, engine>>
           /\ \/ status' = status
              \/ \E c \in Contracts : status' = [status EXCEPT ![c] = "closed"]
  <2>1. \A c \in Contracts : status'[c] = "active" => status[c] = "active"
    BY <1>6 DEF Typed
  <2> QED BY <1>3, <1>6, <2>1 DEF engine
<1> QED BY <1>1, <1>2, <1>4, <1>5, <1>6, Steps

LEMMA EngineKept == EInv /\ [Next]_vars => EInv'
<1> SUFFICES ASSUME EInv, [Next]_vars PROVE EInv'
  OBVIOUS
<1>1. OInv /\ Typed /\ Opened /\ Delivered /\ \A c \in Contracts : Accounted(c)
  BY DEF EInv
<1>2. OInv'
  BY <1>1, OverridesKept
<1>3. Typed' /\ Delivered'
  BY <1>1, TypedKept, DeliveredKept
<1>4. Opened' /\ \A c \in Contracts : Accounted(c)'
  <2>1. CASE \E c \in Contracts, profile \in NewProfiles : initial_assessment(c, profile)
    <3>1. Opened'
      BY <1>1, <2>1, InitialAdds, OpenedStays
    <3>2. \A c \in Contracts : Accounted(c)'
      BY <1>1, <1>3, <2>1, InitialAccounted
    <3> QED BY <3>1, <3>2
  <2>2. CASE \E as_of \in Dates, profile \in [Contracts -> Profiles] : run_ecl(as_of, profile)
    <3>1. Opened'
      BY <1>1, <2>2, RunAdds, OpenedStays
    <3>2. \A c \in Contracts : Accounted(c)'
      BY <1>1, <2>2, RunAccounted
    <3> QED BY <3>1, <3>2
  <2>3. CASE \E run \in DOMAIN runs : post_run(run)
    <3>1. Opened'
      <4>1. assessments' = assessments
        BY <2>3 DEF post_run
      <4> QED BY <1>1, <4>1 DEF Opened, Opens, Before, AssessmentsOf, Later
    <3>2. \A c \in Contracts : Accounted(c)'
      BY <1>1, <2>3, PostAccounted
    <3> QED BY <3>1, <3>2
  <2>4. CASE \E c \in Contracts, full \in BOOLEAN : ReleaseByWriteOff(c, full)
    <3>1. PICK c \in Contracts, full \in BOOLEAN : ReleaseByWriteOff(c, full)
      BY <2>4
    <3>2. AssessmentsOf(c) # {} /\ assessments' = assessments
      BY <1>1, <3>1 DEF ReleaseByWriteOff, Delivered
    <3>3. Opened'
      BY <1>1, <3>2 DEF Opened, Opens, Before, AssessmentsOf, Later
    <3>4. \A d \in Contracts : Accounted(d)'
      BY <1>1, <3>1, <3>2, ReleaseAccounted
    <3> QED BY <3>3, <3>4
  <2>5. CASE UNCHANGED engine
    BY <1>1, <2>5, EngineAlone
  <2>6. CASE \/ \E changes \in ConfigChanges : activate_version(changes)
             \/ \E c \in Contracts, k \in PaymentCounts : PaymentsArrive(c, k)
    BY <2>5, <2>6 DEF activate_version, PaymentsArrive
  <2> QED BY <2>1, <2>2, <2>3, <2>4, <2>5, <2>6, Steps
<1> QED BY <1>2, <1>3, <1>4 DEF EInv

\* For any contracts, profiles, overrides, versions of the tables and any order of
\* assessments, runs, postings and releases: once all runs of a contract are posted and
\* none was dated back, what post_run and the delivery have put aside for it is the
\* closing provision of its latest assessment, less what a write-off has released.
THEOREM AllowanceCorrect == Spec => []AllowanceIsProvision
<1>1. EInv => AllowanceIsProvision
  <2> SUFFICES ASSUME EInv, NEW c \in Contracts, PostedInOrder(c), AssessmentsOf(c) # {}
               PROVE  allowance[c] = latest_assessment(c).closing - released[c]
    BY DEF AllowanceIsProvision
  <2>1. InOrder(c)
    BY DEF PostedInOrder, InOrder
  <2>2. Counted(c) = AssessmentsOf(c)
    BY DEF Counted, PostedInOrder
  <2>3. SumFunctionOnSet(Moved, AssessmentsOf(c)) = latest_assessment(c).closing
    BY <2>1, RowsAddUp DEF EInv
  <2> QED BY <2>2, <2>3 DEF EInv, Accounted
<1> QED BY <1>1, EngineStarts, EngineKept, PTL DEF Spec

-------------------------------------------------------------------------------
\* A lower stage.

Downgrades == \A n, k \in DOMAIN assessments :
  LET a == assessments[n]
      b == assessments[k]
  IN /\ a.contract = b.contract /\ n < k
     /\ b.automated_stage # NoStage /\ b.automated_stage < a.automated_stage
     => Cured(a, b)

\* Payments and rows are only added.
LEMMA CuredStays ==
  ASSUME NEW a, NEW b, Cured(a, b), RowsKept,
         Len(received[a.contract]) \in Nat, Len(received'[a.contract]) \in Nat,
         Len(received'[a.contract]) >= Len(received[a.contract])
  PROVE  /\ b.dpd = 0 /\ Len(received'[a.contract]) >= 3
         /\ \E i \in AssessmentsOf(a.contract)' :
              /\ assessments'[i].automated_stage >= a.automated_stage
              /\ b.as_of - assessments'[i].as_of >= IF a.automated_stage = 3 THEN 90 ELSE 30
<1>1. PICK i \in AssessmentsOf(a.contract) :
        /\ assessments[i].automated_stage >= a.automated_stage
        /\ b.as_of - assessments[i].as_of >= IF a.automated_stage = 3 THEN 90 ELSE 30
  BY DEF Cured
<1>2. i \in AssessmentsOf(a.contract)' /\ assessments'[i] = assessments[i]
  BY DEF AssessmentsOf, RowsKept
<1>3. b.dpd = 0 /\ Len(received'[a.contract]) >= 3
  BY DEF Cured
<1> QED BY <1>1, <1>2, <1>3

PaymentsKept == \A c \in Contracts : /\ Len(received[c]) \in Nat /\ Len(received'[c]) \in Nat
                                     /\ Len(received'[c]) >= Len(received[c])

LEMMA DowngradesStay ==
  ASSUME Typed, CureSeeded, Downgrades, NEW run, RowsAdded(run), PaymentsKept
  PROVE  Downgrades'
<1> SUFFICES ASSUME NEW n \in DOMAIN assessments', NEW k \in DOMAIN assessments',
                    NEW a, a = assessments'[n], NEW b, b = assessments'[k],
                    a.contract = b.contract, n < k,
                    b.automated_stage # NoStage, b.automated_stage < a.automated_stage
             PROVE  /\ b.dpd = 0 /\ Len(received'[a.contract]) >= 3
                    /\ \E i \in AssessmentsOf(a.contract)' :
                         /\ assessments'[i].automated_stage >= a.automated_stage
                         /\ b.as_of - assessments'[i].as_of
                              >= IF a.automated_stage = 3 THEN 90 ELSE 30
  BY DEF Downgrades, Cured
<1>1. /\ RowsKept /\ DOMAIN assessments = 1..Len(assessments) /\ Len(assessments) \in Nat
      /\ DOMAIN assessments' = 1..Len(assessments') /\ Len(assessments') \in Nat
  BY NumberedDomain DEF Typed, RowsAdded
<1>2. n # k
  BY <1>1
<1>3. n \in DOMAIN assessments
  <2>1. CASE k \in DOMAIN assessments
    BY <1>1, <2>1
  <2>2. CASE k \notin DOMAIN assessments
    BY <1>2, <2>2 DEF RowsAdded
  <2> QED BY <2>1, <2>2
<1>4. a = assessments[n] /\ a.contract \in Contracts
  BY <1>1, <1>3, RowMeaning DEF RowsKept, Assessment
<1>5. Cured(a, b)
  <2>1. CASE k \in DOMAIN assessments
    <3>1. b = assessments[k]
      BY <1>1, <2>1 DEF RowsKept
    <3> QED BY <1>3, <1>4, <2>1, <3>1 DEF Downgrades
  <2>2. CASE k \notin DOMAIN assessments
    <3>1. Fresh(b, run)
      BY <2>2 DEF RowsAdded
    <3>2. n \in AssessmentsOf(b.contract)
      BY <1>3, <1>4 DEF AssessmentsOf
    <3> QED BY <1>4, <3>1, <3>2 DEF Fresh
  <2> QED BY <2>1, <2>2
<1> QED BY <1>1, <1>4, <1>5, CuredStays DEF PaymentsKept

LEMMA DowngradesUnread ==
  ASSUME Typed, Downgrades, assessments' = assessments, PaymentsKept
  PROVE  Downgrades'
<1> SUFFICES ASSUME NEW n \in DOMAIN assessments, NEW k \in DOMAIN assessments,
                    NEW a, a = assessments[n], NEW b, b = assessments[k],
                    a.contract = b.contract, n < k,
                    b.automated_stage # NoStage, b.automated_stage < a.automated_stage
             PROVE  /\ b.dpd = 0 /\ Len(received'[a.contract]) >= 3
                    /\ \E i \in AssessmentsOf(a.contract)' :
                         /\ assessments'[i].automated_stage >= a.automated_stage
                         /\ b.as_of - assessments'[i].as_of
                              >= IF a.automated_stage = 3 THEN 90 ELSE 30
  BY DEF Downgrades, Cured
<1>1. RowsKept
  BY DEF RowsKept
<1>2. a.contract \in Contracts
  BY RowMeaning DEF Assessment
<1>3. Cured(a, b)
  BY DEF Downgrades
<1> QED BY <1>1, <1>2, <1>3, CuredStays DEF PaymentsKept

LEMMA PaymentsNumber ==
  ASSUME Typed, NEW c \in Contracts
  PROVE  Len(received[c]) \in Nat
BY LenProperties DEF Typed

LEMMA ArrivingKeeps ==
  ASSUME Typed, NEW c \in Contracts, NEW k \in PaymentCounts, PaymentsArrive(c, k)
  PROVE  PaymentsKept
<1>1. PICK s \in Seq(Dates) : s = received[c]
  BY DEF Typed
<1>2. PICK u : u = [n \in 1..k |-> today]
  OBVIOUS
<1>3. k \in Nat /\ today \in Dates
  BY ProvisionsAssumption DEF Typed
<1>4. u \in Seq(Dates)
  BY <1>2, <1>3, IsASeq
<1>5. Len(s) \in Nat /\ Len(u) \in Nat /\ Len(s \o u) = Len(s) + Len(u)
  BY <1>4, ConcatProperties, LenProperties
<1>6. received' = [received EXCEPT ![c] = s \o u]
  BY <1>1, <1>2 DEF PaymentsArrive
<1>7. ASSUME NEW d \in Contracts
      PROVE  /\ Len(received[d]) \in Nat /\ Len(received'[d]) \in Nat
             /\ Len(received'[d]) >= Len(received[d])
  <2>1. CASE d = c
    <3>1. received'[d] = s \o u
      BY <1>6, <2>1 DEF Typed
    <3> QED BY <1>1, <1>5, <2>1, <3>1
  <2>2. CASE d # c
    <3>1. received'[d] = received[d]
      BY <1>6, <2>2 DEF Typed
    <3> QED BY <3>1, PaymentsNumber
  <2> QED BY <2>1, <2>2
<1> QED BY <1>7 DEF PaymentsKept

LEMMA DowngradesKept == EInv /\ CureSeeded /\ Downgrades /\ [Next]_vars => Downgrades'
<1> SUFFICES ASSUME EInv, CureSeeded, Downgrades, [Next]_vars PROVE Downgrades'
  OBVIOUS
<1>1. OInv /\ Typed
  BY DEF EInv
<1>2. ASSUME received' = received PROVE PaymentsKept
  BY <1>1, <1>2, PaymentsNumber DEF PaymentsKept
<1>3. CASE \E c \in Contracts, profile \in NewProfiles : initial_assessment(c, profile)
  <2>1. PaymentsKept
    BY <1>2, <1>3 DEF initial_assessment
  <2> QED BY <1>1, <1>3, <2>1, InitialAdds, DowngradesStay
<1>4. CASE \E as_of \in Dates, profile \in [Contracts -> Profiles] : run_ecl(as_of, profile)
  <2>1. PaymentsKept
    BY <1>2, <1>4 DEF run_ecl, inputs
  <2> QED BY <1>1, <1>4, <2>1, RunAdds, DowngradesStay
<1>5. CASE \E c \in Contracts, k \in PaymentCounts : PaymentsArrive(c, k)
  <2>1. PaymentsKept
    BY <1>1, <1>5, ArrivingKeeps
  <2>2. assessments' = assessments
    BY <1>5 DEF PaymentsArrive, engine
  <2> QED BY <1>1, <2>1, <2>2, DowngradesUnread
<1>6. CASE assessments' = assessments /\ received' = received
  BY <1>1, <1>2, <1>6, DowngradesUnread
<1>7. CASE \/ \E run \in DOMAIN runs : post_run(run)
           \/ \E c \in Contracts, full \in BOOLEAN : ReleaseByWriteOff(c, full)
           \/ \E changes \in ConfigChanges : activate_version(changes)
           \/ UNCHANGED <<received, config, engine>>
  BY <1>6, <1>7 DEF post_run, ReleaseByWriteOff, activate_version, inputs, engine
<1> QED BY <1>3, <1>4, <1>5, <1>7, Steps

\* For any contracts, profiles, overrides, payments, methodologies and runs in any order,
\* as long as no version changes the rules of curing that _placeholder_v1 seeds:
\* _apply_curing lets no assessment fall below an earlier one of the contract unless it is
\* not past due, three payments were made, and 90 days (from stage 3) or 30 have passed
\* since an assessment at least as high.
THEOREM DowngradeCorrect ==
  ASSUME \A changes \in ConfigChanges : CureParameters \cap DOMAIN changes = {}
  PROVE  Spec => []NoUncuredDowngrade
<1>1. Init => CureSeeded /\ Downgrades
  <2> SUFFICES ASSUME Init PROVE CureSeeded /\ Downgrades
    OBVIOUS
  <2>1. config = << <<>> >> /\ assessments = <<>>
    BY DEF Init
  <2>2. DOMAIN config[Len(config)] = {} /\ DOMAIN assessments = {}
    BY <2>1
  <2> QED BY <2>2 DEF CureSeeded, Downgrades
<1>2. EInv /\ CureSeeded /\ [Next]_vars => CureSeeded'
  <2> SUFFICES ASSUME EInv, CureSeeded, [Next]_vars PROVE CureSeeded'
    OBVIOUS
  <2>1. CASE \E changes \in ConfigChanges : activate_version(changes)
    BY <2>1, VersionTyped DEF EInv, CureSeeded
  <2>2. CASE config' = config
    BY <2>2 DEF CureSeeded
  <2>3. config' = config \/ \E changes \in ConfigChanges : activate_version(changes)
    BY DEF Next, vars, NextDay, ContractCloses, RequestOverride, ApproveOverride,
           RejectOverride, cancel_override, expire_due, initial_assessment, run_ecl,
           post_run, ReleaseByWriteOff, PaymentsArrive
  <2> QED BY <2>1, <2>2, <2>3
<1>3. Downgrades => NoUncuredDowngrade
  BY DEF Downgrades, Cured, NoUncuredDowngrade
<1> QED
  BY <1>1, <1>2, <1>3, EngineStarts, EngineKept, DowngradesKept, PTL DEF Spec
===============================================================================

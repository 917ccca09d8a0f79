------------------------------- MODULE Provisions -------------------------------
(* The ECL engine over time: assessments at activation and by portfolio runs,  *)
(* posting of runs to the allowance, manual overrides under maker-checker,     *)
(* versions of the configuration, and the release by a write-off.  What an     *)
(* assessment reads of a contract (balance, days past due, collections,        *)
(* customer score) is kept by other components: it is an input of the run.     *)
EXTENDS CreditLoss, SequencesExt

CONSTANTS Contracts,
          Profiles,        \* what can be read of a contract
          PaymentCounts,   \* payments that arrive at once
          NewProfiles,     \* what can be read of one that is being delivered
          OverrideAsks,    \* overrides asked for: some parameters, from a day on
          Validity,        \* bound: days an override is valid
          Dates,           \* bound: days on which something happens
          ConfigChanges,   \* changes that may be proposed to the configuration
          MaxRuns, MaxOverrides, MaxRows   \* bounds, the last on what follows

\* What a change puts in place of a parameter has the form the engine reads.  The
\* code looks at the name of the parameter only; a run raises on any other form.
Shaped(parameter, value) ==
  LET Ratings == DOMAIN _placeholder_v1.risk_segments
      Segments == DOMAIN _placeholder_v1.pd_term_structure
  IN /\ parameter = "rating_mapping" => \A band \in value : band.rating \in Ratings
     /\ parameter = "risk_segments" => \A rating \in Ratings : value[rating] \in Segments
     /\ parameter = "pd_term_structure" => \A s \in Segments :
          value[s] \in [pd_12m: Int, pd_lifetime: Int, pd_lifetime_stage_3: Int]
     /\ parameter = "lgd_model" => \A s \in Segments : value[s] \in [lgd: Int, lgd_stage_3: Int]
     /\ parameter = "dpd_provision_pct" => value \in Seq([upto: Int, halves: Int])
     /\ parameter \in {"dpd_provision_rest", "lifetime_loss_rate"} => value \in Int

ASSUME ProvisionsAssumption ==
  /\ IsFiniteSet(Contracts)
  /\ Dates \subseteq Nat /\ 0 \in Dates /\ PaymentCounts \subseteq Nat
  /\ {Validity, MaxRuns, MaxOverrides, MaxRows} \subseteq Nat
  /\ \A profile \in Profiles \cup NewProfiles : profile.ead \in Int /\ profile.dpd \in Nat
  /\ \A ask \in OverrideAsks : \A parameter \in DOMAIN ask.value \ {"risk_rating"} :
       ask.value[parameter] \in Int
  /\ \A changes \in ConfigChanges : \A parameter \in DOMAIN changes :
       Shaped(parameter, changes[parameter])

VARIABLES today,
          status,       \* status of each contract
          received,     \* dates of the payments of each contract, in order
          config,       \* ECLConfiguration rows by version, as what differs from
                        \* the first; the last is active
          overrides,    \* ECLOverride rows, each with the status of its request
          runs,         \* ECLRun rows
          assessments,  \* ECLAssessment rows
          allowance,    \* what the accounting events have put aside, by contract
          released      \* what a write-off has released, by contract

vars == <<today, status, received, config, overrides, runs, assessments,
          allowance, released>>
engine == <<runs, assessments, allowance, released>>
inputs == <<status, received>>

\* Runs, overrides, configurations and batches of payments together.
RowsLeft ==
  MaxRows > Len(runs) + Len(overrides) + Len(config) - 1
              + Cardinality(UNION {Range(received[c]) : c \in Contracts})

NoRun == 0
NoStage == 0

\* A row with some parameters changed.
Updated(row, changes) ==
  [parameter \in DOMAIN row \cup DOMAIN changes |->
     IF parameter \in DOMAIN changes THEN changes[parameter] ELSE row[parameter]]

get_active == Updated(_placeholder_v1, config[Len(config)])
-------------------------------------------------------------------------------
\* Gathering the inputs.

\* What is read of a contract: _ead, _dpd, _signals and the score of _customer.
Read(ead, dpd, score, open_case, broken_ptp) ==
  [ead |-> ead, dpd |-> dpd, score |-> score, open_case |-> open_case,
   broken_ptp |-> broken_ptp]

AssessmentsOf(c) == {n \in DOMAIN assessments : assessments[n].contract = c}

\* By as_of date, then id.
Later(n, k) == \/ assessments[n].as_of > assessments[k].as_of
               \/ assessments[n].as_of = assessments[k].as_of /\ n > k
LatestOf(rows) == CHOOSE n \in rows : \A k \in rows \ {n} : Later(n, k)
EarliestOf(rows) == CHOOSE n \in rows : \A k \in rows \ {n} : Later(k, n)

latest_assessment(c) == assessments[LatestOf(AssessmentsOf(c))]

\* Mutant of _prior: assessments of the same day do not count.
_priorBefore(c, as_of) == {n \in AssessmentsOf(c) : assessments[n].as_of < as_of}

\* The candidates for the prior assessment.  A run that is calculated has no row
\* of this contract yet.
_prior(c, as_of) == {n \in AssessmentsOf(c) : assessments[n].as_of <= as_of}

_prior_assessment(c, as_of) ==
  IF _prior(c, as_of) = {} THEN 0 ELSE assessments[LatestOf(_prior(c, as_of))].closing

Staged(c) == {n \in AssessmentsOf(c) : assessments[n].automated_stage # NoStage}

\* _peak_stage_history: the assessments with the highest automated stage ever.
PeakRows(c) ==
  {n \in Staged(c) : \A k \in Staged(c) : assessments[k].automated_stage
                                            <= assessments[n].automated_stage}
FirstSeen(c) == assessments[EarliestOf(PeakRows(c))].as_of

_payments_since(c, day) == Cardinality({n \in DOMAIN received[c] : received[c][n] > day})

\* A stage below the peak needs the cure of the peak.
_apply_curing(c, raw, dpd, as_of) ==
  IF ~get_active.cure_enabled \/ Staged(c) = {} THEN raw
  ELSE LET peak == assessments[LatestOf(PeakRows(c))].automated_stage
           rule == CureRule(peak, get_active)
           cured == /\ dpd <= rule.max_dpd
                    /\ _payments_since(c, FirstSeen(c)) >= rule.min_qualifying_payments
                    /\ as_of - FirstSeen(c) >= rule.min_observation_days
       IN IF raw >= peak \/ cured THEN raw ELSE peak

Governing(o) == o.status \in {"active", "approved"}
InWindow(o, day) == o.from <= day /\ day <= o.to

\* The youngest that governs and whose window holds the date, or 0.
_active_override(c, as_of) ==
  LET inForce == {n \in DOMAIN overrides : /\ overrides[n].contract = c
                                           /\ Governing(overrides[n])
                                           /\ InWindow(overrides[n], as_of)}
  IN IF inForce = {} THEN 0 ELSE CHOOSE n \in inForce : \A k \in inForce : k <= n
-------------------------------------------------------------------------------
\* One assessment.

Overridden(value, parameter, automated) ==
  IF parameter \in DOMAIN value THEN value[parameter] ELSE automated

\* The automated result and, layered on it, the final one.
StagedResult(profile, stage, value) ==
  LET cfg == get_active
      segment == resolve_segment(resolve_rating(profile.score, cfg), cfg)
      pd == resolve_pd(segment, cfg)
      lgd == resolve_lgd(segment, cfg)
      lifetime(s) == IF s = 3 THEN pd.pd_lifetime_stage_3 ELSE pd.pd_lifetime
      automated_lgd == IF stage = 3 THEN lgd.lgd_stage_3 ELSE lgd.lgd
      final_stage == Overridden(value, "stage", stage)
  IN [calculated |-> calc_three_stage(profile.ead, stage, pd.pd_12m, lifetime(stage),
                                      automated_lgd),
      closing |-> calc_three_stage(Overridden(value, "ead", profile.ead), final_stage,
                                   Overridden(value, "pd_12m", pd.pd_12m),
                                   Overridden(value, "pd_lifetime", lifetime(final_stage)),
                                   Overridden(value, "lgd", automated_lgd))]

UnstagedResult(profile) ==
  LET ecl == IF get_active.methodology = "dpd_banded"
             THEN calc_dpd_banded(profile.ead, profile.dpd, get_active)
             ELSE calc_simplified_lifetime(profile.ead, get_active)
  IN [calculated |-> ecl, closing |-> ecl]

\* The rating and PD of the earliest assessment, or of this one.
_origination(c, rating, pd) ==
  IF AssessmentsOf(c) = {} THEN [rating |-> rating, pd |-> pd]
  ELSE assessments[EarliestOf(AssessmentsOf(c))].origination

_assess_one(c, profile, as_of, run) ==
  LET cfg == get_active
      staged == cfg.methodology = "three_stage"
      rating == resolve_rating(profile.score, cfg)
      pd == resolve_pd(resolve_segment(rating, cfg), cfg).pd_12m
      origin == _origination(c, rating, pd)
      ctx == profile @@ [current_pd |-> pd, origination_pd |-> origin.pd,
                         current_rating |-> rating, origination_rating |-> origin.rating]
      stage == _apply_curing(c, determine_stage(ctx, cfg), profile.dpd, as_of)
      override == _active_override(c, as_of)
      value == IF override = 0 THEN <<>> ELSE overrides[override].value
      result == IF staged THEN StagedResult(profile, stage, value) ELSE UnstagedResult(profile)
  IN [contract |-> c, run |-> run, as_of |-> as_of, origination |-> origin,
      dpd |-> profile.dpd,
      automated_stage |-> IF staged THEN stage ELSE NoStage,
      opening |-> _prior_assessment(c, as_of),
      calculated |-> result.calculated, closing |-> result.closing]
-------------------------------------------------------------------------------
Init ==
  /\ today = 0
  /\ status = [c \in Contracts |-> "created"]
  /\ received = [c \in Contracts |-> <<>>]
  /\ config = << <<>> >>
  /\ overrides = <<>> /\ runs = <<>> /\ assessments = <<>>
  /\ allowance = [c \in Contracts |-> 0]
  /\ released = [c \in Contracts |-> 0]

NextDay ==
  /\ \E day \in Dates : today < day /\ today' = day
  /\ UNCHANGED <<inputs, config, overrides, engine>>

PaymentsArrive(c, k) ==
  /\ status[c] = "active" /\ today \notin Range(received[c]) /\ RowsLeft
  /\ received' = [received EXCEPT ![c] = @ \o [n \in 1..k |-> today]]
  /\ UNCHANGED <<today, status, config, overrides, engine>>

ContractCloses(c) ==
  /\ status[c] = "active"
  /\ status' = [status EXCEPT ![c] = "closed"]
  /\ UNCHANGED <<today, received, config, overrides, engine>>

\* Delivery activates the contract and makes its first assessment, outside any run.
initial_assessment(c, profile) ==
  LET a == _assess_one(c, profile, today, NoRun)
  IN /\ status[c] = "created"
     /\ status' = [status EXCEPT ![c] = "active"]
     /\ assessments' = Append(assessments, a)
     /\ allowance' = [allowance EXCEPT ![c] = @ + a.closing - a.opening]
     /\ UNCHANGED <<today, received, config, overrides, runs, released>>

\* Over the active contracts, as of a date the caller may choose.
run_ecl(as_of, profile) ==
  LET run == Len(runs) + 1
      active == SetToSeq({c \in Contracts : status[c] = "active"})
  IN /\ Len(runs) < MaxRuns /\ RowsLeft
     /\ runs' = Append(runs, [as_of |-> as_of, status |-> "completed"])
     /\ assessments' = assessments \o
          [n \in DOMAIN active |-> _assess_one(active[n], profile[active[n]], as_of, run)]
     /\ UNCHANGED <<today, inputs, config, overrides, allowance, released>>

RowsOf(run) == {n \in DOMAIN assessments : assessments[n].run = run}

\* The events of one assessment: from opening to calculated, and on to closing.
Movements(a) == [model |-> a.calculated - a.opening, override |-> a.closing - a.calculated]

Moved == [n \in DOMAIN assessments |-> LET m == Movements(assessments[n])
                                      IN m.model + m.override]

Posted(c, run) ==
  SumFunctionOnSet(Moved, {n \in RowsOf(run) : assessments[n].contract = c})

post_run(run) ==
  /\ runs[run].status = "completed"
  /\ runs' = [runs EXCEPT ![run].status = "posted"]
  /\ allowance' = [c \in Contracts |-> allowance[c] + Posted(c, run)]
  /\ UNCHANGED <<today, inputs, config, overrides, assessments, released>>

\* What execute_write_off does here: the provision of the latest assessment is
\* released, whatever part is written off, and a full write-off closes the
\* contract.  Bound: once.
ReleaseByWriteOff(c, full) ==
  /\ status[c] = "active" /\ released[c] = 0
  /\ status' = [status EXCEPT ![c] = IF full THEN "closed" ELSE "active"]
  /\ allowance' = [allowance EXCEPT ![c] = @ - latest_assessment(c).closing]
  /\ released' = [released EXCEPT ![c] = latest_assessment(c).closing]
  /\ UNCHANGED <<today, received, config, overrides, runs, assessments>>
-------------------------------------------------------------------------------
\* Overrides.  The window begins on any date.

_guards(c) ==
  /\ AssessmentsOf(c) # {}
  /\ \A n \in DOMAIN overrides : overrides[n].contract = c => overrides[n].status # "pending"
  /\ latest_assessment(c).automated_stage # NoStage

\* request_stage_override and request_parameter_override.
RequestOverride(c, ask) ==
  /\ Len(overrides) < MaxOverrides /\ RowsLeft /\ _guards(c)
  /\ "stage" \in DOMAIN ask.value => ask.value["stage"] # latest_assessment(c).automated_stage
  /\ overrides' = Append(overrides, [contract |-> c, value |-> ask.value, from |-> ask.from,
                                     to |-> ask.from + Validity, status |-> "pending",
                                     request |-> "pending"])
  /\ UNCHANGED <<today, inputs, config, engine>>

\* Mutant of Supersedes: one whose window has not begun is left alone.
SupersedesActive(n, old) ==
  old # n /\ overrides[old].contract = overrides[n].contract /\ overrides[old].status = "active"

\* The others that govern the contract when override n is approved.
Supersedes(n, old) ==
  old # n /\ overrides[old].contract = overrides[n].contract /\ Governing(overrides[old])

ApproveOverride(n) ==
  /\ overrides[n].request = "pending" /\ overrides[n].status = "pending"
  /\ overrides' = [k \in DOMAIN overrides |->
       IF k = n
       THEN [overrides[k] EXCEPT !.request = "approved",
               !.status = IF InWindow(overrides[k], today) THEN "active" ELSE "approved"]
       ELSE IF Supersedes(n, k)
            THEN [overrides[k] EXCEPT !.status = "cancelled"] ELSE overrides[k]]
  /\ UNCHANGED <<today, inputs, config, engine>>

RejectOverride(n) ==
  /\ overrides[n].request = "pending"
  /\ overrides' = [overrides EXCEPT ![n].request = "rejected",
                     ![n].status = IF @ = "pending" THEN "rejected" ELSE @]
  /\ UNCHANGED <<today, inputs, config, engine>>

\* A pending request is closed off too.
cancel_override(n) ==
  /\ overrides[n].status \in {"pending", "approved", "active"}
  /\ overrides' = [overrides EXCEPT ![n].status = "cancelled",
                     ![n].request = IF @ = "pending" THEN "rejected" ELSE @]
  /\ UNCHANGED <<today, inputs, config, engine>>

ExpiredBy(o, as_of) == Governing(o) /\ o.to < as_of
BegunBy(o, as_of) == o.status = "approved" /\ o.from <= as_of

\* The job, as of a date the caller may choose.
expire_due(as_of) ==
  /\ \E n \in DOMAIN overrides : ExpiredBy(overrides[n], as_of) \/ BegunBy(overrides[n], as_of)
  /\ overrides' = [n \in DOMAIN overrides |->
       LET o == overrides[n]
       IN IF ExpiredBy(o, as_of) THEN [o EXCEPT !.status = "expired"]
          ELSE IF BegunBy(o, as_of) THEN [o EXCEPT !.status = "active"] ELSE o]
  /\ UNCHANGED <<today, inputs, config, engine>>
-------------------------------------------------------------------------------
\* The configuration.

\* Anything may have been proposed at any time, so that only the approval counts:
\* the changes are applied to the version that is active by then.
activate_version(changes) ==
  /\ RowsLeft
  /\ config' = Append(config, Updated(config[Len(config)], changes))
  /\ UNCHANGED <<today, inputs, overrides, engine>>
-------------------------------------------------------------------------------
Next ==
  \/ NextDay
  \/ \E c \in Contracts :
       \/ \E k \in PaymentCounts : PaymentsArrive(c, k)
       \/ ContractCloses(c)
       \/ \E profile \in NewProfiles : initial_assessment(c, profile)
       \/ \E full \in BOOLEAN : ReleaseByWriteOff(c, full)
       \/ \E ask \in OverrideAsks : RequestOverride(c, ask)
  \/ \E as_of \in Dates, profile \in [Contracts -> Profiles] : run_ecl(as_of, profile)
  \/ \E as_of \in Dates : expire_due(as_of)
  \/ \E run \in DOMAIN runs : post_run(run)
  \/ \E n \in DOMAIN overrides : ApproveOverride(n) \/ RejectOverride(n) \/ cancel_override(n)
  \/ \E changes \in ConfigChanges : activate_version(changes)

Spec == Init /\ [][Next]_vars
-------------------------------------------------------------------------------
TypeOK ==
  /\ today \in Dates
  /\ \A c \in Contracts : /\ status[c] \in {"created", "active", "closed"}
                          /\ allowance[c] \in Int
                          /\ received[c] \in Seq(Dates)
  /\ \A n \in DOMAIN runs : runs[n].status \in {"completed", "posted"}
  /\ \A n \in DOMAIN overrides :
       overrides[n].status \in {"pending", "approved", "rejected", "active", "expired",
                                "cancelled"}
  /\ \A n \in DOMAIN assessments : assessments[n].automated_stage \in 0..3

\* Every run that assessed the contract is posted, and none was dated back.
PostedInOrder(c) ==
  /\ \A n \in AssessmentsOf(c) :
       assessments[n].run = NoRun \/ runs[assessments[n].run].status = "posted"
  /\ \A n, k \in AssessmentsOf(c) : n < k => assessments[n].as_of <= assessments[k].as_of

\* Once the runs of a contract are posted, in whatever order, what the events
\* have put aside for it is the provision its latest assessment shows, through
\* overrides, stage changes and changes of the methodology.  What a write-off has
\* released stays short for ever: later runs start from the closing provision of
\* the run before, not from the allowance.  A run that is dated back or never
\* posted breaks the sum.
AllowanceIsProvision ==
  \A c \in Contracts : PostedInOrder(c) /\ AssessmentsOf(c) # {} =>
    allowance[c] = latest_assessment(c).closing - released[c]

\* "A contract can only ever be governed by one ACTIVE/APPROVED override at a
\* time" (approvals.py:317), and an override tells what became of its request:
\* also when it is cancelled before anybody has decided.
OverridesAgree ==
  /\ \A n, k \in DOMAIN overrides :
       /\ overrides[n].contract = overrides[k].contract
       /\ Governing(overrides[n]) /\ Governing(overrides[k])
       => n = k
  /\ \A n \in DOMAIN overrides :
       /\ overrides[n].status = "pending" <=> overrides[n].request = "pending"
       /\ Governing(overrides[n]) => overrides[n].request = "approved"

\* Whatever the stages in between, the methodology of the time or the order of
\* the runs: an assessment is below one of an earlier date only after the
\* payments its cure asks for, and never past due.
NoUncuredDowngrade ==
  \A n, k \in DOMAIN assessments :
    LET a == assessments[n]
        b == assessments[k]
    IN /\ a.contract = b.contract /\ n < k /\ a.as_of <= b.as_of
       /\ b.automated_stage # NoStage /\ b.automated_stage < a.automated_stage
       => /\ b.dpd = 0
          /\ Len(received[a.contract]) >= 3
          /\ \E i \in AssessmentsOf(a.contract) :
               /\ assessments[i].automated_stage >= a.automated_stage
               /\ b.as_of - assessments[i].as_of >= IF a.automated_stage = 3 THEN 90 ELSE 30
===============================================================================

------------------------------- MODULE CreditLoss -------------------------------
(* What one ECL assessment computes, without any state: rating, risk segment,  *)
(* PD and LGD, the stage rules, and the three methodologies.  Rates are in     *)
(* percent and losses in ten-thousandths of the exposure's unit, so that they  *)
(* are exact: rounding to cents is left out.  Days are days.                   *)
EXTENDS Integers, Sequences, FiniteSets, Functions

UNRATED == "UNRATED"
RatingOrder == <<"A", "B", "C", "D", "E", UNRATED>>

\* The configuration that is seeded when there is none: placeholders.
_placeholder_v1 ==
  [methodology |-> "three_stage",
   rating_mapping |-> {[min |-> 750, max |-> 1000, rating |-> "A"],
                       [min |-> 700, max |-> 749, rating |-> "B"],
                       [min |-> 650, max |-> 699, rating |-> "C"],
                       [min |-> 600, max |-> 649, rating |-> "D"],
                       [min |-> 0, max |-> 599, rating |-> "E"]},
   risk_segments |-> [A |-> "prime", B |-> "prime", C |-> "standard", D |-> "subprime",
                      E |-> "subprime", UNRATED |-> "unrated"],
   pd_term_structure |->
     [prime    |-> [pd_12m |-> 2, pd_lifetime |-> 12, pd_lifetime_stage_3 |-> 45],
      standard |-> [pd_12m |-> 4, pd_lifetime |-> 18, pd_lifetime_stage_3 |-> 55],
      subprime |-> [pd_12m |-> 9, pd_lifetime |-> 30, pd_lifetime_stage_3 |-> 70],
      unrated  |-> [pd_12m |-> 5, pd_lifetime |-> 20, pd_lifetime_stage_3 |-> 55]],
   lgd_model |-> [prime    |-> [lgd |-> 40, lgd_stage_3 |-> 50],
                  standard |-> [lgd |-> 45, lgd_stage_3 |-> 55],
                  subprime |-> [lgd |-> 55, lgd_stage_3 |-> 65],
                  unrated  |-> [lgd |-> 45, lgd_stage_3 |-> 55]],
   dpd_default |-> 90, dpd_sicr |-> 30, pd_ratio |-> 2, notches |-> 2,
   cure_enabled |-> TRUE,
   stage_3_to_2 |-> [min_qualifying_payments |-> 3, max_dpd |-> 0, min_observation_days |-> 90],
   stage_2_to_1 |-> [min_qualifying_payments |-> 3, max_dpd |-> 0, min_observation_days |-> 30],
   dpd_provision_pct |-> <<[upto |-> 0, halves |-> 1], [upto |-> 30, halves |-> 6],
                           [upto |-> 60, halves |-> 30], [upto |-> 90, halves |-> 80]>>,
   dpd_provision_rest |-> 150,
   lifetime_loss_rate |-> 10]
-------------------------------------------------------------------------------
\* ecl_risk.

resolve_rating(score, cfg) ==
  LET bands == {b \in cfg.rating_mapping : b.min <= score /\ score <= b.max}
  IN IF bands = {} THEN UNRATED ELSE (CHOOSE b \in bands : TRUE).rating

resolve_segment(rating, cfg) == cfg.risk_segments[rating]
resolve_pd(segment, cfg) == cfg.pd_term_structure[segment]
resolve_lgd(segment, cfg) == cfg.lgd_model[segment]

GradeOf(rating) == CHOOSE n \in DOMAIN RatingOrder : RatingOrder[n] = rating
rating_notches(from, to) == GradeOf(to) - GradeOf(from)
-------------------------------------------------------------------------------
\* ecl_stage: ctx is what the rules look at.

\* Forbearance and credit-impaired flags do not exist yet.
Stage3Rules(ctx, cfg) == ctx.dpd >= cfg.dpd_default \/ ctx.broken_ptp

SicrRules(ctx, cfg) ==
  \/ ctx.dpd >= cfg.dpd_sicr
  \/ ctx.open_case
  \/ ctx.origination_pd > 0 /\ ctx.current_pd >= cfg.pd_ratio * ctx.origination_pd
  \/ rating_notches(ctx.origination_rating, ctx.current_rating) >= cfg.notches

\* Stage 3 first, whatever the SICR rules say.
determine_stage(ctx, cfg) ==
  IF Stage3Rules(ctx, cfg) THEN 3 ELSE IF SicrRules(ctx, cfg) THEN 2 ELSE 1

\* Mutant of CureRule: one rule for every stage.
CureRuleOfStage2(peak, cfg) == cfg.stage_2_to_1

\* From a stage down to any other.
CureRule(peak, cfg) == IF peak = 3 THEN cfg.stage_3_to_2 ELSE cfg.stage_2_to_1
-------------------------------------------------------------------------------
\* ecl_engine.

calc_three_stage(ead, stage, pd_12m, pd_lifetime, lgd) ==
  ead * (IF stage = 1 THEN pd_12m ELSE pd_lifetime) * lgd

calc_simplified_lifetime(ead, cfg) == ead * cfg.lifetime_loss_rate * 100

\* By the first band that reaches so far, in half percents.
calc_dpd_banded(ead, dpd, cfg) ==
  LET bands == cfg.dpd_provision_pct
      reaching == {n \in DOMAIN bands : dpd <= bands[n].upto}
      halves == IF reaching = {} THEN cfg.dpd_provision_rest
                ELSE bands[CHOOSE n \in reaching : \A k \in reaching : n <= k].halves
  IN ead * halves * 50
===============================================================================

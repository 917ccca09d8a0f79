------------------------------- MODULE Origination -------------------------------
(* From an application to a delivered contract: the rules of the assessment and *)
(* the manual review, priced offers and their affordability, acceptance, stock, *)
(* and the exposure that contracts leave to the next application.  A customer's *)
(* record is never changed by the code, so customers are constants; repayment   *)
(* and closure of contracts are ContractServicing's and appear by their effect. *)
EXTENDS Pricing, SequencesExt

CONSTANTS Customer,      \* their income, existing obligations and risk score
          Applications,  \* what may be asked for: amount and tenor
          CashPrice, OpeningStock,
          Adjustments,   \* corrections of the stock
          Downs, Tenors, \* what a salesperson may enter for an offer
          Config,        \* the parameters that are read, shares in percent
          MaxApplications, MaxOffers, MaxRows, Dates,   \* bounds
          MaxCorrection  \* bound: how far the corrections go from the opening stock

ASSUME OriginationAssumption ==
  /\ {MaxApplications, MaxOffers, MaxRows, MaxCorrection, OpeningStock, CashPrice} \subseteq Nat
  /\ Downs \subseteq Nat /\ Tenors \subseteq Nat /\ Adjustments \subseteq Int
  /\ \A tenor \in DOMAIN Config.rates : Config.rates[tenor] \in Nat

VARIABLES today,
          applications,   \* CreditApplication rows
          assessments,    \* AssessmentResult rows
          offers,         \* InstallmentOffer rows
          contracts,      \* SalesOrder and InstallmentContract rows
          stock,          \* stock_quantity of the product
          adjusted        \* sum of the corrections

vars == <<today, applications, assessments, offers, contracts, stock, adjusted>>
shelf == <<stock, adjusted>>

NoScore == -1
Decisions == <<"approved", "referred", "rejected">>
-------------------------------------------------------------------------------
\* Assessment of an application.

\* Sum over the contracts of the customer that are not closed, of the installments
\* not yet paid; late fees and installments paid in part are left out.
compute_exposure(c) ==
  LET open == {n \in DOMAIN contracts :
        /\ applications[contracts[n].application].customer = c
        /\ contracts[n].status # "closed"}
  IN FoldSet(LAMBDA n, sum :
       sum + Owed(offers[contracts[n].offer].plan, contracts[n].paid), 0, open)

FinancedEstimate(a) == _money(a.amount * (100 - Config.min_down_pct), 100)

\* The installment of the estimate is Over / Per, exactly.
estimate_installment(a) ==
  IF a.tenor \in DOMAIN Config.rates
  THEN [Over |-> a.amount * (100 - Config.min_down_pct) * (100 + Config.rates[a.tenor]),
        Per |-> 10000 * a.tenor]
  ELSE [Over |-> a.amount * Config.factor_pct, Per |-> 100 * a.tenor]

MinimumIncome(customer) ==
  IF customer.income >= Config.min_income THEN "approved" ELSE "rejected"
\* In ten-thousandths, as the code rounds it.
debt_burden_ratio(customer, installment) ==
  _money((customer.obligations + installment) * 10000, customer.income)
DebtBurden(customer, a) ==
  LET estimate == _money(estimate_installment(a).Over, estimate_installment(a).Per) IN
  IF customer.income = 0 THEN "rejected"
  ELSE IF debt_burden_ratio(customer, estimate) <= 100 * Config.max_dbr THEN "approved"
  ELSE "referred"
RiskBand(customer) ==
  IF customer.score = NoScore THEN "referred"
  ELSE IF customer.score >= Config.auto_approve_min THEN "approved"
  ELSE IF customer.score >= Config.refer_min THEN "referred"
  ELSE "rejected"
CustomerExposure(a) ==
  IF compute_exposure(a.customer) + FinancedEstimate(a) <= Config.max_exposure
  THEN "approved" ELSE "referred"

\* The most severe of the four.
assess_application(a) ==
  LET outcomes == {MinimumIncome(Customer[a.customer]),
                   DebtBurden(Customer[a.customer], a),
                   RiskBand(Customer[a.customer]), CustomerExposure(a)}
  IN Decisions[Max({k \in DOMAIN Decisions : Decisions[k] \in outcomes})]

AddAssessment(n, source, decision) ==
  /\ Len(assessments) < MaxRows
  /\ assessments' = Append(assessments,
       [application |-> n, source |-> source, decision |-> decision])

create_application(c, ask) ==
  /\ Len(applications) < MaxApplications
  /\ applications' = Append(applications,
       [customer |-> c, amount |-> ask.amount, tenor |-> ask.tenor, status |-> "draft"])
  /\ UNCHANGED <<today, assessments, offers, contracts, shelf>>

\* submitted and under_assessment do not outlive the request.
submit_application(n) ==
  /\ applications[n].status = "draft"
  /\ applications' = [applications EXCEPT ![n].status = assess_application(applications[n])]
  /\ AddAssessment(n, "automated", assess_application(applications[n]))
  /\ UNCHANGED <<today, offers, contracts, shelf>>

ReviewStatus == [approved |-> "approved", rejected |-> "rejected",
                 return_for_info |-> "draft"]

review_application(n, decision) ==
  /\ applications[n].status = "referred"
  /\ applications' = [applications EXCEPT ![n].status = ReviewStatus[decision]]
  /\ AddAssessment(n, "manual", decision)
  /\ UNCHANGED <<today, offers, contracts, shelf>>
-------------------------------------------------------------------------------
\* Offers.

Affordable(customer, plan) ==
  /\ customer.income > 0
  /\ debt_burden_ratio(customer, Peak(plan)) <= 100 * Config.max_dbr

OffersOf(n) == {k \in DOMAIN offers : offers[k].application = n}

\* Mutant of Superseded: an earlier offer stays as it is.
SupersededNone(n) == offers
\* Open offers of the application expire when another is made.
Superseded(n) ==
  [k \in DOMAIN offers |->
     IF k \in OffersOf(n) /\ offers[k].status = "presented"
     THEN [offers[k] EXCEPT !.status = "expired"] ELSE offers[k]]

Offer(n, plan) ==
  [application |-> n, plan |-> plan, status |-> "presented",
   valid_until |-> today + Config.validity]

\* The re-check is kept also when it blocks the offer.
generate_offer(n, down, tenor) ==
  LET plan == build_plan(CashPrice, down, tenor, Config.rates[tenor])
      affordable == Affordable(Customer[applications[n].customer], plan)
  IN
  /\ applications[n].status = "approved"
  /\ stock > 0
  /\ down >= _money(CashPrice * Config.min_down_pct, 100)
  /\ tenor \in DOMAIN Config.rates /\ Priceable(CashPrice, down, tenor)
  /\ AddAssessment(n, "offer_affordability_recheck",
                   IF affordable THEN "pass" ELSE "fail")
  /\ IF ~affordable /\ Config.gate = "block"
     THEN UNCHANGED offers
     ELSE /\ Len(offers) < MaxOffers
          /\ offers' = Append(Superseded(n), Offer(n, plan))
  /\ UNCHANGED <<today, applications, contracts, shelf>>

\* Mutant of MayAccept: the offer is only asked whether it has lapsed by its date.
MayAcceptByDate(k) == offers[k].status # "accepted" /\ today <= offers[k].valid_until
\* A lapsed offer is refused, and the refusal is rolled back: its status stays.
MayAccept(k) == offers[k].status = "presented" /\ today <= offers[k].valid_until

\* The stock is taken without asking whether there is any left.
accept_offer(k) ==
  /\ MayAccept(k)
  /\ offers' = [offers EXCEPT ![k].status = "accepted"]
  /\ contracts' = Append(contracts,
       [application |-> offers[k].application, offer |-> k, status |-> "created",
        reason |-> "none", paid |-> 0])
  /\ stock' = stock - 1
  /\ UNCHANGED <<today, applications, assessments, adjusted>>

confirm_delivery(n) ==
  /\ contracts[n].status = "created"
  /\ contracts' = [contracts EXCEPT ![n].status = "active"]
  /\ UNCHANGED <<today, applications, assessments, offers, shelf>>
-------------------------------------------------------------------------------
\* How a contract goes on.

Tenor(n) == Len(offers[contracts[n].offer].plan.schedule)
Closed(n, reason) == [contracts EXCEPT ![n].status = "closed", ![n].reason = reason]

\* The next installment is paid; with the last one the contract closes.
PayInstallment(n) ==
  /\ contracts[n].status = "active"
  /\ contracts' = IF contracts[n].paid + 1 < Tenor(n)
                  THEN [contracts EXCEPT ![n].paid = @ + 1]
                  ELSE [Closed(n, "normal") EXCEPT ![n].paid = @ + 1]
  /\ UNCHANGED <<today, applications, assessments, offers, shelf>>

\* Mutant of _release_stock: only a return brings the unit back.
_release_stockReturned(reason) == IF reason = "return" THEN stock + 1 ELSE stock
\* The unit goes back on the shelf, unless the contract is settled.
_release_stock(reason) == IF reason \in {"cancellation", "return"} THEN stock + 1 ELSE stock

Ends(n, reason) ==
  /\ contracts[n].status = IF reason = "cancellation" THEN "created" ELSE "active"
  /\ contracts' = Closed(n, reason)
  /\ stock' = _release_stock(reason)
  /\ UNCHANGED <<today, applications, assessments, offers, adjusted>>

\* Nothing is reserved, so that nothing may be counted below zero.  The net of the
\* corrections is bounded.
adjust_stock(delta) ==
  /\ stock + delta >= 0 /\ adjusted + delta \in -MaxCorrection..MaxCorrection
  /\ stock' = stock + delta /\ adjusted' = adjusted + delta
  /\ UNCHANGED <<today, applications, assessments, offers, contracts>>

NextDay(day) ==
  /\ day > today /\ today' = day
  /\ UNCHANGED <<applications, assessments, offers, contracts, shelf>>

Init ==
  /\ today = 0
  /\ applications = <<>> /\ assessments = <<>> /\ offers = <<>> /\ contracts = <<>>
  /\ stock = OpeningStock /\ adjusted = 0

Next ==
  \/ \E c \in DOMAIN Customer, ask \in Applications : create_application(c, ask)
  \/ \E n \in DOMAIN applications :
       \/ submit_application(n)
       \/ \E decision \in DOMAIN ReviewStatus : review_application(n, decision)
       \/ \E down \in Downs, tenor \in Tenors : generate_offer(n, down, tenor)
  \/ \E k \in DOMAIN offers : accept_offer(k)
  \/ \E n \in DOMAIN contracts :
       \/ confirm_delivery(n)
       \/ PayInstallment(n)
       \/ \E reason \in {"cancellation", "return", "settlement"} : Ends(n, reason)
  \/ \E delta \in Adjustments : adjust_stock(delta)
  \/ \E day \in Dates : NextDay(day)

Spec == Init /\ [][Next]_vars
-------------------------------------------------------------------------------
\* What is not on the shelf is with a customer: whatever is offered, accepted,
\* delivered, cancelled, returned or corrected in between, the stock is what there
\* was, corrected, less the contracts whose unit has not come back.
StockAddsUp ==
  stock = OpeningStock + adjusted - Cardinality(
    {n \in DOMAIN contracts : contracts[n].reason \notin {"cancellation", "return"}})

\* Of the offers of an application only the latest is ever accepted, within its
\* validity and once, however many have been made meanwhile: each accepted offer is
\* one contract, and no other offer is.
OnlyTheLatestIsAccepted ==
  [][/\ \A k \in DOMAIN offers : offers[k].status # "accepted" /\ offers'[k].status = "accepted"
          => k = Max(OffersOf(offers[k].application)) /\ today <= offers[k].valid_until
     /\ \A k \in DOMAIN offers' :
          Cardinality({n \in DOMAIN contracts' : contracts'[n].offer = k})
            = IF offers'[k].status = "accepted" THEN 1 ELSE 0]_vars

SumOf(plan, component) ==
  FoldSet(LAMBDA i, sum : sum + plan.schedule[i][component], 0, DOMAIN plan.schedule)

\* A schedule is paid to exactly the sale price, whatever rounding does to its lines:
\* no line takes money back, and the principal is spread evenly, to a unit.
PlanAddsUp ==
  \A k \in DOMAIN offers : LET plan == offers[k].plan  n == Len(plan.schedule) IN
    /\ SumOf(plan, "principal_component") = CashPrice - plan.down_payment
    /\ SumOf(plan, "profit_component") = plan.total_profit
    /\ plan.down_payment + Owed(plan, 0) = plan.installment_sale_price
    /\ \A i \in 1..n :
         /\ plan.schedule[i].profit_component >= 0
         /\ plan.schedule[i].principal_component
              - (CashPrice - plan.down_payment) \div n \in 0..1
===============================================================================

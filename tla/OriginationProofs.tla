---------------------------- MODULE OriginationProofs ----------------------------
(* Theorems about Origination, for any product, customers, rates and number of   *)
(* contracts: the stock is accounted for, only the latest offer of an application *)
(* is accepted, and every schedule offered adds up.                              *)
EXTENDS Origination, AmountTheorems, SequenceTheorems

Row(c) == c = [application |-> c.application, offer |-> c.offer, status |-> c.status,
               reason |-> c.reason, paid |-> c.paid]

\* A contract has a reason from the day it is closed.
Reasoned(c) == c.status # "closed" => c.reason = "none"

HasUnit(c) == c.reason \notin {"cancellation", "return"}
Out(s) == {n \in DOMAIN s : HasUnit(s[n])}

\* The contracts s explain the stock st after the corrections ad.
Explains(s, st, ad) ==
  /\ Numbered(s)
  /\ \A n \in DOMAIN s : Row(s[n]) /\ Reasoned(s[n])
  /\ st \in Int /\ ad \in Int
  /\ st = OpeningStock + ad - Cardinality(Out(s))

CInv == Explains(contracts, stock, adjusted)

LEMMA NumberedFacts ==
  ASSUME NEW s, Numbered(s)
  PROVE  /\ Len(s) \in Nat /\ DOMAIN s = 1..Len(s)
         /\ IsFiniteSet(Out(s)) /\ Cardinality(Out(s)) \in Nat
<1>1. Len(s) \in Nat /\ DOMAIN s = 1..Len(s)
  BY LenProperties DEF Numbered
<1>2. IsFiniteSet(1..Len(s))
  BY <1>1, FS_Interval
<1>3. Out(s) \subseteq 1..Len(s)
  BY <1>1 DEF Out
<1>4. IsFiniteSet(Out(s))
  BY <1>2, <1>3, FS_Subset
<1> QED BY <1>1, <1>4, FS_CardinalityType

\* The same rows with another status here and there.
LEMMA Renumbered ==
  ASSUME NEW s, Numbered(s), NEW t, t = [k \in DOMAIN s |-> t[k]]
  PROVE  Numbered(t) /\ DOMAIN t = DOMAIN s
<1>1. Len(s) \in Nat /\ DOMAIN s = 1..Len(s)
  BY NumberedDomain
<1>2. DOMAIN t = DOMAIN s
  OBVIOUS
<1>3. t = [k \in 1..Len(s) |-> t[k]]
  BY <1>1
<1> DEFINE T == {t[m] : m \in DOMAIN t}
<1>4. \A k \in 1..Len(s) : t[k] \in T
  BY <1>1, <1>2
<1> HIDE DEF T
<1>5. t \in Seq(T)
  BY <1>1, <1>3, <1>4, SeqByRows
<1> QED BY <1>2, <1>5 DEF Numbered, T

\* Changing one contract.
LEMMA ChangeOne ==
  ASSUME NEW s, Numbered(s), NEW n \in DOMAIN s, NEW c,
         NEW t, t = [s EXCEPT ![n] = c]
  PROVE  /\ Numbered(t) /\ DOMAIN t = DOMAIN s
         /\ t[n] = c /\ \A k \in DOMAIN s \ {n} : t[k] = s[k]
         /\ HasUnit(c) /\ HasUnit(s[n]) => Cardinality(Out(t)) = Cardinality(Out(s))
         /\ ~HasUnit(c) /\ HasUnit(s[n]) => Cardinality(Out(t)) = Cardinality(Out(s)) - 1
<1>1. Len(s) \in Nat /\ DOMAIN s = 1..Len(s) /\ IsFiniteSet(Out(s))
  BY NumberedFacts
<1>2. DOMAIN t = DOMAIN s /\ t = [k \in DOMAIN s |-> t[k]]
  OBVIOUS
<1>3. t[n] = c /\ \A k \in DOMAIN s \ {n} : t[k] = s[k]
  OBVIOUS
<1>4. Numbered(t)
  <2>1. t = [k \in 1..Len(s) |-> t[k]]
    BY <1>1, <1>2
  <2> DEFINE T == {t[m] : m \in DOMAIN t}
  <2>2. \A k \in 1..Len(s) : t[k] \in T
    BY <1>1, <1>2
  <2> HIDE DEF T
  <2>3. t \in Seq(T)
    BY <1>1, <2>1, <2>2, SeqByRows
  <2> QED BY <2>3 DEF Numbered, T
<1>5. ASSUME HasUnit(c), HasUnit(s[n]) PROVE Out(t) = Out(s)
  BY <1>2, <1>3, <1>5 DEF Out
<1>6. ASSUME ~HasUnit(c), HasUnit(s[n]) PROVE Cardinality(Out(t)) = Cardinality(Out(s)) - 1
  <2>1. Out(t) = Out(s) \ {n} /\ n \in Out(s)
    BY <1>2, <1>3, <1>6 DEF Out
  <2> QED BY <1>1, <2>1, FS_RemoveElement
<1> QED BY <1>2, <1>3, <1>4, <1>5, <1>6

LEMMA AddOne ==
  ASSUME NEW s, Numbered(s), NEW c, HasUnit(c), NEW t, t = Append(s, c)
  PROVE  /\ Numbered(t) /\ DOMAIN t = DOMAIN s \cup {Len(s) + 1}
         /\ t[Len(s) + 1] = c /\ \A k \in DOMAIN s : t[k] = s[k]
         /\ Cardinality(Out(t)) = Cardinality(Out(s)) + 1
<1> DEFINE L == Len(s)
<1>1. L \in Nat /\ DOMAIN s = 1..L /\ IsFiniteSet(Out(s))
  BY NumberedFacts
<1>2. AddsRow(Append(s, c), s, c)
  BY AddAny
<1>3. /\ Numbered(t) /\ DOMAIN t = DOMAIN s \cup {L + 1}
      /\ t[L + 1] = c /\ \A k \in DOMAIN s : t[k] = s[k]
  BY <1>2 DEF AddsRow
<1> HIDE DEF L
<1>4. L + 1 \notin DOMAIN s
  BY <1>1
<1>5. Out(t) = Out(s) \cup {L + 1} /\ L + 1 \notin Out(s)
  BY <1>3, <1>4 DEF Out
<1>6. Cardinality(Out(t)) = Cardinality(Out(s)) + 1
  BY <1>1, <1>5, FS_AddElement
<1> QED BY <1>3, <1>6 DEF L

LEMMA Opening == OpeningStock \in Nat
BY OriginationAssumption

\* A contract goes on and keeps its unit.
LEMMA UnitStays ==
  ASSUME NEW s, NEW st, NEW ad, Explains(s, st, ad), NEW n \in DOMAIN s, NEW c,
         Row(c), Reasoned(c), HasUnit(c), HasUnit(s[n])
  PROVE  Explains([s EXCEPT ![n] = c], st, ad)
<1> DEFINE t == [s EXCEPT ![n] = c]
<1>1. Numbered(s)
  BY DEF Explains
<1>2. /\ Numbered(t) /\ DOMAIN t = DOMAIN s
      /\ t[n] = c /\ \A k \in DOMAIN s \ {n} : t[k] = s[k]
      /\ Cardinality(Out(t)) = Cardinality(Out(s))
  BY <1>1, ChangeOne
<1> HIDE DEF t
<1>3. \A k \in DOMAIN t : Row(t[k]) /\ Reasoned(t[k])
  BY <1>2 DEF Explains
<1>4. Explains(t, st, ad)
  BY <1>2, <1>3 DEF Explains
<1> QED BY <1>4 DEF t

\* A contract ends and its unit comes back.
LEMMA UnitReturns ==
  ASSUME NEW s, NEW st, NEW ad, Explains(s, st, ad), NEW n \in DOMAIN s, NEW c,
         Row(c), Reasoned(c), ~HasUnit(c), HasUnit(s[n])
  PROVE  Explains([s EXCEPT ![n] = c], st + 1, ad)
<1> DEFINE t == [s EXCEPT ![n] = c]
<1>1. Numbered(s) /\ Cardinality(Out(s)) \in Nat
  BY NumberedFacts DEF Explains
<1>2. /\ Numbered(t) /\ DOMAIN t = DOMAIN s
      /\ t[n] = c /\ \A k \in DOMAIN s \ {n} : t[k] = s[k]
      /\ Cardinality(Out(t)) = Cardinality(Out(s)) - 1
  BY <1>1, ChangeOne
<1> HIDE DEF t
<1>3. \A k \in DOMAIN t : Row(t[k]) /\ Reasoned(t[k])
  BY <1>2 DEF Explains
<1>4. st + 1 \in Int /\ ad \in Int /\ st + 1 = OpeningStock + ad - Cardinality(Out(t))
  BY <1>1, <1>2, Opening DEF Explains
<1>5. Explains(t, st + 1, ad)
  BY <1>2, <1>3, <1>4 DEF Explains
<1> QED BY <1>5 DEF t

\* A contract begins and takes a unit.
LEMMA UnitGoes ==
  ASSUME NEW s, NEW st, NEW ad, Explains(s, st, ad), NEW c,
         Row(c), Reasoned(c), HasUnit(c)
  PROVE  Explains(Append(s, c), st - 1, ad)
<1> DEFINE t == Append(s, c)
<1>1. Numbered(s) /\ Cardinality(Out(s)) \in Nat
  BY NumberedFacts DEF Explains
<1>2. /\ Numbered(t) /\ DOMAIN t = DOMAIN s \cup {Len(s) + 1}
      /\ t[Len(s) + 1] = c /\ \A k \in DOMAIN s : t[k] = s[k]
      /\ Cardinality(Out(t)) = Cardinality(Out(s)) + 1
  BY <1>1, AddOne
<1> HIDE DEF t
<1>3. \A k \in DOMAIN t : Row(t[k]) /\ Reasoned(t[k])
  BY <1>2 DEF Explains
<1>4. st - 1 \in Int /\ ad \in Int /\ st - 1 = OpeningStock + ad - Cardinality(Out(t))
  BY <1>1, <1>2, Opening DEF Explains
<1>5. Explains(t, st - 1, ad)
  BY <1>2, <1>3, <1>4 DEF Explains
<1> QED BY <1>5 DEF t
-------------------------------------------------------------------------------
LEMMA StockStarts == Init => CInv
<1> SUFFICES ASSUME Init PROVE CInv
  OBVIOUS
<1>1. contracts = <<>> /\ stock = OpeningStock /\ adjusted = 0
  BY DEF Init
<1>2. DOMAIN contracts = {} /\ Numbered(contracts)
  BY <1>1 DEF Numbered
<1>3. Cardinality(Out(contracts)) = 0
  <2>1. Out(contracts) = {}
    BY <1>2 DEF Out
  <2> QED BY <2>1, FS_EmptySet
<1> QED BY <1>1, <1>2, <1>3, Opening DEF CInv, Explains

LEMMA AcceptKeeps ==
  ASSUME CInv, NEW k, accept_offer(k)
  PROVE  CInv'
<1> DEFINE c == [application |-> offers[k].application, offer |-> k, status |-> "created",
                 reason |-> "none", paid |-> 0]
<1>1. contracts' = Append(contracts, c) /\ stock' = stock - 1 /\ adjusted' = adjusted
  BY DEF accept_offer
<1>2. Row(c) /\ Reasoned(c) /\ HasUnit(c)
  BY DEF Row, Reasoned, HasUnit
<1> HIDE DEF c
<1>3. Explains(Append(contracts, c), stock - 1, adjusted)
  BY <1>2, UnitGoes DEF CInv
<1> QED BY <1>1, <1>3 DEF CInv

\* An open contract has its unit, whatever its columns.
LEMMA OpenRow ==
  ASSUME CInv, NEW n \in DOMAIN contracts, contracts[n].status # "closed"
  PROVE  /\ HasUnit(contracts[n])
         /\ \E a, o, p : contracts[n] = [application |-> a, offer |-> o,
              status |-> contracts[n].status, reason |-> "none", paid |-> p]
<1>1. Row(contracts[n]) /\ contracts[n].reason = "none"
  BY DEF CInv, Explains, Reasoned
<1> QED BY <1>1 DEF Row, HasUnit

LEMMA DeliveryKeeps ==
  ASSUME CInv, NEW n \in DOMAIN contracts, confirm_delivery(n)
  PROVE  CInv'
<1> DEFINE c == [contracts[n] EXCEPT !.status = "active"]
<1>1. /\ contracts' = [contracts EXCEPT ![n] = c] /\ stock' = stock /\ adjusted' = adjusted
      /\ contracts[n].status = "created"
  BY DEF confirm_delivery, shelf
<1>2. Row(c) /\ Reasoned(c) /\ HasUnit(c) /\ HasUnit(contracts[n])
  <2>1. PICK a, o, p : contracts[n] = [application |-> a, offer |-> o, status |-> "created",
                                       reason |-> "none", paid |-> p]
    BY <1>1, OpenRow
  <2> QED BY <2>1 DEF Row, Reasoned, HasUnit
<1> HIDE DEF c
<1>3. Explains([contracts EXCEPT ![n] = c], stock, adjusted)
  BY <1>2, UnitStays DEF CInv
<1> QED BY <1>1, <1>3 DEF CInv

\* Several columns of a row changed at once, as one row put in its place.
LEMMA EndedRow ==
  ASSUME NEW s, NEW n \in DOMAIN s, NEW reason
  PROVE  [s EXCEPT ![n].status = "closed", ![n].reason = reason] =
         [s EXCEPT ![n] = [s[n] EXCEPT !.status = "closed", !.reason = reason]]
OBVIOUS

LEMMA PaidRow ==
  ASSUME NEW s, NEW n \in DOMAIN s
  PROVE  [s EXCEPT ![n].paid = @ + 1] = [s EXCEPT ![n] = [s[n] EXCEPT !.paid = @ + 1]]
OBVIOUS

LEMMA EndedPaidRow ==
  ASSUME NEW s, NEW n \in DOMAIN s, NEW c, NEW t, t = [s EXCEPT ![n] = c]
  PROVE  [t EXCEPT ![n].paid = @ + 1] = [s EXCEPT ![n] = [c EXCEPT !.paid = @ + 1]]
OBVIOUS

LEMMA EndedColumns ==
  ASSUME NEW row, Row(row), NEW reason
  PROVE  [row EXCEPT !.status = "closed", !.reason = reason] =
         [application |-> row.application, offer |-> row.offer, status |-> "closed",
          reason |-> reason, paid |-> row.paid]
<1> DEFINE ended == [row EXCEPT !.status = "closed"]
<1>1. ended = [application |-> row.application, offer |-> row.offer, status |-> "closed",
               reason |-> row.reason, paid |-> row.paid]
  BY DEF Row
<1>2. [row EXCEPT !.status = "closed", !.reason = reason] = [ended EXCEPT !.reason = reason]
  BY DEF Row
<1> HIDE DEF ended
<1>3. [ended EXCEPT !.reason = reason] =
      [application |-> row.application, offer |-> row.offer, status |-> "closed",
       reason |-> reason, paid |-> row.paid]
  BY <1>1
<1> QED BY <1>2, <1>3

LEMMA PaymentKeeps ==
  ASSUME CInv, NEW n \in DOMAIN contracts, PayInstallment(n)
  PROVE  CInv'
<1>1. /\ contracts[n].status = "active" /\ stock' = stock /\ adjusted' = adjusted
      /\ \/ contracts' = [contracts EXCEPT ![n].paid = @ + 1]
         \/ contracts' = [Closed(n, "normal") EXCEPT ![n].paid = @ + 1]
  BY DEF PayInstallment, shelf
<1>2. PICK a, o, p : contracts[n] = [application |-> a, offer |-> o, status |-> "active",
                                     reason |-> "none", paid |-> p]
  BY <1>1, OpenRow
<1>3. PICK c : /\ contracts' = [contracts EXCEPT ![n] = c]
               /\ Row(c) /\ Reasoned(c) /\ HasUnit(c)
  <2>1. CASE contracts' = [contracts EXCEPT ![n].paid = @ + 1]
    <3> DEFINE c == [contracts[n] EXCEPT !.paid = @ + 1]
    <3>1. contracts' = [contracts EXCEPT ![n] = c]
      BY <2>1, PaidRow
    <3>2. c = [application |-> a, offer |-> o, status |-> "active",
               reason |-> "none", paid |-> p + 1]
      BY <1>2
    <3> HIDE DEF c
    <3>3. Row(c) /\ Reasoned(c) /\ HasUnit(c)
      BY <3>2 DEF Row, Reasoned, HasUnit
    <3> QED BY <3>1, <3>3
  <2>2. CASE contracts' = [Closed(n, "normal") EXCEPT ![n].paid = @ + 1]
    <3> DEFINE e == [contracts[n] EXCEPT !.status = "closed", !.reason = "normal"]
               c == [e EXCEPT !.paid = @ + 1]
               t == Closed(n, "normal")
    <3>1. e = [application |-> a, offer |-> o, status |-> "closed",
               reason |-> "normal", paid |-> p]
      <4>1. Row(contracts[n]) /\ contracts[n].application = a /\ contracts[n].offer = o
            /\ contracts[n].paid = p
        BY <1>2 DEF CInv, Explains
      <4>2. e = [application |-> contracts[n].application, offer |-> contracts[n].offer,
                 status |-> "closed", reason |-> "normal", paid |-> contracts[n].paid]
        BY <4>1, EndedColumns
      <4> QED BY <4>1, <4>2
    <3>2. t = [contracts EXCEPT ![n] = e]
      BY EndedRow DEF Closed
    <3> HIDE DEF e, t
    <3>3. contracts' = [contracts EXCEPT ![n] = c]
      <4>1. contracts' = [t EXCEPT ![n].paid = @ + 1]
        BY <2>2 DEF t
      <4> QED BY <3>2, <4>1, EndedPaidRow
    <3>4. c = [application |-> a, offer |-> o, status |-> "closed",
               reason |-> "normal", paid |-> p + 1]
      BY <3>1
    <3> HIDE DEF c
    <3>5. Row(c) /\ Reasoned(c) /\ HasUnit(c)
      BY <3>4 DEF Row, Reasoned, HasUnit
    <3> QED BY <3>3, <3>5
  <2> QED BY <1>1, <2>1, <2>2
<1>4. HasUnit(contracts[n])
  BY <1>1, OpenRow
<1>5. Explains([contracts EXCEPT ![n] = c], stock, adjusted)
  BY <1>3, <1>4, UnitStays DEF CInv
<1> QED BY <1>1, <1>3, <1>5 DEF CInv

\* The unit comes back exactly when the contract counts as out no more.
LEMMA EndKeeps ==
  ASSUME CInv, NEW n \in DOMAIN contracts,
         NEW reason \in {"cancellation", "return", "settlement"}, Ends(n, reason)
  PROVE  CInv'
<1>1. /\ contracts[n].status # "closed" /\ adjusted' = adjusted
      /\ stock' = IF reason \in {"cancellation", "return"} THEN stock + 1 ELSE stock
      /\ contracts' = Closed(n, reason)
  BY DEF Ends, _release_stock
<1> DEFINE c == [contracts[n] EXCEPT !.status = "closed", !.reason = reason]
<1>2. contracts' = [contracts EXCEPT ![n] = c]
  BY <1>1, EndedRow DEF Closed
<1>3. Row(c) /\ Reasoned(c) /\ c.reason = reason
  <2>1. Row(contracts[n])
    BY DEF CInv, Explains
  <2>2. c = [application |-> contracts[n].application, offer |-> contracts[n].offer,
             status |-> "closed", reason |-> reason, paid |-> contracts[n].paid]
    BY <2>1, EndedColumns
  <2> HIDE DEF c
  <2> QED BY <2>2 DEF Row, Reasoned
<1>4. HasUnit(contracts[n])
  BY <1>1, OpenRow
<1> HIDE DEF c
<1>5. CASE reason = "settlement"
  <2>1. HasUnit(c) /\ stock' = stock
    BY <1>1, <1>3, <1>5 DEF HasUnit
  <2>2. Explains([contracts EXCEPT ![n] = c], stock, adjusted)
    BY <1>3, <1>4, <2>1, UnitStays DEF CInv
  <2> QED BY <1>1, <1>2, <2>1, <2>2 DEF CInv
<1>6. CASE reason \in {"cancellation", "return"}
  <2>1. ~HasUnit(c) /\ stock' = stock + 1
    BY <1>1, <1>3, <1>6 DEF HasUnit
  <2>2. Explains([contracts EXCEPT ![n] = c], stock + 1, adjusted)
    BY <1>3, <1>4, <2>1, UnitReturns DEF CInv
  <2> QED BY <1>1, <1>2, <2>1, <2>2 DEF CInv
<1> QED BY <1>5, <1>6

LEMMA AdjustKeeps ==
  ASSUME CInv, NEW delta \in Adjustments, adjust_stock(delta)
  PROVE  CInv'
<1>1. /\ delta \in Int /\ stock' = stock + delta /\ adjusted' = adjusted + delta
      /\ contracts' = contracts
  BY OriginationAssumption DEF adjust_stock
<1>2. Cardinality(Out(contracts)) \in Nat
  BY NumberedFacts DEF CInv, Explains
<1>3. Explains(contracts, stock + delta, adjusted + delta)
  BY <1>1, <1>2, Opening DEF CInv, Explains
<1> QED BY <1>1, <1>3 DEF CInv

LEMMA StockKept == CInv /\ [Next]_vars => CInv'
<1> SUFFICES ASSUME CInv, [Next]_vars PROVE CInv'
  OBVIOUS
<1>1. CASE contracts' = contracts /\ stock' = stock /\ adjusted' = adjusted
  BY <1>1 DEF CInv
<1>2. CASE \E k \in DOMAIN offers : accept_offer(k)
  BY <1>2, AcceptKeeps
<1>3. ASSUME NEW n \in DOMAIN contracts,
             \/ confirm_delivery(n) \/ PayInstallment(n)
             \/ \E reason \in {"cancellation", "return", "settlement"} : Ends(n, reason)
      PROVE  CInv'
  BY <1>3, DeliveryKeeps, PaymentKeeps, EndKeeps
<1>4. CASE \E delta \in Adjustments : adjust_stock(delta)
  BY <1>4, AdjustKeeps
<1> QED
  BY <1>1, <1>2, <1>3, <1>4
  DEF Next, vars, shelf, create_application, submit_application, review_application,
      generate_offer, NextDay

\* For any opening stock, customers and contracts, and any corrections whose net
\* stays within MaxCorrection, whatever that is: the stock is what there was,
\* corrected, less the units whose contract was neither cancelled nor returned
\* (accept_offer and _release_stock never lose or invent a unit).
THEOREM StockCorrect == Spec => []StockAddsUp
<1>1. CInv => StockAddsUp
  BY DEF CInv, Explains, StockAddsUp, Out, HasUnit
<1> QED BY <1>1, StockStarts, StockKept, PTL DEF Spec
-------------------------------------------------------------------------------
\* Offers: rows, their numbers, and the contracts made of them.

OfferRow(o) == o = [application |-> o.application, plan |-> o.plan, status |-> o.status,
                    valid_until |-> o.valid_until]

\* An offer that may still be accepted is the last one of its application.
LatestIn(os) ==
  \A k, j \in DOMAIN os :
    os[k].status = "presented" /\ os[j].application = os[k].application => j <= k

Deals(cs, k) == {n \in DOMAIN cs : cs[n].offer = k}

\* Each accepted offer is one contract, and each contract comes from one.
OneEach(os, cs) ==
  /\ \A n \in DOMAIN cs : cs[n].offer \in DOMAIN os
  /\ \A k \in DOMAIN os :
       Cardinality(Deals(cs, k)) = IF os[k].status = "accepted" THEN 1 ELSE 0

OfferInv ==
  /\ Numbered(offers) /\ \A k \in DOMAIN offers : OfferRow(offers[k])
  /\ LatestIn(offers)
  /\ OneEach(offers, contracts)

LEMMA OffersStart == Init => OfferInv
<1> SUFFICES ASSUME Init PROVE OfferInv
  OBVIOUS
<1>1. offers = <<>> /\ contracts = <<>>
  BY DEF Init
<1>2. DOMAIN offers = {} /\ DOMAIN contracts = {} /\ Numbered(offers)
  BY <1>1 DEF Numbered
<1> QED BY <1>2 DEF OfferInv, LatestIn, OneEach

\* The same contracts of the same offers.
SameDeals(cs, ds) == DOMAIN ds = DOMAIN cs /\ \A n \in DOMAIN cs : ds[n].offer = cs[n].offer

LEMMA SameDealsKeep ==
  ASSUME NEW os, NEW cs, NEW ds, SameDeals(cs, ds), OneEach(os, cs)
  PROVE  OneEach(os, ds)
<1>1. \A k : Deals(ds, k) = Deals(cs, k)
  BY DEF Deals, SameDeals
<1>2. \A n \in DOMAIN ds : ds[n].offer \in DOMAIN os
  BY DEF OneEach, SameDeals
<1>3. \A k \in DOMAIN os :
        Cardinality(Deals(ds, k)) = IF os[k].status = "accepted" THEN 1 ELSE 0
  BY <1>1 DEF OneEach
<1> QED BY <1>2, <1>3 DEF OneEach

\* Delivery, payment and the end of a contract leave its offer alone.
LEMMA ContractKeepsOffer ==
  ASSUME CInv, NEW n \in DOMAIN contracts,
         \/ confirm_delivery(n) \/ PayInstallment(n)
         \/ \E reason \in {"cancellation", "return", "settlement"} : Ends(n, reason)
  PROVE  SameDeals(contracts, contracts') /\ UNCHANGED <<today, offers>>
<1>1. UNCHANGED <<today, offers>>
  BY DEF confirm_delivery, PayInstallment, Ends, shelf
<1>2. Row(contracts[n])
  BY DEF CInv, Explains
<1>3. CASE contracts' = [contracts EXCEPT ![n].status = "active"]
  BY <1>1, <1>2, <1>3 DEF SameDeals, Row
<1>4. ASSUME NEW reason, NEW t,
             t = [contracts EXCEPT ![n].status = "closed", ![n].reason = reason]
      PROVE  SameDeals(contracts, t) /\ Row(t[n])
  <2> DEFINE c == [contracts[n] EXCEPT !.status = "closed", !.reason = reason]
  <2>1. t = [contracts EXCEPT ![n] = c]
    BY <1>4, EndedRow
  <2>2. c = [application |-> contracts[n].application, offer |-> contracts[n].offer,
             status |-> "closed", reason |-> reason, paid |-> contracts[n].paid]
    BY <1>2, EndedColumns
  <2> HIDE DEF c
  <2>3. c.offer = contracts[n].offer /\ Row(c)
    BY <2>2 DEF Row
  <2>4. /\ t[n] = c /\ DOMAIN t = DOMAIN contracts
        /\ \A m \in DOMAIN contracts : m # n => t[m] = contracts[m]
    BY <2>1
  <2> QED BY <2>3, <2>4 DEF SameDeals
<1>5. CASE \E reason : contracts' = Closed(n, reason)
  BY <1>1, <1>4, <1>5 DEF Closed
<1>6. ASSUME NEW t, SameDeals(contracts, t), Row(t[n]),
             contracts' = [t EXCEPT ![n].paid = @ + 1]
      PROVE  SameDeals(contracts, contracts')
  <2>1. contracts'[n].offer = t[n].offer /\ DOMAIN contracts' = DOMAIN t
    BY <1>6 DEF Row, SameDeals
  <2>2. \A m \in DOMAIN t : m # n => contracts'[m] = t[m]
    BY <1>6
  <2> QED BY <1>6, <2>1, <2>2 DEF SameDeals
<1>7. CASE PayInstallment(n)
  <2>1. CASE contracts' = [contracts EXCEPT ![n].paid = @ + 1]
    <3>1. SameDeals(contracts, contracts)
      BY DEF SameDeals
    <3> QED BY <1>1, <1>2, <1>6, <2>1, <3>1
  <2>2. CASE contracts' = [Closed(n, "normal") EXCEPT ![n].paid = @ + 1]
    <3>1. SameDeals(contracts, Closed(n, "normal")) /\ Row(Closed(n, "normal")[n])
      BY <1>4 DEF Closed
    <3> QED BY <1>1, <1>6, <2>2, <3>1
  <2> QED BY <1>7, <2>1, <2>2 DEF PayInstallment
<1>8. CASE confirm_delivery(n)
  BY <1>3, <1>8 DEF confirm_delivery
<1>9. CASE \E reason \in {"cancellation", "return", "settlement"} : Ends(n, reason)
  BY <1>5, <1>9 DEF Ends
<1> QED BY <1>7, <1>8, <1>9

\* A new offer leaves none of its application open, is the last, and has no contract.
LEMMA OfferKeeps ==
  ASSUME OfferInv, NEW n, NEW plan, contracts' = contracts,
         offers' = Append(Superseded(n), Offer(n, plan))
  PROVE  OfferInv'
<1> DEFINE s == Superseded(n)
           L == Len(s)
           o == Offer(n, plan)
<1>1. s = [k \in DOMAIN offers |-> s[k]] /\ Numbered(offers)
  BY DEF Superseded, OfferInv
<1>2. Numbered(s) /\ DOMAIN s = DOMAIN offers
  BY <1>1, Renumbered
<1>3. ASSUME NEW k \in DOMAIN offers
      PROVE  /\ OfferRow(s[k]) /\ s[k].application = offers[k].application
             /\ s[k].status = "accepted" <=> offers[k].status = "accepted"
             /\ s[k].status = "presented" =>
                  offers[k].status = "presented" /\ offers[k].application # n
  <2>1. OfferRow(offers[k])
    BY DEF OfferInv
  <2>2. s[k] = IF offers[k].application = n /\ offers[k].status = "presented"
               THEN [offers[k] EXCEPT !.status = "expired"] ELSE offers[k]
    BY DEF Superseded, OffersOf
  <2> HIDE DEF s
  <2>3. CASE offers[k].application = n /\ offers[k].status = "presented"
    <3>1. s[k] = [application |-> offers[k].application, plan |-> offers[k].plan,
                  status |-> "expired", valid_until |-> offers[k].valid_until]
      BY <2>1, <2>2, <2>3 DEF OfferRow
    <3> QED BY <2>3, <3>1 DEF OfferRow
  <2>4. CASE ~(offers[k].application = n /\ offers[k].status = "presented")
    <3>1. s[k] = offers[k]
      BY <2>2, <2>4
    <3> QED BY <2>1, <2>4, <3>1
  <2> QED BY <2>3, <2>4
<1>4. o.application = n /\ o.status = "presented" /\ OfferRow(o)
  BY DEF Offer, OfferRow
<1> HIDE DEF s, o
<1>5. L \in Nat /\ DOMAIN s = 1..L
  BY <1>2, NumberedDomain
<1>6. offers' = Append(s, o)
  BY DEF s, o
<1> HIDE DEF L
<1>7. /\ Numbered(offers') /\ DOMAIN offers' = DOMAIN s \cup {L + 1}
      /\ offers'[L + 1] = o /\ \A k \in DOMAIN s : offers'[k] = s[k]
  <2>1. AddsRow(Append(s, o), s, o)
    BY <1>2, AddAny
  <2> QED BY <1>6, <2>1 DEF AddsRow, L
<1>8. \A k \in DOMAIN offers' : OfferRow(offers'[k])
  BY <1>2, <1>3, <1>4, <1>7
<1>9. LatestIn(offers')
  <2> SUFFICES ASSUME NEW k \in DOMAIN offers', NEW j \in DOMAIN offers',
                      offers'[k].status = "presented",
                      offers'[j].application = offers'[k].application
               PROVE  j <= k
    BY DEF LatestIn
  <2>1. CASE k = L + 1
    <3>1. j \in 1..L \/ j = L + 1
      BY <1>5, <1>7
    <3> QED BY <1>5, <2>1, <3>1
  <2>2. CASE k \in DOMAIN s
    <3>1. /\ offers[k].status = "presented" /\ offers[k].application # n
          /\ offers'[k].application = offers[k].application
      BY <1>2, <1>3, <1>7, <2>2
    <3>2. j # L + 1
      BY <1>4, <1>7, <3>1
    <3>3. j \in DOMAIN offers /\ offers'[j].application = offers[j].application
      BY <1>2, <1>3, <1>7, <3>2
    <3> QED BY <1>2, <2>2, <3>1, <3>3 DEF OfferInv, LatestIn
  <2> QED BY <1>7, <2>1, <2>2
<1>10. OneEach(offers', contracts)
  <2>1. \A m \in DOMAIN contracts : contracts[m].offer \in DOMAIN offers'
    BY <1>2, <1>7 DEF OfferInv, OneEach
  <2>2. ASSUME NEW k \in DOMAIN s
        PROVE  Cardinality(Deals(contracts, k)) =
                 IF offers'[k].status = "accepted" THEN 1 ELSE 0
    <3>1. offers'[k].status = "accepted" <=> offers[k].status = "accepted"
      BY <1>2, <1>3, <1>7
    <3> QED BY <1>2, <3>1 DEF OfferInv, OneEach
  <2>3. Cardinality(Deals(contracts, L + 1)) = 0
    <3>1. L + 1 \notin DOMAIN offers
      BY <1>2, <1>5
    <3>2. Deals(contracts, L + 1) = {}
      BY <3>1 DEF Deals, OfferInv, OneEach
    <3> QED BY <3>2, FS_EmptySet
  <2>4. offers'[L + 1].status # "accepted"
    BY <1>4, <1>7
  <2> QED BY <1>7, <2>1, <2>2, <2>3, <2>4 DEF OneEach
<1> QED BY <1>7, <1>8, <1>9, <1>10 DEF OfferInv

\* The offer that is accepted was open, so it had no contract, and now it has one.
LEMMA AcceptKeepsOffers ==
  ASSUME CInv, OfferInv, NEW k \in DOMAIN offers, accept_offer(k)
  PROVE  /\ OfferInv'
         /\ DOMAIN offers' = DOMAIN offers
         /\ \A j \in DOMAIN offers : j # k => offers'[j] = offers[j]
<1> DEFINE c == [application |-> offers[k].application, offer |-> k, status |-> "created",
                 reason |-> "none", paid |-> 0]
           o == [offers[k] EXCEPT !.status = "accepted"]
           L == Len(contracts)
<1>1. /\ contracts' = Append(contracts, c) /\ c.offer = k
      /\ offers' = [offers EXCEPT ![k] = o] /\ offers[k].status = "presented"
  BY DEF accept_offer, MayAccept
<1>2. OfferRow(o) /\ o.status = "accepted" /\ o.application = offers[k].application
  <2>1. OfferRow(offers[k])
    BY DEF OfferInv
  <2>2. o = [application |-> offers[k].application, plan |-> offers[k].plan,
             status |-> "accepted", valid_until |-> offers[k].valid_until]
    BY <2>1 DEF OfferRow
  <2> HIDE DEF o
  <2> QED BY <2>2 DEF OfferRow
<1> HIDE DEF c, o
<1>3. /\ offers' = [j \in DOMAIN offers |-> offers'[j]]
      /\ DOMAIN offers' = DOMAIN offers /\ offers'[k] = o
      /\ \A j \in DOMAIN offers : j # k => offers'[j] = offers[j]
  BY <1>1
<1>4. Numbered(offers')
  <2>1. Numbered(offers)
    BY DEF OfferInv
  <2> QED BY <1>3, <2>1, Renumbered
<1>5. \A j \in DOMAIN offers' : OfferRow(offers'[j])
  BY <1>2, <1>3 DEF OfferInv
<1>6. LatestIn(offers')
  <2>1. \A j \in DOMAIN offers : offers'[j].application = offers[j].application
    BY <1>2, <1>3
  <2>2. \A j \in DOMAIN offers :
          offers'[j].status = "presented" => offers[j].status = "presented"
    BY <1>1, <1>3
  <2> QED BY <1>3, <2>1, <2>2 DEF OfferInv, LatestIn
<1>7. L \in Nat /\ DOMAIN contracts = 1..L /\ Numbered(contracts)
  BY NumberedDomain DEF CInv, Explains
<1>8. /\ DOMAIN contracts' = DOMAIN contracts \cup {L + 1}
      /\ contracts'[L + 1] = c /\ \A m \in DOMAIN contracts : contracts'[m] = contracts[m]
  <2>1. AddsRow(Append(contracts, c), contracts, c)
    BY <1>7, AddAny
  <2> QED BY <1>1, <2>1 DEF AddsRow
<1> HIDE DEF L
<1>9. OneEach(offers', contracts')
  <2>1. \A m \in DOMAIN contracts' : contracts'[m].offer \in DOMAIN offers'
    BY <1>1, <1>3, <1>8 DEF OfferInv, OneEach
  <2>2. ASSUME NEW j \in DOMAIN offers, j # k
        PROVE  Cardinality(Deals(contracts', j)) =
                 IF offers'[j].status = "accepted" THEN 1 ELSE 0
    <3>1. Deals(contracts', j) = Deals(contracts, j)
      BY <1>1, <1>7, <1>8, <2>2 DEF Deals
    <3> QED BY <1>3, <2>2, <3>1 DEF OfferInv, OneEach
  <2>3. Cardinality(Deals(contracts', k)) = 1
    <3>1. /\ Deals(contracts', k) = Deals(contracts, k) \cup {L + 1}
          /\ L + 1 \notin Deals(contracts, k)
      BY <1>1, <1>7, <1>8 DEF Deals
    <3>2. Cardinality(Deals(contracts, k)) = 0
      BY <1>1 DEF OfferInv, OneEach
    <3>3. IsFiniteSet(Deals(contracts, k))
      <4>1. Deals(contracts, k) \subseteq 1..L /\ IsFiniteSet(1..L)
        BY <1>7, FS_Interval DEF Deals
      <4> QED BY <4>1, FS_Subset
    <3> QED BY <3>1, <3>2, <3>3, FS_AddElement
  <2> QED BY <1>2, <1>3, <2>1, <2>2, <2>3 DEF OneEach
<1> QED BY <1>3, <1>4, <1>5, <1>6, <1>9 DEF OfferInv

OffersKept == UNCHANGED offers /\ SameDeals(contracts, contracts')
OfferMade == /\ contracts' = contracts
             /\ \E n, plan : offers' = Append(Superseded(n), Offer(n, plan))

LEMMA OfferSteps ==
  ASSUME CInv, [Next]_vars
  PROVE  OffersKept \/ OfferMade \/ \E k \in DOMAIN offers : accept_offer(k)
<1>1. CASE UNCHANGED <<offers, contracts>>
  BY <1>1 DEF OffersKept, SameDeals
<1>2. ASSUME NEW n \in DOMAIN contracts,
             \/ confirm_delivery(n) \/ PayInstallment(n)
             \/ \E reason \in {"cancellation", "return", "settlement"} : Ends(n, reason)
      PROVE  OffersKept
  BY <1>2, ContractKeepsOffer DEF OffersKept
<1>3. ASSUME NEW n, NEW down, NEW tenor, generate_offer(n, down, tenor)
      PROVE  UNCHANGED <<offers, contracts>> \/ OfferMade
  <2>1. PICK plan : plan = build_plan(CashPrice, down, tenor, Config.rates[tenor])
    OBVIOUS
  <2> QED BY <1>3, <2>1 DEF generate_offer, OfferMade
<1> QED
  BY <1>1, <1>2, <1>3
  DEF Next, vars, shelf, create_application, submit_application, review_application,
      adjust_stock, NextDay

LEMMA OffersStay == CInv /\ OfferInv /\ [Next]_vars => OfferInv'
<1> SUFFICES ASSUME CInv, OfferInv, [Next]_vars PROVE OfferInv'
  OBVIOUS
<1>1. CASE OffersKept
  <2>1. OneEach(offers, contracts')
    BY <1>1, SameDealsKeep DEF OffersKept, OfferInv
  <2> QED BY <1>1, <2>1 DEF OffersKept, OfferInv
<1>2. CASE OfferMade
  BY <1>2, OfferKeeps DEF OfferMade
<1>3. CASE \E k \in DOMAIN offers : accept_offer(k)
  BY <1>3, AcceptKeepsOffers
<1> QED BY <1>1, <1>2, <1>3, OfferSteps

\* What the property says of a step.
LatestOnlyStep ==
  /\ \A k \in DOMAIN offers :
       offers[k].status # "accepted" /\ offers'[k].status = "accepted"
         => k = Max(OffersOf(offers[k].application)) /\ today <= offers[k].valid_until
  /\ \A k \in DOMAIN offers' :
       Cardinality({n \in DOMAIN contracts' : contracts'[n].offer = k})
         = IF offers'[k].status = "accepted" THEN 1 ELSE 0

LEMMA AcceptsTheLatest ==
  ASSUME CInv, OfferInv, [Next]_vars
  PROVE  LatestOnlyStep
<1>1. ASSUME NEW k \in DOMAIN offers,
             offers[k].status # "accepted", offers'[k].status = "accepted"
      PROVE  k = Max(OffersOf(offers[k].application)) /\ today <= offers[k].valid_until
  <2>1. CASE OffersKept
    BY <1>1, <2>1 DEF OffersKept
  <2>2. ASSUME NEW n, NEW plan, offers' = Append(Superseded(n), Offer(n, plan))
        PROVE  FALSE
    <3> DEFINE s == Superseded(n)
    <3>1. s = [j \in DOMAIN offers |-> s[j]] /\ Numbered(offers)
      BY DEF Superseded, OfferInv
    <3>2. Numbered(s) /\ DOMAIN s = DOMAIN offers
      BY <3>1, Renumbered
    <3>3. s[k].status # "accepted"
      <4>1. OfferRow(offers[k])
        BY DEF OfferInv
      <4>2. s[k] = offers[k] \/ s[k] = [offers[k] EXCEPT !.status = "expired"]
        BY DEF Superseded
      <4> QED BY <1>1, <4>1, <4>2 DEF OfferRow
    <3> HIDE DEF s
    <3>4. offers'[k] = s[k]
      <4>1. AddsRow(Append(s, Offer(n, plan)), s, Offer(n, plan))
        BY <3>2, AddAny
      <4> QED BY <2>2, <3>2, <4>1 DEF AddsRow, s
    <3> QED BY <1>1, <3>3, <3>4
  <2>3. ASSUME NEW j \in DOMAIN offers, accept_offer(j)
        PROVE  k = Max(OffersOf(offers[k].application)) /\ today <= offers[k].valid_until
    <3>1. j = k
      BY <1>1, <2>3, AcceptKeepsOffers
    <3>2. offers[k].status = "presented" /\ today <= offers[k].valid_until
      BY <2>3, <3>1 DEF accept_offer, MayAccept
    <3>3. \A m \in OffersOf(offers[k].application) : m <= k
      BY <3>2 DEF OfferInv, LatestIn, OffersOf
    <3>4. /\ k \in OffersOf(offers[k].application)
          /\ OffersOf(offers[k].application) \subseteq Nat
      <4>1. DOMAIN offers \subseteq Nat
        BY NumberedDomain DEF OfferInv
      <4> QED BY <4>1 DEF OffersOf
    <3>5. \A m \in OffersOf(offers[k].application) :
            (\A i \in OffersOf(offers[k].application) : m >= i) <=> m = k
      BY <3>3, <3>4
    <3>6. k = Max(OffersOf(offers[k].application))
      BY <3>4, <3>5 DEF Max
    <3> QED BY <3>2, <3>6
  <2> QED BY <2>1, <2>2, <2>3, OfferSteps DEF OfferMade
<1>2. OneEach(offers, contracts)'
  BY OffersStay DEF OfferInv
<1> QED BY <1>1, <1>2 DEF LatestOnlyStep, OneEach, Deals

\* For any number of applications, offers and contracts: only the latest offer of an
\* application is ever accepted, within its validity, and each accepted offer is one
\* contract (generate_offer expires the open ones before it presents another, and
\* accept_offer leaves none open that it has accepted).
THEOREM LatestOfferCorrect == Spec => OnlyTheLatestIsAccepted
<1>1. CInv /\ OfferInv /\ [Next]_vars => [LatestOnlyStep]_vars
  BY AcceptsTheLatest
<1>2. OnlyTheLatestIsAccepted <=> [][LatestOnlyStep]_vars
  BY DEF OnlyTheLatestIsAccepted, LatestOnlyStep
<1> QED BY <1>1, <1>2, StockStarts, StockKept, OffersStart, OffersStay, PTL DEF Spec
-------------------------------------------------------------------------------
\* Rounding: the largest whole number that is not above.

LEMMA DivMeans ==
  ASSUME NEW a \in Nat, NEW b \in Nat, b > 0
  PROVE  a \div b \in Nat /\ b * (a \div b) <= a /\ a < b * (a \div b) + b
OBVIOUS

\* Products of a positive number are ordered as their factors.
LEMMA Factors ==
  ASSUME NEW b \in Nat, b > 0, NEW x \in Int, NEW y \in Int, b * x < b * y
  PROVE  x < y
<1> SUFFICES ASSUME ~(x < y) PROVE FALSE
  OBVIOUS
<1>1. PICK d \in Nat : x = y + d
  <2>1. x - y \in Nat /\ x = y + (x - y)
    OBVIOUS
  <2> QED BY <2>1
<1>2. b * x = b * y + b * d
  BY <1>1
<1>3. b * d >= 0 /\ b * y \in Int /\ b * d \in Int
  OBVIOUS
<1> QED BY <1>2, <1>3

\* A whole quotient is found by its bounds.
LEMMA DivIs ==
  ASSUME NEW a \in Nat, NEW b \in Nat, b > 0, NEW q \in Int, b * q <= a, a < b * q + b
  PROVE  a \div b = q
<1>1. PICK r \in Nat : r = a \div b
  BY DivMeans
<1>2. b * r <= a /\ a < b * r + b
  BY <1>1, DivMeans
<1>3. b * r \in Int /\ b * q \in Int /\ b * (r + 1) = b * r + b /\ b * (q + 1) = b * q + b
  OBVIOUS
<1>4. b * r < b * (q + 1) /\ b * q < b * (r + 1)
  BY <1>2, <1>3
<1>5. r < q + 1 /\ q < r + 1
  BY <1>4, Factors
<1> QED BY <1>1, <1>5

\* _money of a whole number, and of none.
LEMMA MoneyWhole ==
  ASSUME NEW a \in Nat, NEW b \in Nat, b > 0
  PROVE  _money(a * b, b) = a /\ _money(0, b) = 0
<1>1. PICK c \in Nat : c = 2 * b
  OBVIOUS
<1>2. c > 0 /\ c = b + b
  BY <1>1
<1>3. PICK m \in Nat : m = 2 * (a * b) + b
  OBVIOUS
<1>4. c * a \in Nat /\ 2 * (a * b) = c * a
  BY <1>1
<1>5. m \div c = a
  <2>1. c * a <= m /\ m < c * a + c
    BY <1>2, <1>3, <1>4
  <2> QED BY <1>2, <2>1, DivIs
<1>6. b \div c = 0
  <2>1. c * 0 = 0
    OBVIOUS
  <2> QED BY <1>2, <2>1, DivIs
<1>7. _money(a * b, b) = m \div c /\ _money(0, b) = b \div c
  BY <1>1, <1>3 DEF _money
<1> QED BY <1>5, <1>6, <1>7

\* _money is a natural number and does not fall.
LEMMA MoneyNat ==
  ASSUME NEW a \in Nat, NEW b \in Nat, b > 0
  PROVE  _money(a, b) \in Nat
<1>1. 2 * a + b \in Nat /\ 2 * b \in Nat /\ 2 * b > 0
  OBVIOUS
<1> QED BY <1>1, DivMeans DEF _money

LEMMA MoneyGrows ==
  ASSUME NEW a \in Nat, NEW a2 \in Nat, a <= a2, NEW b \in Nat, b > 0
  PROVE  _money(a, b) <= _money(a2, b)
<1>1. PICK c \in Nat : c = 2 * b /\ c > 0
  OBVIOUS
<1>2. PICK m \in Nat : m = 2 * a + b
  OBVIOUS
<1>3. PICK m2 \in Nat : m2 = 2 * a2 + b
  OBVIOUS
<1>4. m <= m2
  BY <1>2, <1>3
<1>5. PICK x \in Nat : x = m \div c /\ c * x <= m
  BY <1>1, DivMeans
<1>6. PICK y \in Nat : y = m2 \div c /\ m2 < c * y + c
  BY <1>1, DivMeans
<1>7. c * (y + 1) = c * y + c /\ c * x \in Int /\ c * y \in Int
  OBVIOUS
<1>8. c * x < c * (y + 1)
  BY <1>4, <1>5, <1>6, <1>7
<1>9. x < y + 1
  BY <1>1, <1>8, Factors
<1>10. _money(a, b) = x /\ _money(a2, b) = y
  BY <1>1, <1>2, <1>3, <1>5, <1>6 DEF _money
<1> QED BY <1>9, <1>10

\* Equal shares, rounded when they are added up, differ by one unit at most.
LEMMA EvenShare ==
  ASSUME NEW p \in Nat, NEW n \in Nat, n > 0, NEW i \in Nat
  PROVE  _money(p * (i + 1), n) - _money(p * i, n) - p \div n \in 0..1
<1>1. PICK c \in Nat : c = 2 * n /\ c > 0
  OBVIOUS
<1>2. PICK m \in Nat : m = 2 * (p * i) + n
  <2>1. p * i \in Nat
    OBVIOUS
  <2> QED BY <2>1
<1>3. PICK m2 \in Nat : m2 = m + 2 * p
  OBVIOUS
<1>4. m2 = 2 * (p * (i + 1)) + n
  <2>1. p * (i + 1) = p * i + p /\ p * i \in Nat
    OBVIOUS
  <2> QED BY <1>2, <1>3, <2>1
<1>5. PICK x \in Nat : x = m2 \div c /\ c * x <= m2 /\ m2 < c * x + c
  BY <1>1, DivMeans
<1>6. PICK y \in Nat : y = m \div c /\ c * y <= m /\ m < c * y + c
  BY <1>1, DivMeans
<1>7. PICK q \in Nat : q = p \div n /\ n * q <= p /\ p < n * q + n
  BY DivMeans
<1>8. c * q = 2 * (n * q) /\ n * q \in Int
  BY <1>1
<1>9. c * q <= 2 * p /\ 2 * p < c * q + c
  BY <1>1, <1>7, <1>8
<1>10. /\ c * x \in Int /\ c * y \in Int /\ c * q \in Int
       /\ c * (y + q + 2) = c * y + c * q + 2 * c
       /\ c * (y + q) = c * y + c * q /\ c * (x + 1) = c * x + c
  OBVIOUS
<1>11. c * x < c * (y + q + 2) /\ c * (y + q) < c * (x + 1)
  BY <1>1, <1>3, <1>5, <1>6, <1>9, <1>10
<1>12. x < y + q + 2 /\ y + q < x + 1
  BY <1>1, <1>11, Factors
<1>13. _money(p * (i + 1), n) = x /\ _money(p * i, n) = y
  BY <1>1, <1>2, <1>4, <1>5, <1>6 DEF _money
<1>14. x - y - q \in 0..1
  BY <1>12
<1> QED BY <1>7, <1>13, <1>14
-------------------------------------------------------------------------------
\* The sums that Pricing and Origination fold.

\* Whatever adds up the elements one by one has the sum.
LEMMA AddingIsSum ==
  ASSUME NEW f, NEW S, IsFiniteSet(S), \A x \in S : f[x] \in Int, NEW h,
         \A s \in SUBSET S : s # {} =>
           \/ h[s] = f[OneOf(s)] + h[s \ {OneOf(s)}]
           \/ h[s] = h[s \ {OneOf(s)}] + f[OneOf(s)],
         h[{}] = 0
  PROVE  h[S] = SumFunctionOnSet(f, S)
<1> DEFINE T == {s \in SUBSET S : h[s] = SumFunctionOnSet(f, s)}
<1>1. {} \in T
  BY SumEmpty
<1>2. ASSUME NEW s \in SUBSET S, s # {}, \A x \in s : s \ {x} \in T PROVE s \in T
  <2>1. PICK x \in s : x = OneOf(s)
    BY <1>2, OneOfIsIn
  <2>2. IsFiniteSet(s) /\ IsFiniteSet(s \ {x})
    BY FS_Subset
  <2>3. PICK n \in Int : n = SumFunctionOnSet(f, s \ {x})
    BY <2>2, SumInt
  <2>4. h[s \ {x}] = n
    BY <1>2, <2>1, <2>3
  <2>5. f[x] \in Int
    OBVIOUS
  <2>6. h[s] = f[x] + n \/ h[s] = n + f[x]
    BY <1>2, <2>1, <2>4
  <2>7. SumFunctionOnSet(f, s) = f[x] + n
    BY <1>2, <2>1, <2>2, <2>3, SumOfOne
  <2>8. h[s] = SumFunctionOnSet(f, s)
    BY <2>5, <2>6, <2>7
  <2> QED BY <2>8
<1>3. \A s \in SUBSET S : s \in T
  <2> HIDE DEF T
  <2> QED BY <1>1, <1>2, FiniteSetInduction
<1> QED BY <1>3

\* Such a function exists in either order.
LEMMA TurnedExists ==
  ASSUME NEW f, NEW S, IsFiniteSet(S), \A x \in S : f[x] \in Int
  PROVE  \E h : h = [s \in SUBSET S |->
                       IF s = {} THEN 0 ELSE h[s \ {OneOf(s)}] + f[OneOf(s)]]
<1> DEFINE h == [s \in SUBSET S |-> SumFunctionOnSet(f, s)]
<1>1. h[{}] = 0
  BY SumEmpty
<1>2. ASSUME NEW s \in SUBSET S, s # {}
      PROVE  h[s] = h[s \ {OneOf(s)}] + f[OneOf(s)]
  <2>1. PICK x \in s : x = OneOf(s)
    BY <1>2, OneOfIsIn
  <2>2. IsFiniteSet(s) /\ IsFiniteSet(s \ {x})
    BY FS_Subset
  <2>3. PICK n \in Int : n = SumFunctionOnSet(f, s \ {x})
    BY <2>2, SumInt
  <2>4. SumFunctionOnSet(f, s) = f[x] + n
    BY <1>2, <2>1, <2>2, <2>3, SumOfOne
  <2>5. f[x] + n = n + f[x]
    BY <2>3
  <2> QED BY <2>1, <2>3, <2>4, <2>5
<1>3. h = [s \in SUBSET S |-> IF s = {} THEN 0 ELSE h[s \ {OneOf(s)}] + f[OneOf(s)]]
  <2>1. h = [s \in SUBSET S |-> h[s]]
    OBVIOUS
  <2> HIDE DEF h
  <2> QED BY <1>1, <1>2, <2>1
<1> HIDE DEF h
<1> QED BY <1>3

Same == [x \in Nat |-> x]

IsSetSum(h, S) == h = [s \in SUBSET S |->
  IF s = {} THEN 0 ELSE OneOf(s) + h[s \ {OneOf(s)}]]

\* The sum of a set of numbers.
LEMMA SetSum ==
  ASSUME NEW S, IsFiniteSet(S), S \subseteq Nat
  PROVE  SumSet(S) = SumFunctionOnSet(Same, S)
<1>1. \A x \in S : Same[x] = x /\ Same[x] \in Int
  BY DEF Same
<1>2. PICK g : IsSumOver(g, Same, SUBSET S)
  BY SumExists
<1>3. IsSetSum(g, S)
  <2>1. \A s \in SUBSET S : s # {} => Same[OneOf(s)] = OneOf(s)
    BY <1>1, OneOfIsIn
  <2> QED BY <1>2, <2>1 DEF IsSumOver, IsSetSum
<1>4. PICK h : IsSetSum(h, S) /\ SumSet(S) = h[S]
  BY <1>3, ZenonT(60) DEF IsSetSum, OneOf, SumSet, FoldSet, MapThenFoldSet
<1>5. \A s \in SUBSET S : s # {} => h[s] = Same[OneOf(s)] + h[s \ {OneOf(s)}]
  <2> SUFFICES ASSUME NEW s \in SUBSET S, s # {}
               PROVE  h[s] = Same[OneOf(s)] + h[s \ {OneOf(s)}]
    OBVIOUS
  <2>1. h[s] = OneOf(s) + h[s \ {OneOf(s)}]
    BY <1>4 DEF IsSetSum
  <2>2. Same[OneOf(s)] = OneOf(s)
    BY <1>1, OneOfIsIn
  <2> QED BY <2>1, <2>2
<1>6. h[{}] = 0
  BY <1>4 DEF IsSetSum
<1>7. h[S] = SumFunctionOnSet(Same, S)
  BY <1>1, <1>5, <1>6, AddingIsSum
<1> QED BY <1>4, <1>7

IsColumnSum(h, plan, component, S) == h = [s \in SUBSET S |->
  IF s = {} THEN 0 ELSE h[s \ {OneOf(s)}] + plan.schedule[OneOf(s)][component]]

\* A column of a schedule, as Origination's property adds it up.
LEMMA ColumnSum ==
  ASSUME NEW plan, NEW component, NEW f, IsFiniteSet(DOMAIN plan.schedule),
         \A i \in DOMAIN plan.schedule :
           f[i] \in Int /\ f[i] = plan.schedule[i][component]
  PROVE  SumOf(plan, component) = SumFunctionOnSet(f, DOMAIN plan.schedule)
<1> DEFINE S == DOMAIN plan.schedule
<1>1. PICK g : g = [s \in SUBSET S |->
                      IF s = {} THEN 0 ELSE g[s \ {OneOf(s)}] + f[OneOf(s)]]
  BY TurnedExists
<1>2. IsColumnSum(g, plan, component, S)
  <2>1. \A s \in SUBSET S : s # {} => plan.schedule[OneOf(s)][component] = f[OneOf(s)]
    BY OneOfIsIn
  <2> QED BY <1>1, <2>1 DEF IsColumnSum
<1>3. PICK h : IsColumnSum(h, plan, component, S) /\ SumOf(plan, component) = h[S]
  BY <1>2, ZenonT(60) DEF IsColumnSum, OneOf, SumOf, FoldSet, MapThenFoldSet
<1>4. \A s \in SUBSET S : s # {} => h[s] = h[s \ {OneOf(s)}] + f[OneOf(s)]
  <2>1. \A s \in SUBSET S : s # {} => plan.schedule[OneOf(s)][component] = f[OneOf(s)]
    BY OneOfIsIn
  <2> QED BY <1>3, <2>1 DEF IsColumnSum
<1>5. h[{}] = 0
  BY <1>3 DEF IsColumnSum
<1>6. h[S] = SumFunctionOnSet(f, S)
  BY <1>4, <1>5, AddingIsSum
<1> QED BY <1>3, <1>6

IsOwedSum(h, plan, S) == h = [s \in SUBSET S |->
  IF s = {} THEN 0 ELSE h[s \ {OneOf(s)}] + total(plan.schedule[OneOf(s)])]

\* What a schedule of which nothing is paid owes.
LEMMA OwedSum ==
  ASSUME NEW plan, NEW f, IsFiniteSet(DOMAIN plan.schedule),
         \A i \in DOMAIN plan.schedule :
           f[i] \in Int /\ f[i] = total(plan.schedule[i])
  PROVE  Owed(plan, 0) = SumFunctionOnSet(f, DOMAIN plan.schedule)
<1> DEFINE S == DOMAIN plan.schedule
<1>0. DOMAIN plan.schedule \ 1..0 = S
  OBVIOUS
<1>1. PICK g : g = [s \in SUBSET S |->
                      IF s = {} THEN 0 ELSE g[s \ {OneOf(s)}] + f[OneOf(s)]]
  BY TurnedExists
<1>2. IsOwedSum(g, plan, S)
  <2>1. \A s \in SUBSET S : s # {} => total(plan.schedule[OneOf(s)]) = f[OneOf(s)]
    BY OneOfIsIn
  <2> QED BY <1>1, <2>1 DEF IsOwedSum
<1> DEFINE R == DOMAIN plan.schedule \ 1..0
<1>3. IsOwedSum(g, plan, R)
  BY <1>0, <1>2
<1>4. PICK h : IsOwedSum(h, plan, R) /\ Owed(plan, 0) = h[R]
  BY <1>3, ZenonT(60) DEF IsOwedSum, OneOf, Owed, FoldSet, MapThenFoldSet
<1>5. IsOwedSum(h, plan, S) /\ Owed(plan, 0) = h[S]
  BY <1>0, <1>4
<1>6. \A s \in SUBSET S : s # {} => h[s] = h[s \ {OneOf(s)}] + f[OneOf(s)]
  <2>1. \A s \in SUBSET S : s # {} => total(plan.schedule[OneOf(s)]) = f[OneOf(s)]
    BY OneOfIsIn
  <2> QED BY <1>5, <2>1 DEF IsOwedSum
<1>7. h[{}] = 0
  BY <1>5 DEF IsOwedSum
<1>8. h[S] = SumFunctionOnSet(f, S)
  BY <1>6, <1>7, AddingIsSum
<1> QED BY <1>5, <1>8

\* The differences of a row of amounts add up to the last less the first.
LEMMA Telescope ==
  ASSUME NEW n \in Nat, NEW c, \A i \in 0..n : c[i] \in Int,
         NEW f, \A i \in 1..n : f[i] = c[i] - c[i - 1]
  PROVE  SumFunctionOnSet(f, 1..n) = c[n] - c[0]
<1> DEFINE T == {k \in Nat : k <= n => SumFunctionOnSet(f, 1..k) = c[k] - c[0]}
<1>1. 0 \in T
  <2>1. c[0] \in Int
    OBVIOUS
  <2> QED BY <2>1, UpToNone, SumEmpty
<1>2. ASSUME NEW k \in Nat, k \in T PROVE k + 1 \in T
  <2> SUFFICES ASSUME k + 1 <= n PROVE SumFunctionOnSet(f, 1..(k + 1)) = c[k + 1] - c[0]
    OBVIOUS
  <2>1. \A j \in 1..(k + 1) : f[j] \in Int
    <3> SUFFICES ASSUME NEW j \in 1..(k + 1) PROVE f[j] \in Int
      OBVIOUS
    <3>1. j \in 1..n /\ j \in 0..n /\ j - 1 \in 0..n
      OBVIOUS
    <3> QED BY <3>1
  <2>2. SumFunctionOnSet(f, 1..(k + 1)) = SumFunctionOnSet(f, 1..k) + f[k + 1]
    BY <2>1, SumNext
  <2>3. SumFunctionOnSet(f, 1..k) = c[k] - c[0]
    BY <1>2
  <2>4. f[k + 1] = c[k + 1] - c[k]
    <3>1. k + 1 \in 1..n /\ (k + 1) - 1 = k
      OBVIOUS
    <3> QED BY <3>1
  <2>5. c[k] \in Int /\ c[k + 1] \in Int /\ c[0] \in Int
    OBVIOUS
  <2> QED BY <2>2, <2>3, <2>4, <2>5
<1>3. Nat \subseteq T
  <2> HIDE DEF T
  <2> QED BY <1>1, <1>2, NatSetInduction
<1>4. n \in T
  BY <1>3
<1> QED BY <1>4
-------------------------------------------------------------------------------
\* The lines of a plan.

\* The weights of the first i of n installments.
Weights(n, i) == {n - k + 1 : k \in 1..i}

LEMMA WeightsAre ==
  ASSUME NEW n \in Nat, NEW i \in 0..n
  PROVE  Weights(n, i) \subseteq 1..n /\ IsFiniteSet(Weights(n, i))
<1>1. Weights(n, i) \subseteq 1..n
  BY DEF Weights
<1> QED BY <1>1, UpToIsFinite, FS_Subset

LEMMA WeightIs ==
  ASSUME NEW n \in Nat, NEW i \in 0..n
  PROVE  Weight(n, i) = SumFunctionOnSet(Same, Weights(n, i))
<1>1. Weights(n, i) \subseteq Nat /\ IsFiniteSet(Weights(n, i))
  BY WeightsAre
<1>2. SumSet(Weights(n, i)) = SumFunctionOnSet(Same, Weights(n, i))
  BY <1>1, SetSum
<1> QED BY <1>2 DEF Weight, Weights

LEMMA WeightNone ==
  ASSUME NEW n \in Nat
  PROVE  Weight(n, 0) = 0
<1>1. Weights(n, 0) = {}
  BY DEF Weights
<1> QED BY <1>1, WeightIs, SumEmpty

LEMMA WeightNat ==
  ASSUME NEW n \in Nat, NEW i \in 0..n
  PROVE  Weight(n, i) \in Nat
<1>1. IsFiniteSet(Weights(n, i)) /\ \A x \in Weights(n, i) : Same[x] \in Nat
  BY WeightsAre DEF Same
<1>2. SumFunctionOnSet(Same, Weights(n, i)) \in Nat
  BY <1>1, SumNat
<1> QED BY <1>2, WeightIs

\* Each installment weighs one less than the one before it.
LEMMA WeightNext ==
  ASSUME NEW n \in Nat, NEW i \in Nat, i < n
  PROVE  Weight(n, i + 1) = (n - i) + Weight(n, i)
<1>1. i \in 0..n /\ i + 1 \in 0..n /\ n - i \in Nat
  OBVIOUS
<1>2. Weights(n, i + 1) = Weights(n, i) \cup {n - i}
  <2>1. 1..(i + 1) = (1..i) \cup {i + 1} /\ n - (i + 1) + 1 = n - i
    BY UpToNext
  <2> QED BY <2>1 DEF Weights
<1>3. n - i \notin Weights(n, i)
  BY DEF Weights
<1>4. \A x \in Weights(n, i) \cup {n - i} : Same[x] \in Int
  BY <1>1, WeightsAre DEF Same
<1>5. PICK S : S = Weights(n, i) /\ IsFiniteSet(S)
  BY <1>1, WeightsAre
<1>6. SumFunctionOnSet(Same, S \cup {n - i}) = Same[n - i] + SumFunctionOnSet(Same, S)
  BY <1>3, <1>4, <1>5, SumWith
<1>7. Same[n - i] = n - i
  BY <1>1 DEF Same
<1>8. Weight(n, i + 1) = SumFunctionOnSet(Same, Weights(n, i + 1))
  BY <1>1, WeightIs
<1>9. Weight(n, i) = SumFunctionOnSet(Same, Weights(n, i))
  BY <1>1, WeightIs
<1> QED BY <1>2, <1>5, <1>6, <1>7, <1>8, <1>9

\* All of them weigh something.
LEMMA WeightPositive ==
  ASSUME NEW n \in Nat, n > 0
  PROVE  Weight(n, n) \in Nat /\ Weight(n, n) > 0
<1>1. PICK m \in Nat : n = m + 1
  <2>1. n - 1 \in Nat /\ n = (n - 1) + 1
    OBVIOUS
  <2> QED BY <2>1
<1>2. Weight(n, m + 1) = (n - m) + Weight(n, m)
  BY <1>1, WeightNext
<1>3. Weight(n, m) \in Nat
  BY <1>1, WeightNat
<1> QED BY <1>1, <1>2, <1>3

\* The amounts after i installments: nothing, then no less, and in the end all.
CumulativeOf(c, whole, n) ==
  /\ \A i \in 0..n : c[i] \in Int
  /\ c[0] = 0 /\ c[n] = whole

PrincipalCum(principal, n) ==
  [i \in 0..n |-> IF i = n THEN principal ELSE PrincipalUpTo(principal, n, i)]
ProfitCum(profit, n) ==
  [i \in 0..n |-> IF i = n THEN profit ELSE ProfitUpTo(profit, n, i)]

\* The last amount is what rounding would have given.
LEMMA PrincipalCumIs ==
  ASSUME NEW p \in Nat, NEW n \in Nat, n > 0
  PROVE  /\ \A i \in 0..n : PrincipalCum(p, n)[i] = _money(p * i, n)
         /\ CumulativeOf(PrincipalCum(p, n), p, n)
<1>1. _money(p * n, n) = p /\ _money(0, n) = 0
  BY MoneyWhole
<1>2. \A i \in 0..n : PrincipalCum(p, n)[i] = _money(p * i, n)
  BY <1>1 DEF PrincipalCum, PrincipalUpTo
<1>3. \A i \in 0..n : p * i \in Nat
  OBVIOUS
<1>4. \A i \in 0..n : PrincipalCum(p, n)[i] \in Int
  BY <1>2, <1>3, MoneyNat
<1>5. PrincipalCum(p, n)[0] = 0 /\ PrincipalCum(p, n)[n] = p
  <2>1. 0 \in 0..n /\ n \in 0..n /\ p * 0 = 0
    OBVIOUS
  <2> QED BY <1>1, <1>2, <2>1
<1> QED BY <1>2, <1>4, <1>5 DEF CumulativeOf

LEMMA ProfitCumIs ==
  ASSUME NEW q \in Nat, NEW n \in Nat, n > 0
  PROVE  /\ \A i \in 0..n : ProfitCum(q, n)[i] = _money(q * Weight(n, i), Weight(n, n))
         /\ CumulativeOf(ProfitCum(q, n), q, n)
<1>1. PICK w \in Nat : w = Weight(n, n) /\ w > 0
  BY WeightPositive
<1>2. _money(q * w, w) = q /\ _money(0, w) = 0
  BY <1>1, MoneyWhole
<1>3. \A i \in 0..n : ProfitCum(q, n)[i] = _money(q * Weight(n, i), w)
  BY <1>1, <1>2 DEF ProfitCum, ProfitUpTo
<1>4. \A i \in 0..n : ProfitCum(q, n)[i] \in Int
  <2> SUFFICES ASSUME NEW i \in 0..n PROVE ProfitCum(q, n)[i] \in Int
    OBVIOUS
  <2>1. PICK a \in Nat : a = q * Weight(n, i)
    <3>1. PICK v \in Nat : v = Weight(n, i)
      BY WeightNat
    <3>2. q * v \in Nat
      OBVIOUS
    <3> QED BY <3>1, <3>2
  <2>2. _money(a, w) \in Nat
    BY <1>1, MoneyNat
  <2> QED BY <1>3, <2>1, <2>2
<1>5. ProfitCum(q, n)[0] = 0 /\ ProfitCum(q, n)[n] = q
  <2>1. 0 \in 0..n /\ n \in 0..n /\ q * 0 = 0
    OBVIOUS
  <2> QED BY <1>1, <1>2, <1>3, <2>1, WeightNone
<1> QED BY <1>1, <1>3, <1>4, <1>5 DEF CumulativeOf

\* No line takes profit back.
LEMMA ProfitCumGrows ==
  ASSUME NEW q \in Nat, NEW n \in Nat, NEW i \in Nat, i < n
  PROVE  ProfitCum(q, n)[i] <= ProfitCum(q, n)[i + 1]
<1>1. n > 0 /\ i \in 0..n /\ i + 1 \in 0..n
  OBVIOUS
<1>2. PICK w \in Nat : w = Weight(n, n) /\ w > 0
  BY <1>1, WeightPositive
<1>3. PICK v \in Nat : v = Weight(n, i)
  BY <1>1, WeightNat
<1>4. PICK d \in Nat : d = n - i
  OBVIOUS
<1>5. Weight(n, i + 1) = d + v
  BY <1>3, <1>4, WeightNext
<1>6. q * (d + v) = q * d + q * v /\ q * d \in Nat /\ q * v \in Nat /\ q * (d + v) \in Nat
  OBVIOUS
<1>7. q * v <= q * (d + v)
  BY <1>6
<1>8. _money(q * v, w) <= _money(q * (d + v), w)
  BY <1>2, <1>6, <1>7, MoneyGrows
<1> QED BY <1>1, <1>2, <1>3, <1>5, <1>8, ProfitCumIs

\* The lines of a plan by what they are: differences of the cumulative amounts.
LEMMA LinesAre ==
  ASSUME NEW p, NEW q, NEW n \in Nat
  PROVE  /\ DOMAIN PlanLines(p, q, n) = 1..n
         /\ \A i \in 1..n :
              /\ PlanLines(p, q, n)[i].principal_component
                   = PrincipalCum(p, n)[i] - PrincipalCum(p, n)[i - 1]
              /\ PlanLines(p, q, n)[i].profit_component
                   = ProfitCum(q, n)[i] - ProfitCum(q, n)[i - 1]
BY DEF PlanLines, PrincipalCum, ProfitCum

\* What the property says of one plan.
Adds(plan) ==
  LET n == Len(plan.schedule) IN
    /\ SumOf(plan, "principal_component") = CashPrice - plan.down_payment
    /\ SumOf(plan, "profit_component") = plan.total_profit
    /\ plan.down_payment + Owed(plan, 0) = plan.installment_sale_price
    /\ \A i \in 1..n :
         /\ plan.schedule[i].profit_component >= 0
         /\ plan.schedule[i].principal_component
              - (CashPrice - plan.down_payment) \div n \in 0..1

LEMMA PlanAdds ==
  ASSUME NEW down \in Nat, NEW tenor \in Nat, NEW rate \in Nat,
         Priceable(CashPrice, down, tenor)
  PROVE  Adds(build_plan(CashPrice, down, tenor, rate))
<1>1. CashPrice \in Nat /\ tenor > 0 /\ down < CashPrice
  BY OriginationAssumption DEF Priceable
<1>2. PICK p \in Nat : p = CashPrice - down
  BY <1>1
<1>3. PICK q \in Nat : q = _money(p * rate, 100)
  <2>1. p * rate \in Nat
    OBVIOUS
  <2> QED BY <2>1, MoneyNat
<1>4. PICK plan : plan = build_plan(CashPrice, down, tenor, rate)
  OBVIOUS
<1>5. /\ plan.down_payment = down /\ plan.total_profit = q
      /\ plan.installment_sale_price = CashPrice + q
      /\ plan.schedule = PlanLines(p, q, tenor)
  BY <1>2, <1>3, <1>4 DEF build_plan
<1>6. DOMAIN plan.schedule = 1..tenor /\ Len(plan.schedule) = tenor
  <2>1. DOMAIN plan.schedule = 1..tenor
    BY <1>5, LinesAre
  <2>2. plan.schedule \in Seq({plan.schedule[i] : i \in 1..tenor})
    <3>1. PICK s : s = plan.schedule
      OBVIOUS
    <3>2. s = [i \in 1..tenor |-> s[i]]
      BY <1>5, <2>1, <3>1 DEF PlanLines
    <3>3. \A i \in 1..tenor : s[i] \in {s[j] : j \in 1..tenor}
      OBVIOUS
    <3>4. s \in Seq({s[j] : j \in 1..tenor})
      BY <3>2, <3>3, SeqByRows
    <3> QED BY <3>1, <3>4
  <2> QED BY <2>1, <2>2, LenProperties
<1>7. PICK c : c = PrincipalCum(p, tenor) /\ CumulativeOf(c, p, tenor)
  BY <1>1, PrincipalCumIs
<1>8. PICK e : e = ProfitCum(q, tenor) /\ CumulativeOf(e, q, tenor)
  BY <1>1, ProfitCumIs
<1>9. \A i \in 1..tenor : /\ plan.schedule[i].principal_component = c[i] - c[i - 1]
                          /\ plan.schedule[i].profit_component = e[i] - e[i - 1]
  BY <1>5, <1>7, <1>8, LinesAre
<1>10. PICK f : f = [i \in 1..tenor |-> c[i] - c[i - 1]]
  OBVIOUS
<1>11. PICK g : g = [i \in 1..tenor |-> e[i] - e[i - 1]]
  OBVIOUS
<1>12. \A i \in 1..tenor : /\ c[i] \in Int /\ c[i - 1] \in Int
                           /\ e[i] \in Int /\ e[i - 1] \in Int
  <2>1. \A i \in 1..tenor : i \in 0..tenor /\ i - 1 \in 0..tenor
    OBVIOUS
  <2> QED BY <1>7, <1>8, <2>1 DEF CumulativeOf
<1>13. \A i \in 1..tenor : f[i] \in Int /\ g[i] \in Int
  <2> SUFFICES ASSUME NEW i \in 1..tenor PROVE f[i] \in Int /\ g[i] \in Int
    OBVIOUS
  <2>1. f[i] = c[i] - c[i - 1] /\ g[i] = e[i] - e[i - 1]
    BY <1>10, <1>11
  <2>2. c[i] \in Int /\ c[i - 1] \in Int /\ e[i] \in Int /\ e[i - 1] \in Int
    BY <1>12
  <2> QED BY <2>1, <2>2
<1>14. SumFunctionOnSet(f, 1..tenor) = p
  <2>1. SumFunctionOnSet(f, 1..tenor) = c[tenor] - c[0]
    BY <1>7, <1>10, Telescope DEF CumulativeOf
  <2> QED BY <1>7, <2>1 DEF CumulativeOf
<1>15. SumFunctionOnSet(g, 1..tenor) = q
  <2>1. SumFunctionOnSet(g, 1..tenor) = e[tenor] - e[0]
    BY <1>8, <1>11, Telescope DEF CumulativeOf
  <2> QED BY <1>8, <2>1 DEF CumulativeOf
<1>16. IsFiniteSet(DOMAIN plan.schedule)
  BY <1>6, UpToIsFinite
<1>17. SumOf(plan, "principal_component") = p
  <2>1. \A i \in DOMAIN plan.schedule :
          f[i] \in Int /\ f[i] = plan.schedule[i]["principal_component"]
    BY <1>6, <1>9, <1>10, <1>13
  <2> QED BY <1>6, <1>14, <1>16, <2>1, ColumnSum
<1>18. SumOf(plan, "profit_component") = q
  <2>1. \A i \in DOMAIN plan.schedule :
          g[i] \in Int /\ g[i] = plan.schedule[i]["profit_component"]
    BY <1>6, <1>9, <1>11, <1>13
  <2> QED BY <1>6, <1>15, <1>16, <2>1, ColumnSum
<1>19. Owed(plan, 0) = p + q
  <2>1. PICK h : h = [i \in 1..tenor |-> f[i] + g[i]]
    OBVIOUS
  <2>2. SumFunctionOnSet(h, 1..tenor)
          = SumFunctionOnSet(f, 1..tenor) + SumFunctionOnSet(g, 1..tenor)
    BY <1>13, <2>1, UpToIsFinite, SumPlus
  <2>3. \A i \in DOMAIN plan.schedule : h[i] \in Int /\ h[i] = total(plan.schedule[i])
    <3> SUFFICES ASSUME NEW i \in 1..tenor
                 PROVE  h[i] \in Int /\ h[i] = total(plan.schedule[i])
      BY <1>6
    <3>1. h[i] = f[i] + g[i] /\ f[i] \in Int /\ g[i] \in Int
      BY <1>13, <2>1
    <3>2. /\ plan.schedule[i].principal_component = f[i]
          /\ plan.schedule[i].profit_component = g[i]
      BY <1>9, <1>10, <1>11
    <3>3. total(plan.schedule[i]) = f[i] + g[i]
      BY <3>2 DEF total
    <3> QED BY <3>1, <3>3
  <2>4. Owed(plan, 0) = SumFunctionOnSet(h, DOMAIN plan.schedule)
    BY <1>16, <2>3, OwedSum
  <2> QED BY <1>6, <1>14, <1>15, <2>2, <2>4
<1>20. ASSUME NEW i \in 1..tenor
       PROVE  /\ plan.schedule[i].profit_component >= 0
              /\ plan.schedule[i].principal_component - p \div tenor \in 0..1
  <2>1. PICK j \in Nat : j + 1 = i /\ j = i - 1 /\ j < tenor
    OBVIOUS
  <2>2. e[j] <= e[j + 1]
    BY <1>8, <2>1, ProfitCumGrows
  <2>3. c[j + 1] = _money(p * (j + 1), tenor) /\ c[j] = _money(p * j, tenor)
    <3>1. j \in 0..tenor /\ j + 1 \in 0..tenor
      BY <2>1
    <3> QED BY <1>1, <1>7, <3>1, PrincipalCumIs
  <2>4. c[j + 1] - c[j] - p \div tenor \in 0..1
    BY <1>1, <2>3, EvenShare
  <2>5. e[i] \in Int /\ e[j] \in Int
    BY <1>12, <2>1
  <2>6. plan.schedule[i].profit_component >= 0
    BY <1>9, <2>1, <2>2, <2>5
  <2>7. plan.schedule[i].principal_component = c[j + 1] - c[j]
    BY <1>9, <2>1
  <2> QED BY <2>4, <2>6, <2>7
<1>21. down + (p + q) = CashPrice + q /\ CashPrice - down = p
  BY <1>1, <1>2
<1>22. Adds(plan)
  BY <1>5, <1>6, <1>17, <1>18, <1>19, <1>20, <1>21 DEF Adds
<1> QED BY <1>4, <1>22
-------------------------------------------------------------------------------
\* Every offer keeps the plan that it was made with.
Priced(plan) == \E down, tenor, rate \in Nat :
  Priceable(CashPrice, down, tenor) /\ plan = build_plan(CashPrice, down, tenor, rate)

PricedInv == \A k \in DOMAIN offers : Priced(offers[k].plan)

LEMMA MadeIsPriced ==
  ASSUME NEW n, NEW down \in Downs, NEW tenor \in Tenors, generate_offer(n, down, tenor)
  PROVE  UNCHANGED offers \/ \E plan : /\ Priced(plan)
                                       /\ offers' = Append(Superseded(n), Offer(n, plan))
<1>1. PICK plan : plan = build_plan(CashPrice, down, tenor, Config.rates[tenor])
  OBVIOUS
<1>2. /\ tenor \in DOMAIN Config.rates /\ Priceable(CashPrice, down, tenor)
      /\ UNCHANGED offers \/ offers' = Append(Superseded(n), Offer(n, plan))
  BY <1>1 DEF generate_offer
<1>3. down \in Nat /\ tenor \in Nat /\ Config.rates[tenor] \in Nat
  BY <1>2, OriginationAssumption
<1>4. Priced(plan)
  BY <1>1, <1>2, <1>3 DEF Priced
<1> QED BY <1>2, <1>4

LEMMA PricedStays == OfferInv /\ PricedInv /\ [Next]_vars => PricedInv'
<1> SUFFICES ASSUME OfferInv, PricedInv, [Next]_vars PROVE PricedInv'
  OBVIOUS
<1>1. CASE UNCHANGED offers
  BY <1>1 DEF PricedInv
<1>2. ASSUME NEW n, NEW plan, Priced(plan),
             offers' = Append(Superseded(n), Offer(n, plan))
      PROVE  PricedInv'
  <2> DEFINE s == Superseded(n)
             o == Offer(n, plan)
  <2>1. Numbered(s) /\ DOMAIN s = DOMAIN offers
    <3>1. s = [j \in DOMAIN offers |-> s[j]] /\ Numbered(offers)
      BY DEF Superseded, OfferInv
    <3> QED BY <3>1, Renumbered
  <2>2. \A k \in DOMAIN s : s[k].plan = offers[k].plan
    <3> SUFFICES ASSUME NEW k \in DOMAIN offers PROVE s[k].plan = offers[k].plan
      BY <2>1
    <3>1. OfferRow(offers[k])
      BY DEF OfferInv
    <3>2. s[k] = offers[k] \/ s[k] = [offers[k] EXCEPT !.status = "expired"]
      BY DEF Superseded
    <3> QED BY <3>1, <3>2 DEF OfferRow
  <2>3. o.plan = plan
    BY DEF Offer
  <2>4. offers' = Append(s, o)
    BY <1>2
  <2> HIDE DEF s, o
  <2>5. AddsRow(Append(s, o), s, o)
    BY <2>1, AddAny
  <2>6. \A k \in DOMAIN offers' : k \in DOMAIN offers \/ offers'[k] = o
    BY <2>1, <2>4, <2>5 DEF AddsRow
  <2>7. \A k \in DOMAIN offers : offers'[k] = s[k]
    BY <2>1, <2>4, <2>5 DEF AddsRow
  <2> QED BY <1>2, <2>1, <2>2, <2>3, <2>6, <2>7 DEF PricedInv
<1>3. ASSUME NEW k \in DOMAIN offers, accept_offer(k) PROVE PricedInv'
  <2>1. offers' = [offers EXCEPT ![k].status = "accepted"] /\ OfferRow(offers[k])
    BY <1>3 DEF accept_offer, OfferInv
  <2>2. /\ DOMAIN offers' = DOMAIN offers
        /\ \A j \in DOMAIN offers : offers'[j].plan = offers[j].plan
    BY <2>1 DEF OfferRow
  <2> QED BY <2>2 DEF PricedInv
<1>4. ASSUME NEW n, NEW down \in Downs, NEW tenor \in Tenors, generate_offer(n, down, tenor)
      PROVE  PricedInv'
  BY <1>1, <1>2, <1>4, MadeIsPriced
<1> QED
  BY <1>1, <1>3, <1>4
  DEF Next, vars, shelf, create_application, submit_application, review_application,
      confirm_delivery, PayInstallment, Ends, adjust_stock, NextDay

\* For any cash price, down payments, tenors and rates: the lines of every schedule
\* offered add up to the price, none takes profit back, and the principal is spread
\* evenly to a unit, whatever the cumulative rounding of build_plan does.
THEOREM PlanCorrect == Spec => []PlanAddsUp
<1>1. PricedInv => PlanAddsUp
  <2> SUFFICES ASSUME PricedInv, NEW k \in DOMAIN offers PROVE Adds(offers[k].plan)
    BY DEF PlanAddsUp, Adds
  <2> QED BY PlanAdds DEF PricedInv, Priced
<1>2. Init => PricedInv
  BY DEF Init, PricedInv
<1> QED
  BY <1>1, <1>2, StockStarts, StockKept, OffersStart, OffersStay, PricedStays, PTL DEF Spec
===============================================================================
